----------------------------- MODULE MCEvaluate -----------------------------
(***************************************************************************)
(* Instance of Evaluate: every routing and rail setting, and texts at the  *)
(* boundaries of what the patterns take for an SSN or a card number.       *)
(***************************************************************************)
EXTENDS Evaluate

LOCAL INSTANCE SequencesExt

AllSetups ==
  [backend : {"nim"}, bedrock_fallback_enabled : BOOLEAN,
   guardrail_input_backend : {"serving", "bedrock"}]
  \cup [backend : {"bedrock", "fake"}, bedrock_fallback_enabled : {TRUE},
        guardrail_input_backend : {"bedrock"}]

(* The Luhn check by its table, from the left end of a number.             *)
Double == <<0, 2, 4, 6, 8, 1, 3, 5, 7, 9>>
Luhn(digits) ==
  FoldLeft(LAMBDA acc, d : [sum |-> acc.sum + IF acc.odd THEN d ELSE Double[d + 1],
                            odd |-> ~ acc.odd],
           [sum |-> 0, odd |-> Len(digits) % 2 = 1], digits).sum % 10 = 0

(* A number of n digits that begins with prefix, its last digit right, or  *)
(* off by one.                                                             *)
Number(prefix, n, off) ==
  LET body == prefix \o [i \in 1..(n - 5) |-> (7 * i + 1) % 10]
      last == CHOOSE d \in 0..9 : Luhn(Append(body, d))
  IN  Append(body, (last + off) % 10)

Grouped(digits, mark) ==
  FoldLeft(LAMBDA chars, i : IF i % 4 = 1 /\ i > 1 THEN chars \o <<mark, digits[i]>>
                                                  ELSE Append(chars, digits[i]),
           <<>>, [i \in DOMAIN digits |-> i])

Issued == {<<4, 0, 0, 0>>, <<5, 1, 0, 0>>, <<5, 5, 9, 9>>, <<2, 2, 2, 1>>, <<2, 7, 2, 0>>,
           <<3, 0, 5, 9>>, <<3, 5, 2, 8>>, <<3, 5, 8, 9>>, <<6, 0, 1, 1>>}
NotIssued == {<<5, 0, 9, 9>>, <<5, 6, 0, 0>>, <<2, 2, 2, 0>>, <<2, 7, 2, 1>>,
              <<3, 0, 6, 0>>, <<3, 5, 2, 7>>, <<3, 5, 9, 0>>, <<6, 0, 1, 2>>}

Visa(n) == Number(<<4, 0, 0, 0>>, n, 0)

Cards ==
  {Number(p, 16, 0) : p \in Issued} \cup {Visa(13), Visa(19)}
  \cup {Grouped(Visa(16), Blank), Grouped(Visa(19), Dash)}
  \cup {<<7, Letter>> \o Visa(16) \o <<Letter>>, <<7, Blank, 7, Letter>> \o Visa(13)}
  \cup {Visa(16) \o <<Blank, 1, 2, 2, 6>>, <<1, 2, 2, 6, Blank>> \o Visa(16),
        Visa(16) \o <<Blank, Blank, 1, 2>>}

(* Together with the group beside them these are one number of up to 19    *)
(* digits, or of one that goes on after a dash, and that is no card's.     *)
JoinedCards ==
  {Visa(16) \o <<Blank, 1, 2>>, Visa(16) \o <<Blank, 1, 2, 4>>, <<7, Blank>> \o Visa(16),
   <<7, Dash>> \o Visa(16), Visa(16) \o <<Dash, Letter>>}

NoCards ==
  {Number(p, 16, 0) : p \in NotIssued} \cup {Visa(12), Visa(20)}
  \cup {Number(<<4, 0, 0, 0>>, n, 1) : n \in {13, 16}}
  \cup {<<7, 7, 7, 7, 7>> \o Visa(16), <<Letter>>}

Nine == <<1, 2, 3, 4, 5, 6, 7, 8, 9>>

Split(digits, first, second) ==
  SubSeq(digits, 1, 3) \o <<first>> \o SubSeq(digits, 4, 5) \o <<second>> \o SubSeq(digits, 6, 9)

Forms(digits) ==
  {Split(digits, Dash, Dash), Split(digits, Blank, Blank), <<Label, Blank>> \o digits}

AtTheLimits ==
  {<<0, 0, 1>> \o <<0, 1, 0, 0, 0, 1>>, <<6, 6, 5, 9, 9, 9, 9, 9, 9>>,
   <<6, 6, 7, 4, 5, 6, 7, 8, 9>>, <<8, 9, 9, 4, 5, 6, 7, 8, 9>>}
Excluded ==
  {<<0, 0, 0, 4, 5, 6, 7, 8, 9>>, <<6, 6, 6, 4, 5, 6, 7, 8, 9>>, <<9, 0, 0, 4, 5, 6, 7, 8, 9>>,
   <<9, 9, 9, 4, 5, 6, 7, 8, 9>>, <<1, 2, 3, 0, 0, 6, 7, 8, 9>>, <<1, 2, 3, 4, 5, 0, 0, 0, 0>>}

Ssns ==
  UNION {Forms(d) : d \in {Nine} \cup AtTheLimits}
  \cup {<<Label>> \o Nine, <<7, Label, Mark, Blank, Blank>> \o Nine \o <<Letter>>}
  \cup {<<7, Dash>> \o Split(Nine, Dash, Dash) \o <<Dash, 7>>,
        <<Letter>> \o Split(Nine, Dash, Dash) \o <<Letter>>}

NoSsns ==
  UNION {Forms(d) : d \in Excluded}
  \cup {Nine, <<Label, Mark, Blank, Blank, Blank>> \o Nine, <<Label, Letter>> \o Nine,
        <<Label>> \o Nine \o <<1>>, <<Label>> \o SubSeq(Nine, 1, 8)}
  \cup {Split(Nine, Dash, Blank), Split(Nine, Blank, Letter), <<1>> \o Split(Nine, Dash, Dash),
        Split(Nine, Dash, Dash) \o <<1>>}

(* The digits of the second one are joined to those of the card.           *)
Both ==
  {<<Label, Blank>> \o Split(Nine, Dash, Dash) \o <<Letter>> \o Visa(16),
   Split(Nine, Blank, Blank) \o <<Blank>> \o Visa(16)}

AllTexts ==
  [chars : Cards, pii : {{"card_number"}}] \cup [chars : Ssns, pii : {{"ssn"}}]
  \cup [chars : Both, pii : {{"ssn", "card_number"}}]
  \cup [chars : JoinedCards \cup NoCards \cup NoSsns, pii : {{}}]

SomeUsages == {[input |-> 7, output |-> 3, ms |-> 225], [input |-> None, output |-> None, ms |-> 1]}

SomePauses == {0, 30}

=============================================================================
