------------------------------ MODULE Patterns ------------------------------
(***************************************************************************)
(* guardrails/patterns.py: which digit groups of a text read as an SSN or  *)
(* as a card number.  A text is a sequence of characters: digits are       *)
(* themselves, a Blank and a Dash join groups, a Letter is any other       *)
(* character of a word and a Mark any other character; a Label is a whole  *)
(* "SSN" or "social security number".                                      *)
(***************************************************************************)
EXTENDS Integers, Sequences, FiniteSets, FiniteSetsExt

LOCAL INSTANCE SequencesExt

Digit == 0..9
Blank == -1
Dash == -2
Letter == -3
Mark == -4
Label == -5

IsDigit(text, i) == i \in DOMAIN text /\ text[i] \in Digit

(* Number that the first n digits spell.                                   *)
First(digits, n) == FoldLeft(LAMBDA number, d : 10 * number + d, 0, SubSeq(digits, 1, n))

-----------------------------------------------------------------------------
(* SSNs                                                                    *)

(* What the n characters at i spell, if they are digits.                   *)
Spell(text, i, n) == First(SubSeq(text, i, i + n - 1), n)

Digits(text, i, n) == \A k \in i..(i + n - 1) : IsDigit(text, k)

(* Area, group and serial at these places, none of them excluded.          *)
WellFormed(text, area, group, serial) ==
  /\ Digits(text, area, 3) /\ Spell(text, area, 3) \notin {0, 666} \cup 900..999
  /\ Digits(text, group, 2) /\ Spell(text, group, 2) # 0
  /\ Digits(text, serial, 4) /\ Spell(text, serial, 4) # 0
  /\ ~ IsDigit(text, serial + 4)

(* _SSN_SEPARATED matches at i: one mark twice, no digit before.           *)
Separated(text, i) ==
  /\ ~ IsDigit(text, i - 1)
  /\ WellFormed(text, i, i + 4, i + 7)
  /\ text[i + 3] \in {Blank, Dash} /\ text[i + 6] = text[i + 3]

(* _SSN_LABELLED matches with its digits at i: a label before them, with   *)
(* at most three characters between that are of no word.                   *)
Labelled(text, i) ==
  /\ WellFormed(text, i, i + 3, i + 5)
  /\ \E k \in (i - 4)..(i - 1) :
       /\ k \in DOMAIN text /\ text[k] = Label
       /\ \A j \in (k + 1)..(i - 1) : text[j] \in {Blank, Dash, Mark}

(* Mutant: nine digits in a row are enough. *)
HasSsnUnlabelled(text) ==
  \E i \in DOMAIN text : Separated(text, i) \/ WellFormed(text, i, i + 3, i + 5)

HasSsn(text) == \E i \in DOMAIN text : Separated(text, i) \/ Labelled(text, i)

-----------------------------------------------------------------------------
(* Card numbers                                                            *)

IssuerPrefixOk(digits) ==
  LET p2 == First(digits, 2)
      p4 == First(digits, 4)
  IN  \/ digits[1] = 4
      \/ p2 \in 51..55 \cup {34, 37, 36, 38, 39, 65}
      \/ p4 \in 2221..2720 \cup {6011} \cup 3000..3059 \cup 3528..3589

(* Every second digit from the right, but the last, counts double.         *)
LuhnOk(digits) ==
  LET n == Len(digits)
      Doubled(d) == IF 2 * d > 9 THEN 2 * d - 9 ELSE 2 * d
      Weighed(i) == IF (n - i) % 2 = 1 THEN Doubled(digits[i]) ELSE digits[i]
  IN  MapThenSumSet(Weighed, 1..n) % 10 = 0

(* _CARD_CANDIDATE consumes a digit, then digits each with at most one     *)
(* blank or dash before it: where the digit after the one at i is, or 0.   *)
NextDigit(text, i) ==
  CASE IsDigit(text, i + 1) -> i + 1
    [] i + 1 \in DOMAIN text /\ text[i + 1] \in {Blank, Dash} /\ IsDigit(text, i + 2) -> i + 2
    [] OTHER -> 0

(* The positions of the digits of a match that starts at i and has at most *)
(* n of them.                                                              *)
Run(text, i, n) ==
  FoldLeft(LAMBDA run, k : IF NextDigit(text, Last(run)) = 0 THEN run
                           ELSE Append(run, NextDigit(text, Last(run))),
           <<i>>, [k \in 1..(n - 1) |-> k])

CARD_MIN == 13
CARD_MAX == 19

(* A match is not followed by a digit or a dash.                           *)
EndsAt(text, i) == i + 1 \in DOMAIN text => text[i + 1] \notin Digit \cup {Dash}

(* How many digits a match at i can have.                                  *)
Lengths(text, i) ==
  LET run == Run(text, i, CARD_MAX)
  IN  {n \in CARD_MIN..CARD_MAX : n <= Len(run) /\ EndsAt(text, run[n])}

IsStart(text, i) ==
  /\ IsDigit(text, i)
  /\ i > 1 => text[i - 1] \notin Digit \cup {Dash}

(* The digits of the matches of finditer: leftmost, longest, and the next  *)
(* one begins after the last one's end.                                    *)
Matches(text) ==
  LET step(acc, i) ==
        LET lengths == Lengths(text, i)
            run == Run(text, i, Max(lengths))
        IN  IF i < acc.from \/ ~ IsStart(text, i) \/ lengths = {}
            THEN acc
            ELSE [from |-> Last(run) + 1,
                  found |-> acc.found \cup {[k \in DOMAIN run |-> text[run[k]]]}]
  IN  FoldLeft(step, [from |-> 1, found |-> {}], [i \in DOMAIN text |-> i]).found

HasCard(text) == \E digits \in Matches(text) : IssuerPrefixOk(digits) /\ LuhnOk(digits)

-----------------------------------------------------------------------------

find_pii(text) ==
  {kind \in {"ssn", "card_number"} : IF kind = "ssn" THEN HasSsn(text) ELSE HasCard(text)}

=============================================================================
