--------------------------- MODULE EvaluateProofs ---------------------------
(***************************************************************************)
(* Proofs about Evaluate, for all settings, texts and numbers of           *)
(* evaluations: what a verdict of a rail, a row of the audit trail, the    *)
(* PII floor and the cost report are worth.                                *)
(***************************************************************************)
EXTENDS Evaluate, FoldLemmas

-----------------------------------------------------------------------------
(* The invariant                                                           *)

Labels == {"idle", "overlay", "floor", "input", "invoke", "output", "row", "raise"}

(* Where an evaluation is, and what it has by then.                        *)
Control ==
  /\ pc \in Labels
  /\ pc = "idle" <=> setup = None
  /\ setup # None => setup \in Setups /\ serving \in {setup.backend, Fallback(setup)} \ {None}
  /\ pc \in {"invoke", "output", "row"} => checked
  /\ pc \in {"output", "row"} => answer # None

Verdict(by, as, says) == [by |-> by, as |-> as, says |-> says]

(* What models have said by then: a refusal stops the evaluation, and the  *)
(* serving model has said what let the evaluation get so far.              *)
Heard ==
  /\ verdicts \subseteq [by : Models, as : {"input", "answer", "output"},
                         says : {"allowed", "blocked", "parsed"}]
  /\ pc \in {"idle", "overlay", "floor"} => verdicts = {} /\ checked = FALSE
  /\ \A v \in verdicts : v.says = "blocked" => pc = "raise"
  /\ checked => \E v \in verdicts : v.as = "input" /\ v.says = "allowed"
  /\ pc \in {"output", "row"} => Verdict(serving, "answer", "parsed") \in verdicts
  /\ pc = "row" => Verdict(serving, "output", "allowed") \in verdicts

(* What the detector finds has been shown to no model.                     *)
Floored ==
  pc # "idle" /\ text.found # {} => verdicts = {} /\ pc \in {"overlay", "floor", "raise"}

IsSeq(s) == \E S : s \in Seq(S)

One(condition) == IF condition THEN 1 ELSE 0

(* Every evaluation asks a model for at most one answer, and has a row, or *)
(* none that the database took, or is under way.                           *)
Counted ==
  /\ begun \in 0..MaxEvaluations
  /\ answers \in [Models -> Nat]
  /\ \A m \in Models :
       answers[m] + One(pc \in {"overlay", "floor", "input", "invoke"}) <= begun
  /\ IsSeq(trail)
  /\ unwritten \in Nat
  /\ Len(trail) + unwritten + One(pc # "idle") = begun

EvaluateInv == Control /\ Heard /\ Floored /\ Counted

-----------------------------------------------------------------------------
(* Data                                                                    *)

LEMMA AppendToSeq ==
  ASSUME NEW s, IsSeq(s), NEW e
  PROVE  /\ IsSeq(Append(s, e))
         /\ Len(s) \in Nat
         /\ Len(Append(s, e)) = Len(s) + 1
         /\ DOMAIN Append(s, e) \ DOMAIN s = {Len(s) + 1}
         /\ Append(s, e)[Len(s) + 1] = e
<1> PICK S : s \in Seq(S)
  BY DEF IsSeq
<1> DEFINE T == S \cup {e}
<1>1. s \in Seq(T) /\ e \in T
  OBVIOUS
<1> HIDE DEF T
<1>2. Append(s, e) \in Seq(T) /\ Len(Append(s, e)) = Len(s) + 1
  BY <1>1
<1>3. DOMAIN Append(s, e) = 1..(Len(s) + 1) /\ DOMAIN s = 1..Len(s) /\ Len(s) \in Nat
  BY <1>1, <1>2
<1>4. Append(s, e)[Len(s) + 1] = e
  BY <1>1
<1> QED BY <1>2, <1>3, <1>4 DEF IsSeq

LEMMA ModelsServe ==
  ASSUME NEW s \in Setups
  PROVE  /\ s.backend \in Models
         /\ Fallback(s) \in Models \cup {None}
         /\ InputRailModel(s) \in Models
         /\ None \notin Models
BY EvaluateAssumption DEF Fallback, InputRailModel, Models

-----------------------------------------------------------------------------
(* Every step keeps the invariant                                          *)

LEMMA InvInit == Init => EvaluateInv
<1> SUFFICES ASSUME Init PROVE EvaluateInv
  OBVIOUS
<1>1. Control
  BY DEF Init, Control, Labels
<1>2. Heard
  BY DEF Init, Heard
<1>3. Floored
  BY DEF Init, Floored
<1>4. Counted
  <2>1. trail \in Seq({}) /\ Len(trail) = 0
    BY DEF Init
  <2> QED BY <2>1, EvaluateAssumption DEF Init, Counted, IsSeq, One, Models
<1> QED BY <1>1, <1>2, <1>3, <1>4 DEF EvaluateInv

(* A raise, an end, and a fallback, which each come in several actions.    *)
LEMMA RaiseKeeps ==
  ASSUME EvaluateInv, pc # "idle", Raise, verdicts' = verdicts
  PROVE  Control' /\ Heard' /\ Floored'
<1>1. pc' = "raise" /\ UNCHANGED <<setup, text, serving, checked, answer>>
  BY DEF Raise, Go
<1> QED BY <1>1 DEF EvaluateInv, Control, Heard, Floored, Labels

LEMMA EndKeeps ==
  ASSUME EvaluateInv, End
  PROVE  Control' /\ Heard' /\ Floored'
BY DEF End, Go, Control, Heard, Floored, Labels

LEMMA FallKeeps ==
  ASSUME EvaluateInv, pc \in {"input", "invoke"}, Fall, verdicts' = verdicts
  PROVE  Control' /\ Heard' /\ Floored'
<1>1. CASE serving = setup.backend /\ Fallback(setup) # None
  <2>1. /\ serving' = Fallback(setup)
        /\ pc' = IF checked THEN "invoke" ELSE "input"
        /\ UNCHANGED <<setup, text, checked, answer>>
    BY <1>1 DEF Fall, Go
  <2>2. setup \in Setups /\ Fallback(setup)' = Fallback(setup)
    BY <2>1 DEF EvaluateInv, Control, Fallback
  <2>3. Control'
    BY <1>1, <2>1, <2>2 DEF EvaluateInv, Control, Labels
  <2>4. Heard'
    BY <2>1 DEF EvaluateInv, Heard, Control
  <2>5. Floored'
    BY <2>1 DEF EvaluateInv, Floored
  <2> QED BY <2>3, <2>4, <2>5
<1>2. CASE ~ (serving = setup.backend /\ Fallback(setup) # None)
  BY <1>2, RaiseKeeps DEF Fall
<1> QED BY <1>1, <1>2

LEMMA BeginKeeps ==
  ASSUME EvaluateInv, Begin
  PROVE  Control' /\ Heard' /\ Floored'
<1> PICK s \in Setups, t \in Texts, untrusted, insufficient_data \in BOOLEAN, minutes \in Pause :
      /\ pc' = IF insufficient_data THEN "overlay" ELSE "floor"
      /\ setup' = s
      /\ serving' = s.backend
  BY DEF Begin
<1>1. pc = "idle" /\ UNCHANGED <<checked, answer, verdicts>>
  BY DEF Begin
<1>2. s.backend \in Models /\ None \notin Models /\ s # None
  BY ModelsServe, EvaluateAssumption
<1>3. Control'
  BY <1>1, <1>2 DEF EvaluateInv, Control, Labels
<1>4. Heard'
  BY <1>1 DEF EvaluateInv, Heard
<1>5. Floored'
  BY <1>1 DEF EvaluateInv, Floored, Heard
<1> QED BY <1>3, <1>4, <1>5

LEMMA PiiFloorKeeps ==
  ASSUME EvaluateInv, PiiFloor
  PROVE  Control' /\ Heard' /\ Floored'
<1>1. pc = "floor" /\ verdicts' = verdicts
  BY DEF PiiFloor
<1>2. CASE text.found # {}
  BY <1>1, <1>2, RaiseKeeps DEF PiiFloor
<1>3. CASE text.found = {}
  <2>1. pc' = "input" /\ UNCHANGED <<setup, text, serving, checked, answer>>
    BY <1>3 DEF PiiFloor, Go
  <2> QED BY <1>1, <1>3, <2>1 DEF EvaluateInv, Control, Heard, Floored, Labels
<1> QED BY <1>2, <1>3

(* What a model says is heard, and is what models can say.                 *)
LEMMA JudgeServes ==
  ASSUME EvaluateInv, pc # "idle"
  PROVE  serving \in Models /\ Judge \in Models /\ setup \in Setups
BY ModelsServe DEF EvaluateInv, Control, Judge

LEMMA InputRailKeeps ==
  ASSUME EvaluateInv, InputRail
  PROVE  Control' /\ Heard' /\ Floored'
<1>1. pc = "input" /\ serving \in Models /\ Judge \in Models
  BY JudgeServes DEF InputRail
<1>2. text.found = {} /\ \A v \in verdicts : v.says # "blocked"
  BY <1>1 DEF EvaluateInv, Floored, Heard
<1>3. CASE Raise /\ verdicts' = verdicts
  BY <1>1, <1>3, RaiseKeeps
<1>4. CASE Fall /\ verdicts' = verdicts
  BY <1>1, <1>4, FallKeeps
<1>5. CASE /\ Said(Judge, "input", "allowed")
           /\ Go("invoke")
           /\ checked' = TRUE
           /\ UNCHANGED <<setup, text, serving, answer>>
  <2>1. verdicts' = verdicts \cup {Verdict(Judge, "input", "allowed")}
    BY <1>5 DEF Said, Verdict
  <2>2. \E v \in verdicts' : v.as = "input" /\ v.says = "allowed"
    <3>1. Verdict(Judge, "input", "allowed") \in verdicts'
      BY <2>1
    <3> QED BY <3>1 DEF Verdict
  <2>3. \A v \in verdicts' : v.says # "blocked"
    BY <1>2, <2>1 DEF Verdict
  <2>4. Heard'
    BY <1>1, <1>5, <2>1, <2>2, <2>3 DEF EvaluateInv, Heard, Verdict, Go
  <2> QED BY <1>1, <1>2, <1>5, <2>4 DEF EvaluateInv, Control, Floored, Labels, Go
<1>6. CASE Said(Judge, "input", "blocked") /\ Raise
  <2>1. verdicts' = verdicts \cup {Verdict(Judge, "input", "blocked")}
    BY <1>6 DEF Said, Verdict
  <2>2. pc' = "raise" /\ UNCHANGED <<setup, text, serving, checked, answer>>
    BY <1>6 DEF Raise, Go
  <2>3. Heard'
    BY <1>1, <2>1, <2>2 DEF EvaluateInv, Heard, Verdict
  <2> QED BY <1>1, <1>2, <2>2, <2>3 DEF EvaluateInv, Control, Floored, Labels
<1> QED BY <1>2, <1>3, <1>4, <1>5, <1>6 DEF InputRail

LEMMA InvokeKeeps ==
  ASSUME EvaluateInv, Invoke
  PROVE  Control' /\ Heard' /\ Floored'
<1>1. pc = "invoke" /\ serving \in Models
  BY JudgeServes DEF Invoke
<1>2. text.found = {} /\ \A v \in verdicts : v.says # "blocked"
  BY <1>1 DEF EvaluateInv, Floored, Heard
<1>3. CASE Raise /\ verdicts' = verdicts
  BY <1>1, <1>3, RaiseKeeps
<1>4. CASE Fall /\ verdicts' = verdicts
  BY <1>1, <1>4, FallKeeps
<1>5. CASE /\ \E usage \in Usages, found \in BOOLEAN :
                answer' = [usage |-> usage, found |-> found]
           /\ Said(serving, "answer", "parsed")
           /\ Go("output")
           /\ UNCHANGED <<setup, text, serving, checked>>
  <2>1. verdicts' = verdicts \cup {Verdict(serving, "answer", "parsed")}
    BY <1>5 DEF Said, Verdict
  <2>2. answer' # None
    BY <1>5, EvaluateAssumption
  <2>3. Heard'
    BY <1>1, <1>2, <1>5, <2>1 DEF EvaluateInv, Heard, Verdict, Go, Control
  <2> QED BY <1>1, <1>2, <1>5, <2>2, <2>3 DEF EvaluateInv, Control, Floored, Labels, Go
<1> QED BY <1>3, <1>4, <1>5 DEF Invoke

LEMMA OutputRailKeeps ==
  ASSUME EvaluateInv, OutputRail
  PROVE  Control' /\ Heard' /\ Floored'
<1>1. pc = "output" /\ serving \in Models
  BY JudgeServes DEF OutputRail
<1>2. text.found = {} /\ \A v \in verdicts : v.says # "blocked"
  BY <1>1 DEF EvaluateInv, Floored, Heard
<1>3. CASE Raise /\ verdicts' = verdicts
  BY <1>1, <1>3, RaiseKeeps
<1>4. CASE /\ Said(serving, "output", "allowed")
           /\ Go("row")
           /\ UNCHANGED <<setup, text, serving, checked, answer>>
  <2>1. verdicts' = verdicts \cup {Verdict(serving, "output", "allowed")}
    BY <1>4 DEF Said, Verdict
  <2>2. Heard'
    BY <1>1, <1>2, <1>4, <2>1 DEF EvaluateInv, Heard, Verdict, Go
  <2> QED BY <1>1, <1>2, <1>4, <2>2 DEF EvaluateInv, Control, Floored, Labels, Go
<1>5. CASE Said(serving, "output", "blocked") /\ Raise
  <2>1. verdicts' = verdicts \cup {Verdict(serving, "output", "blocked")}
    BY <1>5 DEF Said, Verdict
  <2>2. pc' = "raise" /\ UNCHANGED <<setup, text, serving, checked, answer>>
    BY <1>5 DEF Raise, Go
  <2>3. Heard'
    BY <1>1, <2>1, <2>2 DEF EvaluateInv, Heard, Verdict
  <2> QED BY <1>1, <1>2, <2>2, <2>3 DEF EvaluateInv, Control, Floored, Labels
<1> QED BY <1>3, <1>4, <1>5 DEF OutputRail

(* An evaluation that ends has left one row more, or counts as unwritten.  *)
LEMMA EndsAfterRow ==
  \/ AuditRow \/ Overlay \/ AuditFailure \/ SqlError
  => /\ pc # "idle" /\ End
     /\ \/ unwritten' = unwritten /\ \E row : trail' = Append(trail, row)
        \/ unwritten' = unwritten + 1 /\ trail' = trail
BY DEF AuditRow, Overlay, AuditFailure, SqlError, Write

LEMMA MiddleOfCall ==
  \/ PiiFloor \/ InputRail \/ Invoke \/ OutputRail
  => /\ pc \in {"floor", "input", "invoke", "output"}
     /\ pc' \in {"input", "invoke", "output", "row", "raise"}
     /\ UNCHANGED <<trail, clock, begun, unwritten>>
     /\ \/ UNCHANGED answers
        \/ /\ pc = "invoke" /\ pc' \in {"output", "raise"}
           /\ answers' = [answers EXCEPT ![serving] = @ + 1]
     /\ pc = "output" => pc' \in {"row", "raise"}
BY DEF PiiFloor, InputRail, Invoke, OutputRail, Fall, Raise, Go, Answered, past

LEMMA CountedNext == EvaluateInv /\ Next => Counted'
<1> SUFFICES ASSUME EvaluateInv, Next PROVE Counted'
  OBVIOUS
<1>1. MaxEvaluations \in Nat /\ Len(trail) \in Nat
  BY AppendToSeq, EvaluateAssumption DEF EvaluateInv, Counted
<1>2. CASE Begin
  <2>1. /\ pc = "idle" /\ pc' \in {"overlay", "floor"}
        /\ begun < MaxEvaluations /\ begun' = begun + 1
        /\ UNCHANGED <<trail, unwritten, answers>>
    BY <1>2 DEF Begin
  <2> QED BY <1>1, <2>1 DEF EvaluateInv, Counted, One
<1>3. CASE AuditRow \/ Overlay \/ AuditFailure \/ SqlError
  <2>1. pc # "idle" /\ pc' = "idle" /\ UNCHANGED <<begun, answers>>
    BY <1>3, EndsAfterRow DEF End, Go
  <2>2. IsSeq(trail') /\ \/ Len(trail') = Len(trail) + 1 /\ unwritten' = unwritten
                         \/ Len(trail') = Len(trail) /\ unwritten' = unwritten + 1
    <3>1. IsSeq(trail)
      BY DEF EvaluateInv, Counted
    <3>2. CASE unwritten' = unwritten + 1 /\ trail' = trail
      BY <3>1, <3>2
    <3>3. CASE unwritten' = unwritten /\ \E row : trail' = Append(trail, row)
      BY <3>1, <3>3, AppendToSeq
    <3> QED BY <1>3, <3>2, <3>3, EndsAfterRow
  <2> QED BY <1>1, <2>1, <2>2 DEF EvaluateInv, Counted, One
<1>4. CASE PiiFloor \/ InputRail \/ Invoke \/ OutputRail
  <2>1. pc \in {"floor", "input", "invoke", "output"}
        /\ pc' \in {"input", "invoke", "output", "row", "raise"}
        /\ UNCHANGED <<trail, begun, unwritten>>
    BY <1>4, MiddleOfCall
  <2>2. /\ answers' \in [Models -> Nat]
        /\ \A m \in Models :
             answers'[m] + One(pc' \in {"overlay", "floor", "input", "invoke"}) <= begun
    <3>1. CASE UNCHANGED answers
      <4>1. pc = "output" => pc' \in {"row", "raise"}
        BY <1>4, MiddleOfCall
      <4> QED BY <2>1, <3>1, <4>1 DEF EvaluateInv, Counted, One
    <3>2. CASE /\ pc = "invoke" /\ pc' \in {"output", "raise"}
               /\ answers' = [answers EXCEPT ![serving] = @ + 1]
      <4>1. begun \in Nat /\ \A m \in Models : answers[m] \in Nat /\ answers[m] + 1 <= begun
        BY <3>2, EvaluateAssumption DEF EvaluateInv, Counted, One
      <4>2. answers' \in [Models -> Nat]
        <5>1. serving \in Models /\ answers[serving] + 1 \in Nat
          BY <3>2, <4>1, JudgeServes
        <5> QED BY <3>2, <5>1 DEF EvaluateInv, Counted
      <4>3. \A m \in Models : answers'[m] \in {answers[m], answers[m] + 1}
        BY <3>2 DEF EvaluateInv, Counted
      <4>4. One(pc' \in {"overlay", "floor", "input", "invoke"}) = 0
        BY <3>2 DEF One
      <4> QED BY <4>1, <4>2, <4>3, <4>4
    <3> QED BY <1>4, <3>1, <3>2, MiddleOfCall
  <2> QED BY <2>1, <2>2 DEF EvaluateInv, Counted, One
<1> QED BY <1>2, <1>3, <1>4 DEF Next, Step

LEMMA InvNext == EvaluateInv /\ [Next]_vars => EvaluateInv'
<1> SUFFICES ASSUME EvaluateInv, [Next]_vars PROVE EvaluateInv'
  OBVIOUS
<1>1. CASE UNCHANGED vars
  BY <1>1 DEF vars, call, past, EvaluateInv, Control, Heard, Floored, Counted
<1>2. CASE Next
  <2>1. Control' /\ Heard' /\ Floored'
    BY <1>2, BeginKeeps, EndsAfterRow, EndKeeps, PiiFloorKeeps, InputRailKeeps,
       InvokeKeeps, OutputRailKeeps DEF Next, Step
  <2> QED BY <1>2, <2>1, CountedNext DEF EvaluateInv
<1> QED BY <1>1, <1>2

LEMMA InvAlways == Spec => []EvaluateInv
BY InvInit, InvNext, PTL DEF Spec

-----------------------------------------------------------------------------
(* What follows                                                            *)

(* The variables keep their types, what completes was answered, and there  *)
(* is no more than one row for an evaluation.                              *)
THEOREM TypeCorrect == Spec => []EvaluateTypeOK
<1>1. EvaluateInv => EvaluateTypeOK
  <2> SUFFICES ASSUME EvaluateInv PROVE EvaluateTypeOK
    OBVIOUS
  <2>1. answers \in [Models -> 0..MaxEvaluations]
    BY EvaluateAssumption DEF EvaluateInv, Counted, One
  <2>2. Len(trail) + unwritten <= begun /\ unwritten \in Nat
    BY AppendToSeq DEF EvaluateInv, Counted, One
  <2> QED BY <2>1, <2>2 DEF EvaluateInv, EvaluateTypeOK, Control, Labels, Heard
<1> QED BY <1>1, InvAlways, PTL

(* Whatever the detectors find in the whole prompt is shown to no model;   *)
(* so if they find something in each text with PII, none of these is       *)
(* (nodes.py: the floor runs before any model is involved).                *)
THEOREM FoundPiiReachesNoModel ==
  ASSUME \A t \in Texts : t.pii # {} => find_pii(t.chars) # {}
  PROVE  Spec => []PiiReachesNoModel
<1> DEFINE PiiFound == pc # "idle" /\ text.pii # {} => text.found # {}
<1>1. Init => PiiFound
  BY DEF Init
<1>2. PiiFound /\ [Next]_vars => PiiFound'
  <2> SUFFICES ASSUME PiiFound, [Next]_vars PROVE PiiFound'
    OBVIOUS
  <2>1. CASE Begin
    <3>1. PICK t \in Texts, untrusted \in BOOLEAN :
            text' = [pii |-> t.pii, found |-> find_pii(t.chars), untrusted |-> untrusted]
      BY <2>1 DEF Begin
    <3> QED BY <3>1
  <2>2. CASE AuditRow \/ Overlay \/ AuditFailure \/ SqlError
    BY <2>2, EndsAfterRow DEF End, Go
  <2>3. CASE PiiFloor \/ InputRail \/ Invoke \/ OutputRail
    <3>1. pc # "idle"
      BY <2>3, MiddleOfCall
    <3>2. text' = text
      BY <2>3 DEF PiiFloor, InputRail, Invoke, OutputRail, Fall, Raise
    <3> QED BY <3>1, <3>2
  <2>4. CASE UNCHANGED vars
    BY <2>4 DEF vars, call
  <2> QED BY <2>1, <2>2, <2>3, <2>4 DEF Next, Step
<1>3. EvaluateInv /\ PiiFound => PiiReachesNoModel
  BY DEF EvaluateInv, Floored, PiiReachesNoModel
<1> QED BY <1>1, <1>2, <1>3, InvAlways, PTL DEF Spec

(* A refusal of a rail ends the evaluation: no model is asked after it and *)
(* no result is recorded (nodes.py: "a verdict about the prompt, never a   *)
(* fallback").                                                             *)
THEOREM VerdictsFinal == Spec => VerdictIsFinal
<1>1. ASSUME EvaluateInv, [Next]_vars,
             \E v \in verdicts : v.says = "blocked",
             vars' # vars
      PROVE  /\ pc' = "idle"
             /\ \A i \in DOMAIN trail' \ DOMAIN trail : trail'[i].event = "node_failed"
  <2>1. pc = "raise"
    BY <1>1 DEF EvaluateInv, Heard
  <2>2. AuditFailure \/ SqlError
    BY <1>1, <2>1, MiddleOfCall DEF Next, Step, Begin, Overlay, AuditRow
  <2>3. pc' = "idle"
    BY <2>2 DEF AuditFailure, SqlError, Write, End, Go
  <2>4. trail' = trail \/ trail' = Append(trail, Row("node_failed"))
    BY <2>2 DEF AuditFailure, SqlError, Write
  <2>5. IsSeq(trail) /\ Row("node_failed").event = "node_failed"
    BY <1>1 DEF EvaluateInv, Counted, Row
  <2>6. \A i \in DOMAIN trail' \ DOMAIN trail : trail'[i].event = "node_failed"
    <3>1. CASE trail' = trail
      BY <3>1
    <3>2. CASE trail' = Append(trail, Row("node_failed"))
      <4> HIDE DEF Row
      <4> QED BY <2>5, <3>2, AppendToSeq
    <3> QED BY <2>4, <3>1, <3>2
  <2> QED BY <2>3, <2>6
<1>2. EvaluateInv /\ [Next]_vars =>
        [(\E v \in verdicts : v.says = "blocked") =>
           /\ pc' = "idle"
           /\ \A i \in DOMAIN trail' \ DOMAIN trail : trail'[i].event = "node_failed"]_vars
  BY <1>1
<1> QED BY <1>2, InvAlways, PTL DEF Spec, VerdictIsFinal

(* A row that names a backend was answered by it, after an input rail had  *)
(* allowed the prompt and before the same model's output rail did the      *)
(* answer (nodes.py evaluate; llm.py: "record the truth even when a        *)
(* fallback fires").                                                       *)
THEOREM AnswersPassedRails == Spec => AnswerPassedRails
<1> DEFINE Truthful(row) ==
      LET By(as, says) == [by |-> row.backend, as |-> as, says |-> says] \in verdicts
      IN  row.backend # None =>
            /\ row.model = row.backend
            /\ By("answer", "parsed")
            /\ By("output", "allowed")
            /\ \E v \in verdicts : v.as = "input" /\ v.says = "allowed"
<1>1. ASSUME EvaluateInv, [Next]_vars, NEW i \in DOMAIN trail' \ DOMAIN trail
      PROVE  Truthful(trail'[i])
  <2>1. IsSeq(trail)
    BY <1>1 DEF EvaluateInv, Counted
  <2>2. trail' # trail
    BY <1>1
  <2>3. AuditRow \/ Overlay \/ AuditFailure
    BY <1>1, <2>2, MiddleOfCall DEF Next, Step, Begin, SqlError, vars, past
  <2>4. CASE AuditRow
    <3>1. trail'[i] = NewRow
      BY <2>1, <2>4, <1>1, AppendToSeq DEF AuditRow, Write
    <3>2. NewRow.backend = serving /\ NewRow.model = serving
      BY DEF NewRow, Row
    <3>3. /\ Verdict(serving, "answer", "parsed") \in verdicts
          /\ Verdict(serving, "output", "allowed") \in verdicts
          /\ \E v \in verdicts : v.as = "input" /\ v.says = "allowed"
      BY <1>1, <2>4 DEF AuditRow, EvaluateInv, Control, Heard
    <3> QED BY <3>1, <3>2, <3>3 DEF Verdict
  <2>5. CASE Overlay \/ AuditFailure
    <3>1. PICK row : trail' = Append(trail, row) /\ row.backend = None
      BY <2>5 DEF Overlay, AuditFailure, Write, Row
    <3>2. trail'[i] = row
      BY <2>1, <3>1, <1>1, AppendToSeq
    <3> QED BY <3>1, <3>2
  <2> QED BY <2>3, <2>4, <2>5
<1>2. EvaluateInv /\ [Next]_vars =>
        [\A i \in DOMAIN trail' \ DOMAIN trail : Truthful(trail'[i])]_vars
  BY <1>1
<1> QED BY <1>2, InvAlways, PTL DEF Spec, AnswerPassedRails

Events(s) == [i \in DOMAIN s |-> s[i].event]

LEMMA EventsOfAppend ==
  ASSUME NEW s, IsSeq(s), NEW row
  PROVE  Events(Append(s, row)) = Append(Events(s), row.event)
<1> PICK S : s \in Seq(S)
  BY DEF IsSeq
<1> DEFINE T == S \cup {row}
           E == {x.event : x \in T}
<1>1. s \in Seq(T) /\ row \in T
  OBVIOUS
<1>2. /\ Append(s, row) \in Seq(T)
      /\ DOMAIN Append(s, row) = 1..(Len(s) + 1)
      /\ DOMAIN s = 1..Len(s) /\ Len(s) \in Nat
      /\ \A i \in 1..(Len(s) + 1) :
           Append(s, row)[i] = IF i = Len(s) + 1 THEN row ELSE s[i]
  <2> HIDE DEF T
  <2> QED BY <1>1
<1>3. Events(s) \in Seq(E) /\ Len(Events(s)) = Len(s) /\ row.event \in E
  <2>1. \A i \in 1..Len(s) : s[i].event \in E
    BY <1>1, <1>2
  <2>2. Events(s) \in [1..Len(s) -> E]
    BY <1>2, <2>1 DEF Events
  <2> HIDE DEF E
  <2>3. Events(s) \in Seq(E) /\ Len(Events(s)) = Len(s)
    BY <1>2, <2>2
  <2> QED BY <1>1, <2>3 DEF E
<1>4. /\ DOMAIN Append(Events(s), row.event) = 1..(Len(s) + 1)
      /\ \A i \in 1..(Len(s) + 1) :
           Append(Events(s), row.event)[i] = IF i = Len(s) + 1 THEN row.event ELSE Events(s)[i]
      /\ Append(Events(s), row.event) \in Seq(E)
  <2> HIDE DEF E
  <2> QED BY <1>3
<1>5. \A i \in 1..(Len(s) + 1) :
        Events(Append(s, row))[i] = Append(Events(s), row.event)[i]
  BY <1>2, <1>4 DEF Events
<1>6. /\ Events(Append(s, row)) = [i \in 1..(Len(s) + 1) |-> Events(Append(s, row))[i]]
      /\ Append(Events(s), row.event) =
           [i \in 1..(Len(s) + 1) |-> Append(Events(s), row.event)[i]]
  BY <1>2, <1>4 DEF Events
<1> HIDE DEF E, T
<1> QED BY <1>5, <1>6

(* A call of evaluate leaves one row, when it ends, however it falls back  *)
(* or fails on the way, or the database did not take that row: Evaluate    *)
(* implements EvaluateCall.                                                *)
THEOREM OneRowForEach == Spec => OneRowEach
<1>1. Init => AsOneCall!Init
  <2> SUFFICES ASSUME Init PROVE AsOneCall!Init
    OBVIOUS
  <2>1. DOMAIN trail = {} /\ trail = <<>> /\ pc = "idle" /\ unwritten = 0
    BY DEF Init
  <2>2. [i \in DOMAIN trail |-> trail[i].event] = <<>>
    BY <2>1
  <2> QED BY <2>1, <2>2 DEF AsOneCall!Init
<1>2. EvaluateInv /\ [Next]_vars => [AsOneCall!Next]_(AsOneCall!vars)
  <2> SUFFICES ASSUME EvaluateInv, [Next]_vars
               PROVE  [AsOneCall!Next]_(AsOneCall!vars)
    OBVIOUS
  <2>1. CASE UNCHANGED vars
    BY <2>1 DEF vars, past, AsOneCall!vars
  <2>2. CASE Begin
    BY <2>2 DEF Begin, AsOneCall!Next, AsOneCall!Start
  <2>3. CASE PiiFloor \/ InputRail \/ Invoke \/ OutputRail
    BY <2>3, MiddleOfCall DEF AsOneCall!vars
  <2>4. CASE AuditRow \/ Overlay \/ AuditFailure \/ SqlError
    <3>1. pc # "idle" /\ pc' = "idle"
      BY <2>4, EndsAfterRow DEF End, Go
    <3>2. CASE SqlError
      BY <3>1, <3>2 DEF SqlError, AsOneCall!Next, AsOneCall!Lose
    <3>3. CASE AuditRow \/ Overlay \/ AuditFailure
      <4>1. PICK row : /\ trail' = Append(trail, row)
                       /\ row.event \in {"node_completed", "node_failed"}
        <5>1. /\ NewRow.event = "node_completed"
              /\ [Row("node_completed") EXCEPT !.model = setup.backend].event = "node_completed"
              /\ Row("node_failed").event = "node_failed"
          BY DEF NewRow, Row
        <5>2. \/ trail' = Append(trail, NewRow)
              \/ trail' = Append(trail, [Row("node_completed") EXCEPT !.model = setup.backend])
              \/ trail' = Append(trail, Row("node_failed"))
          BY <3>3 DEF AuditRow, Overlay, AuditFailure, Write
        <5> QED BY <5>1, <5>2
      <4>2. Events(trail') = Append(Events(trail), row.event)
        BY <4>1, EventsOfAppend DEF EvaluateInv, Counted
      <4>3. unwritten' = unwritten
        BY <3>3 DEF AuditRow, Overlay, AuditFailure, Write
      <4> QED BY <3>1, <4>1, <4>2, <4>3 DEF Events, AsOneCall!Next, AsOneCall!End
    <3> QED BY <2>4, <3>2, <3>3
  <2> QED BY <2>1, <2>2, <2>3, <2>4 DEF Next, Step
<1> QED BY <1>1, <1>2, InvAlways, PTL DEF Spec, OneRowEach, AsOneCall!Spec

-----------------------------------------------------------------------------
(* SSNs in a longer text                                                   *)

(* A text with another before it and another after it.                     *)
LEMMA Within ==
  ASSUME NEW C, NEW before \in Seq(C), NEW inner \in Seq(C), NEW after \in Seq(C),
         NEW whole, whole = before \o inner \o after
  PROVE  /\ whole \in Seq(C)
         /\ Len(before) \in Nat /\ Len(inner) \in Nat /\ Len(after) \in Nat
         /\ Len(whole) = Len(before) + Len(inner) + Len(after)
         /\ \A i \in 1..Len(before) : whole[i] = before[i]
         /\ \A i \in 1..Len(inner) : whole[Len(before) + i] = inner[i]
         /\ \A i \in 1..Len(after) : whole[Len(before) + Len(inner) + i] = after[i]
OBVIOUS

(* The text inner stands in whole after its first n characters, with no    *)
(* digit directly beside it.                                               *)
StandsIn(inner, whole, n) ==
  /\ n \in Nat
  /\ \E C : inner \in Seq(C) /\ whole \in Seq(C)
  /\ n + Len(inner) <= Len(whole)
  /\ \A i \in 1..Len(inner) : whole[n + i] = inner[i]
  /\ ~ IsDigit(whole, n)
  /\ ~ IsDigit(whole, n + Len(inner) + 1)

LEMMA SameDigits ==
  ASSUME NEW inner, NEW whole, NEW n, StandsIn(inner, whole, n),
         NEW i \in 0..(Len(inner) + 1)
  PROVE  IsDigit(whole, n + i) <=> IsDigit(inner, i)
<1> PICK C : inner \in Seq(C) /\ whole \in Seq(C)
  BY DEF StandsIn
<1>1. /\ n \in Nat /\ Len(inner) \in Nat /\ Len(whole) \in Nat
      /\ DOMAIN inner = 1..Len(inner) /\ DOMAIN whole = 1..Len(whole)
      /\ n + Len(inner) <= Len(whole)
  BY DEF StandsIn
<1>2. CASE i \in 1..Len(inner)
  <2>1. n + i \in DOMAIN whole /\ i \in DOMAIN inner /\ whole[n + i] = inner[i]
    BY <1>1, <1>2 DEF StandsIn
  <2> QED BY <2>1 DEF IsDigit
<1>3. CASE i = 0
  BY <1>1, <1>3 DEF StandsIn, IsDigit
<1>4. CASE i = Len(inner) + 1
  <2>1. i \notin DOMAIN inner /\ n + i = n + Len(inner) + 1
    BY <1>1, <1>4
  <2> QED BY <2>1 DEF StandsIn, IsDigit
<1> QED BY <1>1, <1>2, <1>3, <1>4

LEMMA SameSpelling ==
  ASSUME NEW inner, NEW whole, NEW n, StandsIn(inner, whole, n),
         NEW i \in 1..Len(inner), NEW k \in Nat, i + k - 1 <= Len(inner)
  PROVE  Spell(whole, n + i, k) = Spell(inner, i, k)
<1> PICK C : inner \in Seq(C) /\ whole \in Seq(C)
  BY DEF StandsIn
<1>1. /\ n \in Nat /\ Len(inner) \in Nat /\ Len(whole) \in Nat
      /\ n + Len(inner) <= Len(whole)
  BY DEF StandsIn
<1>2. /\ SubSeq(inner, i, i + k - 1) = [j \in 1..k |-> inner[i + j - 1]]
      /\ SubSeq(whole, n + i, n + i + k - 1) = [j \in 1..k |-> whole[n + i + j - 1]]
  BY <1>1
<1>3. \A j \in 1..k : whole[n + i + j - 1] = inner[i + j - 1]
  <2> TAKE j \in 1..k
  <2>1. i + j - 1 \in 1..Len(inner) /\ n + (i + j - 1) = n + i + j - 1
    BY <1>1
  <2> QED BY <2>1 DEF StandsIn
<1>4. SubSeq(whole, n + i, n + i + k - 1) = SubSeq(inner, i, i + k - 1)
  BY <1>2, <1>3
<1> QED BY <1>4 DEF Spell

(* Digits of the inner text are digits of the whole, and spell the same.   *)
LEMMA SameGroup ==
  ASSUME NEW inner, NEW whole, NEW n, StandsIn(inner, whole, n),
         NEW i \in Int, NEW k \in Nat \ {0}, Digits(inner, i, k)
  PROVE  /\ i \in 1..Len(inner) /\ i + k - 1 <= Len(inner) /\ Len(inner) \in Nat
         /\ Digits(whole, n + i, k)
         /\ Spell(whole, n + i, k) = Spell(inner, i, k)
<1>1. n \in Nat /\ Len(inner) \in Nat /\ DOMAIN inner = 1..Len(inner)
  BY DEF StandsIn
<1>2. IsDigit(inner, i) /\ IsDigit(inner, i + k - 1)
  BY DEF Digits
<1>3. i \in 1..Len(inner) /\ i + k - 1 <= Len(inner)
  BY <1>1, <1>2 DEF IsDigit
<1>4. Digits(whole, n + i, k)
  <2> SUFFICES ASSUME NEW j \in (n + i)..(n + i + k - 1) PROVE IsDigit(whole, j)
    BY DEF Digits
  <2>1. PICK m : m = j - n
    OBVIOUS
  <2>2. m \in i..(i + k - 1) /\ m \in 0..(Len(inner) + 1) /\ n + m = j
    BY <1>1, <1>3, <2>1
  <2>3. IsDigit(inner, m)
    BY <2>2 DEF Digits
  <2>4. IsDigit(whole, n + m)
    BY <2>2, <2>3, SameDigits
  <2> QED BY <2>2, <2>4
<1>5. Spell(whole, n + i, k) = Spell(inner, i, k)
  BY <1>3, SameSpelling
<1> QED BY <1>1, <1>3, <1>4, <1>5

LEMMA SameForm ==
  ASSUME NEW inner, NEW whole, NEW n, StandsIn(inner, whole, n),
         NEW area \in Int, NEW group \in Int, NEW serial \in Int,
         WellFormed(inner, area, group, serial)
  PROVE  WellFormed(whole, n + area, n + group, n + serial)
<1>1. /\ Digits(whole, n + area, 3) /\ Spell(whole, n + area, 3) = Spell(inner, area, 3)
      /\ Digits(whole, n + group, 2) /\ Spell(whole, n + group, 2) = Spell(inner, group, 2)
      /\ Digits(whole, n + serial, 4) /\ Spell(whole, n + serial, 4) = Spell(inner, serial, 4)
      /\ serial \in 1..Len(inner) /\ serial + 4 - 1 <= Len(inner) /\ Len(inner) \in Nat
  <2>1. Digits(inner, area, 3) /\ Digits(inner, group, 2) /\ Digits(inner, serial, 4)
    BY DEF WellFormed
  <2>2. 2 \in Nat \ {0} /\ 3 \in Nat \ {0} /\ 4 \in Nat \ {0}
    OBVIOUS
  <2>3. Digits(whole, n + area, 3) /\ Spell(whole, n + area, 3) = Spell(inner, area, 3)
    BY <2>1, <2>2, SameGroup
  <2>4. Digits(whole, n + group, 2) /\ Spell(whole, n + group, 2) = Spell(inner, group, 2)
    BY <2>1, <2>2, SameGroup
  <2>5. /\ Digits(whole, n + serial, 4) /\ Spell(whole, n + serial, 4) = Spell(inner, serial, 4)
        /\ serial \in 1..Len(inner) /\ serial + 4 - 1 <= Len(inner) /\ Len(inner) \in Nat
    BY <2>1, <2>2, SameGroup
  <2> QED BY <2>3, <2>4, <2>5
<1>2. n \in Nat /\ n + (serial + 4) = n + serial + 4
  BY DEF StandsIn
<1>3. serial + 4 \in 0..(Len(inner) + 1)
  BY <1>1
<1>4. IsDigit(whole, n + (serial + 4)) <=> IsDigit(inner, serial + 4)
  BY <1>3, SameDigits
<1>5. ~ IsDigit(whole, n + serial + 4)
  BY <1>2, <1>4 DEF WellFormed
<1> QED BY <1>1, <1>5 DEF WellFormed

LEMMA SameSsn ==
  ASSUME NEW inner, NEW whole, NEW n, StandsIn(inner, whole, n), HasSsn(inner)
  PROVE  HasSsn(whole)
<1>1. /\ n \in Nat /\ Len(inner) \in Nat /\ n + Len(inner) <= Len(whole)
      /\ DOMAIN inner = 1..Len(inner) /\ DOMAIN whole = 1..Len(whole) /\ Len(whole) \in Nat
      /\ \A j \in 1..Len(inner) : whole[n + j] = inner[j]
  BY DEF StandsIn
<1>2. PICK i \in 1..Len(inner) : Separated(inner, i) \/ Labelled(inner, i)
  BY <1>1 DEF HasSsn
<1>3. n + i \in DOMAIN whole
  BY <1>1
<1>4. CASE Separated(inner, i)
  <2>1. WellFormed(inner, i, i + 4, i + 7) /\ Digits(inner, i + 7, 4)
    BY <1>4 DEF Separated, WellFormed
  <2>2. i + 7 \in 1..Len(inner)
    BY <2>1, SameGroup
  <2>3. /\ i + 3 \in 1..Len(inner) /\ i + 6 \in 1..Len(inner)
        /\ n + (i + 3) = n + i + 3 /\ n + (i + 6) = n + i + 6
        /\ n + (i + 4) = n + i + 4 /\ n + (i + 7) = n + i + 7
        /\ n + (i - 1) = n + i - 1 /\ i - 1 \in 0..(Len(inner) + 1)
    BY <1>1, <2>2
  <2>4. whole[n + i + 3] = inner[i + 3] /\ whole[n + i + 6] = inner[i + 6]
    BY <1>1, <2>3
  <2>5. ~ IsDigit(whole, n + i - 1)
    <3>1. IsDigit(whole, n + (i - 1)) <=> IsDigit(inner, i - 1)
      BY <2>3, SameDigits
    <3> QED BY <1>4, <2>3, <3>1 DEF Separated
  <2>6. WellFormed(whole, n + i, n + (i + 4), n + (i + 7))
    BY <2>1, SameForm
  <2>7. WellFormed(whole, n + i, n + i + 4, n + i + 7)
    BY <2>3, <2>6
  <2>8. Separated(whole, n + i)
    <3>1. PICK m : m = n + i
      OBVIOUS
    <3>2. ~ IsDigit(whole, m - 1)
      BY <1>1, <2>5, <3>1
    <3>3. WellFormed(whole, m, m + 4, m + 7)
      BY <2>7, <3>1
    <3>4. inner[i + 3] \in {Blank, Dash} /\ inner[i + 6] = inner[i + 3]
      BY <1>4 DEF Separated
    <3>5. whole[m + 3] \in {Blank, Dash} /\ whole[m + 6] = whole[m + 3]
      BY <2>4, <3>1, <3>4
    <3>6. Separated(whole, m)
      BY <3>2, <3>3, <3>5 DEF Separated
    <3> QED BY <3>1, <3>6
  <2> QED BY <1>3, <2>8 DEF HasSsn
<1>5. CASE Labelled(inner, i)
  <2>1. WellFormed(inner, i, i + 3, i + 5)
    BY <1>5 DEF Labelled
  <2>2. WellFormed(whole, n + i, n + (i + 3), n + (i + 5))
    BY <2>1, SameForm
  <2>3. WellFormed(whole, n + i, n + i + 3, n + i + 5)
    BY <1>1, <2>2
  <2>4. PICK k \in (i - 4)..(i - 1) :
          /\ k \in DOMAIN inner /\ inner[k] = Label
          /\ \A j \in (k + 1)..(i - 1) : inner[j] \in {Blank, Dash, Mark}
    BY <1>5 DEF Labelled
  <2>5. /\ n + k \in (n + i - 4)..(n + i - 1) /\ n + k \in DOMAIN whole
        /\ whole[n + k] = Label
    BY <1>1, <2>4
  <2>6. \A j \in (n + k + 1)..(n + i - 1) : whole[j] \in {Blank, Dash, Mark}
    <3> TAKE j \in (n + k + 1)..(n + i - 1)
    <3>1. PICK m : m = j - n
      OBVIOUS
    <3>2. m \in (k + 1)..(i - 1) /\ m \in 1..Len(inner) /\ n + m = j
      BY <1>1, <2>4, <3>1
    <3> QED BY <1>1, <2>4, <3>2
  <2>7. Labelled(whole, n + i)
    <3>1. PICK m, l : m = n + i /\ l = n + k
      OBVIOUS
    <3>2. WellFormed(whole, m, m + 3, m + 5)
      BY <2>3, <3>1
    <3>3. l \in (m - 4)..(m - 1) /\ l \in DOMAIN whole /\ whole[l] = Label
      BY <1>1, <2>5, <3>1
    <3>4. \A j \in (l + 1)..(m - 1) : whole[j] \in {Blank, Dash, Mark}
      BY <1>1, <2>4, <2>6, <3>1
    <3>5. Labelled(whole, m)
      BY <3>2, <3>3, <3>4 DEF Labelled
    <3> QED BY <3>1, <3>5
  <2> QED BY <1>3, <2>7 DEF HasSsn
<1> QED BY <1>2, <1>4, <1>5

(* An SSN is found wherever it stands: before and after it there can be    *)
(* any text that does not go on with a digit right beside it (nodes.py:    *)
(* the floor "catches an SSN/card anywhere").                              *)
THEOREM SsnFoundAnywhere ==
  ASSUME NEW C, NEW before \in Seq(C), NEW inner \in Seq(C), NEW after \in Seq(C),
         HasSsn(inner),
         ~ IsDigit(before, Len(before)), ~ IsDigit(after, 1)
  PROVE  "ssn" \in find_pii(before \o inner \o after)
<1>1. PICK whole : whole = before \o inner \o after
  OBVIOUS
<1>2. /\ whole \in Seq(C)
      /\ Len(before) \in Nat /\ Len(inner) \in Nat /\ Len(after) \in Nat
      /\ Len(whole) = Len(before) + Len(inner) + Len(after)
      /\ \A i \in 1..Len(before) : whole[i] = before[i]
      /\ \A i \in 1..Len(inner) : whole[Len(before) + i] = inner[i]
      /\ \A i \in 1..Len(after) : whole[Len(before) + Len(inner) + i] = after[i]
  BY <1>1, Within
<1>3. ~ IsDigit(whole, Len(before))
  <2>1. CASE Len(before) = 0
    BY <1>2, <2>1 DEF IsDigit
  <2>2. CASE Len(before) # 0
    BY <1>2, <2>2 DEF IsDigit
  <2> QED BY <2>1, <2>2
<1>4. ~ IsDigit(whole, Len(before) + Len(inner) + 1)
  <2>1. CASE Len(after) = 0
    BY <1>2, <2>1 DEF IsDigit
  <2>2. CASE Len(after) # 0
    BY <1>2, <2>2 DEF IsDigit
  <2> QED BY <2>1, <2>2
<1>5. StandsIn(inner, whole, Len(before))
  BY <1>2, <1>3, <1>4 DEF StandsIn
<1>6. HasSsn(whole)
  BY <1>5, SameSsn
<1> QED BY <1>1, <1>6 DEF find_pii

-----------------------------------------------------------------------------
(* The rows that the cost report reads                                     *)

(* The rows of calls that b answered.                                      *)
Billed(b) == {i \in DOMAIN trail : trail[i].tokens /\ trail[i].backend = b}

(* A row that has the token fields is priced and dated.                    *)
Priced(row) ==
  /\ row.backend \in Models
  /\ OrZero(row.input) \in Nat /\ OrZero(row.output) \in Nat /\ OrZero(row.latency_ms) \in Nat
  /\ row.created_at \in Nat

(* Every row that names a backend is one of its answers; the answer of an  *)
(* evaluation that has not come to its row yet has none.                   *)
BillInv ==
  /\ clock \in Nat
  /\ pc \in {"output", "row"} => answer.usage \in Usages
  /\ \A i \in DOMAIN trail : trail[i].tokens => Priced(trail[i])
  /\ \A i \in DOMAIN trail : trail[i].created_at \in Nat
  /\ \A b \in Models :
       Cardinality(Billed(b)) + One(pc \in {"output", "row"} /\ serving = b) <= answers[b]

LEMMA AppendKeeps ==
  ASSUME NEW s, IsSeq(s), NEW e
  PROVE  /\ DOMAIN s = 1..Len(s) /\ Len(s) \in Nat
         /\ DOMAIN Append(s, e) = DOMAIN s \cup {Len(s) + 1}
         /\ Len(s) + 1 \notin DOMAIN s
         /\ \A i \in DOMAIN s : Append(s, e)[i] = s[i]
         /\ Append(s, e)[Len(s) + 1] = e
<1> PICK S : s \in Seq(S)
  BY DEF IsSeq
<1> DEFINE T == S \cup {e}
<1>1. s \in Seq(T) /\ e \in T
  OBVIOUS
<1> HIDE DEF T
<1>2. /\ Append(s, e) \in Seq(T) /\ Len(Append(s, e)) = Len(s) + 1
      /\ Len(s) \in Nat /\ DOMAIN s = 1..Len(s) /\ DOMAIN Append(s, e) = 1..(Len(s) + 1)
  BY <1>1
<1>3. \A i \in 1..Len(s) : Append(s, e)[i] = s[i]
  BY <1>1, <1>2
<1>4. Append(s, e)[Len(s) + 1] = e
  BY <1>1
<1> QED BY <1>2, <1>3, <1>4

LEMMA BilledFinite ==
  ASSUME EvaluateInv, NEW b
  PROVE  IsFiniteSet(Billed(b)) /\ Cardinality(Billed(b)) \in Nat
<1>1. DOMAIN trail = 1..Len(trail) /\ Len(trail) \in Nat
  BY AppendKeeps DEF EvaluateInv, Counted
<1>2. IsFiniteSet(DOMAIN trail)
  BY <1>1, FS_Interval
<1>3. Billed(b) \subseteq DOMAIN trail
  BY DEF Billed
<1> QED BY <1>2, <1>3, FS_Subset, FS_CardinalityType

LEMMA BillInit == Init => BillInv
<1> SUFFICES ASSUME Init PROVE BillInv
  OBVIOUS
<1>1. DOMAIN trail = {} /\ \A b : Billed(b) = {}
  BY DEF Init, Billed
<1>2. Cardinality({}) = 0
  BY FS_EmptySet
<1>3. \A b \in Models :
        Cardinality(Billed(b)) + One(pc \in {"output", "row"} /\ serving = b) <= answers[b]
  <2>1. ASSUME NEW b \in Models
        PROVE  Cardinality(Billed(b)) + One(pc \in {"output", "row"} /\ serving = b) <= answers[b]
    <3>1. Cardinality(Billed(b)) = 0
      BY <1>1, <1>2
    <3>2. answers[b] = 0 /\ pc = "idle"
      BY DEF Init
    <3>3. One(pc \in {"output", "row"} /\ serving = b) = 0
      BY <3>2 DEF One
    <3> QED BY <3>1, <3>2, <3>3
  <2> QED BY <2>1
<1>4. clock \in Nat /\ pc = "idle"
  BY DEF Init
<1>5. /\ \A i \in DOMAIN trail : trail[i].tokens => Priced(trail[i])
      /\ \A i \in DOMAIN trail : trail[i].created_at \in Nat
  BY <1>1
<1> QED BY <1>3, <1>4, <1>5 DEF BillInv

(* While it is under way an evaluation bills nothing, and an answer that   *)
(* goes on to the output rail has been counted.                            *)
LEMMA MiddleBills ==
  ASSUME EvaluateInv, BillInv, PiiFloor \/ InputRail \/ Invoke \/ OutputRail
  PROVE  BillInv'
<1>1. /\ UNCHANGED <<trail, clock>>
      /\ pc \in {"floor", "input", "invoke", "output"}
      /\ serving \in Models /\ answers \in [Models -> Nat]
  BY MiddleOfCall, JudgeServes DEF EvaluateInv, Counted
<1>2. \A b : Billed(b)' = Billed(b)
  BY <1>1 DEF Billed
<1>3. \A b : Cardinality(Billed(b)) \in Nat
  BY BilledFinite
<1>4. \/ pc' \notin {"output", "row"}
      \/ pc = "output" /\ pc' = "row" /\ UNCHANGED <<serving, answer, answers>>
      \/ /\ pc = "invoke" /\ pc' = "output" /\ serving' = serving
         /\ answers' = [answers EXCEPT ![serving] = @ + 1]
         /\ answer'.usage \in Usages
  BY DEF PiiFloor, InputRail, Invoke, OutputRail, Fall, Raise, Go, Answered, past
<1>5. \A b \in Models : answers'[b] >= answers[b]
  BY <1>1, MiddleOfCall
<1>6. ASSUME NEW b \in Models
      PROVE  Cardinality(Billed(b)) + One(pc' \in {"output", "row"} /\ serving' = b) <= answers'[b]
  <2>1. Cardinality(Billed(b)) + One(pc \in {"output", "row"} /\ serving = b) <= answers[b]
    BY DEF BillInv
  <2>2. answers[b] \in Nat /\ answers'[b] \in Nat
    BY <1>1, MiddleOfCall
  <2> QED BY <1>1, <1>3, <1>4, <1>5, <2>1, <2>2 DEF One
<1>7. pc' \in {"output", "row"} => answer'.usage \in Usages
  BY <1>4 DEF BillInv
<1> QED BY <1>1, <1>2, <1>6, <1>7 DEF BillInv

(* A row that is appended: one that bills was answered.                    *)
LEMMA RowBills ==
  ASSUME EvaluateInv, BillInv, NEW row, trail' = Append(trail, row),
         pc' = "idle", UNCHANGED <<clock, answers>>,
         row.created_at = clock,
         row.tokens => pc = "row" /\ row.backend = serving /\ Priced(row)
  PROVE  BillInv'
<1>1. /\ DOMAIN trail' = DOMAIN trail \cup {Len(trail) + 1}
      /\ Len(trail) + 1 \notin DOMAIN trail
      /\ \A i \in DOMAIN trail : trail'[i] = trail[i]
      /\ trail'[Len(trail) + 1] = row
  BY AppendKeeps DEF EvaluateInv, Counted
<1>2. ASSUME NEW b \in Models PROVE Cardinality(Billed(b)') <= answers[b]
  <2>1. /\ IsFiniteSet(Billed(b)) /\ Cardinality(Billed(b)) \in Nat /\ answers[b] \in Nat
        /\ Cardinality(Billed(b)) + One(pc \in {"output", "row"} /\ serving = b) <= answers[b]
    BY BilledFinite DEF EvaluateInv, Counted, BillInv
  <2>2. CASE row.tokens /\ row.backend = b
    <3>1. Billed(b)' = Billed(b) \cup {Len(trail) + 1} /\ Len(trail) + 1 \notin Billed(b)
      BY <1>1, <2>2 DEF Billed
    <3>2. Cardinality(Billed(b)') = Cardinality(Billed(b)) + 1
      BY <2>1, <3>1, FS_AddElement
    <3>3. One(pc \in {"output", "row"} /\ serving = b) = 1
      BY <2>2 DEF One
    <3> QED BY <2>1, <3>2, <3>3
  <2>3. CASE ~ (row.tokens /\ row.backend = b)
    <3>1. Billed(b)' = Billed(b)
      BY <1>1, <2>3 DEF Billed
    <3> QED BY <2>1, <3>1 DEF One
  <2> QED BY <2>2, <2>3
<1>3. \A b \in Models :
        Cardinality(Billed(b)') + One(pc' \in {"output", "row"} /\ serving' = b) <= answers'[b]
  <2>1. \A b \in Models : answers[b] \in Nat
    BY DEF EvaluateInv, Counted
  <2>2. ASSUME NEW b \in Models PROVE Cardinality(Billed(b)') \in Nat
    <3>1. Billed(b)' \subseteq Billed(b) \cup {Len(trail) + 1}
      BY <1>1 DEF Billed
    <3>2. IsFiniteSet(Billed(b) \cup {Len(trail) + 1})
      BY BilledFinite, FS_AddElement
    <3> QED BY <3>1, <3>2, FS_Subset, FS_CardinalityType
  <2> QED BY <1>2, <2>1, <2>2 DEF One
<1>4. /\ \A i \in DOMAIN trail' : trail'[i].tokens => Priced(trail'[i])
      /\ \A i \in DOMAIN trail' : trail'[i].created_at \in Nat
  BY <1>1 DEF BillInv
<1> QED BY <1>3, <1>4 DEF BillInv, Priced

LEMMA BillNext == EvaluateInv /\ BillInv /\ [Next]_vars => BillInv'
<1> SUFFICES ASSUME EvaluateInv, BillInv, [Next]_vars PROVE BillInv'
  OBVIOUS
<1>1. CASE Begin
  <2>1. PICK minutes \in Pause : clock' = clock + minutes
    BY <1>1 DEF Begin
  <2>2. /\ UNCHANGED <<trail, answers>>
        /\ pc = "idle" /\ pc' \in {"overlay", "floor"}
    BY <1>1 DEF Begin
  <2>3. clock' \in Nat
    BY <2>1, EvaluateAssumption DEF BillInv
  <2>4. \A b : Billed(b)' = Billed(b)
    BY <2>2 DEF Billed
  <2> QED BY <2>2, <2>3, <2>4 DEF BillInv, One
<1>2. CASE PiiFloor \/ InputRail \/ Invoke \/ OutputRail
  BY <1>2, MiddleBills
<1>3. CASE AuditRow
  <2>1. PICK row : row = NewRow
    OBVIOUS
  <2>2. /\ trail' = Append(trail, row) /\ pc = "row" /\ pc' = "idle"
        /\ UNCHANGED <<clock, answers>>
    BY <1>3, <2>1 DEF AuditRow, Write, End, Go
  <2>3. /\ row.created_at = clock /\ row.backend = serving
        /\ row.input = answer.usage.input /\ row.output = answer.usage.output
        /\ row.latency_ms = answer.usage.ms
    BY <2>1 DEF NewRow, Row
  <2>4. answer.usage \in Usages /\ serving \in Models
    BY <2>2, JudgeServes DEF BillInv
  <2>5. /\ answer.usage.input \in Nat \cup {None} /\ answer.usage.output \in Nat \cup {None}
        /\ answer.usage.ms \in Nat
    BY <2>4, EvaluateAssumption
  <2>6. Priced(row)
    BY <2>3, <2>4, <2>5 DEF Priced, OrZero, BillInv
  <2> QED BY <2>2, <2>3, <2>6, RowBills
<1>4. CASE Overlay \/ AuditFailure
  <2>1. PICK row : trail' = Append(trail, row) /\ row.tokens = FALSE /\ row.created_at = clock
    BY <1>4 DEF Overlay, AuditFailure, Write, Row
  <2>2. pc' = "idle" /\ UNCHANGED <<clock, answers>>
    BY <1>4 DEF Overlay, AuditFailure, Write, End, Go
  <2> QED BY <2>1, <2>2, RowBills
<1>5. CASE SqlError \/ UNCHANGED vars
  <2>1. /\ UNCHANGED <<trail, clock, answers>>
        /\ pc' = "idle" \/ UNCHANGED <<pc, serving, answer>>
    BY <1>5 DEF SqlError, End, Go, vars, call, past
  <2>2. \A b : Billed(b)' = Billed(b)
    BY <2>1 DEF Billed
  <2>3. \A b \in Models : Cardinality(Billed(b)) \in Nat /\ answers[b] \in Nat
    BY BilledFinite DEF EvaluateInv, Counted
  <2> QED BY <2>1, <2>2, <2>3 DEF BillInv, One
<1> QED BY <1>1, <1>2, <1>3, <1>4, <1>5 DEF Next, Step

LEMMA BillAlways == Spec => [](EvaluateInv /\ BillInv)
BY InvInit, InvNext, BillInit, BillNext, PTL DEF Spec

-----------------------------------------------------------------------------
(* The cost report over any rows                                           *)

(* What build_cost_report is given: rows as evaluate writes them.          *)
Reportable(R) ==
  /\ IsFiniteSet(R)
  /\ \A r \in R : r.tokens => Priced(r)

LEMMA PriceType ==
  ASSUME NEW b, NEW i \in Nat, NEW o \in Nat, NEW ms \in Nat
  PROVE  price_call(b, i, o, ms) \in Nat
<1>1. /\ i * bedrock_input_price_per_1k \in Nat /\ o * bedrock_output_price_per_1k \in Nat
      /\ (5 * ms) * nim_gpu_hourly_rate \in Nat
  BY PriceAssumption
<1>2. PICK p, q \in Nat : /\ p = i * bedrock_input_price_per_1k
                          /\ q = o * bedrock_output_price_per_1k
  BY <1>1
<1>3. 18000 * (p + q) \in Nat
  OBVIOUS
<1> QED BY <1>1, <1>2, <1>3 DEF price_call

(* Rounding to microdollars is off by at most half of one.                 *)
LEMMA RoundedNear ==
  ASSUME NEW x \in Nat
  PROVE  /\ Rounded(x) \in Nat
         /\ 2 * (TicksPerMicrodollar * Rounded(x) - x) <= TicksPerMicrodollar
         /\ 2 * (x - TicksPerMicrodollar * Rounded(x)) <= TicksPerMicrodollar
<1>1. Rounded(x) = (x + 9000) \div 18000
  BY DEF Rounded, TicksPerMicrodollar
<1> QED BY <1>1 DEF TicksPerMicrodollar

(* The tokens and milliseconds of a row, and what it costs by itself.      *)
InputOf(R) == [r \in R |-> OrZero(r.input)]
OutputOf(R) == [r \in R |-> OrZero(r.output)]
MsOf(R) == [r \in R |-> OrZero(r.latency_ms)]
CostOf(R) == [r \in R |-> price_call(r.backend, OrZero(r.input), OrZero(r.output),
                                      OrZero(r.latency_ms))]

LEMMA SumNat ==
  ASSUME NEW S, IsFiniteSet(S), NEW w, w \in [S -> Nat]
  PROVE  SumFunction(w) \in Nat
<1> DEFINE P == {T \in SUBSET S : Part(w, T) \in Nat}
<1>1. w \in [S -> Int]
  OBVIOUS
<1>2. ASSUME NEW T \in SUBSET S, \A x \in T : T \ {x} \in P
      PROVE  T \in P
  <2>1. CASE T = {}
    BY <1>1, <2>1, PartStep
  <2>2. CASE T # {}
    <3>1. PICK x \in T : TRUE
      BY <2>2
    <3>2. Part(w, T) = w[x] + Part(w, T \ {x})
      BY <1>1, PartStep
    <3>3. w[x] \in Nat /\ Part(w, T \ {x}) \in Nat
      BY <1>2
    <3>4. Part(w, T) \in Nat
      BY <3>2, <3>3
    <3> QED BY <3>4
  <2> QED BY <2>1, <2>2
<1>3. Hereditary(P, S)
  BY <1>2 DEF Hereditary
<1>4. SUBSET S \subseteq P
  <2> HIDE DEF P
  <2> QED BY <1>3, SubsetsByInduction
<1> QED BY <1>4, PartAll

(* The calls of one backend cost together what they cost one by one: both  *)
(* prices are linear.                                                      *)
LEMMA GroupCost ==
  ASSUME NEW R, Reportable(R), \A r \in R : r.tokens,
         NEW b, \A r \in R : r.backend = b
  PROVE  /\ SumFunction(InputOf(R)) \in Nat /\ SumFunction(OutputOf(R)) \in Nat
         /\ SumFunction(MsOf(R)) \in Nat
         /\ SumFunction(CostOf(R)) = price_call(b, SumFunction(InputOf(R)),
                                     SumFunction(OutputOf(R)), SumFunction(MsOf(R)))
<1>1. IsFiniteSet(R) /\ \A r \in R : Priced(r)
  BY DEF Reportable
<1>2. \A r \in R : /\ OrZero(r.input) \in Nat /\ OrZero(r.output) \in Nat
                    /\ OrZero(r.latency_ms) \in Nat
  BY <1>1 DEF Priced
<1>3. /\ InputOf(R) \in [R -> Nat] /\ OutputOf(R) \in [R -> Nat] /\ MsOf(R) \in [R -> Nat]
  BY <1>2 DEF InputOf, OutputOf, MsOf
<1>4. CostOf(R) \in [R -> Int]
  <2>1. \A r \in R : price_call(r.backend, OrZero(r.input), OrZero(r.output),
                                 OrZero(r.latency_ms)) \in Nat
    BY <1>2, PriceType
  <2> QED BY <2>1 DEF CostOf
<1>5. PICK i, o, ms : /\ i = SumFunction(InputOf(R)) /\ o = SumFunction(OutputOf(R))
                     /\ ms = SumFunction(MsOf(R))
  OBVIOUS
<1>6. i \in Nat /\ o \in Nat /\ ms \in Nat
  BY <1>1, <1>3, <1>5, SumNat
<1>7. ASSUME NEW a \in Int, NEW c \in Int, NEW u, u \in [R -> Nat], NEW v, v \in [R -> Nat],
             \A r \in R : CostOf(R)[r] = a * u[r] + c * v[r]
      PROVE  SumFunction(CostOf(R)) = a * SumFunction(u) + c * SumFunction(v)
  <2>1. u \in [R -> Int] /\ v \in [R -> Int]
    BY <1>7
  <2> QED BY <1>1, <1>4, <1>7, <2>1, SumLinear
<1>8. SumFunction(CostOf(R)) = price_call(b, i, o, ms)
  <2>1. CASE b = "bedrock"
    <3> DEFINE a == 18000 * bedrock_input_price_per_1k
               c == 18000 * bedrock_output_price_per_1k
    <3>1. a \in Int /\ c \in Int
      BY PriceAssumption
    <3>2. ASSUME NEW x \in Nat, NEW y \in Nat, NEW z
          PROVE  price_call(b, x, y, z) = a * x + c * y
      <4>1. price_call(b, x, y, z) = 18000 * (x * bedrock_input_price_per_1k
                                              + y * bedrock_output_price_per_1k)
        BY <2>1 DEF price_call
      <4> QED BY <4>1, PriceAssumption
    <3> HIDE DEF a, c
    <3>3. \A r \in R : CostOf(R)[r] = a * InputOf(R)[r] + c * OutputOf(R)[r]
      BY <1>2, <3>2 DEF CostOf, InputOf, OutputOf
    <3>4. SumFunction(CostOf(R)) = a * i + c * o
      BY <1>3, <1>5, <1>7, <3>1, <3>3
    <3> QED BY <1>6, <3>2, <3>4
  <2>2. CASE b = "nim"
    <3> DEFINE a == 5 * nim_gpu_hourly_rate
    <3>1. a \in Int /\ 0 \in Int
      BY PriceAssumption
    <3>2. ASSUME NEW x, NEW y, NEW z \in Nat
          PROVE  price_call(b, x, y, z) = a * z + 0 * z
      <4>1. price_call(b, x, y, z) = 5 * z * nim_gpu_hourly_rate
        BY <2>2 DEF price_call
      <4> QED BY <4>1, PriceAssumption
    <3> HIDE DEF a
    <3>3. \A r \in R : CostOf(R)[r] = a * MsOf(R)[r] + 0 * MsOf(R)[r]
      BY <1>2, <3>2 DEF CostOf, MsOf
    <3>4. SumFunction(CostOf(R)) = a * ms + 0 * ms
      BY <1>3, <1>5, <1>7, <3>1, <3>3
    <3> QED BY <1>6, <3>2, <3>4
  <2>3. CASE b # "bedrock" /\ b # "nim"
    <3>1. \A x, y, z : price_call(b, x, y, z) = 0
      BY <2>3 DEF price_call
    <3>2. \A r \in R : CostOf(R)[r] = 0 * MsOf(R)[r] + 0 * MsOf(R)[r]
      BY <1>3, <3>1 DEF CostOf
    <3>3. SumFunction(CostOf(R)) = 0 * ms + 0 * ms
      BY <1>3, <1>5, <1>7, <3>2
    <3> QED BY <1>6, <3>1, <3>3
  <2> QED BY <2>1, <2>2, <2>3
<1> QED BY <1>5, <1>6, <1>8

-----------------------------------------------------------------------------
(* The rows of a report                                                    *)

LEMMA CostRowFields ==
  ASSUME NEW M, NEW b
  PROVE  /\ CostRow(M, b).backend = b
         /\ CostRow(M, b).calls = Cardinality(Group(M, b))
         /\ CostRow(M, b).observed =
              Rounded(price_call(b, CostRow(M, b).input, CostRow(M, b).output,
                                 CostRow(M, b).latency_ms))
<1>1. /\ CostRow(M, b).backend = b
      /\ CostRow(M, b).calls = Cardinality(Group(M, b))
  BY DEF CostRow
<1>2. CostRow(M, b).observed =
        Rounded(price_call(b, CostRow(M, b).input, CostRow(M, b).output,
                           CostRow(M, b).latency_ms))
  BY DEF CostRow
<1> QED BY <1>1, <1>2

(* What GroupCost says of a CostRow: what it observed is the price of its  *)
(* calls, rounded.                                                         *)
LEMMA CostRowIs ==
  ASSUME NEW M, Reportable(M), \A r \in M : r.tokens, NEW b
  PROVE  /\ CostRow(M, b).backend = b
         /\ CostRow(M, b).calls = Cardinality(Group(M, b))
         /\ CostRow(M, b).observed = Rounded(SumFunction(CostOf(Group(M, b))))
         /\ SumFunction(CostOf(Group(M, b))) \in Nat
<1> DEFINE R == Group(M, b)
<1>1. R \subseteq M /\ \A r \in R : r.backend = b
  BY DEF Group
<1>2. Reportable(R) /\ \A r \in R : r.tokens
  BY <1>1, FS_Subset DEF Reportable
<1>3. PICK i, o, ms :
        i = CostRow(M, b).input /\ o = CostRow(M, b).output /\ ms = CostRow(M, b).latency_ms
  OBVIOUS
<1>4. /\ i = SumFunction(InputOf(R)) /\ o = SumFunction(OutputOf(R))
      /\ ms = SumFunction(MsOf(R))
  BY <1>3 DEF CostRow, InputOf, OutputOf, MsOf
<1>5. /\ CostRow(M, b).backend = b
      /\ CostRow(M, b).calls = Cardinality(Group(M, b))
      /\ CostRow(M, b).observed = Rounded(price_call(b, i, o, ms))
  BY <1>3, CostRowFields
<1> HIDE DEF R
<1>6. /\ i \in Nat /\ o \in Nat /\ ms \in Nat
      /\ SumFunction(CostOf(R)) = price_call(b, i, o, ms)
  BY <1>1, <1>2, <1>4, GroupCost
<1>7. SumFunction(CostOf(R)) \in Nat
  BY <1>6, PriceType
<1> QED BY <1>5, <1>6, <1>7 DEF R

(* The rows that are counted, and those of one backend among them.         *)
LEMMA MatchedRows ==
  ASSUME NEW R, Reportable(R), NEW since
  PROVE  /\ Reportable(Matched(R, since, None))
         /\ \A r \in Matched(R, since, None) : r.tokens /\ Priced(r)
         /\ Matched(R, since, None) \subseteq R
         /\ \A b \in Models : Matched(R, since, b) = Group(Matched(R, since, None), b)
<1>1. /\ Matched(R, since, None) \subseteq R
      /\ \A r \in Matched(R, since, None) : r.tokens
  BY DEF Matched
<1>2. Reportable(Matched(R, since, None))
  BY <1>1, FS_Subset DEF Reportable
<1>3. \A b \in Models : b # None
  BY EvaluateAssumption
<1>4. \A b \in Models : Matched(R, since, b) = Group(Matched(R, since, None), b)
  BY <1>3 DEF Matched, Group
<1> QED BY <1>1, <1>2, <1>4 DEF Reportable

(* The rows of evaluate can be reported.                                   *)
LEMMA RowsReportable ==
  ASSUME EvaluateInv, BillInv
  PROVE  Reportable(rows) /\ \A r \in rows : r.created_at \in Nat
<1>1. DOMAIN trail = 1..Len(trail) /\ Len(trail) \in Nat
  BY AppendKeeps DEF EvaluateInv, Counted
<1>2. IsFiniteSet(DOMAIN trail)
  BY <1>1, FS_Interval
<1>3. IsFiniteSet({trail[i] : i \in DOMAIN trail})
  BY <1>2, ImageFinite
<1> QED BY <1>3 DEF Reportable, rows, BillInv

(* The report names only backends that models have, and bills none of them *)
(* for more calls than it answered.                                        *)
THEOREM BillsWhatWasAnswered == Spec => []NeverOverbilled
<1>1. EvaluateInv /\ BillInv => NeverOverbilled
  <2> SUFFICES ASSUME EvaluateInv, BillInv,
                      NEW r \in build_cost_report(rows, None, None, clock).rows
               PROVE  r.backend \in Models /\ r.calls <= answers[r.backend]
    BY DEF NeverOverbilled
  <2> DEFINE M == Matched(rows, None, None)
  <2>1. /\ Reportable(M) /\ \A x \in M : x.tokens /\ Priced(x)
        /\ M \subseteq rows
    BY RowsReportable, MatchedRows
  <2>2. PICK x \in M : r = CostRow(M, x.backend)
    BY DEF build_cost_report
  <2> HIDE DEF M
  <2>3. PICK b : b = x.backend /\ b \in Models
    BY <2>1 DEF Priced
  <2>4. r.backend = b /\ r.calls = Cardinality(Group(M, b))
    BY <2>1, <2>2, <2>3, CostRowIs
  <2>5. Group(M, b) \subseteq {trail[i] : i \in Billed(b)}
    BY <2>1 DEF Group, Billed, rows
  <2>6. IsFiniteSet(Billed(b)) /\ Cardinality(Billed(b)) \in Nat
    BY BilledFinite
  <2>7. /\ IsFiniteSet({trail[i] : i \in Billed(b)})
        /\ Cardinality({trail[i] : i \in Billed(b)}) <= Cardinality(Billed(b))
    BY <2>6, ImageFinite
  <2>8. /\ Cardinality(Group(M, b)) <= Cardinality({trail[i] : i \in Billed(b)})
        /\ Cardinality(Group(M, b)) \in Nat
        /\ Cardinality({trail[i] : i \in Billed(b)}) \in Nat
    BY <2>5, <2>7, FS_Subset, FS_CardinalityType
  <2>9. Cardinality(Billed(b)) <= answers[b] /\ answers[b] \in Nat
    BY <2>3, <2>6 DEF BillInv, One, EvaluateInv, Counted
  <2> QED BY <2>3, <2>4, <2>6, <2>7, <2>8, <2>9
<1> QED BY <1>1, BillAlways, PTL

-----------------------------------------------------------------------------
(* The report adds up                                                      *)

(* The rows of a report over what was matched, and what they observed.     *)
BackendsOf(M) == {r.backend : r \in M}
CallRows(M) == {CostRow(M, b) : b \in BackendsOf(M)}
Observed(M) == [g \in CallRows(M) |-> g.observed]
ObservedBy(M, B) == [b \in B |-> CostRow(M, b).observed]

LEMMA ReportIs ==
  ASSUME NEW R, NEW since, NEW backend, NEW now,
         NEW M, M = Matched(R, since, backend)
  PROVE  /\ build_cost_report(R, since, backend, now).rows = CallRows(M)
         /\ build_cost_report(R, since, backend, now).observed = SumFunction(Observed(M))
         /\ M # {} => build_cost_report(R, since, backend, now).minutes
                        = WindowMinutes(M, since, now)
<1>1. CASE M = {}
  <2>1. CallRows(M) = {}
    BY <1>1 DEF CallRows, BackendsOf
  <2>2. Observed(M) \in [{} -> Int]
    BY <2>1 DEF Observed
  <2>3. SumFunction(Observed(M)) = 0
    BY <2>2, SumStep, FS_EmptySet
  <2> QED BY <1>1, <2>1, <2>3 DEF build_cost_report
<1>2. CASE M # {}
  <2>1. build_cost_report(R, since, backend, now) =
          [rows |-> CallRows(M), minutes |-> WindowMinutes(M, since, now),
           observed |-> SumFunction(Observed(M))]
    BY <1>2 DEF build_cost_report, CallRows, Observed, BackendsOf
  <2> QED BY <2>1
<1> QED BY <1>1, <1>2

(* A row of the report is that of its backend, and a backend without calls *)
(* has nothing to add.                                                     *)
LEMMA ObservedTogether ==
  ASSUME NEW M, Reportable(M), \A r \in M : r.tokens,
         NEW B, IsFiniteSet(B), BackendsOf(M) \subseteq B
  PROVE  /\ ObservedBy(M, B) \in [B -> Nat]
         /\ SumFunction(Observed(M)) = SumFunction(ObservedBy(M, B))
<1> DEFINE C == BackendsOf(M)
           h == [b \in B |-> CostRow(M, b)]
           v == ObservedBy(M, B)
           w == Observed(M)
<1>1. \A b \in B : v[b] = CostRow(M, b).observed /\ v[b] \in Nat
  <2>1. \A b \in B : CostRow(M, b).observed \in Nat
    BY CostRowIs, RoundedNear
  <2> QED BY <2>1 DEF ObservedBy
<1>2. v \in [B -> Nat]
  BY <1>1 DEF ObservedBy
<1>3. \A b \in B \ C : v[b] = 0
  <2> SUFFICES ASSUME NEW b \in B \ C PROVE v[b] = 0
    OBVIOUS
  <2>1. Group(M, b) = {}
    BY DEF Group, BackendsOf
  <2>2. CostOf(Group(M, b)) \in [{} -> Int]
    BY <2>1 DEF CostOf
  <2>3. SumFunction(CostOf(Group(M, b))) = 0
    BY <2>2, SumStep, FS_EmptySet
  <2>4. Rounded(0) = 0
    BY DEF Rounded, TicksPerMicrodollar
  <2>5. CostRow(M, b).observed = Rounded(SumFunction(CostOf(Group(M, b))))
    BY CostRowIs
  <2> QED BY <1>1, <2>3, <2>4, <2>5
<1>4. \A b, d \in C : h[b] = h[d] => b = d
  BY CostRowIs
<1>5. {h[b] : b \in C} = CallRows(M)
  BY DEF CallRows
<1>6. w \in [{h[b] : b \in C} -> Int] /\ \A b \in C : w[h[b]] = v[b]
  <2>1. \A b \in C : CostRow(M, b) \in CallRows(M) /\ h[b] = CostRow(M, b)
    BY DEF CallRows
  <2>2. \A g \in CallRows(M) : g.observed \in Nat
    BY <1>1 DEF CallRows
  <2>3. w \in [CallRows(M) -> Int]
    BY <2>2 DEF Observed
  <2>4. \A b \in C : w[h[b]] = v[b]
    BY <1>1, <2>1 DEF Observed
  <2> QED BY <1>5, <2>3, <2>4
<1>7. v \in [B -> Int]
  BY <1>2
<1> HIDE DEF C, h, v, w
<1>8. C \subseteq B
  BY DEF C
<1>9. SumFunction(w) = SumFunction(v)
  BY <1>3, <1>4, <1>6, <1>7, <1>8, SumReindexed
<1> QED BY <1>2, <1>9 DEF v, w

(* The report of a backend is its row in the whole report.                 *)
LEMMA BackendReport ==
  ASSUME NEW R, Reportable(R), NEW since, NEW now, NEW b \in Models,
         NEW M, M = Matched(R, since, None)
  PROVE  build_cost_report(R, since, b, now).observed = CostRow(M, b).observed
<1> PICK N : N = Group(M, b)
  OBVIOUS
<1>1. /\ Reportable(M) /\ \A r \in M : r.tokens
      /\ N = Matched(R, since, b)
  BY MatchedRows
<1>2. /\ N \subseteq M /\ Group(N, b) = N /\ BackendsOf(N) \subseteq {b}
  BY DEF Group, BackendsOf
<1>3. Reportable(N) /\ \A r \in N : r.tokens
  BY <1>1, <1>2, FS_Subset DEF Reportable
<1>4. IsFiniteSet({b})
  BY FS_Singleton
<1>5. /\ ObservedBy(N, {b}) \in [{b} -> Nat]
      /\ SumFunction(Observed(N)) = SumFunction(ObservedBy(N, {b}))
  BY <1>2, <1>3, <1>4, ObservedTogether
<1>6. SumFunction(ObservedBy(N, {b})) = CostRow(N, b).observed
  <2> PICK v : v = ObservedBy(N, {b})
    OBVIOUS
  <2>1. v \in [{b} -> Int] /\ v[b] = CostRow(N, b).observed /\ v[b] \in Nat
    BY <1>5 DEF ObservedBy
  <2>2. SumFunction(v) = v[b] + SumFunction(Restrict(v, {b} \ {b}))
    BY <1>4, <2>1, SumStep
  <2>3. Restrict(v, {b} \ {b}) \in [{} -> Int]
    BY DEF Restrict
  <2>4. SumFunction(Restrict(v, {b} \ {b})) = 0
    BY <2>3, SumStep, FS_EmptySet
  <2> QED BY <2>1, <2>2, <2>4
<1>7. CostRow(N, b).observed = CostRow(M, b).observed
  <2>1. CostRow(N, b).observed = Rounded(SumFunction(CostOf(Group(N, b))))
    BY <1>3, CostRowIs
  <2>2. CostRow(M, b).observed = Rounded(SumFunction(CostOf(Group(M, b))))
    BY <1>1, CostRowIs
  <2> QED BY <1>2, <2>1, <2>2
<1>8. build_cost_report(R, since, b, now).observed = SumFunction(Observed(N))
  BY <1>1, ReportIs
<1> QED BY <1>5, <1>6, <1>7, <1>8

(* What the rows cost one by one, taken backend by backend.                *)
LEMMA ExactByBackend ==
  ASSUME NEW M, Reportable(M), \A r \in M : r.tokens,
         NEW B, IsFiniteSet(B), B = BackendsOf(M),
         NEW cost, cost = [b \in B |-> SumFunction(CostOf(Group(M, b)))]
  PROVE  cost \in [B -> Nat] /\ ExactCost(M) = SumFunction(cost)
<1>1. cost \in [B -> Nat]
  BY CostRowIs
<1>2. CostOf(M) \in [M -> Int]
  <2>1. \A r \in M : price_call(r.backend, OrZero(r.input), OrZero(r.output),
                                 OrZero(r.latency_ms)) \in Nat
    BY PriceType DEF Reportable, Priced
  <2> QED BY <2>1 DEF CostOf
<1> PICK k : k = [r \in M |-> r.backend]
  OBVIOUS
<1>3. \A r \in M : k[r] \in B
  BY DEF BackendsOf
<1>4. \A b \in B : cost[b] = Part(CostOf(M), {r \in M : k[r] = b})
  <2> SUFFICES ASSUME NEW b \in B PROVE cost[b] = Part(CostOf(M), {r \in M : k[r] = b})
    OBVIOUS
  <2>1. {r \in M : k[r] = b} = Group(M, b)
    BY DEF Group
  <2>2. Group(M, b) \subseteq M
    BY DEF Group
  <2>3. Restrict(CostOf(M), Group(M, b)) = CostOf(Group(M, b))
    BY <2>2 DEF Restrict, CostOf
  <2> QED BY <2>1, <2>3 DEF Part
<1>5. IsFiniteSet(M) /\ cost \in [B -> Int]
  BY <1>1 DEF Reportable
<1>6. SumFunction(CostOf(M)) = SumFunction(cost)
  <2> PICK w : w = CostOf(M)
    OBVIOUS
  <2>1. w \in [M -> Int] /\ \A b \in B : cost[b] = Part(w, {r \in M : k[r] = b})
    BY <1>2, <1>4
  <2>2. SumFunction(w) = SumFunction(cost)
    BY ONLY <2>1, <1>3, <1>5, SumGrouped, IsFiniteSet(B)
  <2> QED BY <2>2
<1> QED BY <1>1, <1>6 DEF ExactCost, CostOf

LEMMA ReportIsExact ==
  ASSUME NEW R, Reportable(R), NEW since, NEW now
  PROVE  AddsUp(R, since, now)
<1> PICK M : M = Matched(R, since, None)
  OBVIOUS
<1> PICK B : B = BackendsOf(M)
  OBVIOUS
<1> PICK whole : whole = build_cost_report(R, since, None, now)
  OBVIOUS
<1>1. /\ Reportable(M) /\ \A r \in M : r.tokens /\ Priced(r)
  BY MatchedRows
<1>2. IsFiniteSet(Backends) /\ Backends = Models
  <2>1. IsFiniteSet({"fake"})
    BY FS_Singleton
  <2>2. IsFiniteSet({"fake"} \cup {"bedrock"})
    BY <2>1, FS_AddElement
  <2>3. IsFiniteSet(({"fake"} \cup {"bedrock"}) \cup {"nim"})
    BY <2>2, FS_AddElement
  <2>4. Backends = ({"fake"} \cup {"bedrock"}) \cup {"nim"}
    BY DEF Backends
  <2> QED BY <2>3, <2>4 DEF Backends, Models
<1>3. B \subseteq Backends
  BY <1>1, <1>2 DEF BackendsOf, Priced
<1>4. IsFiniteSet(B)
  BY <1>2, <1>3, FS_Subset
<1>5. whole.rows = CallRows(M) /\ whole.observed = SumFunction(Observed(M))
  BY ReportIs
<1>6. whole.observed =
        SumFunction([b \in Backends |-> build_cost_report(R, since, b, now).observed])
  <2>1. SumFunction(Observed(M)) = SumFunction(ObservedBy(M, Backends))
    BY <1>1, <1>2, <1>3, ObservedTogether
  <2>2. \A b \in Backends : build_cost_report(R, since, b, now).observed
                             = CostRow(M, b).observed
    BY <1>2, BackendReport
  <2>3. [b \in Backends |-> build_cost_report(R, since, b, now).observed]
        = ObservedBy(M, Backends)
    BY <2>2 DEF ObservedBy
  <2> QED BY <1>5, <2>1, <2>3
<1> DEFINE seen == ObservedBy(M, B)
           cost == [b \in B |-> SumFunction(CostOf(Group(M, b)))]
           ticks == [b \in B |-> 18000 * seen[b] + 0 * seen[b]]
<1>7. /\ seen \in [B -> Nat]
      /\ whole.observed = SumFunction(seen)
  BY <1>1, <1>4, <1>5, ObservedTogether
<1>8. cost \in [B -> Nat] /\ ExactCost(M) = SumFunction(cost)
  BY <1>1, <1>4, ExactByBackend
<1>9. /\ seen \in [B -> Int] /\ cost \in [B -> Int] /\ ticks \in [B -> Int]
      /\ \A b \in B : ticks[b] = 18000 * seen[b] + 0 * seen[b]
  BY <1>7, <1>8
<1> HIDE DEF ticks
<1>10. SumFunction(ticks) = 18000 * SumFunction(seen) + 0 * SumFunction(seen)
  <2> PICK a \in Int, z \in Int : a = 18000 /\ z = 0
    OBVIOUS
  <2>1. \A b \in B : ticks[b] = a * seen[b] + z * seen[b]
    BY <1>9
  <2>2. SumFunction(ticks) = a * SumFunction(seen) + z * SumFunction(seen)
    BY ONLY <1>4, <1>9, <2>1, SumLinear, a \in Int, z \in Int
  <2> QED BY <2>2
<1>11. \A b \in B : 2 * (ticks[b] - cost[b]) <= 18000 /\ 2 * (cost[b] - ticks[b]) <= 18000
  <2> SUFFICES ASSUME NEW b \in B
               PROVE  2 * (ticks[b] - cost[b]) <= 18000 /\ 2 * (cost[b] - ticks[b]) <= 18000
    OBVIOUS
  <2> PICK c : c = SumFunction(CostOf(Group(M, b)))
    OBVIOUS
  <2>1. cost[b] = c /\ c \in Nat
    BY <1>8
  <2>2. seen[b] = Rounded(c)
    <3>1. CostRow(M, b).observed = Rounded(c)
      BY <1>1, CostRowIs
    <3> QED BY <3>1 DEF ObservedBy
  <2>3. /\ Rounded(c) \in Nat
        /\ 2 * (18000 * Rounded(c) - c) <= 18000
        /\ 2 * (c - 18000 * Rounded(c)) <= 18000
    BY <2>1, RoundedNear DEF TicksPerMicrodollar
  <2>4. ticks[b] = 18000 * Rounded(c)
    <3>1. ticks[b] = 18000 * seen[b] + 0 * seen[b]
      BY <1>9
    <3> QED BY <2>2, <2>3, <3>1
  <2> QED BY <2>1, <2>3, <2>4
<1> HIDE DEF seen, cost
<1>12. /\ 2 * (SumFunction(ticks) - SumFunction(cost)) <= 18000 * Cardinality(B)
       /\ 2 * (SumFunction(cost) - SumFunction(ticks)) <= 18000 * Cardinality(B)
  <2> PICK e \in Nat : e = 18000
    OBVIOUS
  <2>1. \A b \in B : 2 * (ticks[b] - cost[b]) <= e /\ 2 * (cost[b] - ticks[b]) <= e
    BY <1>11
  <2>2. /\ 2 * (SumFunction(ticks) - SumFunction(cost)) <= e * Cardinality(B)
        /\ 2 * (SumFunction(cost) - SumFunction(ticks)) <= e * Cardinality(B)
    BY ONLY <1>4, <1>9, <2>1, SumWithin, e \in Nat
  <2> QED BY <2>2
<1>13. Cardinality(whole.rows) = Cardinality(B)
  <2> DEFINE f == [b \in B |-> CostRow(M, b)]
  <2>1. \A b, d \in B : CostRow(M, b) = CostRow(M, d) => b = d
    BY <1>1, CostRowIs
  <2>2. f \in [B -> CallRows(M)]
    BY DEF CallRows
  <2>3. f \in Bijection(B, CallRows(M))
    BY <2>1, <2>2 DEF Bijection, Injection, Surjection, IsInjective, CallRows
  <2> QED BY <1>4, <1>5, <2>3, FS_Bijection DEF ExistsBijection
<1>14. SumFunction(seen) \in Nat /\ SumFunction(cost) \in Nat
  BY <1>4, <1>7, <1>8, SumNat
<1> PICK o, x, n : o = whole.observed /\ x = ExactCost(M) /\ n = Cardinality(whole.rows)
  OBVIOUS
<1>15. o \in Nat /\ x \in Nat
  BY <1>7, <1>8, <1>14
<1>16. /\ 2 * (18000 * o - x) <= 18000 * n
       /\ 2 * (x - 18000 * o) <= 18000 * n
  BY <1>7, <1>8, <1>10, <1>12, <1>13, <1>15
<1>17. /\ 2 * (TicksPerMicrodollar * o - x) <= TicksPerMicrodollar * n
       /\ 2 * (-(TicksPerMicrodollar * o - x)) <= TicksPerMicrodollar * n
  BY <1>15, <1>16 DEF TicksPerMicrodollar
<1> QED BY <1>6, <1>15, <1>17 DEF AddsUp


-----------------------------------------------------------------------------
(* The window fits                                                         *)

LEMMA EarliestRow ==
  ASSUME NEW M, M # {}, \A r \in M : r.created_at \in Nat
  PROVE  /\ Min({r.created_at : r \in M}) \in Nat
         /\ \E r \in M : r.created_at = Min({q.created_at : q \in M})
         /\ \A r \in M : Min({q.created_at : q \in M}) <= r.created_at
<1> PICK S : S = {r.created_at : r \in M}
  OBVIOUS
<1>1. S \subseteq Nat /\ S # {}
  OBVIOUS
<1>2. \E x \in S : \A y \in S : x <= y
  BY <1>1, LeastNat
<1>3. Min(S) \in S /\ \A y \in S : Min(S) <= y
  BY <1>2 DEF Min
<1> QED BY <1>1, <1>3

LEMMA WindowIs ==
  ASSUME NEW k \in Int
  PROVE  Max({k, 1}) \in {k, 1} /\ k <= Max({k, 1}) /\ 1 <= Max({k, 1})
<1> PICK S : S = {k, 1}
  OBVIOUS
<1>1. \E m \in S : \A y \in S : m >= y
  <2>1. CASE k >= 1
    BY <2>1
  <2>2. CASE ~ (k >= 1)
    BY <2>2
  <2> QED BY <2>1, <2>2
<1>2. Max(S) \in S /\ \A y \in S : Max(S) >= y
  BY <1>1 DEF Max
<1> QED BY <1>2

LEMMA WindowIsExact ==
  ASSUME NEW R, Reportable(R), NEW since \in {None} \cup Nat, NEW now \in Nat
  PROVE  WindowFits(R, since, now)
<1> PICK M : M = Matched(R, since, None)
  OBVIOUS
<1> PICK report : report = build_cost_report(R, since, None, now)
  OBVIOUS
<1> SUFFICES ASSUME M # {}
             PROVE  /\ \A r \in M : r.created_at >= now - report.minutes
                    /\ since = None /\ now > Min({r.created_at : r \in M}) =>
                         \E r \in M : r.created_at = now - report.minutes
  BY DEF WindowFits
<1>1. \A r \in M : r.created_at \in Nat
  BY MatchedRows DEF Priced
<1> PICK first : first = Min({r.created_at : r \in M})
  OBVIOUS
<1>2. /\ first \in Nat
      /\ \E r \in M : r.created_at = first
      /\ \A r \in M : first <= r.created_at
  BY <1>1, EarliestRow
<1> PICK start : start = WindowStart(M, since)
  OBVIOUS
<1>3. /\ start \in Nat
      /\ \A r \in M : start <= r.created_at
      /\ since = None => start = first
  <2>1. CASE since = None
    BY <1>2, <2>1 DEF WindowStart
  <2>2. CASE since # None
    <3>1. \A r \in M : r.created_at >= since
      BY <2>2 DEF Matched
    <3> QED BY <1>1, <2>2, <3>1 DEF WindowStart
  <2> QED BY <2>1, <2>2
<1> PICK minutes : minutes = report.minutes
  OBVIOUS
<1>4. minutes = Max({now - start, 1})
  <2>1. minutes = WindowMinutes(M, since, now)
    BY ReportIs
  <2> QED BY <2>1 DEF WindowMinutes
<1>5. minutes \in {now - start, 1} /\ now - start <= minutes /\ 1 <= minutes
  <2>1. now - start \in Int
    BY <1>3
  <2> QED BY <1>4, <2>1, WindowIs
<1>6. \A r \in M : r.created_at >= now - minutes
  BY <1>1, <1>3, <1>5
<1>7. ASSUME since = None, now > first
      PROVE  \E r \in M : r.created_at = now - minutes
  <2>1. now - minutes = first
    BY <1>2, <1>3, <1>5, <1>7
  <2> QED BY <1>2, <2>1
<1> QED BY <1>6, <1>7

(* Over any rows of any length of trail the reports of the backends add up *)
(* to the whole report, the rounding of a group costs at most half a       *)
(* microdollar, and the window is the time that the rows span, whatever    *)
(* the prices are.                                                         *)
THEOREM ReportsAddUp == Spec => []ReportAddsUp
<1>1. EvaluateInv /\ BillInv => ReportAddsUp
  <2> SUFFICES ASSUME EvaluateInv, BillInv,
                      NEW since \in {None} \cup {r.created_at : r \in rows},
                      NEW now \in {clock, clock + 7}
               PROVE  AddsUp(rows, since, now) /\ WindowFits(rows, since, now)
    BY DEF ReportAddsUp
  <2>1. Reportable(rows) /\ \A r \in rows : r.created_at \in Nat
    BY RowsReportable
  <2>2. since \in {None} \cup Nat
    BY <2>1
  <2>3. now \in Nat
    BY DEF BillInv
  <2> QED BY <2>1, <2>2, <2>3, ReportIsExact, WindowIsExact
<1> QED BY <1>1, BillAlways, PTL

=============================================================================
