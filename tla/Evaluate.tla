------------------------------ MODULE Evaluate ------------------------------
(***************************************************************************)
(* The node evaluate of graph/nodes.py inside: the rule overlay, the PII   *)
(* floor, the input rail, the model with its fallback, the output rail and *)
(* the audit row, each of which can fail; and the cost report over the     *)
(* rows.  The models are external.  Screening has all this as one step.    *)
(***************************************************************************)
EXTENDS Patterns, CostReport

CONSTANTS
  Setups,          (* settings: .backend is where the queue is routed      *)
                   (* (llm_routing_policy, or "fake": CAP_FAKE_MODEL),     *)
                   (* .bedrock_fallback_enabled, .guardrail_input_backend  *)
  Texts,           (* what prompts say: .chars, and .pii, what there is in *)
                   (* it of "ssn" and "card_number"                        *)
  Usages,          (* .input, .output (tokens, or None) and .ms of an      *)
                   (* answer                                               *)
  Pause,           (* minutes that may pass between two evaluations        *)
  MaxEvaluations   (* bound on evaluations                                 *)

VARIABLES
  pc,        (* what evaluate does next                                    *)
  setup,     (* settings of the evaluation                                 *)
  text,      (* of the prompt: .pii, .found, what find_pii finds of it,    *)
             (* .untrusted, whether that is in the rail text too           *)
  serving,   (* backend of serving_model                                   *)
  checked,   (* input_checked                                              *)
  answer,    (* .usage of raw_result, .found: PII in its rationale         *)
  verdicts,  (* what models have said in this evaluation: .by, .as, .says  *)
  trail,     (* the rows of evaluate in screening_audit                    *)
  clock,     (* minutes                                                    *)
  begun,     (* evaluations begun                                          *)
  unwritten, (* evaluations whose row the database did not take            *)
  answers    (* for each backend, how often it was asked and answered      *)

call == <<setup, text, serving, checked, answer, verdicts>>
past == <<trail, clock, begun, unwritten, answers>>
vars == <<pc, call, past>>

Models == {"nim", "bedrock", "fake"}

ASSUME EvaluateAssumption ==
  /\ Setups \subseteq [backend : Models, bedrock_fallback_enabled : BOOLEAN,
                       guardrail_input_backend : {"serving", "bedrock"}]
  /\ None \notin Setups \cup Models \cup [usage : Usages, found : BOOLEAN]
  /\ Usages \subseteq [input : Nat \cup {None}, output : Nat \cup {None}, ms : Nat]
  /\ Pause \subseteq Nat
  /\ MaxEvaluations \in Nat

(* resolve_chat_model: the fallback of a queue.                            *)
Fallback(s) ==
  IF s.backend = "nim" /\ s.bedrock_fallback_enabled THEN "bedrock" ELSE None

(* The model that judges the input rail before a fallback.                 *)
InputRailModel(s) ==
  IF s.guardrail_input_backend = "bedrock" /\ s.backend = "nim"
  THEN "bedrock" ELSE s.backend

(* CAP_FAKE_MODEL: the canned model and the marker check of the fake rails *)
(* do not fail, and the canned answer always parses.                       *)
CanFail(model) == model # "fake"

Said(model, as, says) ==
  verdicts' = verdicts \cup {[by |-> model, as |-> as, says |-> says]}

Row(event) ==
  [id |-> Len(trail) + 1, event |-> event, model |-> None, backend |-> None,
   tokens |-> FALSE, input |-> None, output |-> None, latency_ms |-> None,
   created_at |-> clock]

-----------------------------------------------------------------------------
Init ==
  /\ pc = "idle"
  /\ setup = None /\ text = None /\ serving = None
  /\ checked = FALSE /\ answer = None /\ verdicts = {}
  /\ trail = <<>>
  /\ clock = 0
  /\ begun = 0
  /\ unwritten = 0
  /\ answers = [m \in Models |-> 0]

Begin ==
  /\ pc = "idle"
  /\ begun < MaxEvaluations
  /\ \E s \in Setups, t \in Texts, untrusted, insufficient_data \in BOOLEAN, minutes \in Pause :
       /\ pc' = IF insufficient_data THEN "overlay" ELSE "floor"
       /\ setup' = s
       /\ text' = [pii |-> t.pii, found |-> find_pii(t.chars), untrusted |-> untrusted]
       /\ serving' = s.backend
       /\ clock' = clock + minutes
  /\ begun' = begun + 1
  /\ UNCHANGED <<checked, answer, verdicts, trail, unwritten, answers>>

Go(label) == pc' = label

(* An exception that evaluate lets through: wrap_node audits it.           *)
Raise == Go("raise") /\ UNCHANGED <<setup, text, serving, checked, answer>>

End ==
  /\ Go("idle")
  /\ setup' = None /\ text' = None /\ serving' = None
  /\ checked' = FALSE /\ answer' = None /\ verdicts' = {}
  /\ UNCHANGED <<clock, begun, answers>>

(* Mutant: nobody asks whether the queue has a fallback. *)
FallAnyway ==
  /\ serving' = Fallback(setup)
  /\ Go(IF checked THEN "invoke" ELSE "input")
  /\ UNCHANGED <<setup, text, checked, answer, trail>>

(* Mutant: when the fallback fails too, the primary is asked again. *)
FallToAndFro ==
  IF Fallback(setup) # None
  THEN /\ serving' = IF serving = setup.backend THEN Fallback(setup) ELSE setup.backend
       /\ Go(IF checked THEN "invoke" ELSE "input")
       /\ UNCHANGED <<setup, text, checked, answer, trail>>
  ELSE Raise /\ UNCHANGED trail

(* A call failed: if it was one of the try block, and there is a fallback, *)
(* this serves from now on, after an input rail of its own only if the     *)
(* first one gave no verdict.                                              *)
Fall ==
  IF serving = setup.backend /\ Fallback(setup) # None
  THEN /\ serving' = Fallback(setup)
       /\ Go(IF checked THEN "invoke" ELSE "input")
       /\ UNCHANGED <<setup, text, checked, answer, trail>>
  ELSE Raise /\ UNCHANGED trail

(* Mutant: the floor is given the text of the input rail. *)
PiiFloorOfUntrusted ==
  /\ pc = "floor"
  /\ IF text.untrusted /\ text.found # {} THEN Raise
     ELSE Go("input") /\ UNCHANGED <<setup, text, serving, checked, answer>>
  /\ UNCHANGED <<verdicts, past>>

(* check_pii of the whole prompt.                                          *)
PiiFloor ==
  /\ pc = "floor"
  /\ IF text.found # {} THEN Raise
     ELSE Go("input") /\ UNCHANGED <<setup, text, serving, checked, answer>>
  /\ UNCHANGED <<verdicts, past>>

Judge == IF serving = setup.backend THEN InputRailModel(setup) ELSE serving

(* Mutant: a refusal is caught with the other exceptions. *)
InputRailFallingBack ==
  /\ pc = "input"
  /\ IF text.untrusted /\ text.found # {}
     THEN Raise /\ UNCHANGED <<verdicts, trail>>
     ELSE \/ /\ Said(Judge, "input", "allowed")
             /\ Go("invoke")
             /\ checked' = TRUE
             /\ UNCHANGED <<setup, text, serving, answer, trail>>
          \/ Said(Judge, "input", "blocked") /\ Fall
          \/ CanFail(Judge) /\ Fall /\ UNCHANGED verdicts
  /\ UNCHANGED <<clock, begun, unwritten, answers>>

(* check_input: the PII check again, then the model's verdict.             *)
InputRail ==
  /\ pc = "input"
  /\ IF text.untrusted /\ text.found # {}
     THEN Raise /\ UNCHANGED <<verdicts, trail>>
     ELSE \/ /\ Said(Judge, "input", "allowed")
             /\ Go("invoke")
             /\ checked' = TRUE
             /\ UNCHANGED <<setup, text, serving, answer, trail>>
          \/ Said(Judge, "input", "blocked") /\ Raise /\ UNCHANGED trail
          \/ CanFail(Judge) /\ Fall /\ UNCHANGED verdicts
  /\ UNCHANGED <<clock, begun, unwritten, answers>>

Answered == answers' = [answers EXCEPT ![serving] = @ + 1]

(* An answer that does not parse is no failure of the call: it is met only *)
(* when its rationale is read (parsed is None), after the try block.       *)
Invoke ==
  /\ pc = "invoke"
  /\ \/ /\ \E usage \in Usages, found \in BOOLEAN :
             answer' = [usage |-> usage, found |-> found]
        /\ Said(serving, "answer", "parsed")
        /\ Answered
        /\ Go("output")
        /\ UNCHANGED <<setup, text, serving, checked, trail>>
     \/ /\ CanFail(serving)
        /\ Answered
        /\ Raise
        /\ UNCHANGED <<verdicts, trail>>
     \/ CanFail(serving) /\ Fall /\ UNCHANGED <<verdicts, answers>>
  /\ UNCHANGED <<clock, begun, unwritten>>

(* Mutant: the model that the queue is routed to judges the answer. *)
OutputRailOfPrimary ==
  /\ pc = "output"
  /\ IF answer.found
     THEN Raise /\ UNCHANGED verdicts
     ELSE \/ /\ Said(setup.backend, "output", "allowed")
             /\ Go("row")
             /\ UNCHANGED <<setup, text, serving, checked, answer>>
          \/ Said(setup.backend, "output", "blocked") /\ Raise
          \/ CanFail(setup.backend) /\ Raise /\ UNCHANGED verdicts
  /\ UNCHANGED past

(* check_output, outside the try block: the model that answered judges.    *)
OutputRail ==
  /\ pc = "output"
  /\ IF answer.found
     THEN Raise /\ UNCHANGED verdicts
     ELSE \/ /\ Said(serving, "output", "allowed")
             /\ Go("row")
             /\ UNCHANGED <<setup, text, serving, checked, answer>>
          \/ Said(serving, "output", "blocked") /\ Raise
          \/ CanFail(serving) /\ Raise /\ UNCHANGED verdicts
  /\ UNCHANGED past

Write(row) == trail' = Append(trail, row) /\ End /\ UNCHANGED unwritten

NewRow ==
  [Row("node_completed") EXCEPT
     !.model = serving, !.backend = serving, !.tokens = TRUE,
     !.input = answer.usage.input, !.output = answer.usage.output,
     !.latency_ms = answer.usage.ms]

AuditRow == pc = "row" /\ Write(NewRow)

(* The rule overlay: the row names the model that was not asked.           *)
Overlay ==
  /\ pc = "overlay"
  /\ Write([Row("node_completed") EXCEPT !.model = setup.backend])

(* Mutant: the wrapper catches what the guardrails raise, and nothing else. *)
AuditRefusal ==
  /\ pc = "raise"
  /\ IF text.found # {} \/ (answer # None /\ answer.found)
          \/ \E v \in verdicts : v.says = "blocked"
     THEN Write(Row("node_failed"))
     ELSE End /\ UNCHANGED <<trail, unwritten>>

(* wrap_node: whatever was raised, _audit_node_failure puts it on record.  *)
AuditFailure == pc = "raise" /\ Write(Row("node_failed"))

(* The database does not take the row, and then neither one of this        *)
(* failure (Screening's SqlFails).                                         *)
SqlError ==
  /\ pc \in {"row", "overlay", "raise"}
  /\ unwritten' = unwritten + 1
  /\ End /\ UNCHANGED trail

Step ==
  Overlay \/ PiiFloor \/ InputRail \/ Invoke \/ OutputRail
    \/ AuditRow \/ AuditFailure \/ SqlError

Next == Begin \/ Step

Spec == Init /\ [][Next]_vars

(* Every call to a model or to the database ends in some way.              *)
FairSpec == Spec /\ WF_vars(Step)

-----------------------------------------------------------------------------
(* Properties                                                              *)

rows == {trail[i] : i \in DOMAIN trail}

(* Types.  An evaluation that is under way has a model to serve it, and    *)
(* what completes it has been answered (nodes.py evaluate).                *)
EvaluateTypeOK ==
  /\ pc \in {"idle", "overlay", "floor", "input", "invoke", "output", "row", "raise"}
  /\ pc = "idle" <=> setup = None
  /\ setup # None => setup \in Setups /\ serving \in {setup.backend, Fallback(setup)} \ {None}
  /\ pc \in {"invoke", "output", "row"} => checked
  /\ pc \in {"output", "row"} => answer # None
  /\ verdicts \subseteq [by : Models, as : {"input", "answer", "output"},
                         says : {"allowed", "blocked", "parsed"}]
  /\ answers \in [Models -> 0..MaxEvaluations]
  /\ unwritten \in Nat
  /\ Len(trail) + unwritten <= begun

(* A prompt in which an SSN or a card number stands apart from other       *)
(* digits and dashes, wherever in it, the retrieved chunks included, is    *)
(* given to no model (nodes.py: the floor runs "over the WHOLE prompt ...  *)
(* before any model is involved").                                         *)
PiiReachesNoModel ==
  pc # "idle" /\ text.pii # {} => verdicts = {} /\ pc \in {"overlay", "floor", "raise"}

(* What stops an evaluation before a model was asked is an SSN or a card   *)
(* number, and the reason names which.  Numbers that are too short, too    *)
(* long, of an excluded area or no issuer, mistyped, without a label or    *)
(* part of a longer one go through (patterns.py: "Bare 9 digits are too    *)
(* common"; the checks keep "arbitrary 13+ digit ids from reading as       *)
(* cards").  So does a card number that a dash follows, or that a blank or *)
(* a dash joins to more digits, up to 19 in all: the pattern takes them    *)
(* for one number (patterns.py: "not embedded in a longer digit run").     *)
OnlyPiiStopped ==
  [][(pc = "floor" /\ pc' = "raise") => text.pii # {} /\ text.found = text.pii]_vars

(* A rail that has blocked ends the evaluation: no model is asked after it *)
(* and no result is put on record (nodes.py: "a verdict about the prompt,  *)
(* never a fallback").                                                     *)
VerdictIsFinal ==
  [][(\E v \in verdicts : v.says = "blocked") =>
       /\ pc' = "idle"
       /\ \A i \in DOMAIN trail' \ DOMAIN trail : trail'[i].event = "node_failed"]_vars

(* What is put on record as a model's result was answered by the backend   *)
(* and model of the row (llm.py: "so audit rows can record the truth even  *)
(* when a fallback fires"), after an input rail had allowed the prompt,    *)
(* and that same model's output rail let the answer pass (ADR-004: a       *)
(* fallback comes "without losing guardrail coverage").                    *)
AnswerPassedRails ==
  [][\A i \in DOMAIN trail' \ DOMAIN trail :
       LET row == trail'[i]
           By(as, says) == [by |-> row.backend, as |-> as, says |-> says] \in verdicts
       IN  row.backend # None =>
             /\ row.model = row.backend
             /\ By("answer", "parsed")
             /\ By("output", "allowed")
             /\ \E v \in verdicts : v.as = "input" /\ v.says = "allowed"]_vars

(* Whatever fails, an evaluation comes to an end: the primary and the      *)
(* fallback are tried once each (config.py: "retry once against Bedrock"). *)
EvaluationEnds == pc # "idle" ~> pc = "idle"

(* Every evaluation leaves one row, of its result or of its failure, and   *)
(* it is the last thing the evaluation does; only one whose row the        *)
(* database did not take leaves none (middleware.py: "Wrap a node with     *)
(* failure auditing", for any Exception).                                  *)
AsOneCall == INSTANCE EvaluateCall WITH
  running <- pc # "idle", events <- [i \in DOMAIN trail |-> trail[i].event]

OneRowEach == AsOneCall!Spec

(* The report bills no backend for more calls than it answered (cost.py:   *)
(* "Aggregate real `evaluate` audit rows"): the rows of the rule overlay   *)
(* and of failures are no calls.                                           *)
NeverOverbilled ==
  \A r \in build_cost_report(rows, None, None, clock).rows :
    r.backend \in Models /\ r.calls <= answers[r.backend]

(* The reports of the backends add up to the whole report, no group is off *)
(* by more than half a microdollar of what its calls cost one by one, and  *)
(* a rate is measured over the time that its rows span (cost.py: "a real   *)
(* rate extrapolated").                                                    *)
ReportAddsUp ==
  pc = "idle" =>
    \A since \in {None} \cup {r.created_at : r \in rows}, now \in {clock, clock + 7} :
      AddsUp(rows, since, now) /\ WindowFits(rows, since, now)

=============================================================================
