------------------------------ MODULE Screening ------------------------------
(***************************************************************************)
(* The screening agent: calls of runtime/contract.py:invoke, each of which *)
(* drives the graph of graph/builder.py                                    *)
(*                                                                         *)
(*   intake -> enrich -> retrieve -> evaluate -> [escalate ->] dispose     *)
(*                                                                         *)
(* over the state of a thread.  The state of a thread is kept in Postgres  *)
(* by LangGraph's checkpointer, one checkpoint after each node; a call     *)
(* works on a copy and a new checkpoint is stored in the background, at    *)
(* some moment before the call returns.  Each node appends to the audit    *)
(* trail in a transaction of its own (AuditChain), so a process that dies  *)
(* can leave rows of work that no checkpoint knows of.                     *)
(*                                                                         *)
(* A call starts a run for an alert, or resumes a thread with an analyst's *)
(* decision.  It is the environment's choice which calls come when.        *)
(***************************************************************************)
EXTENDS Naturals, Sequences, FiniteSets

CONSTANTS
  Calls,        (* calls of invoke, each made at most once                *)
  Payload,      (* Payload[c]: thread, and an alert or a decision         *)
  Verdicts,     (* what a model can answer                                *)
  Models,       (* models that can serve: "primary", perhaps "fallback"   *)
  Overlap,      (* may two calls work on one thread at the same time?     *)
  Reuse,        (* may a thread that has a checkpoint be given an alert?  *)
  MaxCrashes,   (* bound: processes that die                              *)
  MaxSqlErrors, (* bound: statements that fail on the audit connection    *)
  MaxFaults,    (* bound: either of these                                 *)
  None          (* a channel that was never written, an absent value      *)

VARIABLES
  ckpt,    (* ckpt[t]: the latest checkpoint of thread t, or None         *)
  trail,   (* trail[c]: the audit rows of the run that call c started     *)
  pc,      (* pc[c]: where call c is                                      *)
  state,   (* state[c]: the thread state that c works on                  *)
  unsaved, (* unsaved[c]: is state[c] ahead of what c has stored?         *)
  token,   (* token[c]: the resume value that interrupt() would return    *)
  answer,  (* answer[c]: what the caller got                              *)
  faults   (* crashes and SQL errors so far                               *)

vars == <<ckpt, trail, pc, state, unsaved, token, answer, faults>>

Threads == {Payload[c].thread : c \in Calls}
IsRun(c) == Payload[c].alert # None

-----------------------------------------------------------------------------
(* Data                                                                    *)

END_ == "END"
NodeNames == {"intake", "enrich", "retrieve", "evaluate", "escalate", "dispose"}
Types == {"clear", "true_match", "escalate_to_analyst", "insufficient_data"}

(* Optional values.                                                        *)
Opt(S) == S \cup {None}

Enrichments == [candidates : BOOLEAN, insufficient : BOOLEAN]

(* An EvaluationResult: is the confidence at or above the threshold, are   *)
(* there matched entities, is there evidence.                              *)
Evaluations ==
  [recommended : Types, confident : BOOLEAN, matched : BOOLEAN, cited : BOOLEAN]

Alerts == {Payload[c].alert : c \in Calls} \ {None}
Decisions == {Payload[c].decision : c \in Calls} \ {None}

Dispositions ==
  [disposition : Types, decision : Opt(Decisions), model : Opt(Models), cited : BOOLEAN]

(* ScreeningState, the node to execute next, whether the thread waits for  *)
(* an analyst (a pending interrupt), and which call started the run.       *)
States ==
  [run : Calls, alert : Alerts, next : NodeNames \cup {END_}, parked : BOOLEAN,
   enrichment : Opt(Enrichments), evaluation : Opt(Evaluations),
   model : Opt(Models), decision : Opt(Decisions), disposition : Opt(Dispositions)]

NewThread ==
  [run |-> None, alert |-> None, next |-> "intake", parked |-> FALSE,
   enrichment |-> None, evaluation |-> None,
   model |-> None, decision |-> None, disposition |-> None]

Rows == [event : {"node_completed", "node_failed", "interrupt_raised", "resumed",
                  "disposition", "compliance_blocked"},
         step : NodeNames, by : Calls,
         model : Opt(Models), decision : Opt(Decisions),
         disposition : Opt(Dispositions)]

Row(c, step, event) ==
  [event |-> event, step |-> step, by |-> c,
   model |-> None, decision |-> None, disposition |-> None]

(* graph/routing.py.  What the agent may not finalize is escalated, so     *)
(* the test against _ALWAYS_ESCALATE adds nothing.                         *)
AGENT_TERMINAL == {"clear", "insufficient_data"}

(* Mutant: what the agent is confident of is not escalated. *)
RouteByConfidence(evaluation) ==
  IF evaluation.confident THEN "dispose" ELSE "escalate"

(* Mutant: the confidence is not asked for. *)
RouteByType(evaluation) ==
  IF evaluation.recommended \in AGENT_TERMINAL THEN "dispose" ELSE "escalate"

Route(evaluation) ==
  IF evaluation.recommended \in AGENT_TERMINAL /\ evaluation.confident
  THEN "dispose" ELSE "escalate"

(* The evaluation of the rule overlay: no model is asked.                  *)
Incomplete ==
  [recommended |-> "insufficient_data", confident |-> TRUE,
   matched |-> FALSE, cited |-> FALSE]

(* The evidence of a disposition: what the model cites, or else one item   *)
(* for each candidate.                                                     *)
Cited(s) == s.evaluation.cited \/ s.enrichment.candidates

(* Mutant: the disposition names the routed model, whichever answered. *)
DispositionOfRouted(s) ==
  [disposition |-> IF s.decision # None THEN s.decision.resolution
                                        ELSE s.evaluation.recommended,
   decision |-> s.decision,
   model |-> IF s.decision # None THEN None ELSE "primary",
   cited |-> Cited(s)]

(* What dispose computes, and whether Disposition accepts it.              *)
DispositionOf(s) ==
  [disposition |-> IF s.decision # None THEN s.decision.resolution
                                        ELSE s.evaluation.recommended,
   decision |-> s.decision,
   model |-> IF s.decision # None THEN None
             ELSE IF s.model # None THEN s.model ELSE "primary",
   cited |-> Cited(s)]

Consistent(s) ==
  /\ s.decision # None => s.decision.named
  /\ DispositionOf(s).disposition = "true_match" =>
       s.evaluation.matched \/ (s.decision # None /\ s.decision.matched)

(* compliance_mw/citation.py.                                              *)
EVIDENCE_REQUIRED == {"clear", "true_match"}

CitationMissing(d) == d.disposition \in EVIDENCE_REQUIRED /\ ~ d.cited

-----------------------------------------------------------------------------
(* A call                                                                  *)

Working == {"node", "interrupt", "hook", "returned", "raised", "blocked"}

Answers == [status : {"disposed", "escalated", "blocked", "error"},
            disposition : Opt(Dispositions)]

(* An alert or a decision comes with each call, a model is routed to, and  *)
(* None is nothing else.                                                   *)
ASSUME ScreeningAssumption ==
  /\ \A c \in Calls : Payload[c].alert = None <=> Payload[c].decision # None
  /\ \A a \in Alerts : a.hits \in BOOLEAN /\ a.dob \in BOOLEAN
  /\ \A d \in Decisions :
       d.resolution \in Types /\ d.matched \in BOOLEAN /\ d.named \in BOOLEAN
  /\ Verdicts \subseteq Evaluations
  /\ "primary" \in Models
  /\ None \notin Enrichments /\ None \notin Evaluations /\ None \notin Models
  /\ None \notin Dispositions /\ None \notin States /\ None \notin Answers
  /\ MaxCrashes \in Nat /\ MaxSqlErrors \in Nat

TypeOK ==
  /\ ckpt \in [Threads -> Opt(States)]
  /\ trail \in [Calls -> Seq(Rows)]
  /\ pc \in [Calls -> Working \cup {"waiting", "done", "crashed"}]
  /\ state \in [Calls -> Opt(States)]
  /\ unsaved \in [Calls -> BOOLEAN]
  /\ token \in [Calls -> Opt(Decisions)]
  /\ answer \in [Calls -> Opt(Answers)]
  /\ faults \in [crashes : 0..MaxCrashes, sql : 0..MaxSqlErrors]
  /\ \A c \in Calls :
       /\ pc[c] \in Working <=> state[c] # None
       /\ pc[c] \in {"node", "interrupt", "hook"} => state[c].next # END_

Init ==
  /\ ckpt = [t \in Threads |-> None]
  /\ trail = [c \in Calls |-> <<>>]
  /\ pc = [c \in Calls |-> "waiting"]
  /\ state = [c \in Calls |-> None]
  /\ unsaved = [c \in Calls |-> FALSE]
  /\ token = [c \in Calls |-> None]
  /\ answer = [c \in Calls |-> None]
  /\ faults = [crashes |-> 0, sql |-> 0]

Thread(c) == Payload[c].thread

ThreadIsFree(t) ==
  Overlap \/ \A c \in Calls : Thread(c) = t => pc[c] \notin Working

(* invoke({"alert": ...}): the graph starts at its entry node.  The input  *)
(* is written over the latest state of the thread, whatever that is.       *)
StartRun(c) ==
  LET t == Thread(c)
      old == IF ckpt[t] = None THEN NewThread ELSE ckpt[t]
  IN  /\ pc[c] = "waiting" /\ IsRun(c) /\ ThreadIsFree(t)
      /\ ckpt[t] = None \/ Reuse
      /\ pc' = [pc EXCEPT ![c] = "node"]
      /\ state' = [state EXCEPT ![c] =
           [old EXCEPT !.run = c, !.alert = Payload[c].alert,
                       !.next = "intake", !.parked = FALSE]]
      /\ unsaved' = [unsaved EXCEPT ![c] = TRUE]
      /\ UNCHANGED <<ckpt, trail, token, answer, faults>>

(* Mutant: a resume of a thread at its end goes back to escalate. *)
ResumeReopening(c) ==
  LET t == Thread(c)
  IN  /\ pc[c] = "waiting" /\ ~ IsRun(c) /\ ThreadIsFree(t)
      /\ ckpt[t] # None
      /\ pc' = [pc EXCEPT ![c] = "node"]
      /\ state' = [state EXCEPT ![c] =
           [ckpt[t] EXCEPT !.next = IF @ = END_ THEN "escalate" ELSE @]]
      /\ token' = [token EXCEPT ![c] = Payload[c].decision]
      /\ UNCHANGED <<ckpt, trail, unsaved, answer, faults>>

(* invoke({"resume": ...}): the graph goes on from the latest checkpoint.  *)
(* On a thread that is at its end nothing is left to execute.              *)
Resume(c) ==
  LET t == Thread(c)
  IN  /\ pc[c] = "waiting" /\ ~ IsRun(c) /\ ThreadIsFree(t)
      /\ ckpt[t] # None
      /\ pc' = [pc EXCEPT ![c] = IF ckpt[t].next = END_ THEN "returned" ELSE "node"]
      /\ state' = [state EXCEPT ![c] = ckpt[t]]
      /\ token' = [token EXCEPT ![c] = Payload[c].decision]
      /\ UNCHANGED <<ckpt, trail, unsaved, answer, faults>>

At(c, node) == pc[c] = "node" /\ state[c].next = node

Audit(c, row) == trail' = [trail EXCEPT ![state[c].run] = Append(@, row)]

(* Mutant: the graph has no edge to END. *)
FinishOpenEnded(c, s) ==
  /\ state' = [state EXCEPT ![c] = s]
  /\ pc' = [pc EXCEPT ![c] = "node"]
  /\ unsaved' = [unsaved EXCEPT ![c] = TRUE]
  /\ token' = [token EXCEPT ![c] = None]
  /\ UNCHANGED <<ckpt, answer, faults>>

(* The node has returned: its output is written to the channels, and the   *)
(* resume value, meant for the first node of the call, is dropped.         *)
Finish(c, s) ==
  /\ state' = [state EXCEPT ![c] = s]
  /\ pc' = [pc EXCEPT ![c] = IF s.next = END_ THEN "returned" ELSE "node"]
  /\ unsaved' = [unsaved EXCEPT ![c] = TRUE]
  /\ token' = [token EXCEPT ![c] = None]
  /\ UNCHANGED <<ckpt, answer, faults>>

(* The checkpointer's background thread stores the state reached so far.   *)
Store(c) ==
  /\ pc[c] \in Working /\ unsaved[c]
  /\ ckpt' = [ckpt EXCEPT ![Thread(c)] = state[c]]
  /\ unsaved' = [unsaved EXCEPT ![c] = FALSE]
  /\ UNCHANGED <<trail, pc, state, token, answer, faults>>

-----------------------------------------------------------------------------
(* The nodes, wrapped by compliance_mw/middleware.py: a failure is audited *)
(* and raised again; after dispose the citation check runs.                *)

Intake(c) ==
  /\ At(c, "intake")
  /\ Audit(c, Row(c, "intake", "node_completed"))
  /\ Finish(c, [state[c] EXCEPT !.next = "enrich"])

(* Some of the hits may be found on a list; without hits there are no      *)
(* candidates.                                                             *)
Enrich(c) ==
  /\ At(c, "enrich")
  /\ \E candidates \in BOOLEAN :
       LET alert == state[c].alert
           insufficient == alert.hits /\ (~ candidates \/ ~ alert.dob)
       IN  /\ candidates => alert.hits
           /\ Finish(c, [state[c] EXCEPT
                !.enrichment = [candidates |-> candidates, insufficient |-> insufficient],
                !.next = "retrieve"])
  /\ Audit(c, Row(c, "enrich", "node_completed"))

(* Mutant: retrieve returns without an audit row. *)
SilentRetrieve(c) ==
  /\ At(c, "retrieve")
  /\ Finish(c, [state[c] EXCEPT !.next = "evaluate"])
  /\ UNCHANGED trail

Retrieve(c) ==
  /\ At(c, "retrieve")
  /\ Audit(c, Row(c, "retrieve", "node_completed"))
  /\ Finish(c, [state[c] EXCEPT !.next = "evaluate"])

EvaluateRow(c, model) ==
  [Row(c, "evaluate", "node_completed") EXCEPT !.model = model]

(* The rule overlay.  Its row names the routed model; the channel          *)
(* evaluation_model is not written.                                        *)
EvaluateByRule(c) ==
  /\ At(c, "evaluate") /\ state[c].enrichment.insufficient
  /\ Audit(c, EvaluateRow(c, "primary"))
  /\ Finish(c, [state[c] EXCEPT !.evaluation = Incomplete,
                                !.next = Route(Incomplete)])

EvaluateByModel(c) ==
  /\ At(c, "evaluate") /\ ~ state[c].enrichment.insufficient
  /\ \E m \in Models, v \in Verdicts :
       /\ Audit(c, EvaluateRow(c, m))
       /\ Finish(c, [state[c] EXCEPT !.evaluation = v, !.model = m,
                                     !.next = Route(v)])

(* escalate up to its call of interrupt().  This row is written again each *)
(* time the node is executed again.                                        *)
EscalateRaise(c) ==
  /\ At(c, "escalate")
  /\ Audit(c, Row(c, "escalate", "interrupt_raised"))
  /\ pc' = [pc EXCEPT ![c] = "interrupt"]
  /\ UNCHANGED <<ckpt, state, unsaved, token, answer, faults>>

(* interrupt() has no value to return: the graph stops at this node.       *)
EscalatePark(c) ==
  /\ pc[c] = "interrupt" /\ token[c] = None
  /\ state' = [state EXCEPT ![c].parked = TRUE]
  /\ unsaved' = [unsaved EXCEPT ![c] = TRUE]
  /\ pc' = [pc EXCEPT ![c] = "returned"]
  /\ UNCHANGED <<ckpt, trail, token, answer, faults>>

(* Mutant: the analyst's decision is not audited. *)
SilentResume(c) ==
  /\ pc[c] = "interrupt" /\ token[c] # None
  /\ Finish(c, [state[c] EXCEPT !.decision = token[c], !.parked = FALSE,
                                !.next = "dispose"])
  /\ UNCHANGED trail

(* Mutant: the decision is audited and not returned. *)
ForgetfulResume(c) ==
  /\ pc[c] = "interrupt" /\ token[c] # None
  /\ Audit(c, [Row(c, "escalate", "resumed") EXCEPT !.decision = token[c]])
  /\ Finish(c, [state[c] EXCEPT !.parked = FALSE, !.next = "dispose"])

EscalateResume(c) ==
  /\ pc[c] = "interrupt" /\ token[c] # None
  /\ Audit(c, [Row(c, "escalate", "resumed") EXCEPT !.decision = token[c]])
  /\ Finish(c, [state[c] EXCEPT !.decision = token[c], !.parked = FALSE,
                                !.next = "dispose"])

Book(c) ==
  /\ At(c, "dispose") /\ Consistent(state[c])
  /\ Audit(c, [Row(c, "dispose", "disposition") EXCEPT
                 !.disposition = DispositionOf(state[c])])
  /\ pc' = [pc EXCEPT ![c] = "hook"]
  /\ UNCHANGED <<ckpt, state, unsaved, token, answer, faults>>

Raise(c) ==
  /\ pc' = [pc EXCEPT ![c] = "raised"]
  /\ UNCHANGED <<ckpt, state, unsaved, token, answer>>

(* The model validator of Disposition refuses.                             *)
BookInvalid(c) ==
  /\ At(c, "dispose") /\ ~ Consistent(state[c])
  /\ Audit(c, Row(c, "dispose", "node_failed"))
  /\ Raise(c)
  /\ UNCHANGED faults

(* Mutant: the hook looks at nothing. *)
HookAlwaysPasses(c) ==
  /\ pc[c] = "hook"
  /\ Finish(c, [state[c] EXCEPT !.disposition = DispositionOf(state[c]),
                                !.next = END_])
  /\ UNCHANGED trail

HookPass(c) ==
  /\ pc[c] = "hook" /\ ~ CitationMissing(DispositionOf(state[c]))
  /\ Finish(c, [state[c] EXCEPT !.disposition = DispositionOf(state[c]),
                                !.next = END_])
  /\ UNCHANGED trail

(* Mutant: the refusal is audited and not raised. *)
HookBlockAndBook(c) ==
  /\ pc[c] = "hook" /\ CitationMissing(DispositionOf(state[c]))
  /\ Audit(c, Row(c, "dispose", "compliance_blocked"))
  /\ Finish(c, [state[c] EXCEPT !.disposition = DispositionOf(state[c]),
                                !.next = END_])

HookBlock(c) ==
  /\ pc[c] = "hook" /\ CitationMissing(DispositionOf(state[c]))
  /\ Audit(c, Row(c, "dispose", "compliance_blocked"))
  /\ pc' = [pc EXCEPT ![c] = "blocked"]
  /\ UNCHANGED <<ckpt, state, unsaved, token, answer, faults>>

(* Mutant: a failure is raised again and not audited. *)
SilentNodeFails(c) ==
  /\ \/ At(c, "enrich") \/ At(c, "retrieve")
     \/ At(c, "evaluate") /\ ~ state[c].enrichment.insufficient
  /\ Raise(c)
  /\ UNCHANGED <<trail, faults>>

(* A service of the node fails: an adapter, the embedder, the vector       *)
(* store, the models; or a guardrail refuses the prompt or the answer.     *)
NodeFails(c) ==
  /\ \/ At(c, "enrich") \/ At(c, "retrieve")
     \/ At(c, "evaluate") /\ ~ state[c].enrichment.insufficient
  /\ Audit(c, Row(c, state[c].next, "node_failed"))
  /\ Raise(c)
  /\ UNCHANGED faults

(* A statement of a node (or of the hook) fails on the audit connection.   *)
(* The transaction is not rolled back, so the INSERT of the node_failed    *)
(* row is refused as well, and what is raised is that refusal.             *)
SqlFails(c) ==
  /\ faults.sql < MaxSqlErrors /\ faults.crashes + faults.sql < MaxFaults
  /\ \/ pc[c] = "node"
     \/ pc[c] = "interrupt" /\ token[c] # None
     \/ pc[c] = "hook" /\ CitationMissing(DispositionOf(state[c]))
  /\ Raise(c)
  /\ faults' = [faults EXCEPT !.sql = @ + 1]
  /\ UNCHANGED trail

-----------------------------------------------------------------------------
(* The end of a call                                                       *)

(* What invoke makes of get_state(): an interrupt is pending, or there     *)
(* must be a disposition (else snapshot.values[...] raises a KeyError).    *)
AnswerFrom(s) ==
  IF s.parked THEN [status |-> "escalated", disposition |-> None]
  ELSE IF s.disposition = None THEN [status |-> "error", disposition |-> None]
  ELSE [status |-> "disposed", disposition |-> s.disposition]

(* The graph hands over only when its checkpoints are stored.              *)
Respond(c) ==
  /\ pc[c] \in {"returned", "raised", "blocked"} /\ ~ unsaved[c]
  /\ answer' = [answer EXCEPT ![c] =
       CASE pc[c] = "raised"   -> [status |-> "error", disposition |-> None]
         [] pc[c] = "blocked"  -> [status |-> "blocked", disposition |-> None]
         [] pc[c] = "returned" -> AnswerFrom(ckpt[Thread(c)])]
  /\ pc' = [pc EXCEPT ![c] = "done"]
  /\ state' = [state EXCEPT ![c] = None]
  /\ token' = [token EXCEPT ![c] = None]
  /\ UNCHANGED <<ckpt, trail, unsaved, faults>>

Crash(c) ==
  /\ faults.crashes < MaxCrashes /\ faults.crashes + faults.sql < MaxFaults
  /\ pc[c] \in Working
  /\ pc' = [pc EXCEPT ![c] = "crashed"]
  /\ state' = [state EXCEPT ![c] = None]
  /\ unsaved' = [unsaved EXCEPT ![c] = FALSE]
  /\ token' = [token EXCEPT ![c] = None]
  /\ faults' = [faults EXCEPT !.crashes = @ + 1]
  /\ UNCHANGED <<ckpt, trail, answer>>

(* What a live process goes on to do.                                      *)
Step(c) ==
  \/ Intake(c)
  \/ Enrich(c)
  \/ Retrieve(c)
  \/ EvaluateByRule(c)
  \/ EvaluateByModel(c)
  \/ EscalateRaise(c)
  \/ EscalatePark(c)
  \/ EscalateResume(c)
  \/ Book(c)
  \/ BookInvalid(c)
  \/ HookPass(c)
  \/ HookBlock(c)
  \/ NodeFails(c)
  \/ Store(c)
  \/ Respond(c)

Next ==
  \E c \in Calls :
    \/ StartRun(c)
    \/ Resume(c)
    \/ Step(c)
    \/ SqlFails(c)
    \/ Crash(c)

Spec == Init /\ [][Next]_vars

(* A process that does not die goes on.  No call has to be made.           *)
FairSpec == Spec /\ \A c \in Calls : WF_vars(Step(c))

-----------------------------------------------------------------------------
(* Properties                                                              *)

Closed(s) == s # None /\ s.next = END_

Booked == {t \in Threads : Closed(ckpt[t])}

RowsOf(c) == {trail[c][n] : n \in DOMAIN trail[c]}

(* The last row of run c that is of interest.                              *)
IsLastRow(c, n, Interesting(_)) ==
  /\ n \in DOMAIN trail[c] /\ Interesting(trail[c][n])
  /\ \A k \in DOMAIN trail[c] : Interesting(trail[c][k]) => k <= n

Position(node) ==
  CASE node = "intake"   -> 1
    [] node = "enrich"   -> 2
    [] node = "retrieve" -> 3
    [] node = "evaluate" -> 4
    [] node = "escalate" -> 5
    [] node = "dispose"  -> 6
    [] node = END_       -> 7

(* The audit trail is ahead of the checkpoints: whatever step a thread has *)
(* behind it, its run has a row of that step, also when the process died   *)
(* (nodes.py: each node audits before it returns; ADR-001, "Re-execution   *)
(* of a step whose checkpoint was lost").                                  *)
EveryStepOnRecord ==
  \A t \in Threads : ckpt[t] # None =>
    \A node \in NodeNames \ {"escalate"} :
      Position(node) < Position(ckpt[t].next) =>
        \E row \in RowsOf(ckpt[t].run) :
          row.step = node /\ row.event \in {"node_completed", "disposition"}

(* The booked disposition is the one that the run's last disposition row   *)
(* shows, and that row was not taken back by the citation check.           *)
BookedAsAudited ==
  \A t \in Booked :
    LET r == ckpt[t].run
        Final(row) == row.event \in {"disposition", "compliance_blocked"}
    IN  \E n \in DOMAIN trail[r] :
          /\ IsLastRow(r, n, Final)
          /\ trail[r][n].disposition = ckpt[t].disposition

(* A match is booked only by a decision that an analyst made in the run    *)
(* that books it (routing.py: "a candidate true match is always confirmed  *)
(* by a human before it is booked").                                       *)
TrueMatchConfirmedByHuman ==
  \A t \in Booked :
    ckpt[t].disposition.disposition = "true_match" =>
      \E row \in RowsOf(ckpt[t].run) :
        row.event = "resumed" /\ row.decision = ckpt[t].disposition.decision

(* The agent's disposition names the model that the last evaluation of the *)
(* run was audited with (ADR-004: "so the Disposition and the audit row    *)
(* agree after a fallback").                                               *)
DispositionNamesTheModelAudited ==
  \A t \in Booked : ckpt[t].decision = None =>
    LET r == ckpt[t].run
        Evaluated(row) == row.step = "evaluate" /\ row.event = "node_completed"
    IN  \E n \in DOMAIN trail[r] :
          /\ IsLastRow(r, n, Evaluated)
          /\ trail[r][n].model = ckpt[t].disposition.model

(* A thread that has reached escalate leaves it with an analyst's decision *)
(* that is on record in its run, whatever crashes or calls come between.   *)
EscalationLeavesOnlyByDecision ==
  [][\A t \in Threads :
       /\ ckpt[t] # None /\ ckpt[t].next = "escalate"
       /\ ckpt'[t].run = ckpt[t].run /\ ckpt'[t].next # "escalate"
       => /\ ckpt'[t].decision # None
          /\ \E n \in DOMAIN trail'[ckpt[t].run] :
               LET row == trail'[ckpt[t].run][n]
               IN  row.event = "resumed" /\ row.decision = ckpt'[t].decision]_vars

(* What the agent books alone is what the policy lets it finalize          *)
(* (routing.py: "safe for the agent to finalize when it is confident       *)
(* enough"), also on a thread that an earlier run has used.                *)
AgentBooksOnlyConfidentSafe ==
  \A t \in Booked : ckpt[t].disposition.decision = None =>
    /\ ckpt[t].disposition.disposition \in AGENT_TERMINAL
    /\ ckpt[t].evaluation.confident
    /\ ckpt[t].disposition.disposition = ckpt[t].evaluation.recommended

(* An assertion about the subject is never booked without evidence, and a  *)
(* thread whose disposition was refused is not closed by calling again     *)
(* (citation.py).                                                          *)
UncitedNeverBooked ==
  \A t \in Booked : ~ CitationMissing(ckpt[t].disposition)

(* A caller that got an error or a refusal can find the reason on record,  *)
(* under its own call (ADR-002: the wrapper writes event="node_failed"     *)
(* before re-raising).                                                     *)
FailureOnRecord ==
  \A c \in Calls : pc[c] = "done" =>
    \A reason \in {<<"error", "node_failed">>, <<"blocked", "compliance_blocked">>} :
      answer[c].status = reason[1] =>
        \E run \in Calls : \E row \in RowsOf(run) :
          row.by = c /\ row.event = reason[2]

(* While a run is the latest of its thread, the disposition it has booked  *)
(* stays (disposition.py: "Immutable decision record").                    *)
DispositionIsFinal ==
  [][\A t \in Booked :
       ckpt'[t].run = ckpt[t].run => ckpt'[t].disposition = ckpt[t].disposition]_vars

(* Would the decision, written to this state, be booked?                   *)
Acceptable(s, d) ==
  LET decided == [s EXCEPT !.decision = d]
  IN  Consistent(decided) /\ ~ CitationMissing(DispositionOf(decided))

Brings(c, node) ==
  /\ At(c, node) /\ token[c] # None
  /\ Acceptable(state[c], token[c])

Stopped(c) == pc[c] = "crashed" \/ (pc[c] = "raised" /\ faults.sql > 0)

(* An analyst's acceptable decision closes the alert that waits for it,    *)
(* whatever other decisions are offered, unless the process dies or its    *)
(* audit connection fails.                                                 *)
DecisionClosesEscalation ==
  \A c \in Calls : Brings(c, "escalate") ~> (Thread(c) \in Booked \/ Stopped(c))

(* An acceptable decision closes an alert whatever was decided before      *)
(* (contract.py: "close an escalated alert").                              *)
ResumeClosesEscalation ==
  \A c \in Calls :
    Brings(c, "escalate") \/ Brings(c, "dispose")
      ~> (Thread(c) \in Booked \/ Stopped(c))

=============================================================================
