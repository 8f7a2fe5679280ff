-------------------------- MODULE ScreeningProofs --------------------------
(***************************************************************************)
(* Proofs about Screening, for all calls, alerts, decisions, models and    *)
(* verdicts, any number of crashes and SQL errors, and calls that overlap: *)
(* what the audit trail and the policy guarantee of a thread's state,      *)
(* wherever a process dies.                                                *)
(***************************************************************************)
EXTENDS Screening, TLAPS

-----------------------------------------------------------------------------
(* The invariant                                                           *)

(* What the channels hold by the time a node is next.                      *)
Filled(s) ==
  /\ s.next \in {"retrieve", "evaluate", "escalate", "dispose", END_} => s.enrichment # None
  /\ s.next \in {"escalate", "dispose", END_} => s.evaluation # None
  /\ s.next \in {"dispose", END_} => s.decision # None \/ Route(s.evaluation) = "dispose"
  /\ s.next = END_ => /\ s.disposition = DispositionOf(s)
                      /\ ~ CitationMissing(DispositionOf(s))

Done(node, r) ==
  \E row \in RowsOf(r) : row.step = node /\ row.event \in {"node_completed", "disposition"}

OnRecord(s) ==
  \A node \in NodeNames \ {"escalate"} :
    Position(node) < Position(s.next) => Done(node, s.run)

(* On a thread of its own, the decision a run has is one made in it.       *)
Decided(s) ==
  ~ Reuse /\ s.decision # None =>
    \E row \in RowsOf(s.run) : row.event = "resumed" /\ row.decision = s.decision

Sound(s) == Filled(s) /\ OnRecord(s) /\ Decided(s)

Within(p, s) ==
  /\ p = "interrupt" => s.next = "escalate"
  /\ p = "hook" => s.next = "dispose" /\ Done("dispose", s.run)

(* Who has nothing left to store has a checkpoint.                         *)
Kept(c) == pc[c] \in Working => unsaved[c] \/ ckpt[Thread(c)] # None

ScreenInv ==
  /\ TypeOK
  /\ \A t \in Threads : ckpt[t] # None => Sound(ckpt[t])
  /\ \A c \in Calls : state[c] # None => Sound(state[c]) /\ Within(pc[c], state[c])
  /\ \A c \in Calls : Kept(c)

-----------------------------------------------------------------------------
(* Data                                                                    *)

LEMMA Nothing ==
  /\ None \notin States /\ None \notin Decisions /\ None \notin Models
  /\ None \notin Enrichments /\ None \notin Evaluations /\ None \notin Dispositions
  /\ None \notin Answers
BY ScreeningAssumption DEF Decisions

LEMMA ThreadOf == ASSUME NEW c \in Calls PROVE Thread(c) \in Threads
BY DEF Thread, Threads

LEMMA RowIsRow ==
  ASSUME NEW c \in Calls, NEW node \in NodeNames,
         NEW event \in {"node_completed", "node_failed", "interrupt_raised", "resumed",
                        "disposition", "compliance_blocked"}
  PROVE  /\ Row(c, node, event) \in Rows
         /\ \A m \in Opt(Models) : [Row(c, node, event) EXCEPT !.model = m] \in Rows
         /\ \A d \in Opt(Decisions) : [Row(c, node, event) EXCEPT !.decision = d] \in Rows
         /\ \A d \in Opt(Dispositions) :
              [Row(c, node, event) EXCEPT !.disposition = d] \in Rows
<1>1. None \in Opt(Models) /\ None \in Opt(Decisions) /\ None \in Opt(Dispositions)
  BY DEF Opt
<1> QED BY <1>1 DEF Row, Rows

(* An audit row adds to what is on record.                                 *)
LEMMA AuditAdds ==
  ASSUME TypeOK, NEW c \in Calls, NEW q \in Calls, q = state[c].run,
         NEW row \in Rows, Audit(c, row)
  PROVE  /\ trail' \in [Calls -> Seq(Rows)]
         /\ \A r \in Calls : RowsOf(r) \subseteq RowsOf(r)'
         /\ row \in RowsOf(q)'
<1>1. trail \in [Calls -> Seq(Rows)] /\ trail' = [trail EXCEPT ![q] = Append(trail[q], row)]
  BY DEF TypeOK, Audit
<1>2. trail[q] \in Seq(Rows) /\ Append(trail[q], row) \in Seq(Rows)
  BY <1>1
<1>3. trail' \in [Calls -> Seq(Rows)]
  BY <1>1, <1>2
<1>4. /\ DOMAIN trail'[q] = 1..(Len(trail[q]) + 1)
      /\ \A n \in DOMAIN trail[q] : n \in DOMAIN trail'[q] /\ trail'[q][n] = trail[q][n]
      /\ trail'[q][Len(trail[q]) + 1] = row
      /\ Len(trail[q]) \in Nat
  BY <1>1, <1>2
<1>5. \A r \in Calls : r # q => trail'[r] = trail[r]
  BY <1>1
<1>6. \A r \in Calls : RowsOf(r) \subseteq RowsOf(r)'
  BY <1>4, <1>5 DEF RowsOf
<1>7. row \in RowsOf(q)'
  BY <1>4 DEF RowsOf
<1> QED BY <1>3, <1>6, <1>7

(* The channels of a thread's state.                                       *)
LEMMA StateFields ==
  ASSUME NEW s \in States
  PROVE  /\ s.run \in Calls /\ s.alert \in Alerts
         /\ s.next \in NodeNames \cup {END_} /\ s.parked \in BOOLEAN
         /\ s.enrichment \in Opt(Enrichments) /\ s.evaluation \in Opt(Evaluations)
         /\ s.model \in Opt(Models) /\ s.decision \in Opt(Decisions)
         /\ s.disposition \in Opt(Dispositions) /\ s # None
BY Nothing DEF States

LEMMA Positions ==
  /\ Position("intake") = 1 /\ Position("enrich") = 2 /\ Position("retrieve") = 3
  /\ Position("evaluate") = 4 /\ Position("escalate") = 5 /\ Position("dispose") = 6
  /\ Position(END_) = 7
BY DEF Position, END_

(* What is due at dispose can be computed.                                 *)
LEMMA DispositionIs ==
  ASSUME NEW s \in States, Filled(s), s.next \in {"dispose", END_}
  PROVE  DispositionOf(s) \in Dispositions
<1>1. s.evaluation \in Evaluations /\ s.enrichment \in Enrichments
  BY StateFields DEF Filled, Opt
<1>2. s.evaluation.recommended \in Types /\ s.evaluation.cited \in BOOLEAN
      /\ s.enrichment.candidates \in BOOLEAN
  BY <1>1 DEF Evaluations, Enrichments
<1>3. s.decision # None => s.decision.resolution \in Types
  BY StateFields, ScreeningAssumption DEF Opt
<1>4. Cited(s) \in BOOLEAN
  BY <1>2 DEF Cited
<1> QED BY <1>2, <1>3, <1>4, StateFields, ScreeningAssumption
        DEF DispositionOf, Dispositions, Opt

-----------------------------------------------------------------------------
(* A step changes the state of one call, and that state is sound           *)

LEMMA RecordGrows ==
  ASSUME \A r \in Calls : RowsOf(r) \subseteq RowsOf(r)',
         NEW s \in States
  PROVE  /\ OnRecord(s) => OnRecord(s)'
         /\ Decided(s) => Decided(s)'
         /\ \A p : Within(p, s) => Within(p, s)'
BY StateFields DEF OnRecord, Decided, Within, Done

LEMMA Becomes ==
  ASSUME ScreenInv, TypeOK', NEW c \in Calls, ckpt' = ckpt,
         \A d \in Calls \ {c} :
           state'[d] = state[d] /\ pc'[d] = pc[d] /\ unsaved'[d] = unsaved[d],
         \A r \in Calls : RowsOf(r) \subseteq RowsOf(r)',
         (state[c] # None => Sound(state[c]) /\ Within(pc[c], state[c]))',
         Kept(c)'
  PROVE  ScreenInv'
<1>1. ASSUME NEW t \in Threads, ckpt[t] # None PROVE Sound(ckpt[t])'
  <2>1. ckpt[t] \in States /\ Sound(ckpt[t])
    BY <1>1 DEF ScreenInv, TypeOK, Opt
  <2> QED BY <2>1, RecordGrows DEF Sound, Filled
<1>2. ASSUME NEW d \in Calls \ {c}, state[d] # None
      PROVE (Sound(state[d]) /\ Within(pc[d], state[d]))'
  <2>1. state[d] \in States /\ Sound(state[d]) /\ Within(pc[d], state[d])
    BY <1>2 DEF ScreenInv, TypeOK, Opt
  <2> QED BY <2>1, RecordGrows DEF Sound, Filled
<1>3. ASSUME NEW d \in Calls \ {c} PROVE Kept(d)'
  BY DEF ScreenInv, Kept, Thread
<1> QED BY <1>1, <1>2, <1>3 DEF ScreenInv

(* A call that works has a state, and so have those that are at a node.    *)
LEMMA WorksOn ==
  ASSUME ScreenInv, NEW c \in Calls, pc[c] \in Working
  PROVE  /\ state[c] \in States /\ Sound(state[c]) /\ Within(pc[c], state[c])
         /\ pc[c] \in {"node", "interrupt", "hook"} => state[c].next \in NodeNames
<1>1. state[c] \in States /\ Sound(state[c]) /\ Within(pc[c], state[c])
  BY DEF ScreenInv, TypeOK, Opt
<1> QED BY <1>1, StateFields DEF ScreenInv, TypeOK

(* A call whose state moves on.                                            *)
LEMMA MoveStep ==
  ASSUME ScreenInv, NEW c \in Calls, pc[c] \in Working,
         NEW s \in States, s.run = state[c].run, Filled(s),
         NEW p \in {"node", "returned"}, p = "node" => s.next # END_,
         state' = [state EXCEPT ![c] = s],
         pc' = [pc EXCEPT ![c] = p],
         unsaved' = [unsaved EXCEPT ![c] = TRUE],
         token' \in [Calls -> Opt(Decisions)],
         UNCHANGED <<ckpt, answer, faults>>,
         trail' \in [Calls -> Seq(Rows)],
         \A r \in Calls : RowsOf(r) \subseteq RowsOf(r)',
         \A node \in NodeNames \ {"escalate"} :
           Position(node) < Position(s.next) =>
             Position(node) < Position(state[c].next) \/ Done(node, s.run)',
         s.decision = state[c].decision \/ Decided(s)'
  PROVE  ScreenInv'
<1>1. state[c] \in States /\ Sound(state[c])
  BY WorksOn
<1>2. /\ state' \in [Calls -> Opt(States)] /\ state'[c] = s /\ s # None
      /\ pc' \in [Calls -> Working \cup {"waiting", "done", "crashed"}]
      /\ pc'[c] = p /\ p \in Working
      /\ p \in {"node", "interrupt", "hook"} => s.next # END_
      /\ unsaved' \in [Calls -> BOOLEAN] /\ unsaved'[c]
      /\ \A d \in Calls \ {c} :
           state'[d] = state[d] /\ pc'[d] = pc[d] /\ unsaved'[d] = unsaved[d]
  BY StateFields DEF ScreenInv, TypeOK, Opt, Working
<1>3. TypeOK'
  BY <1>2 DEF ScreenInv, TypeOK
<1>4. OnRecord(s)'
  BY <1>1, RecordGrows, StateFields DEF OnRecord, Sound, Done
<1>5. Decided(s)'
  <2>1. CASE s.decision = state[c].decision
    BY <1>1, <2>1, StateFields DEF Decided, Sound
  <2> QED BY <2>1
<1>6. (Sound(state[c]) /\ Within(pc[c], state[c]))'
  BY <1>2, <1>4, <1>5 DEF Sound, Within, Filled, OnRecord, Decided
<1>7. Kept(c)'
  BY <1>2 DEF Kept
<1> QED BY <1>2, <1>3, <1>6, <1>7, Becomes

LEMMA FinishMoves ==
  ASSUME ScreenInv, NEW c \in Calls, NEW s, Finish(c, s)
  PROVE  \E p \in {"node", "returned"} :
           /\ p = "node" => s.next # END_
           /\ state' = [state EXCEPT ![c] = s]
           /\ pc' = [pc EXCEPT ![c] = p]
           /\ unsaved' = [unsaved EXCEPT ![c] = TRUE]
           /\ token' \in [Calls -> Opt(Decisions)]
           /\ UNCHANGED <<ckpt, answer, faults>>
<1> PICK p \in {"node", "returned"} : p = IF s.next = END_ THEN "returned" ELSE "node"
  OBVIOUS
<1>1. token' \in [Calls -> Opt(Decisions)]
  BY DEF Finish, ScreenInv, TypeOK, Opt
<1>2. p = "node" => s.next # END_
  OBVIOUS
<1>3. pc' = [pc EXCEPT ![c] = p]
  BY DEF Finish
<1> QED BY <1>1, <1>2, <1>3 DEF Finish

(* A call that goes on with the state it has.                              *)
LEMMA WaitStep ==
  ASSUME ScreenInv, NEW c \in Calls, pc[c] \in {"node", "interrupt", "hook"},
         UNCHANGED <<ckpt, state, unsaved, token, answer>>,
         NEW p \in {"interrupt", "hook", "raised", "blocked"},
         pc' = [pc EXCEPT ![c] = p],
         faults' \in [crashes : 0..MaxCrashes, sql : 0..MaxSqlErrors],
         trail' \in [Calls -> Seq(Rows)],
         \A r \in Calls : RowsOf(r) \subseteq RowsOf(r)',
         NEW q, q = state[c], Within(p, q)'
  PROVE  ScreenInv'
<1>1. pc[c] \in Working
  BY DEF Working
<1>2. q \in States /\ Sound(q) /\ q.next # END_ /\ q # None
  BY <1>1, WorksOn, Nothing DEF NodeNames, END_
<1>3. /\ pc' \in [Calls -> Working \cup {"waiting", "done", "crashed"}]
      /\ pc'[c] = p /\ p \in Working
      /\ \A d \in Calls \ {c} : state'[d] = state[d] /\ pc'[d] = pc[d]
  BY DEF ScreenInv, TypeOK, Working
<1>4. TypeOK'
  BY <1>2, <1>3 DEF ScreenInv, TypeOK
<1>5. Sound(q)'
  BY <1>2, RecordGrows DEF Sound, Filled
<1>6. (Sound(state[c]) /\ Within(pc[c], state[c]))'
  BY <1>3, <1>5
<1>7. Kept(c)'
  BY <1>1 DEF ScreenInv, Kept, Thread
<1> QED BY <1>3, <1>4, <1>6, <1>7, Becomes

(* A call that ends.                                                       *)
LEMMA LeaveStep ==
  ASSUME ScreenInv, NEW c \in Calls, pc[c] \in Working,
         UNCHANGED <<ckpt, trail>>,
         NEW p \in {"done", "crashed"},
         pc' = [pc EXCEPT ![c] = p],
         state' = [state EXCEPT ![c] = None],
         unsaved' \in [Calls -> BOOLEAN],
         \A d \in Calls \ {c} : unsaved'[d] = unsaved[d],
         token' = [token EXCEPT ![c] = None],
         answer' \in [Calls -> Opt(Answers)],
         faults' \in [crashes : 0..MaxCrashes, sql : 0..MaxSqlErrors]
  PROVE  ScreenInv'
<1>1. /\ pc' \in [Calls -> Working \cup {"waiting", "done", "crashed"}]
      /\ pc'[c] = p /\ p \notin Working /\ state'[c] = None
      /\ state' \in [Calls -> Opt(States)]
      /\ token' \in [Calls -> Opt(Decisions)]
      /\ \A d \in Calls \ {c} : state'[d] = state[d] /\ pc'[d] = pc[d]
  BY DEF ScreenInv, TypeOK, Working, Opt
<1>2. TypeOK'
  <2>1. p \notin {"node", "interrupt", "hook"}
    BY DEF Working
  <2> QED BY <1>1, <2>1 DEF ScreenInv, TypeOK
<1>3. \A r \in Calls : RowsOf(r) \subseteq RowsOf(r)'
  BY DEF RowsOf
<1>4. Kept(c)'
  BY <1>1 DEF Kept
<1> QED BY <1>1, <1>2, <1>3, <1>4, Becomes

-----------------------------------------------------------------------------
(* Every step keeps the invariant                                          *)

LEMMA InvInit == Init => ScreenInv
<1> SUFFICES ASSUME Init PROVE ScreenInv
  OBVIOUS
<1>1. "waiting" \notin Working /\ "waiting" \notin {"node", "interrupt", "hook"}
  BY DEF Working
<1>2. \A c \in Calls : <<>> \in Seq(Rows)
  OBVIOUS
<1>3. TypeOK
  BY <1>1, <1>2, ScreeningAssumption DEF Init, TypeOK, Opt
<1> QED BY <1>1, <1>3 DEF Init, ScreenInv, Kept

LEMMA StartRunKeeps ==
  ASSUME ScreenInv, NEW c \in Calls, StartRun(c)
  PROVE  ScreenInv'
<1> PICK old, s :
      /\ old = IF ckpt[Thread(c)] = None THEN NewThread ELSE ckpt[Thread(c)]
      /\ s = [old EXCEPT !.run = c, !.alert = Payload[c].alert,
                         !.next = "intake", !.parked = FALSE]
  OBVIOUS
<1>1. /\ ckpt[Thread(c)] = None \/ Reuse
      /\ pc' = [pc EXCEPT ![c] = "node"]
      /\ state' = [state EXCEPT ![c] = s]
      /\ unsaved' = [unsaved EXCEPT ![c] = TRUE]
      /\ UNCHANGED <<ckpt, trail, token, answer, faults>>
  BY DEF StartRun
<1>2. Payload[c].alert \in Alerts
  BY DEF StartRun, IsRun, Alerts
<1>3. ckpt[Thread(c)] # None => ckpt[Thread(c)] \in States
  BY ThreadOf DEF ScreenInv, TypeOK, Opt
<1>4. s \in States /\ s.next = "intake" /\ (~ Reuse => s.decision = None)
  <2>1. CASE ckpt[Thread(c)] = None
    BY <1>2, <2>1 DEF NewThread, States, Opt, NodeNames
  <2>2. CASE ckpt[Thread(c)] # None
    BY <1>1, <1>2, <1>3, <2>2 DEF States, NodeNames
  <2> QED BY <2>1, <2>2
<1>5. Sound(s)'
  <2>1. Filled(s)
    BY <1>4 DEF Filled, END_
  <2>2. OnRecord(s)'
    BY <1>4, Positions DEF OnRecord, NodeNames
  <2>3. Decided(s)'
    BY <1>4 DEF Decided
  <2> QED BY <2>1, <2>2, <2>3 DEF Sound, Filled
<1>6. /\ pc' \in [Calls -> Working \cup {"waiting", "done", "crashed"}]
      /\ state' \in [Calls -> Opt(States)] /\ unsaved' \in [Calls -> BOOLEAN]
      /\ pc'[c] = "node" /\ state'[c] = s /\ s # None /\ "node" \in Working
      /\ s.next # END_ /\ unsaved'[c]
      /\ \A d \in Calls \ {c} :
           state'[d] = state[d] /\ pc'[d] = pc[d] /\ unsaved'[d] = unsaved[d]
  BY <1>1, <1>4, Nothing DEF ScreenInv, TypeOK, Working, Opt, END_
<1>7. TypeOK'
  BY <1>1, <1>6 DEF ScreenInv, TypeOK
<1>8. (Sound(state[c]) /\ Within(pc[c], state[c]))'
  BY <1>5, <1>6 DEF Within
<1>9. \A r \in Calls : RowsOf(r) \subseteq RowsOf(r)'
  BY <1>1 DEF RowsOf
<1>10. Kept(c)'
  BY <1>6 DEF Kept
<1> QED BY <1>1, <1>6, <1>7, <1>8, <1>9, <1>10, Becomes

LEMMA ResumeKeeps ==
  ASSUME ScreenInv, NEW c \in Calls, Resume(c)
  PROVE  ScreenInv'
<1> PICK s : s = ckpt[Thread(c)]
  OBVIOUS
<1> PICK p \in {"returned", "node"} : p = IF s.next = END_ THEN "returned" ELSE "node"
  OBVIOUS
<1>1. /\ s # None
      /\ pc' = [pc EXCEPT ![c] = p]
      /\ state' = [state EXCEPT ![c] = s]
      /\ token' = [token EXCEPT ![c] = Payload[c].decision]
      /\ UNCHANGED <<ckpt, trail, unsaved, answer, faults>>
  BY DEF Resume
<1>2. Payload[c].decision \in Decisions
  BY ScreeningAssumption DEF Resume, IsRun, Decisions
<1>3. s \in States /\ Sound(s)
  BY <1>1, ThreadOf DEF ScreenInv, TypeOK, Opt
<1>4. /\ pc' \in [Calls -> Working \cup {"waiting", "done", "crashed"}]
      /\ state' \in [Calls -> Opt(States)] /\ token' \in [Calls -> Opt(Decisions)]
      /\ pc'[c] = p /\ state'[c] = s /\ p \in Working
      /\ p \in {"node", "interrupt", "hook"} => s.next # END_
      /\ \A d \in Calls \ {c} : state'[d] = state[d] /\ pc'[d] = pc[d]
  BY <1>1, <1>2, <1>3 DEF ScreenInv, TypeOK, Working, Opt
<1>5. TypeOK'
  BY <1>1, <1>4 DEF ScreenInv, TypeOK
<1>6. \A r \in Calls : RowsOf(r) \subseteq RowsOf(r)'
  BY <1>1 DEF RowsOf
<1>7. Sound(s)' /\ Within(p, s)
  BY <1>3, <1>6, RecordGrows DEF Sound, Filled, Within
<1>8. (Sound(state[c]) /\ Within(pc[c], state[c]))'
  BY <1>4, <1>7 DEF Within
<1>9. Kept(c)'
  BY <1>1 DEF Kept, Thread
<1> QED BY <1>1, <1>4, <1>5, <1>6, <1>8, <1>9, Becomes

LEMMA StoreKeeps ==
  ASSUME ScreenInv, NEW c \in Calls, Store(c)
  PROVE  ScreenInv'
<1>1. state[c] \in States /\ Sound(state[c])
  BY WorksOn DEF Store
<1>2. TypeOK'
  BY <1>1, ThreadOf DEF Store, ScreenInv, TypeOK, Opt
<1>3. \A t \in Threads : ckpt'[t] = ckpt[t] \/ ckpt'[t] = state[c]
  BY ThreadOf DEF Store, ScreenInv, TypeOK
<1>4. \A s : (Sound(s)' <=> Sound(s)) /\ (\A p : Within(p, s)' <=> Within(p, s))
  BY DEF Store, Sound, Filled, OnRecord, Decided, Within, Done, RowsOf
<1>5. state' = state /\ pc' = pc
  BY DEF Store
<1>6. ASSUME NEW t \in Threads, ckpt'[t] # None PROVE Sound(ckpt[t])'
  BY <1>1, <1>3, <1>4, <1>6 DEF ScreenInv
<1>7. ASSUME NEW d \in Calls, state'[d] # None
      PROVE  (Sound(state[d]) /\ Within(pc[d], state[d]))'
  BY <1>4, <1>5, <1>7 DEF ScreenInv
<1>8. ASSUME NEW d \in Calls PROVE Kept(d)'
  <2>1. ckpt[Thread(d)] # None => ckpt'[Thread(d)] # None
    BY <1>1, <1>3, StateFields, ThreadOf
  <2>2. ckpt'[Thread(c)] # None
    BY <1>1, StateFields, ThreadOf DEF Store, ScreenInv, TypeOK
  <2>3. d # c => unsaved'[d] = unsaved[d] /\ pc' = pc
    BY DEF Store
  <2> QED BY <2>1, <2>2, <2>3 DEF Kept, ScreenInv, Thread
<1> QED BY <1>2, <1>6, <1>7, <1>8 DEF ScreenInv

(* A node that is at its place, with the row it leaves, and what comes     *)
(* next: only the node it was at is newly behind it.                       *)
LEMMA AtNode ==
  ASSUME ScreenInv, NEW c \in Calls, NEW node, At(c, node)
  PROVE  /\ pc[c] \in Working /\ pc[c] = "node" /\ node \in NodeNames
         /\ state[c] \in States /\ state[c].next = node /\ Sound(state[c])
BY WorksOn DEF At, Working

(* intake, enrich, retrieve and evaluate finish with a row node_completed. *)
LEMMA CompleteStep ==
  ASSUME ScreenInv, NEW c \in Calls, NEW node \in {"intake", "enrich", "retrieve", "evaluate"},
         At(c, node), NEW row \in Rows, row.step = node, row.event = "node_completed",
         Audit(c, row), NEW s \in States, Finish(c, s), Filled(s),
         s.run = state[c].run, s.decision = state[c].decision,
         <<node, s.next>> \in {<<"intake", "enrich">>, <<"enrich", "retrieve">>,
                               <<"retrieve", "evaluate">>, <<"evaluate", "escalate">>,
                               <<"evaluate", "dispose">>}
  PROVE  ScreenInv'
<1>1. /\ trail' \in [Calls -> Seq(Rows)]
      /\ \A r \in Calls : RowsOf(r) \subseteq RowsOf(r)'
      /\ row \in RowsOf(s.run)'
  BY AuditAdds, StateFields DEF ScreenInv
<1>2. Done(node, s.run)'
  BY <1>1 DEF Done
<1>3. \A n \in NodeNames \ {"escalate"} :
        Position(n) < Position(s.next) =>
          Position(n) < Position(state[c].next) \/ n = node
  BY AtNode, Positions DEF NodeNames
<1>4. \A n \in NodeNames \ {"escalate"} :
        Position(n) < Position(s.next) =>
          Position(n) < Position(state[c].next) \/ Done(n, s.run)'
  BY <1>2, <1>3
<1> QED BY <1>1, <1>4, AtNode, FinishMoves, MoveStep

LEMMA IntakeKeeps ==
  ASSUME ScreenInv, NEW c \in Calls, Intake(c)
  PROVE  ScreenInv'
<1> PICK s : s = [state[c] EXCEPT !.next = "enrich"]
  OBVIOUS
<1>1. At(c, "intake") /\ state[c] \in States /\ Filled(state[c])
  BY AtNode DEF Intake, Sound
<1>2. s \in States /\ s.next = "enrich" /\ s.run = state[c].run /\ s.decision = state[c].decision
  BY <1>1 DEF States, NodeNames
<1>3. Filled(s)
  BY <1>2 DEF Filled, END_
<1>4. PICK row \in Rows : row = Row(c, "intake", "node_completed")
  BY RowIsRow DEF NodeNames
<1>5. row.step = "intake" /\ row.event = "node_completed"
  BY <1>4 DEF Row
<1>6. Audit(c, row) /\ Finish(c, s)
  BY <1>4 DEF Intake
<1> QED BY <1>1, <1>2, <1>3, <1>5, <1>6, CompleteStep

LEMMA EnrichKeeps ==
  ASSUME ScreenInv, NEW c \in Calls, Enrich(c)
  PROVE  ScreenInv'
<1>1. At(c, "enrich") /\ state[c] \in States /\ Filled(state[c])
  BY AtNode DEF Enrich, Sound
<1> PICK candidates \in BOOLEAN, insufficient \in BOOLEAN :
      Finish(c, [state[c] EXCEPT
            !.enrichment = [candidates |-> candidates, insufficient |-> insufficient],
            !.next = "retrieve"])
  BY DEF Enrich
<1>2. PICK e \in Enrichments :
        e = [candidates |-> candidates, insufficient |-> insufficient]
  BY DEF Enrichments
<1>3. PICK s : s = [state[c] EXCEPT !.enrichment = e, !.next = "retrieve"]
  OBVIOUS
<1>4. /\ s \in States /\ s.next = "retrieve" /\ s.run = state[c].run
      /\ s.decision = state[c].decision /\ s.enrichment \in Enrichments
  BY <1>1, <1>3 DEF States, NodeNames, Opt
<1>5. Filled(s)
  BY <1>4, Nothing DEF Filled, END_
<1>6. PICK row \in Rows : row = Row(c, "enrich", "node_completed")
  BY RowIsRow DEF NodeNames
<1>7. row.step = "enrich" /\ row.event = "node_completed"
  BY <1>6 DEF Row
<1>8. Audit(c, row)
  BY <1>6 DEF Enrich
<1>9. Finish(c, s)
  BY <1>2, <1>3
<1> QED BY <1>1, <1>4, <1>5, <1>7, <1>8, <1>9, CompleteStep

LEMMA RetrieveKeeps ==
  ASSUME ScreenInv, NEW c \in Calls, Retrieve(c)
  PROVE  ScreenInv'
<1> PICK s : s = [state[c] EXCEPT !.next = "evaluate"]
  OBVIOUS
<1>1. At(c, "retrieve") /\ state[c] \in States /\ Filled(state[c]) /\ state[c].next = "retrieve"
  BY AtNode DEF Retrieve, Sound
<1>2. /\ s \in States /\ s.next = "evaluate" /\ s.run = state[c].run
      /\ s.decision = state[c].decision /\ s.enrichment = state[c].enrichment
  BY <1>1 DEF States, NodeNames
<1>3. Filled(s)
  BY <1>1, <1>2 DEF Filled, END_
<1>4. PICK row \in Rows : row = Row(c, "retrieve", "node_completed")
  BY RowIsRow DEF NodeNames
<1>5. row.step = "retrieve" /\ row.event = "node_completed"
  BY <1>4 DEF Row
<1>6. Audit(c, row) /\ Finish(c, s)
  BY <1>4 DEF Retrieve
<1> QED BY <1>1, <1>2, <1>3, <1>5, <1>6, CompleteStep

(* evaluate, by the rule or by a model: where it goes is what Route says.  *)
LEMMA EvaluatedStep ==
  ASSUME ScreenInv, NEW c \in Calls, At(c, "evaluate"),
         NEW m \in Models, NEW k \in Opt(Models), NEW v \in Evaluations,
         Audit(c, EvaluateRow(c, m)),
         NEW s, s = [state[c] EXCEPT !.evaluation = v, !.model = k, !.next = Route(v)],
         Finish(c, s)
  PROVE  ScreenInv'
<1>1. state[c] \in States /\ Filled(state[c]) /\ state[c].next = "evaluate"
  BY AtNode DEF Sound
<1>2. Route(v) \in {"escalate", "dispose"}
  BY DEF Route
<1>3. /\ s \in States /\ s.next = Route(v) /\ s.run = state[c].run /\ s.evaluation = v
      /\ s.decision = state[c].decision /\ s.enrichment = state[c].enrichment
  BY <1>1, <1>2 DEF States, NodeNames, Opt
<1>4. Filled(s)
  BY <1>1, <1>2, <1>3, Nothing DEF Filled, END_
<1>5. PICK row \in Rows : row = EvaluateRow(c, m)
  BY RowIsRow DEF NodeNames, EvaluateRow, Opt
<1>6. row.step = "evaluate" /\ row.event = "node_completed"
  BY <1>5 DEF EvaluateRow, Row
<1>7. Audit(c, row)
  BY <1>5
<1>8. <<"evaluate", s.next>> \in {<<"evaluate", "escalate">>, <<"evaluate", "dispose">>}
  BY <1>2, <1>3
<1> QED BY <1>3, <1>4, <1>6, <1>7, <1>8, CompleteStep

LEMMA EvaluateKeeps ==
  ASSUME ScreenInv, NEW c \in Calls, EvaluateByRule(c) \/ EvaluateByModel(c)
  PROVE  ScreenInv'
<1>1. CASE EvaluateByRule(c)
  <2>1. At(c, "evaluate") /\ state[c] \in States
    BY <1>1, AtNode DEF EvaluateByRule
  <2>2. Incomplete \in Evaluations
    BY DEF Incomplete, Evaluations, Types
  <2> PICK k \in Opt(Models) : k = state[c].model
    BY <2>1, StateFields
  <2>3. PICK s :
          s = [state[c] EXCEPT !.evaluation = Incomplete, !.next = Route(Incomplete)]
    OBVIOUS
  <2>4. s = [state[c] EXCEPT !.evaluation = Incomplete, !.model = k, !.next = Route(Incomplete)]
    BY <2>1, <2>3 DEF States
  <2>5. Audit(c, EvaluateRow(c, "primary")) /\ Finish(c, s) /\ "primary" \in Models
    BY <1>1, <2>3, ScreeningAssumption DEF EvaluateByRule
  <2> QED BY <2>1, <2>2, <2>4, <2>5, EvaluatedStep
<1>2. CASE EvaluateByModel(c)
  <2> PICK m \in Models, v \in Verdicts :
          /\ Audit(c, EvaluateRow(c, m))
          /\ Finish(c, [state[c] EXCEPT !.evaluation = v, !.model = m, !.next = Route(v)])
    BY <1>2 DEF EvaluateByModel
  <2>1. PICK s : s = [state[c] EXCEPT !.evaluation = v, !.model = m, !.next = Route(v)]
    OBVIOUS
  <2>2. v \in Evaluations /\ m \in Opt(Models)
    BY ScreeningAssumption DEF Opt
  <2>3. At(c, "evaluate")
    BY <1>2 DEF EvaluateByModel
  <2> QED BY <2>1, <2>2, <2>3, EvaluatedStep
<1> QED BY <1>1, <1>2

LEMMA EscalateRaiseKeeps ==
  ASSUME ScreenInv, NEW c \in Calls, EscalateRaise(c)
  PROVE  ScreenInv'
<1>1. At(c, "escalate") /\ state[c] \in States /\ state[c].next = "escalate" /\ pc[c] = "node"
  BY AtNode DEF EscalateRaise
<1>2. PICK row \in Rows : row = Row(c, "escalate", "interrupt_raised")
  BY RowIsRow DEF NodeNames
<1>3. PICK q \in States : q = state[c]
  BY <1>1
<1>4. trail' \in [Calls -> Seq(Rows)] /\ \A r \in Calls : RowsOf(r) \subseteq RowsOf(r)'
  BY <1>2, <1>3, AuditAdds, StateFields DEF ScreenInv, EscalateRaise
<1>5. Within("interrupt", q)'
  BY <1>1, <1>3 DEF Within
<1>6. faults' \in [crashes : 0..MaxCrashes, sql : 0..MaxSqlErrors]
  BY DEF EscalateRaise, ScreenInv, TypeOK
<1> QED BY <1>1, <1>3, <1>4, <1>5, <1>6, WaitStep DEF EscalateRaise

LEMMA EscalateParkKeeps ==
  ASSUME ScreenInv, NEW c \in Calls, EscalatePark(c)
  PROVE  ScreenInv'
<1> PICK s : s = [state[c] EXCEPT !.parked = TRUE]
  OBVIOUS
<1>1. pc[c] \in Working
  BY DEF EscalatePark, Working
<1>2. state[c] \in States /\ Filled(state[c]) /\ state[c].next = "escalate"
  BY <1>1, WorksOn DEF EscalatePark, Sound, Within
<1>3. /\ s \in States /\ s.next = "escalate" /\ s.run = state[c].run
      /\ s.enrichment = state[c].enrichment /\ s.evaluation = state[c].evaluation
      /\ s.decision = state[c].decision
  BY <1>2 DEF States
<1>4. Filled(s)
  BY <1>2, <1>3 DEF Filled, END_
<1>5. state' = [state EXCEPT ![c] = s]
  BY DEF EscalatePark
<1>6. trail' \in [Calls -> Seq(Rows)] /\ \A r \in Calls : RowsOf(r) \subseteq RowsOf(r)'
  BY DEF EscalatePark, RowsOf, ScreenInv, TypeOK
<1>7. token' \in [Calls -> Opt(Decisions)]
  BY DEF EscalatePark, ScreenInv, TypeOK
<1>8. Position(s.next) = Position(state[c].next)
  BY <1>2, <1>3
<1> QED BY <1>1, <1>3, <1>4, <1>5, <1>6, <1>7, <1>8, MoveStep DEF EscalatePark

LEMMA EscalateResumeKeeps ==
  ASSUME ScreenInv, NEW c \in Calls, EscalateResume(c)
  PROVE  ScreenInv'
<1> PICK d, s :
      /\ d = token[c]
      /\ s = [state[c] EXCEPT !.decision = d, !.parked = FALSE, !.next = "dispose"]
  OBVIOUS
<1>1. pc[c] \in Working
  BY DEF EscalateResume, Working
<1>2. state[c] \in States /\ Filled(state[c]) /\ state[c].next = "escalate"
  BY <1>1, WorksOn DEF EscalateResume, Sound, Within
<1>3. d \in Decisions /\ d # None
  BY DEF EscalateResume, ScreenInv, TypeOK, Opt
<1>4. /\ s \in States /\ s.next = "dispose" /\ s.run = state[c].run
      /\ s.enrichment = state[c].enrichment /\ s.evaluation = state[c].evaluation
      /\ s.decision = d
  BY <1>2, <1>3 DEF States, Opt, NodeNames
<1>5. Filled(s)
  BY <1>2, <1>3, <1>4 DEF Filled, END_
<1>6. PICK row \in Rows : row = [Row(c, "escalate", "resumed") EXCEPT !.decision = d]
  BY <1>3, RowIsRow DEF NodeNames, Opt
<1>7. row.event = "resumed" /\ row.decision = d
  BY <1>6 DEF Row
<1>8. Audit(c, row) /\ Finish(c, s)
  BY <1>6 DEF EscalateResume
<1>9. /\ trail' \in [Calls -> Seq(Rows)]
      /\ \A r \in Calls : RowsOf(r) \subseteq RowsOf(r)'
      /\ row \in RowsOf(s.run)'
  BY <1>2, <1>4, <1>8, AuditAdds, StateFields DEF ScreenInv
<1>10. Decided(s)'
  BY <1>4, <1>7, <1>9 DEF Decided
<1>11. \A n \in NodeNames \ {"escalate"} :
         Position(n) < Position(s.next) => Position(n) < Position(state[c].next)
  BY <1>2, <1>4, Positions DEF NodeNames
<1>12. PICK p \in {"node", "returned"} :
         /\ p = "node" => s.next # END_
         /\ state' = [state EXCEPT ![c] = s]
         /\ pc' = [pc EXCEPT ![c] = p]
         /\ unsaved' = [unsaved EXCEPT ![c] = TRUE]
         /\ token' \in [Calls -> Opt(Decisions)]
         /\ UNCHANGED <<ckpt, answer, faults>>
  BY <1>8, FinishMoves
<1> QED BY <1>1, <1>4, <1>5, <1>9, <1>10, <1>11, <1>12, MoveStep

(* dispose, and what it leaves to the hook.                                *)
LEMMA BookKeeps ==
  ASSUME ScreenInv, NEW c \in Calls, Book(c)
  PROVE  ScreenInv'
<1>1. At(c, "dispose") /\ state[c] \in States /\ Filled(state[c])
      /\ state[c].next = "dispose" /\ pc[c] = "node"
  BY AtNode DEF Book, Sound
<1>2. PICK q \in States, d \in Opt(Dispositions) : q = state[c] /\ d = DispositionOf(q)
  BY <1>1, DispositionIs DEF Opt
<1>3. PICK row \in Rows : row = [Row(c, "dispose", "disposition") EXCEPT !.disposition = d]
  BY RowIsRow DEF NodeNames
<1>4. row.step = "dispose" /\ row.event = "disposition"
  BY <1>3 DEF Row
<1>5. Audit(c, row)
  BY <1>2, <1>3 DEF Book
<1>6. /\ trail' \in [Calls -> Seq(Rows)]
      /\ \A r \in Calls : RowsOf(r) \subseteq RowsOf(r)'
      /\ row \in RowsOf(q.run)'
  BY <1>2, <1>5, AuditAdds, StateFields DEF ScreenInv
<1>7. Within("hook", q)'
  BY <1>1, <1>2, <1>4, <1>6 DEF Within, Done
<1>8. faults' \in [crashes : 0..MaxCrashes, sql : 0..MaxSqlErrors]
  BY DEF Book, ScreenInv, TypeOK
<1> QED BY <1>1, <1>2, <1>6, <1>7, <1>8, WaitStep DEF Book

LEMMA HookPassKeeps ==
  ASSUME ScreenInv, NEW c \in Calls, HookPass(c)
  PROVE  ScreenInv'
<1>1. pc[c] \in Working
  BY DEF HookPass, Working
<1>2. /\ state[c] \in States /\ Filled(state[c]) /\ state[c].next = "dispose"
      /\ Done("dispose", state[c].run)
  BY <1>1, WorksOn DEF HookPass, Sound, Within
<1>3. PICK d, s :
        /\ d \in Dispositions
        /\ d = DispositionOf(state[c])
        /\ s = [state[c] EXCEPT !.disposition = d, !.next = END_]
  BY <1>2, DispositionIs
<1>4. /\ s \in States /\ s.next = END_ /\ s.run = state[c].run
      /\ s.enrichment = state[c].enrichment /\ s.evaluation = state[c].evaluation
      /\ s.decision = state[c].decision /\ s.model = state[c].model
      /\ s.disposition = d
  BY <1>2, <1>3 DEF States, Opt
<1>5. DispositionOf(s) = d
  BY <1>3, <1>4 DEF DispositionOf, Cited
<1>6. Filled(s)
  BY <1>2, <1>3, <1>4, <1>5 DEF Filled, HookPass, END_
<1>7. Finish(c, s) /\ UNCHANGED trail
  BY <1>3 DEF HookPass
<1>8. trail' \in [Calls -> Seq(Rows)] /\ \A r \in Calls : RowsOf(r) \subseteq RowsOf(r)'
  BY <1>7 DEF RowsOf, ScreenInv, TypeOK
<1>9. Done("dispose", s.run)'
  BY <1>2, <1>4, <1>7 DEF Done, RowsOf
<1>10. \A n \in NodeNames \ {"escalate"} :
         Position(n) < Position(s.next) =>
           Position(n) < Position(state[c].next) \/ n = "dispose"
  BY <1>2, <1>4, Positions DEF NodeNames
<1>11. \A n \in NodeNames \ {"escalate"} :
         Position(n) < Position(s.next) =>
           Position(n) < Position(state[c].next) \/ Done(n, s.run)'
  BY <1>9, <1>10
<1>12. PICK p \in {"node", "returned"} :
         /\ p = "node" => s.next # END_
         /\ state' = [state EXCEPT ![c] = s]
         /\ pc' = [pc EXCEPT ![c] = p]
         /\ unsaved' = [unsaved EXCEPT ![c] = TRUE]
         /\ token' \in [Calls -> Opt(Decisions)]
         /\ UNCHANGED <<ckpt, answer, faults>>
  BY <1>7, FinishMoves
<1> QED BY <1>1, <1>4, <1>6, <1>8, <1>11, <1>12, MoveStep

(* A row of failure or refusal, after which the call raises.               *)
LEMMA RefuseStep ==
  ASSUME ScreenInv, NEW c \in Calls, pc[c] \in {"node", "hook"},
         NEW event \in {"node_failed", "compliance_blocked"},
         Audit(c, Row(c, state[c].next, event)),
         NEW p \in {"raised", "blocked"},
         pc' = [pc EXCEPT ![c] = p],
         UNCHANGED <<ckpt, state, unsaved, token, answer, faults>>
  PROVE  ScreenInv'
<1>1. state[c] \in States /\ state[c].next \in NodeNames
  BY WorksOn DEF Working
<1>2. PICK q \in States, row \in Rows : q = state[c] /\ row = Row(c, state[c].next, event)
  BY <1>1, RowIsRow
<1>3. trail' \in [Calls -> Seq(Rows)] /\ \A r \in Calls : RowsOf(r) \subseteq RowsOf(r)'
  BY <1>2, AuditAdds, StateFields DEF ScreenInv
<1>4. Within(p, q)'
  BY DEF Within
<1>5. faults' \in [crashes : 0..MaxCrashes, sql : 0..MaxSqlErrors]
  BY DEF ScreenInv, TypeOK
<1> QED BY <1>2, <1>3, <1>4, <1>5, WaitStep

LEMMA RefusalKeeps ==
  ASSUME ScreenInv, NEW c \in Calls, BookInvalid(c) \/ HookBlock(c) \/ NodeFails(c)
  PROVE  ScreenInv'
<1>1. CASE BookInvalid(c)
  BY <1>1, RefuseStep DEF BookInvalid, At, Raise
<1>2. CASE HookBlock(c)
  <2>1. state[c].next = "dispose"
    BY <1>2, WorksOn DEF HookBlock, Working, Within
  <2> QED BY <1>2, <2>1, RefuseStep DEF HookBlock
<1>3. CASE NodeFails(c)
  BY <1>3, RefuseStep DEF NodeFails, At, Raise
<1> QED BY <1>1, <1>2, <1>3

LEMMA FaultsCounted ==
  ASSUME NEW f \in [crashes : 0..MaxCrashes, sql : 0..MaxSqlErrors]
  PROVE  /\ f.sql < MaxSqlErrors =>
              [f EXCEPT !.sql = f.sql + 1]
                \in [crashes : 0..MaxCrashes, sql : 0..MaxSqlErrors]
         /\ f.crashes < MaxCrashes =>
              [f EXCEPT !.crashes = f.crashes + 1]
                \in [crashes : 0..MaxCrashes, sql : 0..MaxSqlErrors]
<1>1. f.crashes \in 0..MaxCrashes /\ f.sql \in 0..MaxSqlErrors
  OBVIOUS
<1>2. f.sql < MaxSqlErrors => f.sql + 1 \in 0..MaxSqlErrors
  BY <1>1, ScreeningAssumption
<1>3. f.crashes < MaxCrashes => f.crashes + 1 \in 0..MaxCrashes
  BY <1>1, ScreeningAssumption
<1> QED BY <1>1, <1>2, <1>3

LEMMA SqlFailsKeeps ==
  ASSUME ScreenInv, NEW c \in Calls, SqlFails(c)
  PROVE  ScreenInv'
<1>1. pc[c] \in {"node", "interrupt", "hook"}
  BY DEF SqlFails
<1>2. PICK q : q = state[c]
  OBVIOUS
<1>3. Within("raised", q)'
  BY DEF Within
<1>4. faults' \in [crashes : 0..MaxCrashes, sql : 0..MaxSqlErrors]
  BY FaultsCounted DEF SqlFails, ScreenInv, TypeOK
<1>5. trail' \in [Calls -> Seq(Rows)] /\ \A r \in Calls : RowsOf(r) \subseteq RowsOf(r)'
  BY DEF SqlFails, RowsOf, ScreenInv, TypeOK
<1> QED BY <1>1, <1>2, <1>3, <1>4, <1>5, WaitStep DEF SqlFails, Raise

(* What a caller gets is one of the answers.                               *)
LEMMA RespondKeeps ==
  ASSUME ScreenInv, NEW c \in Calls, Respond(c)
  PROVE  ScreenInv'
<1>1. pc[c] \in Working
  BY DEF Respond, Working
<1> DEFINE error == [status |-> "error", disposition |-> None]
           blocked == [status |-> "blocked", disposition |-> None]
           a == CASE pc[c] = "raised"   -> error
                  [] pc[c] = "blocked"  -> blocked
                  [] pc[c] = "returned" -> AnswerFrom(ckpt[Thread(c)])
<1>2. error \in Answers /\ blocked \in Answers
  BY DEF Answers, Opt
<1>3. AnswerFrom(ckpt[Thread(c)]) \in Answers
  <2>1. PICK s \in States : s = ckpt[Thread(c)]
    BY <1>1, ThreadOf DEF Respond, ScreenInv, Kept, TypeOK, Opt
  <2> QED BY <2>1, StateFields DEF AnswerFrom, Answers, Opt
<1>4. answer' \in [Calls -> Opt(Answers)]
  BY <1>2, <1>3 DEF Respond, ScreenInv, TypeOK, Opt
<1>5. /\ unsaved' \in [Calls -> BOOLEAN]
      /\ faults' \in [crashes : 0..MaxCrashes, sql : 0..MaxSqlErrors]
  BY DEF Respond, ScreenInv, TypeOK
<1> QED BY <1>1, <1>4, <1>5, LeaveStep DEF Respond

LEMMA CrashKeeps ==
  ASSUME ScreenInv, NEW c \in Calls, Crash(c)
  PROVE  ScreenInv'
<1>1. /\ unsaved' \in [Calls -> BOOLEAN] /\ answer' \in [Calls -> Opt(Answers)]
      /\ \A d \in Calls \ {c} : unsaved'[d] = unsaved[d]
  BY DEF Crash, ScreenInv, TypeOK
<1>2. faults' \in [crashes : 0..MaxCrashes, sql : 0..MaxSqlErrors]
  BY FaultsCounted DEF Crash, ScreenInv, TypeOK
<1> QED BY <1>1, <1>2, LeaveStep DEF Crash

LEMMA InvNext == ScreenInv /\ [Next]_vars => ScreenInv'
<1> SUFFICES ASSUME ScreenInv, [Next]_vars PROVE ScreenInv'
  OBVIOUS
<1>1. ASSUME NEW c \in Calls, StartRun(c) \/ Resume(c) PROVE ScreenInv'
  BY <1>1, StartRunKeeps, ResumeKeeps
<1>2. ASSUME NEW c \in Calls, Step(c) PROVE ScreenInv'
  BY <1>2, IntakeKeeps, EnrichKeeps, RetrieveKeeps, EvaluateKeeps, EscalateRaiseKeeps,
     EscalateParkKeeps, EscalateResumeKeeps, BookKeeps, HookPassKeeps, RefusalKeeps,
     StoreKeeps, RespondKeeps DEF Step
<1>3. ASSUME NEW c \in Calls, SqlFails(c) \/ Crash(c) PROVE ScreenInv'
  BY <1>3, SqlFailsKeeps, CrashKeeps
<1>4. CASE UNCHANGED vars
  BY <1>4 DEF vars, ScreenInv, TypeOK, Sound, Filled, OnRecord, Decided, Within, Done,
     RowsOf, Kept, Thread
<1> QED BY <1>1, <1>2, <1>3, <1>4 DEF Next

LEMMA InvAlways == Spec => []ScreenInv
BY InvInit, InvNext, PTL DEF Spec

-----------------------------------------------------------------------------
(* What follows                                                            *)

(* The channels, checkpoints, rows and answers keep their types; a call    *)
(* that works has a state, and what waits at a node has not ended.         *)
THEOREM TypeCorrect == Spec => []TypeOK
BY InvAlways, PTL DEF ScreenInv

(* The audit trail is ahead of every checkpoint, however many processes    *)
(* die or lose their connection, and also when calls overlap (nodes.py:    *)
(* each node audits before it returns).                                    *)
THEOREM StepsOnRecord == Spec => []EveryStepOnRecord
<1>1. ScreenInv => EveryStepOnRecord
  BY DEF ScreenInv, EveryStepOnRecord, Sound, OnRecord, Done
<1> QED BY <1>1, InvAlways, PTL

LEMMA BookedIsSound ==
  ASSUME ScreenInv, NEW t \in Booked
  PROVE  /\ t \in Threads /\ ckpt[t] \in States /\ Sound(ckpt[t])
         /\ ckpt[t].disposition = DispositionOf(ckpt[t])
         /\ ~ CitationMissing(ckpt[t].disposition)
         /\ ckpt[t].decision # None \/ Route(ckpt[t].evaluation) = "dispose"
<1>1. t \in Threads /\ ckpt[t] # None /\ ckpt[t].next = END_
  BY DEF Booked, Closed
<1>2. ckpt[t] \in States /\ Sound(ckpt[t])
  BY <1>1 DEF ScreenInv, TypeOK, Opt
<1> QED BY <1>1, <1>2 DEF Sound, Filled

(* What the agent books alone is confident and terminal, on a fresh thread *)
(* as on one with a history (routing.py route_after_evaluate).             *)
THEOREM AgentBooksSafely == Spec => []AgentBooksOnlyConfidentSafe
<1>1. ASSUME ScreenInv, NEW t \in Booked, ckpt[t].disposition.decision = None
      PROVE  /\ ckpt[t].disposition.disposition \in AGENT_TERMINAL
             /\ ckpt[t].evaluation.confident
             /\ ckpt[t].disposition.disposition = ckpt[t].evaluation.recommended
  <2>1. /\ ckpt[t].disposition = DispositionOf(ckpt[t])
        /\ ckpt[t].decision # None \/ Route(ckpt[t].evaluation) = "dispose"
    BY <1>1, BookedIsSound
  <2>2. ckpt[t].decision = None
        /\ ckpt[t].disposition.disposition = ckpt[t].evaluation.recommended
    BY <1>1, <2>1 DEF DispositionOf
  <2> QED BY <2>1, <2>2 DEF Route
<1>2. ScreenInv => AgentBooksOnlyConfidentSafe
  BY <1>1 DEF AgentBooksOnlyConfidentSafe
<1> QED BY <1>2, InvAlways, PTL

(* No assertion about the subject is booked without evidence, whoever made *)
(* it and however often the thread is resumed after a refusal (citation.py *)
(* check_dispose_citation).                                                *)
THEOREM BookedIsCited == Spec => []UncitedNeverBooked
<1>1. ScreenInv => UncitedNeverBooked
  BY BookedIsSound DEF UncitedNeverBooked
<1> QED BY <1>1, InvAlways, PTL

(* Where a thread is given one alert only, a match that is booked is one   *)
(* that an analyst confirmed in that run, also when calls overlap          *)
(* (routing.py: "always confirmed by a human before it is booked").        *)
THEOREM MatchesConfirmed ==
  ASSUME ~ Reuse
  PROVE  Spec => []TrueMatchConfirmedByHuman
<1>1. ASSUME ScreenInv, NEW t \in Booked, ckpt[t].disposition.disposition = "true_match"
      PROVE  \E row \in RowsOf(ckpt[t].run) :
               row.event = "resumed" /\ row.decision = ckpt[t].disposition.decision
  <2>1. /\ ckpt[t].disposition = DispositionOf(ckpt[t]) /\ Decided(ckpt[t])
        /\ ckpt[t].decision # None \/ Route(ckpt[t].evaluation) = "dispose"
    BY <1>1, BookedIsSound DEF Sound
  <2>2. ckpt[t].decision # None
    BY <1>1, <2>1 DEF DispositionOf, Route, AGENT_TERMINAL
  <2> QED BY <2>1, <2>2 DEF Decided, DispositionOf
<1>2. ScreenInv => TrueMatchConfirmedByHuman
  BY <1>1 DEF TrueMatchConfirmedByHuman
<1> QED BY <1>2, InvAlways, PTL

============================================================================
