------------------------ MODULE ScreeningOrderProofs ------------------------
(***************************************************************************)
(* Proofs about Screening where one call at a time works on a thread: what *)
(* relates a booked disposition to the order of the rows of its run, and a *)
(* thread to its earlier checkpoints.                                      *)
(***************************************************************************)
EXTENDS ScreeningProofs

-----------------------------------------------------------------------------
(* The invariant                                                           *)

LastAmong(r, n, S) ==
  /\ n \in DOMAIN trail[r] /\ trail[r][n] \in S
  /\ \A k \in DOMAIN trail[r] : trail[r][k] \in S => k <= n

FinalRows == {row \in Rows : row.event \in {"disposition", "compliance_blocked"}}
EvaluatedRows == {row \in Rows : row.step = "evaluate" /\ row.event = "node_completed"}

(* One call at a time works on a thread.                                   *)
Alone ==
  \A c, d \in Calls :
    pc[c] \in Working /\ pc[d] \in Working /\ Thread(c) = Thread(d) => c = d

(* A run is one of a call of its thread that has been made.                *)
RunOf(t, s) == Thread(s.run) = t /\ pc[s.run] # "waiting"

RunsOfThreads ==
  /\ \A t \in Threads : ckpt[t] # None => RunOf(t, ckpt[t])
  /\ \A c \in Calls : state[c] # None => RunOf(Thread(c), state[c])

(* Who has nothing left to store works on what is stored.                  *)
Level == \A c \in Calls : pc[c] \in Working /\ ~ unsaved[c] => ckpt[Thread(c)] = state[c]

Resumed(r, decision) ==
  \E row \in RowsOf(r) : row.event = "resumed" /\ row.decision = decision

(* Within a run a call is never behind the checkpoint; it is past its      *)
(* escalation by a decision, and at its end there is nothing left to do.   *)
Ahead(old, s) ==
  old.run = s.run =>
    /\ Position(old.next) <= Position(s.next)
    /\ old.next = END_ => s = old
    /\ old.next = "escalate" /\ s.next # "escalate" =>
         s.decision # None /\ Resumed(s.run, s.decision)

AheadOfStored ==
  \A c \in Calls :
    pc[c] \in Working /\ ckpt[Thread(c)] # None => Ahead(ckpt[Thread(c)], state[c])

(* The last row about the booking of a run is of this disposition.         *)
BookedRow(s) ==
  \E n \in DOMAIN trail[s.run] :
    LastAmong(s.run, n, FinalRows) /\ trail[s.run][n].disposition = DispositionOf(s)

Named(s) == IF s.model # None THEN s.model ELSE "primary"

(* The last evaluation of a run was audited with the model in its state.   *)
Modelled(s) ==
  /\ Position(s.next) <= 4 => s.model = None
  /\ Position(s.next) > 4 =>
       \E n \in DOMAIN trail[s.run] :
         LastAmong(s.run, n, EvaluatedRows) /\ trail[s.run][n].model = Named(s)

Audited(s) ==
  /\ s.next = END_ => BookedRow(s)
  /\ ~ Reuse => Modelled(s)

TrailInv ==
  /\ \A t \in Threads : ckpt[t] # None => Audited(ckpt[t])
  /\ \A c \in Calls : state[c] # None => Audited(state[c])
  /\ \A c \in Calls : pc[c] = "hook" => BookedRow(state[c])

OrderInv == ScreenInv /\ Alone /\ RunsOfThreads /\ Level /\ AheadOfStored /\ TrailInv

-----------------------------------------------------------------------------
(* Rows                                                                    *)

Adds(q, row) == trail' = [trail EXCEPT ![q] = Append(@, row)]

(* No row of S is written, and none to another run than q.                 *)
Without(q, S) == UNCHANGED trail \/ \E row \in Rows \ S : Adds(q, row)

LEMMA AddedRow ==
  ASSUME trail \in [Calls -> Seq(Rows)], NEW q \in Calls, NEW row \in Rows, Adds(q, row)
  PROVE  /\ DOMAIN trail'[q] = 1..(Len(trail[q]) + 1)
         /\ DOMAIN trail[q] = 1..Len(trail[q]) /\ Len(trail[q]) \in Nat
         /\ \A n \in DOMAIN trail[q] : n \in DOMAIN trail'[q] /\ trail'[q][n] = trail[q][n]
         /\ trail'[q][Len(trail[q]) + 1] = row
         /\ \A r \in Calls : r # q => trail'[r] = trail[r]
<1>1. trail[q] \in Seq(Rows) /\ Append(trail[q], row) \in Seq(Rows)
  OBVIOUS
<1>2. trail'[q] = Append(trail[q], row) /\ \A r \in Calls : r # q => trail'[r] = trail[r]
  BY DEF Adds
<1> QED BY <1>1, <1>2

LEMMA LastStays ==
  ASSUME trail \in [Calls -> Seq(Rows)], NEW q \in Calls, NEW S, Without(q, S),
         NEW r \in Calls, NEW n, LastAmong(r, n, S)
  PROVE  LastAmong(r, n, S)' /\ trail'[r][n] = trail[r][n]
<1>1. CASE UNCHANGED trail
  BY <1>1 DEF LastAmong
<1>2. CASE \E row \in Rows \ S : Adds(q, row)
  <2>1. PICK row \in Rows \ S : Adds(q, row)
    BY <1>2
  <2>2. CASE r = q
    BY <2>1, <2>2, AddedRow DEF LastAmong
  <2>3. CASE r # q
    BY <2>1, <2>3, AddedRow DEF LastAmong
  <2> QED BY <2>2, <2>3
<1> QED BY <1>1, <1>2 DEF Without

LEMMA LastElsewhere ==
  ASSUME trail \in [Calls -> Seq(Rows)], NEW q \in Calls, Without(q, {}),
         NEW S, NEW r \in Calls, r # q, NEW n, LastAmong(r, n, S)
  PROVE  LastAmong(r, n, S)' /\ trail'[r][n] = trail[r][n]
<1>1. trail'[r] = trail[r]
  BY AddedRow DEF Without
<1> QED BY <1>1 DEF LastAmong

LEMMA LastIsNew ==
  ASSUME trail \in [Calls -> Seq(Rows)], NEW q \in Calls, NEW row \in Rows, Adds(q, row),
         NEW S, row \in S
  PROVE  \E n \in DOMAIN trail'[q] : LastAmong(q, n, S)' /\ trail'[q][n] = row
<1> PICK n : n = Len(trail[q]) + 1
  OBVIOUS
<1>1. n \in DOMAIN trail'[q] /\ trail'[q][n] = row
  BY AddedRow
<1>2. LastAmong(q, n, S)'
  BY AddedRow, <1>1 DEF LastAmong
<1> QED BY <1>1, <1>2

-----------------------------------------------------------------------------
(* A step of a call that works                                             *)

(* It leaves the checkpoint to Store, moves on within its run, leaves      *)
(* escalate by a decision, and writes what its node writes.                *)
Works(c) ==
  /\ pc[c] \in {"node", "interrupt", "hook"} /\ pc'[c] \in Working
  /\ ckpt' = ckpt
  /\ \A d \in Calls \ {c} :
       state'[d] = state[d] /\ pc'[d] = pc[d] /\ unsaved'[d] = unsaved[d]
  /\ unsaved'[c] \/ (state'[c] = state[c] /\ unsaved'[c] = unsaved[c])
  /\ state'[c] \in States /\ state'[c].run = state[c].run
  /\ Position(state[c].next) <= Position(state'[c].next)
  /\ \/ state'[c].decision = state[c].decision
        /\ (state[c].next = "escalate" => state'[c].next = "escalate")
     \/ state'[c].decision # None /\ Resumed(state[c].run, state[c].decision)'
  /\ Without(state[c].run, {})
  /\ state[c].next # "dispose" => Without(state[c].run, FinalRows)
  /\ state[c].next # "evaluate" => Without(state[c].run, EvaluatedRows)

OwnRows(c) == Audited(state[c]) /\ (pc[c] = "hook" => BookedRow(state[c]))

(* The rows of other runs stay as they are, and a checkpoint of this run   *)
(* is not past the node whose rows are written.                            *)
LEMMA OthersAudited ==
  ASSUME trail \in [Calls -> Seq(Rows)], NEW q \in Calls, Without(q, {}),
         NEW s \in States, Audited(s), s.run # q
  PROVE  Audited(s)' /\ (BookedRow(s) => BookedRow(s)')
<1>1. s.run \in Calls
  BY StateFields
<1>2. \A S, n : LastAmong(s.run, n, S) =>
        LastAmong(s.run, n, S)' /\ trail'[s.run][n] = trail[s.run][n]
  BY <1>1, LastElsewhere
<1>3. trail'[s.run] = trail[s.run]
  BY <1>1, AddedRow DEF Without
<1> QED BY <1>3 DEF Audited, BookedRow, Modelled, Named, LastAmong

LEMMA StoredAudited ==
  ASSUME trail \in [Calls -> Seq(Rows)], NEW s \in States, Audited(s),
         s.next = END_ => Without(s.run, FinalRows),
         Position(s.next) > 4 => Without(s.run, EvaluatedRows)
  PROVE  Audited(s)'
<1>1. s.run \in Calls
  BY StateFields
<1>2. s.next = END_ => BookedRow(s)'
  <2> SUFFICES ASSUME s.next = END_ PROVE BookedRow(s)'
    OBVIOUS
  <2>1. PICK n \in DOMAIN trail[s.run] :
          LastAmong(s.run, n, FinalRows) /\ trail[s.run][n].disposition = DispositionOf(s)
    BY DEF Audited, BookedRow
  <2>2. LastAmong(s.run, n, FinalRows)' /\ trail'[s.run][n] = trail[s.run][n]
    BY <1>1, <2>1, LastStays
  <2> QED BY <2>1, <2>2 DEF BookedRow, LastAmong
<1>3. ~ Reuse => Modelled(s)'
  <2> SUFFICES ASSUME ~ Reuse, Position(s.next) > 4
               PROVE  \E n \in DOMAIN trail'[s.run] :
                        LastAmong(s.run, n, EvaluatedRows)' /\ trail'[s.run][n].model = Named(s)
    BY DEF Audited, Modelled, Named
  <2>1. PICK n \in DOMAIN trail[s.run] :
          LastAmong(s.run, n, EvaluatedRows) /\ trail[s.run][n].model = Named(s)
    BY DEF Audited, Modelled
  <2>2. LastAmong(s.run, n, EvaluatedRows)' /\ trail'[s.run][n] = trail[s.run][n]
    BY <1>1, <2>1, LastStays
  <2> QED BY <2>1, <2>2 DEF LastAmong
<1> QED BY <1>2, <1>3 DEF Audited

LEMMA ResumedStays ==
  ASSUME ScreenInv, NEW q \in Calls, Without(q, {}), NEW r \in Calls, NEW d, Resumed(r, d)
  PROVE  Resumed(r, d)'
<1>1. PICK n \in DOMAIN trail[r] : trail[r][n].event = "resumed" /\ trail[r][n].decision = d
  BY DEF Resumed, RowsOf
<1>2. trail \in [Calls -> Seq(Rows)]
  BY DEF ScreenInv, TypeOK
<1>3. n \in DOMAIN trail'[r] /\ trail'[r][n] = trail[r][n]
  <2>1. CASE UNCHANGED trail
    BY <2>1
  <2>2. CASE \E row \in Rows : Adds(q, row)
    BY <1>2, <2>2, AddedRow
  <2> QED BY <2>1, <2>2 DEF Without
<1> QED BY <1>1, <1>3 DEF Resumed, RowsOf

LEMMA WorksKeeps ==
  ASSUME OrderInv, ScreenInv', NEW c \in Calls, Works(c), OwnRows(c)'
  PROVE  OrderInv'
<1> PICK q \in Calls, s \in States, s1 \in States :
      q = s.run /\ s = state[c] /\ s1 = state'[c]
  <2>1. state[c] \in States
    BY WorksOn DEF OrderInv, Works, Working
  <2> QED BY <2>1, StateFields DEF Works
<1>1. /\ pc[c] \in Working /\ pc[c] # "waiting" /\ pc'[c] \in Working /\ pc'[c] # "waiting"
      /\ ckpt' = ckpt /\ s1.run = q
      /\ \A d \in Calls \ {c} :
           state'[d] = state[d] /\ pc'[d] = pc[d] /\ unsaved'[d] = unsaved[d]
      /\ trail \in [Calls -> Seq(Rows)]
  BY DEF Works, Working, OrderInv, ScreenInv, TypeOK
<1>2. Alone'
  BY <1>1 DEF OrderInv, Alone, Thread
<1>3. RunsOfThreads'
  <2>1. \A t, u : RunOf(t, u) /\ u.run \in Calls => RunOf(t, u)'
    BY <1>1 DEF RunOf, Thread
  <2>2. RunOf(Thread(c), s1)'
    <3>1. RunOf(Thread(c), s)
      BY StateFields DEF OrderInv, RunsOfThreads
    <3> QED BY <1>1, <2>1, <3>1 DEF RunOf, Thread
  <2>3. \A t \in Threads : ckpt[t] # None => ckpt[t].run \in Calls
    BY StateFields DEF OrderInv, ScreenInv, TypeOK, Opt
  <2>4. \A d \in Calls : state[d] # None => state[d].run \in Calls
    BY StateFields DEF OrderInv, ScreenInv, TypeOK, Opt
  <2>5. \A t \in Threads : ckpt'[t] # None => RunOf(t, ckpt[t])'
    BY <1>1, <2>1, <2>3 DEF OrderInv, RunsOfThreads, RunOf, Thread
  <2>6. \A d \in Calls : state'[d] # None => RunOf(Thread(d), state[d])'
    BY <1>1, <2>1, <2>2, <2>4 DEF OrderInv, RunsOfThreads, RunOf, Thread
  <2> QED BY <2>5, <2>6 DEF RunsOfThreads
<1>4. Level'
  BY <1>1 DEF OrderInv, Level, Works, Thread
<1>5. AheadOfStored'
  <2>1. ASSUME NEW d \in Calls \ {c}, pc'[d] \in Working, ckpt'[Thread(d)] # None
        PROVE  Ahead(ckpt[Thread(d)], state[d])'
    <3>1. PICK old \in States, u \in States : old = ckpt[Thread(d)] /\ u = state[d]
      BY <1>1, <2>1, ThreadOf, WorksOn DEF OrderInv, ScreenInv, TypeOK, Opt
    <3>2. Ahead(old, u)
      BY <1>1, <2>1, <3>1 DEF OrderInv, AheadOfStored
    <3>3. Ahead(old, u)'
      BY <3>2, ResumedStays, StateFields DEF Ahead, Works, OrderInv
    <3> QED BY <1>1, <3>1, <3>3 DEF Thread
  <2>2. ASSUME ckpt'[Thread(c)] # None
        PROVE  Ahead(ckpt[Thread(c)], state[c])'
    <3>1. PICK old \in States : old = ckpt[Thread(c)]
      BY <1>1, <2>2, ThreadOf DEF OrderInv, ScreenInv, TypeOK, Opt
    <3>2. Ahead(old, s)
      BY <1>1, <2>2, <3>1 DEF OrderInv, AheadOfStored
    <3>3. Ahead(old, s1)'
      <4> SUFFICES ASSUME old.run = q PROVE Ahead(old, s1)'
        BY <1>1 DEF Ahead
      <4>1. Position(old.next) <= Position(s1.next)
        <5>1. \A n \in NodeNames \cup {END_} : Position(n) \in Nat
          BY Positions DEF NodeNames
        <5>2. Position(old.next) <= Position(s.next) /\ Position(s.next) <= Position(s1.next)
          BY <3>2 DEF Ahead, Works
        <5> QED BY <5>1, <5>2, StateFields
      <4>2. old.next # END_
        BY <1>1, <3>2 DEF Ahead, Works, OrderInv, ScreenInv, TypeOK
      <4>3. ASSUME old.next = "escalate", s1.next # "escalate"
            PROVE  s1.decision # None /\ Resumed(s1.run, s1.decision)'
        <5>1. CASE s1.decision = s.decision /\ (s.next = "escalate" => s1.next = "escalate")
          <6>1. s.decision # None /\ Resumed(s.run, s.decision)
            BY <3>2, <4>3, <5>1 DEF Ahead
          <6> QED BY <1>1, <5>1, <6>1, ResumedStays DEF Works, OrderInv
        <5>2. CASE s1.decision # None /\ Resumed(state[c].run, state[c].decision)'
          BY <5>2 DEF Resumed, RowsOf
        <5> QED BY <5>1, <5>2 DEF Works
      <4> QED BY <4>1, <4>2, <4>3 DEF Ahead
    <3> QED BY <1>1, <3>1, <3>3 DEF Thread, Ahead, Resumed, RowsOf
  <2> QED BY <2>1, <2>2 DEF AheadOfStored, Thread
<1>6. TrailInv'
  <2>1. Without(q, {})
    BY DEF Works
  <2>2. ASSUME NEW u \in States, NEW t \in Threads, RunOf(t, u), t # Thread(c), Audited(u)
        PROVE  Audited(u)' /\ (BookedRow(u) => BookedRow(u)')
    <3>1. u.run # q
      BY <2>2, StateFields DEF OrderInv, RunsOfThreads, RunOf
    <3> QED BY <1>1, <2>1, <2>2, <3>1, OthersAudited
  <2>3. ASSUME NEW t \in Threads, ckpt[t] # None
        PROVE  Audited(ckpt[t])'
    <3>1. PICK u \in States : u = ckpt[t] /\ RunOf(t, u) /\ Audited(u)
      BY <2>3 DEF OrderInv, ScreenInv, TypeOK, Opt, RunsOfThreads, TrailInv
    <3>2. CASE t # Thread(c)
      BY <1>1, <2>2, <3>1, <3>2
    <3>3. CASE t = Thread(c) /\ u.run # q
      BY <1>1, <2>1, <3>1, <3>3, OthersAudited
    <3>4. CASE t = Thread(c) /\ u.run = q
      <4>1. Ahead(u, s)
        BY <1>1, <2>3, <3>1, <3>4 DEF OrderInv, AheadOfStored
      <4>2. u.next # END_
        BY <1>1, <3>4, <4>1 DEF Ahead, Works, OrderInv, ScreenInv, TypeOK
      <4>3. Position(u.next) > 4 => s.next # "evaluate"
        BY <3>4, <4>1, Positions, StateFields DEF Ahead, NodeNames
      <4>4. Position(u.next) > 4 => Without(u.run, EvaluatedRows)
        BY <3>4, <4>3 DEF Works
      <4>5. Audited(u)'
        BY <1>1, <3>1, <4>2, <4>4, StoredAudited
      <4> QED BY <1>1, <3>1, <4>5
    <3> QED BY <3>2, <3>3, <3>4
  <2>4. ASSUME NEW d \in Calls \ {c}, state[d] # None
        PROVE  (Audited(state[d]) /\ (pc[d] = "hook" => BookedRow(state[d])))'
    <3>1. PICK u \in States : u = state[d] /\ RunOf(Thread(d), u) /\ Audited(u)
      BY <2>4 DEF OrderInv, ScreenInv, TypeOK, Opt, RunsOfThreads, TrailInv
    <3>2. Thread(d) # Thread(c)
      BY <1>1, <2>4 DEF OrderInv, Alone, ScreenInv, TypeOK
    <3>3. Audited(u)' /\ (BookedRow(u) => BookedRow(u)')
      BY <2>2, <3>1, <3>2, ThreadOf
    <3>4. pc[d] = "hook" => BookedRow(u)
      BY <3>1 DEF OrderInv, TrailInv
    <3> QED BY <1>1, <3>1, <3>3, <3>4
  <2>5. \A d \in Calls : pc'[d] = "hook" => state'[d] # None
    BY DEF ScreenInv, TypeOK, Working
  <2> QED BY <1>1, <2>3, <2>4, <2>5 DEF TrailInv, OwnRows
<1> QED BY <1>2, <1>3, <1>4, <1>5, <1>6 DEF OrderInv

-----------------------------------------------------------------------------
(* The steps of a call that works                                          *)

LEMMA RowWithout ==
  ASSUME NEW c \in Calls, NEW q, q = state[c].run, NEW row \in Rows, Audit(c, row)
  PROVE  /\ Without(q, {})
         /\ row.event \notin {"disposition", "compliance_blocked"} => Without(q, FinalRows)
         /\ row.step # "evaluate" \/ row.event # "node_completed" => Without(q, EvaluatedRows)
<1>1. Adds(q, row)
  BY DEF Adds, Audit
<1> QED BY <1>1 DEF Without, FinalRows, EvaluatedRows

LEMMA FinishWorks ==
  ASSUME ScreenInv, NEW c \in Calls, pc[c] \in {"node", "interrupt", "hook"},
         NEW s \in States, Finish(c, s), s.run = state[c].run,
         Position(state[c].next) <= Position(s.next),
         \/ s.decision = state[c].decision /\ state[c].next # "escalate"
         \/ s.decision # None /\ Resumed(s.run, s.decision)',
         Without(s.run, {}),
         state[c].next # "dispose" => Without(s.run, FinalRows),
         state[c].next # "evaluate" => Without(s.run, EvaluatedRows)
  PROVE  Works(c) /\ state'[c] = s /\ pc'[c] # "hook"
<1> PICK p \in {"node", "returned"} :
      /\ state' = [state EXCEPT ![c] = s]
      /\ pc' = [pc EXCEPT ![c] = p]
      /\ unsaved' = [unsaved EXCEPT ![c] = TRUE]
      /\ UNCHANGED <<ckpt, answer, faults>>
  BY FinishMoves
<1>1. /\ state'[c] = s /\ pc'[c] = p /\ unsaved'[c]
      /\ \A d \in Calls \ {c} :
           state'[d] = state[d] /\ pc'[d] = pc[d] /\ unsaved'[d] = unsaved[d]
  BY DEF ScreenInv, TypeOK
<1>2. Resumed(s.run, s.decision)' => Resumed(state[c].run, state[c].decision)'
  BY <1>1 DEF Resumed, RowsOf
<1> QED BY <1>1, <1>2 DEF Works, Working

LEMMA WaitWorks ==
  ASSUME ScreenInv, NEW c \in Calls, pc[c] \in {"node", "interrupt", "hook"},
         NEW p \in Working, pc' = [pc EXCEPT ![c] = p],
         UNCHANGED <<ckpt, state, unsaved>>,
         Without(state[c].run, {}),
         state[c].next # "dispose" => Without(state[c].run, FinalRows),
         state[c].next # "evaluate" => Without(state[c].run, EvaluatedRows)
  PROVE  Works(c) /\ state'[c] = state[c] /\ pc'[c] = p
<1>1. pc'[c] = p /\ \A d \in Calls \ {c} : pc'[d] = pc[d]
  BY DEF ScreenInv, TypeOK
<1>2. state[c] \in States /\ Position(state[c].next) <= Position(state[c].next)
  <2>1. state[c] \in States
    BY WorksOn DEF Working
  <2>2. \A n \in NodeNames \cup {END_} : Position(n) \in Nat
    BY Positions DEF NodeNames
  <2> QED BY <2>1, <2>2, StateFields
<1> QED BY <1>1, <1>2 DEF Works

(* What the last evaluation was audited with stays what the state names.   *)
LEMMA NameStays ==
  ASSUME ScreenInv, NEW s \in States, NEW s1 \in States,
         s1.run = s.run, s1.model = s.model, Audited(s), s1.next # END_,
         Position(s1.next) <= 4 <=> Position(s.next) <= 4,
         Without(s.run, EvaluatedRows)
  PROVE  Audited(s1)'
<1>1. \A n \in NodeNames \cup {END_} : Position(n) \in Nat
  BY Positions DEF NodeNames
<1>2. ASSUME ~ Reuse PROVE Modelled(s1)'
  <2>1. Position(s1.next) <= 4 => s1.model = None
    BY <1>2 DEF Audited, Modelled
  <2>2. ASSUME Position(s1.next) > 4
        PROVE  \E n \in DOMAIN trail'[s1.run] :
                 LastAmong(s1.run, n, EvaluatedRows)' /\ trail'[s1.run][n].model = Named(s1)
    <3>1. PICK n \in DOMAIN trail[s.run] :
            LastAmong(s.run, n, EvaluatedRows) /\ trail[s.run][n].model = Named(s)
      BY <1>1, <1>2, <2>2, StateFields DEF Audited, Modelled
    <3>2. LastAmong(s1.run, n, EvaluatedRows)' /\ trail'[s1.run][n] = trail[s.run][n]
      BY <3>1, LastStays, StateFields DEF ScreenInv, TypeOK
    <3> QED BY <3>1, <3>2 DEF Named, LastAmong
  <2> QED BY <2>1, <2>2 DEF Modelled, Named
<1> QED BY <1>2 DEF Audited

LEMMA OrderAt ==
  ASSUME OrderInv, NEW c \in Calls, NEW node, At(c, node)
  PROVE  /\ pc[c] = "node" /\ state[c] \in States /\ state[c].next = node
         /\ ScreenInv /\ Audited(state[c])
BY AtNode, StateFields DEF OrderInv, TrailInv

(* intake, enrich and retrieve.                                            *)
LEMMA EarlyStep ==
  ASSUME OrderInv, NEW c \in Calls, NEW node \in {"intake", "enrich", "retrieve"},
         At(c, node), Audit(c, Row(c, node, "node_completed")),
         NEW s \in States, Finish(c, s),
         s.run = state[c].run, s.decision = state[c].decision, s.model = state[c].model,
         <<node, s.next>> \in {<<"intake", "enrich">>, <<"enrich", "retrieve">>,
                               <<"retrieve", "evaluate">>}
  PROVE  Works(c) /\ OwnRows(c)'
<1>1. PICK old \in States : old = state[c] /\ Audited(old) /\ old.next = node
  BY OrderAt
<1>2. PICK row \in Rows : row = Row(c, node, "node_completed")
  BY RowIsRow DEF NodeNames
<1>3. row.step # "evaluate" /\ row.event \notin {"disposition", "compliance_blocked"}
  BY <1>2 DEF Row
<1>4. Without(s.run, {}) /\ Without(s.run, FinalRows) /\ Without(s.run, EvaluatedRows)
  BY <1>2, <1>3, RowWithout
<1>5. /\ Position(old.next) <= Position(s.next) /\ Position(old.next) <= 4
      /\ Position(s.next) <= 4 /\ s.next # END_ /\ old.next # "escalate"
  BY <1>1, Positions DEF END_
<1>6. Works(c) /\ state'[c] = s /\ pc'[c] # "hook"
  BY <1>1, <1>4, <1>5, OrderAt, FinishWorks
<1>7. Audited(s)'
  BY <1>1, <1>4, <1>5, NameStays DEF OrderInv
<1>8. OwnRows(c)'
  BY <1>6, <1>7 DEF OwnRows, Audited, Modelled, BookedRow, Named, LastAmong
<1> QED BY <1>6, <1>8

LEMMA IntakeWorks ==
  ASSUME OrderInv, NEW c \in Calls, Intake(c)
  PROVE  Works(c) /\ OwnRows(c)'
<1>1. At(c, "intake") /\ state[c] \in States
  BY OrderAt DEF Intake
<1>2. PICK s \in States :
        /\ Finish(c, s) /\ s.next = "enrich" /\ s.run = state[c].run
        /\ s.decision = state[c].decision /\ s.model = state[c].model
  <2>1. [state[c] EXCEPT !.next = "enrich"] \in States
    BY <1>1 DEF States, NodeNames
  <2> QED BY <1>1, <2>1 DEF Intake, States
<1>3. Audit(c, Row(c, "intake", "node_completed"))
  BY DEF Intake
<1> QED BY <1>1, <1>2, <1>3, EarlyStep

LEMMA RetrieveWorks ==
  ASSUME OrderInv, NEW c \in Calls, Retrieve(c)
  PROVE  Works(c) /\ OwnRows(c)'
<1>1. At(c, "retrieve") /\ state[c] \in States
  BY OrderAt DEF Retrieve
<1>2. PICK s \in States :
        /\ Finish(c, s) /\ s.next = "evaluate" /\ s.run = state[c].run
        /\ s.decision = state[c].decision /\ s.model = state[c].model
  <2>1. [state[c] EXCEPT !.next = "evaluate"] \in States
    BY <1>1 DEF States, NodeNames
  <2> QED BY <1>1, <2>1 DEF Retrieve, States
<1>3. Audit(c, Row(c, "retrieve", "node_completed"))
  BY DEF Retrieve
<1> QED BY <1>1, <1>2, <1>3, EarlyStep

LEMMA EnrichWorks ==
  ASSUME OrderInv, NEW c \in Calls, Enrich(c)
  PROVE  Works(c) /\ OwnRows(c)'
<1>1. At(c, "enrich") /\ state[c] \in States
  BY OrderAt DEF Enrich
<1>2. PICK s \in States :
        /\ Finish(c, s) /\ s.next = "retrieve" /\ s.run = state[c].run
        /\ s.decision = state[c].decision /\ s.model = state[c].model
  <2>1. PICK candidates \in BOOLEAN, insufficient \in BOOLEAN :
          Finish(c, [state[c] EXCEPT
                !.enrichment = [candidates |-> candidates, insufficient |-> insufficient],
                !.next = "retrieve"])
    BY DEF Enrich
  <2>2. PICK e \in Enrichments :
          e = [candidates |-> candidates, insufficient |-> insufficient]
    BY DEF Enrichments
  <2>3. PICK s : s = [state[c] EXCEPT !.enrichment = e, !.next = "retrieve"]
    OBVIOUS
  <2>4. /\ s \in States /\ s.next = "retrieve" /\ s.run = state[c].run
        /\ s.decision = state[c].decision /\ s.model = state[c].model
    BY <1>1, <2>3 DEF States, NodeNames, Opt
  <2> QED BY <2>1, <2>2, <2>3, <2>4
<1>3. Audit(c, Row(c, "enrich", "node_completed"))
  BY DEF Enrich
<1> QED BY <1>1, <1>2, <1>3, EarlyStep

(* evaluate: its row is the last of its kind, and its state names the      *)
(* model of the row; by the rule both are the routed model.                *)
LEMMA EvaluatedWorks ==
  ASSUME OrderInv, NEW c \in Calls, At(c, "evaluate"), NEW m \in Models,
         Audit(c, EvaluateRow(c, m)), NEW s \in States, Finish(c, s),
         s.run = state[c].run, s.decision = state[c].decision,
         s.next \in {"escalate", "dispose"}, ~ Reuse => m = Named(s)
  PROVE  Works(c) /\ OwnRows(c)'
<1>1. PICK row \in Rows : row = EvaluateRow(c, m)
  BY RowIsRow DEF NodeNames, EvaluateRow, Opt
<1>2. row.step = "evaluate" /\ row.event = "node_completed" /\ row.model = m
  BY <1>1 DEF EvaluateRow, Row
<1>3. Without(s.run, {}) /\ Without(s.run, FinalRows)
  BY <1>1, <1>2, RowWithout
<1>4. pc[c] = "node" /\ state[c].next = "evaluate" /\ ScreenInv
      /\ trail \in [Calls -> Seq(Rows)] /\ s.run \in Calls
  BY OrderAt, StateFields DEF ScreenInv, TypeOK
<1>5. Position("evaluate") <= Position(s.next) /\ ~ (Position(s.next) <= 4) /\ s.next # END_
  BY Positions DEF END_
<1>6. Works(c) /\ state'[c] = s /\ pc'[c] # "hook"
  BY <1>3, <1>4, <1>5, FinishWorks
<1>7. ASSUME ~ Reuse PROVE Modelled(s)'
  <2>1. Adds(s.run, row)
    BY <1>1 DEF Adds, Audit
  <2>2. PICK n \in DOMAIN trail'[s.run] :
          LastAmong(s.run, n, EvaluatedRows)' /\ trail'[s.run][n] = row
    <3>1. row \in EvaluatedRows
      BY <1>2 DEF EvaluatedRows
    <3>2. \E n \in DOMAIN trail'[s.run] :
            LastAmong(s.run, n, EvaluatedRows)' /\ trail'[s.run][n] = row
      BY <1>4, <2>1, <3>1, LastIsNew
    <3> QED BY <3>2
  <2> QED BY <1>2, <1>5, <1>7, <2>2 DEF Modelled, Named, LastAmong
<1>8. OwnRows(c)'
  BY <1>5, <1>6, <1>7 DEF OwnRows, Audited, Modelled, BookedRow, Named, LastAmong
<1> QED BY <1>6, <1>8

LEMMA EvaluateWorks ==
  ASSUME OrderInv, NEW c \in Calls, EvaluateByRule(c) \/ EvaluateByModel(c)
  PROVE  Works(c) /\ OwnRows(c)'
<1>1. At(c, "evaluate")
  BY DEF EvaluateByRule, EvaluateByModel
<1>2. state[c] \in States /\ Audited(state[c]) /\ state[c].next = "evaluate"
  BY <1>1, OrderAt
<1>3. ~ Reuse => state[c].model = None
  BY <1>2, Positions DEF Audited, Modelled
<1>4. PICK m \in Models, s \in States :
        /\ Audit(c, EvaluateRow(c, m)) /\ Finish(c, s)
        /\ s.run = state[c].run /\ s.decision = state[c].decision
        /\ s.next \in {"escalate", "dispose"} /\ (~ Reuse => m = Named(s))
  <2>1. CASE EvaluateByRule(c)
    <3>1. PICK s : s = [state[c] EXCEPT !.evaluation = Incomplete, !.next = Route(Incomplete)]
      OBVIOUS
    <3>2. Incomplete \in Evaluations /\ Route(Incomplete) \in {"escalate", "dispose"}
      BY DEF Incomplete, Evaluations, Types, Route
    <3>3. /\ s \in States /\ s.run = state[c].run /\ s.decision = state[c].decision
          /\ s.next \in {"escalate", "dispose"} /\ s.model = state[c].model
      BY <1>2, <3>1, <3>2 DEF States, NodeNames, Opt
    <3>4. Audit(c, EvaluateRow(c, "primary")) /\ Finish(c, s) /\ "primary" \in Models
      BY <2>1, <3>1, ScreeningAssumption DEF EvaluateByRule
    <3> QED BY <1>3, <3>3, <3>4 DEF Named
  <2>2. CASE EvaluateByModel(c)
    <3> PICK m \in Models, v \in Verdicts :
            /\ Audit(c, EvaluateRow(c, m))
            /\ Finish(c, [state[c] EXCEPT !.evaluation = v, !.model = m, !.next = Route(v)])
      BY <2>2 DEF EvaluateByModel
    <3>1. PICK s : s = [state[c] EXCEPT !.evaluation = v, !.model = m, !.next = Route(v)]
      OBVIOUS
    <3>2. v \in Evaluations /\ Route(v) \in {"escalate", "dispose"} /\ m # None
      BY ScreeningAssumption DEF Route
    <3>3. /\ s \in States /\ s.run = state[c].run /\ s.decision = state[c].decision
          /\ s.next \in {"escalate", "dispose"} /\ s.model = m
      BY <1>2, <3>1, <3>2 DEF States, NodeNames, Opt
    <3> QED BY <3>1, <3>2, <3>3 DEF Named
  <2> QED BY <2>1, <2>2
<1> QED BY <1>1, <1>4, EvaluatedWorks

(* The steps that leave the state as it is, at a node other than dispose   *)
(* or with a row of no booking, and none of them completes an evaluation.  *)
LEMMA WaitOwnRows ==
  ASSUME OrderInv, NEW c \in Calls, pc[c] \in {"node", "interrupt", "hook"},
         NEW p \in Working \ {"hook"}, pc' = [pc EXCEPT ![c] = p],
         UNCHANGED <<ckpt, state, unsaved>>,
         Without(state[c].run, {}),
         state[c].next # "dispose" => Without(state[c].run, FinalRows),
         Without(state[c].run, EvaluatedRows)
  PROVE  Works(c) /\ OwnRows(c)'
<1>1. PICK s \in States : s = state[c] /\ Audited(s) /\ s.next # END_
  BY WorksOn, StateFields DEF OrderInv, TrailInv, Working, ScreenInv, TypeOK
<1>2. Works(c) /\ state'[c] = s /\ pc'[c] # "hook"
  BY <1>1, WaitWorks DEF OrderInv
<1>3. Audited(s)'
  BY <1>1, NameStays DEF OrderInv
<1>4. OwnRows(c)'
  BY <1>2, <1>3 DEF OwnRows, Audited, Modelled, BookedRow, Named, LastAmong
<1> QED BY <1>2, <1>4

LEMMA EscalateRaiseWorks ==
  ASSUME OrderInv, NEW c \in Calls, EscalateRaise(c)
  PROVE  Works(c) /\ OwnRows(c)'
<1>1. pc[c] = "node" /\ state[c].next = "escalate"
  BY DEF EscalateRaise, At
<1>2. PICK row \in Rows : row = Row(c, "escalate", "interrupt_raised")
  BY RowIsRow DEF NodeNames
<1>3. row.step # "evaluate" /\ row.event \notin {"disposition", "compliance_blocked"}
  BY <1>2 DEF Row
<1>4. /\ Without(state[c].run, {}) /\ Without(state[c].run, FinalRows)
      /\ Without(state[c].run, EvaluatedRows)
  BY <1>2, <1>3, RowWithout DEF EscalateRaise
<1>5. "interrupt" \in Working \ {"hook"}
  BY DEF Working
<1> QED BY <1>1, <1>4, <1>5, WaitOwnRows DEF EscalateRaise

LEMMA EscalateParkWorks ==
  ASSUME OrderInv, NEW c \in Calls, EscalatePark(c)
  PROVE  Works(c) /\ OwnRows(c)'
<1>1. /\ pc[c] = "interrupt" /\ state[c] \in States /\ state[c].next = "escalate"
      /\ ScreenInv
  BY WorksOn DEF OrderInv, EscalatePark, Working, Within
<1>2. PICK s : s = [state[c] EXCEPT !.parked = TRUE]
  OBVIOUS
<1>3. /\ s \in States /\ s.next = "escalate" /\ s.run = state[c].run
      /\ s.decision = state[c].decision /\ s.model = state[c].model
  BY <1>1, <1>2 DEF States
<1>4. Without(s.run, {}) /\ Without(s.run, FinalRows) /\ Without(s.run, EvaluatedRows)
  BY DEF EscalatePark, Without
<1>5. /\ state'[c] = s /\ unsaved'[c] /\ pc'[c] = "returned" /\ ckpt' = ckpt
      /\ \A d \in Calls \ {c} :
           state'[d] = state[d] /\ pc'[d] = pc[d] /\ unsaved'[d] = unsaved[d]
  BY <1>1, <1>2 DEF EscalatePark, ScreenInv, TypeOK
<1>6. Position(state[c].next) <= Position(s.next)
  BY <1>1, <1>3, Positions
<1>7. Works(c)
  BY <1>1, <1>3, <1>4, <1>5, <1>6 DEF Works, Working
<1>8. Audited(s)'
  <2>1. PICK old \in States : old = state[c] /\ Audited(old)
    BY <1>1, StateFields DEF OrderInv, TrailInv
  <2> QED BY <1>1, <1>3, <1>4, <2>1, NameStays DEF END_
<1>9. OwnRows(c)'
  BY <1>5, <1>8 DEF OwnRows, Audited, Modelled, BookedRow, Named, LastAmong
<1> QED BY <1>7, <1>9

LEMMA EscalateResumeWorks ==
  ASSUME OrderInv, NEW c \in Calls, EscalateResume(c)
  PROVE  Works(c) /\ OwnRows(c)'
<1>1. /\ pc[c] = "interrupt" /\ state[c] \in States /\ state[c].next = "escalate"
      /\ ScreenInv
  BY WorksOn DEF OrderInv, EscalateResume, Working, Within
<1> PICK d \in Decisions : d = token[c] /\ d # None
  BY <1>1 DEF EscalateResume, ScreenInv, TypeOK, Opt
<1>2. PICK s :
        s = [state[c] EXCEPT !.decision = d, !.parked = FALSE, !.next = "dispose"]
  OBVIOUS
<1>3. /\ s \in States /\ s.next = "dispose" /\ s.run = state[c].run
      /\ s.decision = d /\ s.model = state[c].model
  BY <1>1, <1>2 DEF States, Opt, NodeNames
<1>4. PICK row \in Rows : row = [Row(c, "escalate", "resumed") EXCEPT !.decision = d]
  BY RowIsRow DEF NodeNames, Opt
<1>5. /\ row.event = "resumed" /\ row.decision = d /\ row.step = "escalate"
  BY <1>4 DEF Row
<1>6. Audit(c, row) /\ Finish(c, s)
  BY <1>2, <1>4 DEF EscalateResume
<1>7. Without(s.run, {}) /\ Without(s.run, FinalRows) /\ Without(s.run, EvaluatedRows)
  BY <1>3, <1>5, <1>6, RowWithout
<1>8. Resumed(s.run, s.decision)'
  <2>1. row \in RowsOf(s.run)'
    BY <1>1, <1>3, <1>6, AuditAdds, StateFields DEF ScreenInv
  <2> QED BY <1>3, <1>5, <2>1 DEF Resumed
<1>9. Position(state[c].next) <= Position(s.next)
  BY <1>1, <1>3, Positions
<1>10. Works(c) /\ state'[c] = s /\ pc'[c] # "hook"
  BY <1>1, <1>2, <1>3, <1>6, <1>7, <1>8, <1>9, FinishWorks
<1>11. Audited(s)'
  <2>1. PICK old \in States : old = state[c] /\ Audited(old)
    BY <1>1, StateFields DEF OrderInv, TrailInv
  <2>2. Position(s.next) <= 4 <=> Position(old.next) <= 4
    BY <1>1, <1>3, <2>1, Positions
  <2> QED BY <1>1, <1>3, <1>7, <2>1, <2>2, NameStays DEF END_
<1>12. OwnRows(c)'
  BY <1>10, <1>11 DEF OwnRows, Audited, Modelled, BookedRow, Named, LastAmong
<1> QED BY <1>10, <1>12

(* dispose: the row is the last about a booking, until the hook has passed *)
(* or has refused.                                                         *)
LEMMA BookWorks ==
  ASSUME OrderInv, NEW c \in Calls, Book(c)
  PROVE  Works(c) /\ OwnRows(c)'
<1>1. /\ pc[c] = "node" /\ state[c].next = "dispose" /\ ScreenInv
      /\ trail \in [Calls -> Seq(Rows)]
  BY OrderAt DEF Book, OrderInv, ScreenInv, TypeOK
<1>2. PICK s \in States : s = state[c] /\ Audited(s) /\ Filled(s)
  BY OrderAt, AtNode DEF Book, Sound, OrderInv
<1>3. PICK d \in Opt(Dispositions) : d = DispositionOf(s)
  BY <1>1, <1>2, DispositionIs DEF Opt
<1>4. PICK row \in Rows : row = [Row(c, "dispose", "disposition") EXCEPT !.disposition = d]
  BY RowIsRow DEF NodeNames
<1>5. row.step = "dispose" /\ row.event = "disposition" /\ row.disposition = d
  BY <1>4 DEF Row
<1>6. Audit(c, row) /\ Adds(s.run, row)
  BY <1>2, <1>3, <1>4 DEF Book, Audit, Adds
<1>7. Without(s.run, {}) /\ Without(s.run, EvaluatedRows)
  BY <1>2, <1>5, <1>6, RowWithout
<1>8. Works(c) /\ state'[c] = s /\ pc'[c] = "hook"
  BY <1>1, <1>2, <1>7, WaitWorks DEF Book, Working
<1>9. BookedRow(s)'
  <2>1. row \in FinalRows /\ s.run \in Calls
    BY <1>5, StateFields DEF FinalRows
  <2>2. \E n \in DOMAIN trail'[s.run] :
          LastAmong(s.run, n, FinalRows)' /\ trail'[s.run][n] = row
    BY <1>1, <1>6, <2>1, LastIsNew
  <2> QED BY <1>3, <1>5, <2>2 DEF BookedRow, LastAmong
<1>10. Audited(s)'
  BY <1>1, <1>2, <1>7, NameStays DEF END_
<1>11. OwnRows(c)'
  BY <1>8, <1>9, <1>10 DEF OwnRows, Audited, Modelled, BookedRow, Named, LastAmong
<1> QED BY <1>8, <1>11

LEMMA HookPassWorks ==
  ASSUME OrderInv, NEW c \in Calls, HookPass(c)
  PROVE  Works(c) /\ OwnRows(c)'
<1>1. /\ pc[c] = "hook" /\ state[c].next = "dispose" /\ ScreenInv
      /\ state[c] \in States /\ Filled(state[c])
  BY WorksOn DEF HookPass, Working, Within, OrderInv, Sound
<1>2. PICK old \in States : old = state[c] /\ Audited(old) /\ BookedRow(old)
  BY <1>1, StateFields DEF OrderInv, TrailInv
<1>3. PICK d, s :
        /\ d \in Dispositions
        /\ d = DispositionOf(old)
        /\ s = [old EXCEPT !.disposition = d, !.next = END_]
  BY <1>1, <1>2, DispositionIs
<1>4. /\ s \in States /\ s.next = END_ /\ s.run = old.run
      /\ s.enrichment = old.enrichment /\ s.evaluation = old.evaluation
      /\ s.decision = old.decision /\ s.model = old.model
  BY <1>3 DEF States, Opt
<1>5. DispositionOf(s) = DispositionOf(old)
  BY <1>4 DEF DispositionOf, Cited
<1>6. Finish(c, s) /\ UNCHANGED trail
  BY <1>2, <1>3 DEF HookPass
<1>7. Without(s.run, {}) /\ Without(s.run, FinalRows) /\ Without(s.run, EvaluatedRows)
  BY <1>6 DEF Without
<1>8. Position(old.next) <= Position(s.next)
  BY <1>1, <1>2, <1>4, Positions
<1>9. Works(c) /\ state'[c] = s /\ pc'[c] # "hook"
  BY <1>1, <1>2, <1>4, <1>6, <1>7, <1>8, FinishWorks
<1>10. BookedRow(s)'
  BY <1>2, <1>4, <1>5, <1>6 DEF BookedRow, LastAmong
<1>11. ~ Reuse => Modelled(s)'
  <2>1. ~ (Position(s.next) <= 4) /\ Position(old.next) > 4
    BY <1>1, <1>2, <1>4, Positions
  <2> QED BY <1>2, <1>4, <1>6, <2>1 DEF Audited, Modelled, Named, LastAmong
<1>12. OwnRows(c)'
  BY <1>9, <1>10, <1>11 DEF OwnRows, Audited, Modelled, BookedRow, Named, LastAmong
<1> QED BY <1>9, <1>12

(* A failure, audited or not, and the refusal of the hook.                 *)
LEMMA RefuseWorks ==
  ASSUME OrderInv, NEW c \in Calls, pc[c] \in {"node", "hook"},
         NEW event \in {"node_failed", "compliance_blocked"},
         event = "compliance_blocked" => state[c].next = "dispose",
         Audit(c, Row(c, state[c].next, event)),
         NEW p \in {"raised", "blocked"}, pc' = [pc EXCEPT ![c] = p],
         UNCHANGED <<ckpt, state, unsaved>>
  PROVE  Works(c) /\ OwnRows(c)'
<1>1. state[c] \in States /\ state[c].next \in NodeNames
  BY WorksOn DEF Working, OrderInv
<1>2. PICK row \in Rows : row = Row(c, state[c].next, event)
  BY <1>1, RowIsRow
<1>3. row.event = event
  BY <1>2 DEF Row
<1>4. /\ Without(state[c].run, {}) /\ Without(state[c].run, EvaluatedRows)
      /\ state[c].next # "dispose" => Without(state[c].run, FinalRows)
  BY <1>2, <1>3, RowWithout
<1>5. p \in Working \ {"hook"}
  BY DEF Working
<1> QED BY <1>4, <1>5, WaitOwnRows

LEMMA RefusalWorks ==
  ASSUME OrderInv, NEW c \in Calls,
         BookInvalid(c) \/ HookBlock(c) \/ NodeFails(c) \/ SqlFails(c)
  PROVE  Works(c) /\ OwnRows(c)'
<1>1. CASE BookInvalid(c)
  BY <1>1, RefuseWorks DEF BookInvalid, At, Raise
<1>2. CASE HookBlock(c)
  <2>1. state[c].next = "dispose"
    BY <1>2, WorksOn DEF HookBlock, Working, Within, OrderInv
  <2> QED BY <1>2, <2>1, RefuseWorks DEF HookBlock
<1>3. CASE NodeFails(c)
  BY <1>3, RefuseWorks DEF NodeFails, At, Raise
<1>4. CASE SqlFails(c)
  <2>1. \A q, S : Without(q, S)
    BY <1>4 DEF SqlFails, Without
  <2>2. "raised" \in Working \ {"hook"}
    BY DEF Working
  <2> QED BY <1>4, <2>1, <2>2, WaitOwnRows DEF SqlFails, Raise
<1> QED BY <1>1, <1>2, <1>3, <1>4

-----------------------------------------------------------------------------
(* The begin and the end of a call, and a checkpoint                       *)

LEMMA NobodyElse ==
  ASSUME ~ Overlap, NEW c \in Calls, ThreadIsFree(Thread(c)), NEW d \in Calls,
         Thread(d) = Thread(c)
  PROVE  pc[d] \notin Working
BY DEF ThreadIsFree

(* A call that begins with a state of its thread.                          *)
LEMMA BeginKeeps ==
  ASSUME OrderInv, ScreenInv', ~ Overlap, NEW c \in Calls,
         ThreadIsFree(Thread(c)), pc[c] = "waiting",
         NEW s \in States, state' = [state EXCEPT ![c] = s],
         NEW p \in {"node", "returned"}, pc' = [pc EXCEPT ![c] = p],
         UNCHANGED <<ckpt, trail>>,
         \A d \in Calls \ {c} : unsaved'[d] = unsaved[d],
         RunOf(Thread(c), s)', Audited(s),
         unsaved'[c] \/ ckpt[Thread(c)] = s,
         ckpt[Thread(c)] # None => Ahead(ckpt[Thread(c)], s)
  PROVE  OrderInv'
<1>1. /\ pc'[c] = p /\ state'[c] = s /\ p # "hook" /\ p # "waiting"
      /\ \A d \in Calls \ {c} : state'[d] = state[d] /\ pc'[d] = pc[d]
  BY DEF OrderInv, ScreenInv, TypeOK
<1>2. Alone'
  BY <1>1, NobodyElse DEF OrderInv, Alone, Thread
<1>3. RunsOfThreads'
  <2>1. \A t, u : RunOf(t, u) /\ u.run \in Calls => RunOf(t, u)'
    BY <1>1 DEF RunOf, Thread
  <2>2. \A t \in Threads : ckpt[t] # None => ckpt[t].run \in Calls
    BY StateFields DEF OrderInv, ScreenInv, TypeOK, Opt
  <2>3. \A d \in Calls : state[d] # None => state[d].run \in Calls
    BY StateFields DEF OrderInv, ScreenInv, TypeOK, Opt
  <2>4. \A t \in Threads : ckpt'[t] # None => RunOf(t, ckpt[t])'
    BY <2>1, <2>2 DEF OrderInv, RunsOfThreads, RunOf, Thread
  <2>5. \A d \in Calls : state'[d] # None => RunOf(Thread(d), state[d])'
    BY <1>1, <2>1, <2>3 DEF OrderInv, RunsOfThreads, RunOf, Thread
  <2> QED BY <2>4, <2>5 DEF RunsOfThreads
<1>4. Level'
  BY <1>1 DEF OrderInv, Level, Thread
<1>5. AheadOfStored'
  <2>1. ASSUME NEW d \in Calls, pc'[d] \in Working, ckpt'[Thread(d)] # None
        PROVE  Ahead(ckpt[Thread(d)], state[d])'
    <3>1. Ahead(ckpt[Thread(d)], state'[d])
      BY <1>1, <2>1 DEF OrderInv, AheadOfStored, Thread
    <3> QED BY <3>1 DEF Ahead, Resumed, RowsOf, Thread
  <2> QED BY <2>1 DEF AheadOfStored, Thread
<1>6. TrailInv'
  <2>1. \A d \in Calls : state'[d] # None => Audited(state'[d])
    BY <1>1 DEF OrderInv, TrailInv
  <2>2. \A d \in Calls : pc'[d] = "hook" => BookedRow(state'[d])
    BY <1>1 DEF OrderInv, TrailInv
  <2>3. (\A t \in Threads : ckpt[t] # None => Audited(ckpt[t]))'
    BY <1>1 DEF OrderInv, TrailInv, Audited, Modelled, BookedRow, Named, LastAmong
  <2>4. (\A d \in Calls : state[d] # None => Audited(state[d]))'
    BY <1>1, <2>1 DEF Audited, Modelled, BookedRow, Named, LastAmong
  <2>5. (\A d \in Calls : pc[d] = "hook" => BookedRow(state[d]))'
    BY <1>1, <2>2 DEF BookedRow, LastAmong
  <2> QED BY <2>3, <2>4, <2>5 DEF TrailInv
<1> QED BY <1>2, <1>3, <1>4, <1>5, <1>6 DEF OrderInv

LEMMA StartRunOrder ==
  ASSUME OrderInv, ScreenInv', ~ Overlap, NEW c \in Calls, StartRun(c)
  PROVE  OrderInv'
<1> PICK old, s :
      /\ old = IF ckpt[Thread(c)] = None THEN NewThread ELSE ckpt[Thread(c)]
      /\ s = [old EXCEPT !.run = c, !.alert = Payload[c].alert,
                         !.next = "intake", !.parked = FALSE]
  OBVIOUS
<1>1. /\ pc[c] = "waiting" /\ ThreadIsFree(Thread(c)) /\ UNCHANGED <<ckpt, trail>>
      /\ ckpt[Thread(c)] = None \/ Reuse
      /\ pc' = [pc EXCEPT ![c] = "node"] /\ state' = [state EXCEPT ![c] = s]
      /\ unsaved' = [unsaved EXCEPT ![c] = TRUE]
  BY DEF StartRun
<1>2. state'[c] = s /\ pc'[c] = "node" /\ unsaved'[c]
      /\ \A d \in Calls \ {c} : unsaved'[d] = unsaved[d]
  BY <1>1 DEF OrderInv, ScreenInv, TypeOK
<1>3. s \in States
  <2>1. "node" \in Working
    BY DEF Working
  <2> QED BY <1>2, <2>1 DEF ScreenInv, TypeOK, Opt
<1>4. s.run = c /\ s.next = "intake" /\ (~ Reuse => s.model = None)
  <2>1. CASE ckpt[Thread(c)] = None
    BY <2>1 DEF NewThread
  <2>2. CASE ckpt[Thread(c)] # None
    <3>1. old \in States /\ Reuse
      BY <1>1, <2>2, ThreadOf DEF OrderInv, ScreenInv, TypeOK, Opt
    <3> QED BY <3>1 DEF States
  <2> QED BY <2>1, <2>2
<1>5. RunOf(Thread(c), s)'
  BY <1>2, <1>4 DEF RunOf, Thread
<1>6. Audited(s)
  BY <1>4, Positions DEF Audited, Modelled, END_
<1>7. ckpt[Thread(c)] # None => Ahead(ckpt[Thread(c)], s)
  BY <1>1, <1>4, ThreadOf DEF OrderInv, RunsOfThreads, RunOf, Ahead
<1> QED BY <1>1, <1>2, <1>3, <1>5, <1>6, <1>7, BeginKeeps

LEMMA ResumeOrder ==
  ASSUME OrderInv, ScreenInv', ~ Overlap, NEW c \in Calls, Resume(c)
  PROVE  OrderInv'
<1> PICK s : s = ckpt[Thread(c)]
  OBVIOUS
<1> PICK p \in {"returned", "node"} : p = IF s.next = END_ THEN "returned" ELSE "node"
  OBVIOUS
<1>1. /\ s # None /\ ThreadIsFree(Thread(c)) /\ pc[c] = "waiting"
      /\ pc' = [pc EXCEPT ![c] = p] /\ state' = [state EXCEPT ![c] = s]
      /\ UNCHANGED <<ckpt, trail, unsaved>>
  BY DEF Resume
<1>2. s \in States /\ RunOf(Thread(c), s) /\ Audited(s) /\ s.run \in Calls
  BY <1>1, ThreadOf, StateFields DEF OrderInv, ScreenInv, TypeOK, Opt, RunsOfThreads, TrailInv
<1>3. RunOf(Thread(c), s)'
  BY <1>1, <1>2 DEF RunOf, Thread, OrderInv, ScreenInv, TypeOK
<1>4. Ahead(s, s)
  <2>1. \A n \in NodeNames \cup {END_} : Position(n) \in Nat
    BY Positions DEF NodeNames
  <2> QED BY <1>2, <2>1, StateFields DEF Ahead
<1> QED BY <1>1, <1>2, <1>3, <1>4, BeginKeeps

LEMMA LeaveOrder ==
  ASSUME OrderInv, ScreenInv', NEW c \in Calls, Respond(c) \/ Crash(c)
  PROVE  OrderInv'
<1>1. PICK p \in {"done", "crashed"} :
        /\ pc' = [pc EXCEPT ![c] = p] /\ state' = [state EXCEPT ![c] = None]
        /\ UNCHANGED <<ckpt, trail>>
        /\ unsaved' = unsaved \/ unsaved' = [unsaved EXCEPT ![c] = FALSE]
  BY DEF Respond, Crash
<1>2. /\ pc'[c] = p /\ p \notin Working /\ state'[c] = None
      /\ \A d \in Calls \ {c} :
           state'[d] = state[d] /\ pc'[d] = pc[d] /\ unsaved'[d] = unsaved[d]
  BY <1>1 DEF OrderInv, ScreenInv, TypeOK, Working
<1>3. p # "waiting" /\ p # "hook"
  OBVIOUS
<1>4. Alone'
  BY <1>2 DEF OrderInv, Alone, Thread
<1>5. RunsOfThreads'
  <2>1. \A t, u : RunOf(t, u) /\ u.run \in Calls => RunOf(t, u)'
    BY <1>2, <1>3 DEF RunOf, Thread
  <2>2. \A t \in Threads : ckpt[t] # None => ckpt[t].run \in Calls
    BY StateFields DEF OrderInv, ScreenInv, TypeOK, Opt
  <2>3. \A d \in Calls : state[d] # None => state[d].run \in Calls
    BY StateFields DEF OrderInv, ScreenInv, TypeOK, Opt
  <2>4. \A t \in Threads : ckpt'[t] # None => RunOf(t, ckpt[t])'
    BY <1>1, <2>1, <2>2 DEF OrderInv, RunsOfThreads, RunOf, Thread
  <2>5. \A d \in Calls : state'[d] # None => RunOf(Thread(d), state[d])'
    BY <1>2, <2>1, <2>3 DEF OrderInv, RunsOfThreads, RunOf, Thread
  <2> QED BY <2>4, <2>5 DEF RunsOfThreads
<1>6. Level'
  BY <1>1, <1>2 DEF OrderInv, Level, Thread
<1>7. AheadOfStored'
  BY <1>1, <1>2 DEF OrderInv, AheadOfStored, Thread, Ahead, Resumed, RowsOf
<1>8. TrailInv'
  <2>1. \A d \in Calls : state'[d] # None => Audited(state'[d])
    BY <1>2 DEF OrderInv, TrailInv
  <2>2. \A d \in Calls : pc'[d] = "hook" => BookedRow(state'[d])
    BY <1>2, <1>3 DEF OrderInv, TrailInv
  <2>3. (\A t \in Threads : ckpt[t] # None => Audited(ckpt[t]))'
    BY <1>1 DEF OrderInv, TrailInv, Audited, Modelled, BookedRow, Named, LastAmong
  <2>4. (\A d \in Calls : state[d] # None => Audited(state[d]))'
    BY <1>1, <2>1 DEF Audited, Modelled, BookedRow, Named, LastAmong
  <2>5. (\A d \in Calls : pc[d] = "hook" => BookedRow(state[d]))'
    BY <1>1, <2>2 DEF BookedRow, LastAmong
  <2> QED BY <2>3, <2>4, <2>5 DEF TrailInv
<1> QED BY <1>4, <1>5, <1>6, <1>7, <1>8 DEF OrderInv

LEMMA StoreOrder ==
  ASSUME OrderInv, ScreenInv', NEW c \in Calls, Store(c)
  PROVE  OrderInv'
<1>1. /\ pc[c] \in Working /\ UNCHANGED <<trail, pc, state>>
      /\ ckpt'[Thread(c)] = state[c] /\ ~ unsaved'[c]
      /\ \A t \in Threads : t # Thread(c) => ckpt'[t] = ckpt[t]
      /\ \A d \in Calls \ {c} : unsaved'[d] = unsaved[d]
  BY ThreadOf DEF Store, OrderInv, ScreenInv, TypeOK
<1>2. state[c] \in States
  BY <1>1, WorksOn DEF OrderInv
<1>3. Alone'
  BY <1>1 DEF OrderInv, Alone, Thread
<1>4. RunsOfThreads'
  BY <1>1, ThreadOf DEF OrderInv, RunsOfThreads, RunOf, Thread
<1>5. ASSUME NEW d \in Calls \ {c}, pc'[d] \in Working
      PROVE  Thread(d) # Thread(c)
  BY <1>1, <1>5 DEF OrderInv, Alone
<1>6. Level'
  BY <1>1, <1>5, ThreadOf DEF OrderInv, Level, Thread
<1>7. AheadOfStored'
  <2>1. Ahead(state[c], state[c])
    <3>1. \A n \in NodeNames \cup {END_} : Position(n) \in Nat
      BY Positions DEF NodeNames
    <3> QED BY <1>2, <3>1, StateFields DEF Ahead
  <2>2. ASSUME NEW d \in Calls, pc'[d] \in Working, ckpt'[Thread(d)] # None
        PROVE  Ahead(ckpt'[Thread(d)], state[d])
    <3>1. CASE d = c
      BY <1>1, <2>1, <3>1
    <3>2. CASE d # c
      BY <1>1, <1>5, <2>2, <3>2, ThreadOf DEF OrderInv, AheadOfStored
    <3> QED BY <3>1, <3>2
  <2> QED BY <1>1, <2>2 DEF AheadOfStored, Ahead, Resumed, RowsOf, Thread
<1>8. TrailInv'
  <2>1. Audited(state[c])
    BY <1>2, StateFields DEF OrderInv, TrailInv
  <2>2. \A t \in Threads : ckpt'[t] # None => Audited(ckpt'[t])
    BY <1>1, <2>1 DEF OrderInv, TrailInv
  <2> QED BY <1>1, <2>2 DEF OrderInv, TrailInv, Audited, Modelled, BookedRow, Named, LastAmong
<1> QED BY <1>3, <1>4, <1>6, <1>7, <1>8 DEF OrderInv

LEMMA OrderInit == Init => OrderInv
<1> SUFFICES ASSUME Init PROVE OrderInv
  OBVIOUS
<1>1. ScreenInv
  BY InvInit
<1>2. \A c \in Calls : pc[c] = "waiting" /\ "waiting" \notin Working /\ state[c] = None
  BY DEF Init, Working
<1>3. \A t \in Threads : ckpt[t] = None
  BY DEF Init
<1> QED BY <1>1, <1>2, <1>3 DEF OrderInv, Alone, RunsOfThreads, Level, AheadOfStored, TrailInv

LEMMA OrderNext ==
  ASSUME ~ Overlap
  PROVE  OrderInv /\ [Next]_vars => OrderInv'
<1> SUFFICES ASSUME OrderInv, [Next]_vars PROVE OrderInv'
  OBVIOUS
<1>1. ScreenInv'
  BY InvNext DEF OrderInv
<1>2. ASSUME NEW c \in Calls, StartRun(c) \/ Resume(c) PROVE OrderInv'
  BY <1>1, <1>2, StartRunOrder, ResumeOrder
<1>3. ASSUME NEW c \in Calls, Step(c) \/ SqlFails(c) PROVE OrderInv'
  <2>1. CASE Store(c)
    BY <1>1, <2>1, StoreOrder
  <2>2. CASE Respond(c)
    BY <1>1, <2>2, LeaveOrder
  <2>3. CASE ~ Store(c) /\ ~ Respond(c)
    <3>1. Works(c) /\ OwnRows(c)'
      BY <1>3, <2>3, IntakeWorks, EnrichWorks, RetrieveWorks, EvaluateWorks,
         EscalateRaiseWorks, EscalateParkWorks, EscalateResumeWorks, BookWorks,
         HookPassWorks, RefusalWorks DEF Step
    <3> QED BY <1>1, <3>1, WorksKeeps
  <2> QED BY <2>1, <2>2, <2>3
<1>4. ASSUME NEW c \in Calls, Crash(c) PROVE OrderInv'
  BY <1>1, <1>4, LeaveOrder
<1>5. CASE UNCHANGED vars
  <2>1. RunsOfThreads' /\ Alone' /\ Level'
    BY <1>5 DEF vars, OrderInv, Alone, RunsOfThreads, RunOf, Level, Thread
  <2>2. AheadOfStored'
    BY <1>5 DEF vars, OrderInv, AheadOfStored, Ahead, Resumed, RowsOf, Thread
  <2>3. TrailInv'
    BY <1>5 DEF vars, OrderInv, TrailInv, Audited, Modelled, BookedRow, Named, LastAmong
  <2> QED BY <1>1, <2>1, <2>2, <2>3 DEF OrderInv
<1> QED BY <1>2, <1>3, <1>4, <1>5 DEF Next

LEMMA OrderAlways ==
  ASSUME ~ Overlap
  PROVE  Spec => []OrderInv
BY OrderInit, OrderNext, PTL DEF Spec

-----------------------------------------------------------------------------
(* What follows                                                            *)

LEMMA BookedByNow ==
  ASSUME OrderInv, NEW t \in Booked
  PROVE  /\ t \in Threads /\ ckpt[t] \in States /\ ckpt[t].run \in Calls
         /\ ckpt[t].next = END_ /\ Audited(ckpt[t]) /\ RunOf(t, ckpt[t])
         /\ ckpt[t].disposition = DispositionOf(ckpt[t])
<1>1. t \in Threads /\ ckpt[t] # None /\ ckpt[t].next = END_
  BY DEF Booked, Closed
<1> QED BY <1>1, BookedIsSound, StateFields DEF OrderInv, RunsOfThreads, TrailInv

LEMMA RowsAreRows ==
  ASSUME TypeOK, NEW r \in Calls, NEW n \in DOMAIN trail[r]
  PROVE  trail[r][n] \in Rows
<1>1. trail[r] \in Seq(Rows)
  BY DEF TypeOK
<1> QED BY <1>1

(* The last word of a run's rows on its booking is the disposition that is *)
(* booked, and no refusal (nodes.py dispose; middleware.py: the citation   *)
(* check after the row).                                                   *)
THEOREM BookingOnRecord ==
  ASSUME ~ Overlap
  PROVE  Spec => []BookedAsAudited
<1>1. ASSUME OrderInv, NEW t \in Booked
      PROVE  \E n \in DOMAIN trail[ckpt[t].run] :
               /\ LastAmong(ckpt[t].run, n, FinalRows)
               /\ trail[ckpt[t].run][n].disposition = ckpt[t].disposition
  BY <1>1, BookedByNow DEF Audited, BookedRow
<1>2. ASSUME OrderInv, NEW r \in Calls, NEW n, LastAmong(r, n, FinalRows)
      PROVE  /\ n \in DOMAIN trail[r]
             /\ trail[r][n].event \in {"disposition", "compliance_blocked"}
             /\ \A k \in DOMAIN trail[r] :
                  trail[r][k].event \in {"disposition", "compliance_blocked"} => k <= n
  BY <1>2, RowsAreRows DEF OrderInv, ScreenInv, LastAmong, FinalRows
<1>3. OrderInv => BookedAsAudited
  BY <1>1, <1>2, BookedByNow DEF BookedAsAudited, IsLastRow
<1> QED BY <1>3, OrderAlways, PTL

(* The agent's disposition names the model that the last evaluation of the *)
(* run was audited with, after any crash and fallback, where a thread is   *)
(* given one alert only (nodes.py dispose: model_id).                      *)
THEOREM ModelOnRecord ==
  ASSUME ~ Overlap, ~ Reuse
  PROVE  Spec => []DispositionNamesTheModelAudited
<1>1. ASSUME OrderInv, NEW t \in Booked, ckpt[t].decision = None
      PROVE  \E n \in DOMAIN trail[ckpt[t].run] :
               /\ LastAmong(ckpt[t].run, n, EvaluatedRows)
               /\ trail[ckpt[t].run][n].model = ckpt[t].disposition.model
  <2>1. Position(ckpt[t].next) > 4 /\ Modelled(ckpt[t])
    BY <1>1, BookedByNow, Positions DEF Audited
  <2>2. ckpt[t].disposition.model = Named(ckpt[t])
    <3>1. ckpt[t].disposition = DispositionOf(ckpt[t])
      BY <1>1, BookedByNow
    <3>2. DispositionOf(ckpt[t]).model = Named(ckpt[t])
      BY <1>1 DEF DispositionOf, Named
    <3> QED BY <3>1, <3>2
  <2> QED BY <2>1, <2>2 DEF Modelled
<1>2. ASSUME OrderInv, NEW r \in Calls, NEW n, LastAmong(r, n, EvaluatedRows)
      PROVE  /\ n \in DOMAIN trail[r]
             /\ trail[r][n].step = "evaluate" /\ trail[r][n].event = "node_completed"
             /\ \A k \in DOMAIN trail[r] :
                  trail[r][k].step = "evaluate" /\ trail[r][k].event = "node_completed"
                    => k <= n
  BY <1>2, RowsAreRows DEF OrderInv, ScreenInv, LastAmong, EvaluatedRows
<1>3. OrderInv => DispositionNamesTheModelAudited
  BY <1>1, <1>2, BookedByNow DEF DispositionNamesTheModelAudited, IsLastRow
<1> QED BY <1>3, OrderAlways, PTL

(* Only Store changes a checkpoint.                                        *)
LEMMA OnlyStore ==
  ASSUME OrderInv, [Next]_vars, NEW t \in Threads, ckpt'[t] # ckpt[t]
  PROVE  \E c \in Calls : /\ Store(c) /\ t = Thread(c) /\ pc[c] \in Working
                           /\ ckpt'[t] = state[c] /\ trail' = trail
<1>1. PICK c \in Calls : Store(c)
  <2>1. ~ UNCHANGED vars
    BY DEF vars
  <2>2. ASSUME NEW c \in Calls, StartRun(c) \/ Resume(c) \/ SqlFails(c) \/ Crash(c)
        PROVE  FALSE
    BY <2>2 DEF StartRun, Resume, SqlFails, Raise, Crash
  <2>3. ASSUME NEW c \in Calls, Step(c), ~ Store(c) PROVE FALSE
    <3>1. CASE Respond(c)
      BY <3>1 DEF Respond
    <3>2. CASE ~ Respond(c)
      BY <2>3, <3>2, IntakeWorks, EnrichWorks, RetrieveWorks, EvaluateWorks,
         EscalateRaiseWorks, EscalateParkWorks, EscalateResumeWorks, BookWorks,
         HookPassWorks, RefusalWorks DEF Step, Works
    <3> QED BY <3>1, <3>2
  <2> QED BY <2>1, <2>2, <2>3 DEF Next
<1> QED BY <1>1, ThreadOf DEF Store, OrderInv, ScreenInv, TypeOK

(* What a run has booked stays, whoever resumes its thread and however     *)
(* often (disposition.py: "Immutable decision record").                    *)
THEOREM BookingIsFinal ==
  ASSUME ~ Overlap
  PROVE  Spec => DispositionIsFinal
<1>1. ASSUME OrderInv, [Next]_vars, NEW t \in Booked, ckpt'[t].run = ckpt[t].run
      PROVE  ckpt'[t].disposition = ckpt[t].disposition
  <2> SUFFICES ASSUME ckpt'[t] # ckpt[t] PROVE FALSE
    OBVIOUS
  <2>1. t \in Threads /\ ckpt[t] # None /\ ckpt[t].next = END_
    BY DEF Booked, Closed
  <2>2. PICK c \in Calls : t = Thread(c) /\ pc[c] \in Working /\ ckpt'[t] = state[c]
    BY <1>1, <2>1, OnlyStore
  <2>3. Ahead(ckpt[t], state[c])
    BY <1>1, <2>1, <2>2 DEF OrderInv, AheadOfStored
  <2> QED BY <1>1, <2>1, <2>2, <2>3 DEF Ahead
<1>2. OrderInv /\ [Next]_vars =>
        [\A t \in Booked :
           ckpt'[t].run = ckpt[t].run => ckpt'[t].disposition = ckpt[t].disposition]_vars
  BY <1>1
<1> QED BY <1>2, OrderAlways, PTL DEF Spec, DispositionIsFinal

(* A thread leaves its escalation only with a decision that is on record   *)
(* in its run (nodes.py escalate: the row "resumed" before the return).    *)
THEOREM EscalationsAreDecided ==
  ASSUME ~ Overlap
  PROVE  Spec => EscalationLeavesOnlyByDecision
<1>1. ASSUME OrderInv, [Next]_vars, NEW t \in Threads,
             ckpt[t] # None, ckpt[t].next = "escalate",
             ckpt'[t].run = ckpt[t].run, ckpt'[t].next # "escalate"
      PROVE  /\ ckpt'[t].decision # None
             /\ \E n \in DOMAIN trail'[ckpt[t].run] :
                  LET row == trail'[ckpt[t].run][n]
                  IN  row.event = "resumed" /\ row.decision = ckpt'[t].decision
  <2>1. PICK c \in Calls :
          /\ t = Thread(c) /\ pc[c] \in Working /\ ckpt'[t] = state[c] /\ trail' = trail
    BY <1>1, OnlyStore
  <2>2. Ahead(ckpt[t], state[c])
    BY <1>1, <2>1 DEF OrderInv, AheadOfStored
  <2>3. state[c].decision # None /\ Resumed(ckpt[t].run, state[c].decision)
    BY <1>1, <2>1, <2>2 DEF Ahead
  <2> QED BY <2>1, <2>3 DEF Resumed, RowsOf
<1>2. OrderInv /\ [Next]_vars =>
        [\A t \in Threads :
           /\ ckpt[t] # None /\ ckpt[t].next = "escalate"
           /\ ckpt'[t].run = ckpt[t].run /\ ckpt'[t].next # "escalate"
           => /\ ckpt'[t].decision # None
              /\ \E n \in DOMAIN trail'[ckpt[t].run] :
                   LET row == trail'[ckpt[t].run][n]
                   IN  row.event = "resumed" /\ row.decision = ckpt'[t].decision]_vars
  BY <1>1
<1> QED BY <1>2, OrderAlways, PTL DEF Spec, EscalationLeavesOnlyByDecision

-----------------------------------------------------------------------------
(* Failures                                                                *)

Reason(c, event) ==
  \E run \in Calls : \E row \in RowsOf(run) : row.by = c /\ row.event = event

(* How a call has ended, or is about to.                                   *)
Explained(c) ==
  /\ pc[c] = "raised" => Reason(c, "node_failed")
  /\ pc[c] = "blocked" => Reason(c, "compliance_blocked")
  /\ pc[c] = "returned" => state[c].next = END_ \/ state[c].parked
  /\ pc[c] = "done" =>
       /\ answer[c].status = "error" => Reason(c, "node_failed")
       /\ answer[c].status = "blocked" => Reason(c, "compliance_blocked")

FailInv == OrderInv /\ \A c \in Calls : Explained(c)

LEMMA ReasonStays ==
  ASSUME \A r \in Calls : RowsOf(r) \subseteq RowsOf(r)', NEW c, NEW event, Reason(c, event)
  PROVE  Reason(c, event)'
BY DEF Reason

LEMMA OthersExplained ==
  ASSUME FailInv, \A r \in Calls : RowsOf(r) \subseteq RowsOf(r)',
         NEW d \in Calls, pc'[d] = pc[d], state'[d] = state[d], answer'[d] = answer[d]
  PROVE  Explained(d)'
<1>1. Explained(d)
  BY DEF FailInv
<1>2. \A event : Reason(d, event) => Reason(d, event)'
  BY ReasonStays
<1> QED BY <1>1, <1>2 DEF Explained

(* A row of a failure or of a refusal explains it.                         *)
LEMMA RowExplains ==
  ASSUME TypeOK, NEW c \in Calls, state[c] \in States, NEW node \in NodeNames,
         NEW event \in {"node_failed", "compliance_blocked"}, Audit(c, Row(c, node, event))
  PROVE  /\ \A r \in Calls : RowsOf(r) \subseteq RowsOf(r)'
         /\ Reason(c, event)'
<1>1. PICK q \in Calls, row \in Rows : q = state[c].run /\ row = Row(c, node, event)
  BY RowIsRow, StateFields
<1>2. row.by = c /\ row.event = event
  BY <1>1 DEF Row
<1>3. (\A r \in Calls : RowsOf(r) \subseteq RowsOf(r)') /\ row \in RowsOf(q)'
  BY <1>1, AuditAdds
<1> QED BY <1>2, <1>3 DEF Reason

LEMMA WorksGrows ==
  ASSUME OrderInv, NEW c \in Calls, Works(c)
  PROVE  \A r \in Calls : RowsOf(r) \subseteq RowsOf(r)'
<1>1. trail \in [Calls -> Seq(Rows)] /\ state[c].run \in Calls /\ Without(state[c].run, {})
  BY WorksOn, StateFields DEF OrderInv, ScreenInv, TypeOK, Works, Working
<1>2. CASE UNCHANGED trail
  BY <1>2 DEF RowsOf
<1>3. CASE \E row \in Rows : Adds(state[c].run, row)
  <2>1. PICK q \in Calls, row \in Rows : q = state[c].run /\ Adds(q, row)
    BY <1>1, <1>3
  <2>2. RowsOf(q) \subseteq RowsOf(q)'
    BY <1>1, <2>1, AddedRow DEF RowsOf
  <2>3. \A r \in Calls : r # q => RowsOf(r)' = RowsOf(r)
    BY <1>1, <2>1, AddedRow DEF RowsOf
  <2> QED BY <2>2, <2>3
<1> QED BY <1>1, <1>2, <1>3 DEF Without

(* A node that finishes returns at the end of the graph only.              *)
LEMMA FinishExplained ==
  ASSUME FailInv, NEW c \in Calls, Works(c), NEW s, Finish(c, s)
  PROVE  \A d \in Calls : Explained(d)'
<1>1. /\ pc'[c] = IF s.next = END_ THEN "returned" ELSE "node"
      /\ state'[c] = s /\ answer' = answer
  BY DEF Finish, FailInv, OrderInv, ScreenInv, TypeOK
<1>2. Explained(c)'
  BY <1>1 DEF Explained
<1>3. \A r \in Calls : RowsOf(r) \subseteq RowsOf(r)'
  BY WorksGrows DEF FailInv
<1>4. \A d \in Calls \ {c} : Explained(d)'
  BY <1>1, <1>3, OthersExplained DEF Works
<1> QED BY <1>2, <1>4

LEMMA NodesExplained ==
  ASSUME FailInv, NEW c \in Calls,
         \/ Intake(c) \/ Enrich(c) \/ Retrieve(c) \/ EvaluateByRule(c) \/ EvaluateByModel(c)
         \/ EscalateResume(c) \/ HookPass(c)
  PROVE  \A d \in Calls : Explained(d)'
<1>1. Works(c)
  BY IntakeWorks, EnrichWorks, RetrieveWorks, EvaluateWorks, EscalateResumeWorks,
     HookPassWorks DEF FailInv
<1>2. \E s : Finish(c, s)
  BY DEF Intake, Enrich, Retrieve, EvaluateByRule, EvaluateByModel, EscalateResume, HookPass
<1> QED BY <1>1, <1>2, FinishExplained

LEMMA WaitsExplained ==
  ASSUME FailInv, NEW c \in Calls, EscalateRaise(c) \/ Book(c) \/ EscalatePark(c)
  PROVE  \A d \in Calls : Explained(d)'
<1>1. Works(c)
  BY EscalateRaiseWorks, BookWorks, EscalateParkWorks DEF FailInv
<1>2. answer' = answer
  BY DEF EscalateRaise, Book, EscalatePark
<1>3. Explained(c)'
  <2>1. CASE EscalateRaise(c) \/ Book(c)
    <3>1. pc'[c] \in {"interrupt", "hook"}
      BY <2>1 DEF EscalateRaise, Book, FailInv, OrderInv, ScreenInv, TypeOK
    <3> QED BY <3>1 DEF Explained
  <2>2. CASE EscalatePark(c)
    <3>1. state[c] \in States
      BY <2>2, WorksOn DEF EscalatePark, Working, FailInv, OrderInv
    <3>2. PICK s : s = [state[c] EXCEPT !.parked = TRUE]
      OBVIOUS
    <3>3. s.parked
      BY <3>1, <3>2 DEF States
    <3>4. pc'[c] = "returned" /\ state'[c] = s
      BY <2>2, <3>2 DEF EscalatePark, FailInv, OrderInv, ScreenInv, TypeOK
    <3> QED BY <3>3, <3>4 DEF Explained
  <2> QED BY <2>1, <2>2
<1>4. \A r \in Calls : RowsOf(r) \subseteq RowsOf(r)'
  BY <1>1, WorksGrows DEF FailInv
<1>5. \A d \in Calls \ {c} : Explained(d)'
  BY <1>1, <1>2, <1>4, OthersExplained DEF Works
<1> QED BY <1>3, <1>5

LEMMA RefusalsExplained ==
  ASSUME FailInv, NEW c \in Calls, BookInvalid(c) \/ HookBlock(c) \/ NodeFails(c)
  PROVE  \A d \in Calls : Explained(d)'
<1>1. Works(c) /\ TypeOK
  BY RefusalWorks DEF FailInv, OrderInv, ScreenInv
<1>2. answer' = answer
  BY DEF BookInvalid, HookBlock, NodeFails, Raise
<1>3. state[c] \in States /\ state[c].next \in NodeNames
  BY <1>1, WorksOn DEF Works, Working, FailInv, OrderInv
<1>4. CASE BookInvalid(c) \/ NodeFails(c)
  <2>1. pc'[c] = "raised" /\ Audit(c, Row(c, state[c].next, "node_failed"))
    BY <1>1, <1>4 DEF BookInvalid, NodeFails, At, Raise, TypeOK
  <2>2. Reason(c, "node_failed")' /\ \A r \in Calls : RowsOf(r) \subseteq RowsOf(r)'
    BY <1>1, <1>3, <2>1, RowExplains
  <2>3. Explained(c)'
    BY <2>1, <2>2 DEF Explained
  <2>4. \A d \in Calls \ {c} : Explained(d)'
    BY <1>1, <1>2, <2>2, OthersExplained DEF Works
  <2> QED BY <2>3, <2>4
<1>5. CASE HookBlock(c)
  <2>1. pc'[c] = "blocked" /\ Audit(c, Row(c, "dispose", "compliance_blocked"))
    BY <1>1, <1>5 DEF HookBlock, TypeOK
  <2>2. Reason(c, "compliance_blocked")' /\ \A r \in Calls : RowsOf(r) \subseteq RowsOf(r)'
    BY <1>1, <1>3, <2>1, RowExplains DEF NodeNames
  <2>3. Explained(c)'
    BY <2>1, <2>2 DEF Explained
  <2>4. \A d \in Calls \ {c} : Explained(d)'
    BY <1>1, <1>2, <2>2, OthersExplained DEF Works
  <2> QED BY <2>3, <2>4
<1> QED BY <1>4, <1>5

(* A call that has returned is answered from its own last state.           *)
LEMMA RespondExplained ==
  ASSUME FailInv, NEW c \in Calls, Respond(c)
  PROVE  \A d \in Calls : Explained(d)'
<1>1. /\ pc[c] \in Working /\ ~ unsaved[c] /\ trail' = trail
      /\ pc'[c] = "done" /\ \A d \in Calls \ {c} : pc'[d] = pc[d] /\ state'[d] = state[d]
                                                  /\ answer'[d] = answer[d]
  BY DEF Respond, Working, FailInv, OrderInv, ScreenInv, TypeOK
<1>2. \A r \in Calls : RowsOf(r) \subseteq RowsOf(r)'
  BY <1>1 DEF RowsOf
<1>3. \A event : Reason(c, event) => Reason(c, event)'
  BY <1>2, ReasonStays
<1>4. Explained(c)
  BY DEF FailInv
<1>5. Explained(c)'
  <2>1. CASE pc[c] = "raised"
    <3>1. answer'[c] = [status |-> "error", disposition |-> None]
      BY <2>1 DEF Respond, FailInv, OrderInv, ScreenInv, TypeOK
    <3> QED BY <1>1, <1>3, <1>4, <2>1, <3>1 DEF Explained
  <2>2. CASE pc[c] = "blocked"
    <3>1. answer'[c] = [status |-> "blocked", disposition |-> None]
      BY <2>2 DEF Respond, FailInv, OrderInv, ScreenInv, TypeOK
    <3> QED BY <1>1, <1>3, <1>4, <2>2, <3>1 DEF Explained
  <2>3. CASE pc[c] = "returned"
    <3>1. answer'[c] = AnswerFrom(state[c])
      <4>1. ckpt[Thread(c)] = state[c]
        BY <1>1 DEF FailInv, OrderInv, Level
      <4>2. answer'[c] = AnswerFrom(ckpt[Thread(c)])
        BY <2>3 DEF Respond, FailInv, OrderInv, ScreenInv, TypeOK
      <4> QED BY <4>1, <4>2
    <3>2. state[c] \in States /\ Filled(state[c])
      BY <1>1, WorksOn DEF FailInv, OrderInv, Sound
    <3>3. state[c].parked \/ state[c].disposition # None
      <4>1. state[c].next = END_ => state[c].disposition \in Dispositions
        BY <3>2, DispositionIs DEF Filled
      <4> QED BY <1>4, <2>3, <4>1, Nothing DEF Explained
    <3>4. AnswerFrom(state[c]).status \notin {"error", "blocked"}
      BY <3>2, <3>3 DEF AnswerFrom
    <3> QED BY <1>1, <3>1, <3>4 DEF Explained
  <2> QED BY <2>1, <2>2, <2>3 DEF Respond
<1>6. \A d \in Calls \ {c} : Explained(d)'
  BY <1>1, <1>2, OthersExplained
<1> QED BY <1>5, <1>6

LEMMA BeginsExplained ==
  ASSUME FailInv, NEW c \in Calls, StartRun(c) \/ Resume(c) \/ Store(c) \/ Crash(c)
  PROVE  \A d \in Calls : Explained(d)'
<1>1. trail' = trail /\ answer' = answer
  BY DEF StartRun, Resume, Store, Crash
<1>2. \A r \in Calls : RowsOf(r) \subseteq RowsOf(r)'
  BY <1>1 DEF RowsOf
<1>3. \A d \in Calls \ {c} : pc'[d] = pc[d] /\ state'[d] = state[d]
  BY DEF StartRun, Resume, Store, Crash, FailInv, OrderInv, ScreenInv, TypeOK
<1>4. Explained(c)'
  <2>1. CASE StartRun(c) \/ Crash(c)
    <3>1. pc'[c] \in {"node", "crashed"}
      BY <2>1 DEF StartRun, Crash, FailInv, OrderInv, ScreenInv, TypeOK
    <3> QED BY <3>1 DEF Explained
  <2>2. CASE Resume(c)
    <3>1. /\ pc'[c] = IF ckpt[Thread(c)].next = END_ THEN "returned" ELSE "node"
          /\ state'[c] = ckpt[Thread(c)]
      BY <2>2 DEF Resume, FailInv, OrderInv, ScreenInv, TypeOK
    <3> QED BY <3>1 DEF Explained
  <2>3. CASE Store(c)
    BY <1>1, <1>2, <2>3, OthersExplained DEF Store
  <2> QED BY <2>1, <2>2, <2>3
<1>5. \A d \in Calls \ {c} : Explained(d)'
  BY <1>1, <1>2, <1>3, OthersExplained
<1> QED BY <1>4, <1>5

(* Where no statement of the audit connection fails, a caller that got an  *)
(* error or a refusal finds the reason on record under its own call        *)
(* (middleware.py wrap_node: the row, then the raise).                     *)
THEOREM FailuresOnRecord ==
  ASSUME ~ Overlap, MaxSqlErrors = 0
  PROVE  Spec => []FailureOnRecord
<1>1. Init => FailInv
  BY OrderInit DEF Init, FailInv, Explained
<1>2. FailInv /\ [Next]_vars => FailInv'
  <2> SUFFICES ASSUME FailInv, [Next]_vars PROVE FailInv'
    OBVIOUS
  <2>1. OrderInv'
    BY OrderNext DEF FailInv
  <2>2. ASSUME NEW c \in Calls, StartRun(c) \/ Resume(c) \/ Store(c) \/ Crash(c)
        PROVE  \A d \in Calls : Explained(d)'
    BY <2>2, BeginsExplained
  <2>3. ASSUME NEW c \in Calls, Step(c)
        PROVE  \A d \in Calls : Explained(d)'
    BY <2>2, <2>3, NodesExplained, WaitsExplained, RefusalsExplained, RespondExplained DEF Step
  <2>4. ASSUME NEW c \in Calls, SqlFails(c) PROVE FALSE
    <3>1. faults.sql \in 0..0 /\ faults.sql < 0
      BY <2>4 DEF SqlFails, FailInv, OrderInv, ScreenInv, TypeOK
    <3> QED BY <3>1
  <2>5. ASSUME UNCHANGED vars
        PROVE  \A d \in Calls : Explained(d)'
    BY <2>5 DEF vars, FailInv, Explained, Reason, RowsOf
  <2>6. \A d \in Calls : Explained(d)'
    BY <2>2, <2>3, <2>4, <2>5 DEF Next
  <2> QED BY <2>1, <2>6 DEF FailInv
<1>3. FailInv => FailureOnRecord
  <2> SUFFICES ASSUME FailInv, NEW c \in Calls, pc[c] = "done",
                      NEW reason \in {<<"error", "node_failed">>,
                                      <<"blocked", "compliance_blocked">>},
                      answer[c].status = reason[1]
               PROVE  Reason(c, reason[2])
    BY DEF FailureOnRecord, Reason
  <2>1. Explained(c)
    BY DEF FailInv
  <2> QED BY <2>1 DEF Explained
<1> QED BY <1>1, <1>2, <1>3, PTL DEF Spec

=============================================================================
