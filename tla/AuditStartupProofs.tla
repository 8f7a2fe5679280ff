------------------------- MODULE AuditStartupProofs -------------------------
(***************************************************************************)
(* Proofs about AuditStartup: what is proved of the chain holds beside     *)
(* start-ups too; no transaction has the table open while the trigger is   *)
(* away; and no deadlock is without a start-up that raises its lock.       *)
(***************************************************************************)
EXTENDS AuditStartup, AuditChainProofs

(* A step of a process is a step of AuditChain or leaves its variables.    *)
LEMMA StartupStep ==
  ASSUME [StartupNext]_startVars
  PROVE  [Next]_vars
<1>1. CASE UNCHANGED startVars
  BY <1>1 DEF startVars, vars
<1>2. CASE StartupNext
  <2> PICK w \in Writers :
        \/ Open(w) \/ CreateIndex(w) \/ AlterAndDrop(w) \/ CreateTrigger(w)
        \/ CommitSchema(w) \/ StartFails(w) \/ Appending(w) \/ Down(w)
    BY <1>2 DEF StartupNext
  <2>1. CASE \/ Open(w) \/ CreateIndex(w) \/ AlterAndDrop(w) \/ CreateTrigger(w)
             \/ CommitSchema(w) \/ StartFails(w)
    BY <2>1 DEF Open, CreateIndex, AlterAndDrop, CreateTrigger, CommitSchema,
                StartFails, Advance
  <2>2. CASE Appending(w)
    BY <2>2 DEF Appending, Next
  <2>3. CASE Down(w)
    BY <2>3 DEF Down, Next
  <2> QED BY <2>1, <2>2, <2>3
<1> QED BY <1>1, <1>2

LEMMA StartupImplementsChain == StartupSpec => Spec
<1>1. StartupInit => Init
  BY DEF StartupInit
<1>2. [StartupNext]_startVars => [Next]_vars
  BY StartupStep
<1> QED BY <1>1, <1>2, PTL DEF StartupSpec, Spec

(* The chain stays intact while processes start, die and start again       *)
(* (postgres.py open_checkpointer runs ensure_audit_schema in each).       *)
COROLLARY StartupKeepsChainIntact == StartupSpec => []ChainIntact
BY StartupImplementsChain, ChainAlwaysIntact, PTL

-----------------------------------------------------------------------------
(* Table locks                                                             *)

(* The statements between which a process has the table open.              *)
Reads(label) == label \in {"insert", "commit"}
Alters(label) == label \in {"create", "commit"}
Opened(label) == label = "drop" \/ Alters(label)

PcTypes ==
  /\ pc \in [Writers -> {Idle, "lock", "tail", "insert", "commit"}]
  /\ start \in [Writers -> Starting \cup {"down", "up"}]

(* Once a start-up has its exclusive lock, no one else has the table open. *)
Alone ==
  \A w, p \in Writers : w # p /\ Alters(start[w]) => ~ Reads(pc[p]) /\ ~ Opened(start[p])

GuardInv == PcTypes /\ Alone

LEMMA NothingHeld ==
  ASSUME NEW p \in Writers, ~ Reads(pc[p]), ~ Opened(start[p])
  PROVE  Holds(p) = {}
BY DEF Holds, AppendHolds, SchemaHolds, Reads, Opened, Alters

(* Nothing is granted beside a lock that is exclusive.                     *)
LEMMA GrantedBesideNoAlter ==
  ASSUME NEW w \in Writers, NEW p \in Writers, p # w,
         NEW mode \in {"AccessShare", "RowExclusive", "Share", "AccessExclusive"},
         Granted(w, mode)
  PROVE  ~ Alters(start[p])
<1> SUFFICES ASSUME Alters(start[p]) PROVE FALSE
  OBVIOUS
<1>1. "AccessExclusive" \in Holds(p)
  BY DEF Holds, SchemaHolds, Alters
<1>2. "AccessExclusive" \in Conflicts(mode)
  BY DEF Conflicts
<1>3. Holds(p) \cap Conflicts(mode) = {}
  BY DEF Granted, InTheWay
<1> QED BY <1>1, <1>2, <1>3

LEMMA GrantedAlone ==
  ASSUME NEW w \in Writers, NEW p \in Writers, p # w, Granted(w, "AccessExclusive")
  PROVE  ~ Reads(pc[p]) /\ ~ Opened(start[p])
<1>1. Holds(p) \cap Conflicts("AccessExclusive") = {}
  BY DEF Granted, InTheWay
<1>2. "AccessShare" \in Conflicts("AccessExclusive") /\ "Share" \in Conflicts("AccessExclusive")
  BY DEF Conflicts
<1>3. Reads(pc[p]) => "AccessShare" \in Holds(p)
  BY DEF Holds, AppendHolds, Reads
<1>4. Opened(start[p]) => "Share" \in Holds(p)
  BY DEF Holds, SchemaHolds, Opened, Alters
<1> QED BY <1>1, <1>2, <1>3, <1>4

-----------------------------------------------------------------------------
(* The invariant                                                           *)

LEMMA GuardInit == StartupInit => GuardInv
BY DEF StartupInit, Init, GuardInv, PcTypes, Alone, Alters, Starting, Idle

(* A step of schema.sql moves one process, and only to where its locks let *)
(* it be.                                                                  *)
LEMMA SchemaStepAlone ==
  ASSUME GuardInv, NEW w \in Writers,
         \/ Open(w) \/ CreateIndex(w) \/ AlterAndDrop(w) \/ CreateTrigger(w)
         \/ CommitSchema(w) \/ StartFails(w)
  PROVE  GuardInv'
<1>1. pc' = pc
  BY DEF Open, CreateIndex, AlterAndDrop, CreateTrigger, CommitSchema, StartFails,
         Advance, vars
<1>2. PICK to \in Starting \cup {"down", "up"} : start' = [start EXCEPT ![w] = to]
  BY DEF Open, CreateIndex, AlterAndDrop, CreateTrigger, CommitSchema, StartFails,
         Advance, Starting
<1>3. PcTypes'
  BY <1>1, <1>2 DEF GuardInv, PcTypes
<1>4. \A q \in Writers : start'[q] = IF q = w THEN to ELSE start[q]
  BY <1>2 DEF GuardInv, PcTypes
<1>5. Opened(to) => \A p \in Writers \ {w} : ~ Alters(start[p])
  <2>1. CASE CreateIndex(w)
    BY <2>1, GrantedBesideNoAlter DEF CreateIndex
  <2>2. CASE AlterAndDrop(w)
    BY <2>2, GrantedBesideNoAlter DEF AlterAndDrop
  <2>3. CASE CreateTrigger(w)
    BY <2>3 DEF CreateTrigger, Advance, GuardInv, Alone, Opened, Alters
  <2>4. CASE Open(w) \/ CommitSchema(w) \/ StartFails(w)
    <3>1. start'[w] \in {"index", "up", "down"}
      BY <2>4, <1>2, <1>4 DEF Open, CommitSchema, StartFails, Advance, GuardInv, PcTypes
    <3> QED BY <3>1, <1>4 DEF Opened, Alters
  <2> QED BY <2>1, <2>2, <2>3, <2>4
<1>6. Alters(to) => \A p \in Writers \ {w} : ~ Reads(pc[p]) /\ ~ Opened(start[p])
  <2>1. CASE AlterAndDrop(w)
    BY <2>1, GrantedAlone DEF AlterAndDrop
  <2>2. CASE CreateTrigger(w)
    BY <2>2 DEF CreateTrigger, Advance, GuardInv, Alone, Alters
  <2>3. CASE Open(w) \/ CreateIndex(w) \/ CommitSchema(w) \/ StartFails(w)
    <3>1. start'[w] \in {"index", "drop", "up", "down"}
      BY <2>3, <1>2, <1>4
      DEF Open, CreateIndex, CommitSchema, StartFails, Advance, GuardInv, PcTypes
    <3> QED BY <3>1, <1>4 DEF Alters
  <2> QED BY <2>1, <2>2, <2>3
<1>7. Alone'
  BY <1>1, <1>4, <1>5, <1>6 DEF GuardInv, Alone, Opened
<1> QED BY <1>3, <1>7 DEF GuardInv

(* A step of write_audit moves one process, and it begins to read the      *)
(* table only beside no exclusive lock.                                    *)
LEMMA AppendStepAlone ==
  ASSUME GuardInv, NEW w \in Writers, Appending(w)
  PROVE  GuardInv'
<1>1. start' = start
  BY DEF Appending
<1>2. PICK to \in {Idle, "lock", "tail", "insert", "commit"} : pc' = [pc EXCEPT ![w] = to]
  BY DEF Appending, Call, AcquireLock, ReadTail, Insert, Commit, Rollback, Goto, Idle
<1>3. PcTypes'
  BY <1>1, <1>2 DEF GuardInv, PcTypes
<1>4. \A q \in Writers : pc'[q] = IF q = w THEN to ELSE pc[q]
  BY <1>2 DEF GuardInv, PcTypes
<1>5. Reads(to) => Reads(pc[w]) \/ \A p \in Writers \ {w} : ~ Alters(start[p])
  <2>1. CASE Granted(w, "AccessShare")
    BY <2>1, GrantedBesideNoAlter
  <2>2. CASE Insert(w)
    BY <2>2 DEF Insert, Goto, Reads
  <2>3. CASE Call(w) \/ AcquireLock(w) \/ Commit(w) \/ Rollback(w)
    <3>1. pc'[w] \in {Idle, "lock", "tail"}
      BY <2>3, <1>4 DEF Call, AcquireLock, Commit, Rollback, Goto, GuardInv, PcTypes
    <3> QED BY <3>1, <1>4 DEF Reads, Idle
  <2> QED BY <2>1, <2>2, <2>3 DEF Appending
<1>6. Alone'
  BY <1>1, <1>4, <1>5 DEF GuardInv, Alone
<1> QED BY <1>3, <1>6 DEF GuardInv

LEMMA DownAlone ==
  ASSUME GuardInv, NEW w \in Writers, Down(w)
  PROVE  GuardInv'
<1>1. start' = [start EXCEPT ![w] = "down"]
  BY DEF Down
<1>2. pc' = pc \/ pc' = [pc EXCEPT ![w] = Idle]
  BY DEF Down, Rollback, vars
<1>3. PcTypes'
  BY <1>1, <1>2 DEF GuardInv, PcTypes
<1>4. \A q \in Writers : start'[q] = IF q = w THEN "down" ELSE start[q]
  BY <1>1 DEF GuardInv, PcTypes
<1>5. \A q \in Writers : Reads(pc'[q]) => Reads(pc[q])
  BY <1>2 DEF GuardInv, PcTypes, Reads, Idle
<1>6. Alone'
  BY <1>4, <1>5 DEF GuardInv, Alone, Opened, Alters
<1> QED BY <1>3, <1>6 DEF GuardInv

LEMMA GuardNext == GuardInv /\ [StartupNext]_startVars => GuardInv'
<1> SUFFICES ASSUME GuardInv, [StartupNext]_startVars PROVE GuardInv'
  OBVIOUS
<1>1. CASE UNCHANGED startVars
  BY <1>1 DEF startVars, vars, GuardInv, PcTypes, Alone, Reads, Opened, Alters
<1>2. CASE StartupNext
  BY <1>2, SchemaStepAlone, AppendStepAlone, DownAlone DEF StartupNext
<1> QED BY <1>1, <1>2

(* The trigger is away only while nobody else has the table open           *)
(* (schema.sql drops and creates it in the transaction of every start-up). *)
THEOREM GuardAlwaysThere == StartupSpec => []GuardNeverMissing
<1>1. GuardInv => GuardNeverMissing
  <2> SUFFICES ASSUME GuardInv, NEW w \in Writers, start[w] \in {"create", "commit"},
                      NEW p \in Writers \ {w}
               PROVE  Holds(p) = {}
    BY DEF GuardNeverMissing
  <2>1. ~ Reads(pc[p]) /\ ~ Opened(start[p])
    BY DEF GuardInv, Alone, Alters
  <2> QED BY <2>1, NothingHeld
<1> QED BY <1>1, GuardInit, GuardNext, PTL DEF StartupSpec

-----------------------------------------------------------------------------
(* Deadlocks                                                               *)

AppendsWhenUp == \A w \in Writers : pc[w] # Idle => start[w] = "up"

LEMMA UpInit == StartupInit => AppendsWhenUp
BY DEF StartupInit, Init, AppendsWhenUp

LEMMA UpNext == GuardInv /\ AppendsWhenUp /\ [StartupNext]_startVars => AppendsWhenUp'
<1> SUFFICES ASSUME GuardInv, AppendsWhenUp, [StartupNext]_startVars
             PROVE  AppendsWhenUp'
  OBVIOUS
<1>1. CASE UNCHANGED startVars
  BY <1>1 DEF startVars, vars, AppendsWhenUp
<1>2. CASE StartupNext
  <2> PICK w \in Writers :
        \/ Open(w) \/ CreateIndex(w) \/ AlterAndDrop(w) \/ CreateTrigger(w)
        \/ CommitSchema(w) \/ StartFails(w) \/ Appending(w) \/ Down(w)
    BY <1>2 DEF StartupNext
  <2>1. CASE \/ Open(w) \/ CreateIndex(w) \/ AlterAndDrop(w) \/ CreateTrigger(w)
             \/ CommitSchema(w) \/ StartFails(w)
    <3>1. pc' = pc /\ start[w] # "up"
      BY <2>1 DEF Open, CreateIndex, AlterAndDrop, CreateTrigger, CommitSchema,
                  StartFails, Advance, vars, Starting
    <3>2. \A q \in Writers \ {w} : start'[q] = start[q]
      BY <2>1 DEF Open, CreateIndex, AlterAndDrop, CreateTrigger, CommitSchema,
                  StartFails, Advance, GuardInv, PcTypes
    <3> QED BY <3>1, <3>2 DEF AppendsWhenUp
  <2>2. CASE Appending(w)
    <3>1. start' = start /\ start[w] = "up"
      BY <2>2 DEF Appending
    <3>2. \A q \in Writers \ {w} : pc'[q] = pc[q]
      BY <2>2 DEF Appending, Call, AcquireLock, ReadTail, Insert, Commit, Rollback, Goto,
                  GuardInv, PcTypes
    <3> QED BY <3>1, <3>2 DEF AppendsWhenUp
  <2>3. CASE Down(w)
    <3>1. \A q \in Writers \ {w} : start'[q] = start[q] /\ pc'[q] = pc[q]
      BY <2>3 DEF Down, Rollback, vars, GuardInv, PcTypes
    <3>2. pc'[w] = Idle
      BY <2>3 DEF Down, Rollback, vars, GuardInv, PcTypes
    <3> QED BY <3>1, <3>2 DEF AppendsWhenUp
  <2> QED BY <2>1, <2>2, <2>3
<1> QED BY <1>1, <1>2

(* A start-up that has locked the table wants to raise its lock, or waits  *)
(* for nobody.                                                             *)
LEMMA LocksOfStartups ==
  ASSUME GuardInv, AppendsWhenUp, NEW p \in Writers,
         "Share" \in Holds(p) \/ "AccessExclusive" \in Holds(p)
  PROVE  start[p] = "drop" \/ Blockers(p) = {}
<1>1. start[p] \in {"drop", "create", "commit"}
  BY DEF Holds, AppendHolds, SchemaHolds
<1>2. pc[p] = Idle
  BY <1>1 DEF AppendsWhenUp
<1> QED BY <1>1, <1>2 DEF Blockers, Idle

(* An append that has inserted waits for nobody.                           *)
LEMMA InsertedWaitsNot ==
  ASSUME AppendsWhenUp, NEW p \in Writers, "RowExclusive" \in Holds(p)
  PROVE  Blockers(p) = {}
<1>1. pc[p] = "commit"
  BY DEF Holds, AppendHolds, SchemaHolds
<1>2. start[p] = "up"
  BY <1>1 DEF AppendsWhenUp, Idle
<1> QED BY <1>1, <1>2 DEF Blockers

(* Who waits for the table waits for a start-up that raises its lock, or   *)
(* for somebody who does not wait.                                         *)
LEMMA TableBlockers ==
  ASSUME GuardInv, AppendsWhenUp, NEW w \in Writers, NEW p \in Blockers(w),
         pc[w] # "lock", start[w] # "drop"
  PROVE  p \in Writers /\ (start[p] = "drop" \/ Blockers(p) = {})
<1>1. \/ p \in InTheWay(w, "AccessShare")
      \/ p \in InTheWay(w, "RowExclusive")
      \/ p \in InTheWay(w, "Share")
  BY DEF Blockers
<1>2. p \in Writers
  BY <1>1 DEF InTheWay
<1>3. \/ "Share" \in Holds(p) \/ "AccessExclusive" \in Holds(p)
      \/ "RowExclusive" \in Holds(p)
  BY <1>1 DEF InTheWay, Conflicts
<1> QED BY <1>2, <1>3, LocksOfStartups, InsertedWaitsNot

LEMMA CirclesUpgrade ==
  ASSUME GuardInv, AppendsWhenUp, LockHeld
  PROVE  DeadlocksNeedAnUpgrade
<1> SUFFICES ASSUME NEW some \in SUBSET Writers, Circle(some),
                    \A w \in some : start[w] # "drop"
             PROVE  FALSE
  BY DEF DeadlocksNeedAnUpgrade
<1>1. \A w \in some : Blockers(w) \cap some # {}
  BY DEF Circle
<1>2. \A w \in some : pc[w] = "lock"
  <2> SUFFICES ASSUME NEW w \in some, pc[w] # "lock" PROVE FALSE
    OBVIOUS
  <2>1. PICK p \in some : p \in Blockers(w)
    BY <1>1
  <2>2. start[p] = "drop" \/ Blockers(p) = {}
    BY <2>1, TableBlockers
  <2> QED BY <1>1, <2>1, <2>2
<1>3. PICK w \in some : TRUE
  BY DEF Circle
<1>4. PICK p \in some : p \in Blockers(w)
  BY <1>1
<1>5. p = lock
  <2>1. pc[w] = "lock" /\ start[w] = "up"
    BY <1>2 DEF AppendsWhenUp, Idle
  <2>2. Blockers(w) = {lock} \ {Nobody}
    BY <2>1 DEF Blockers
  <2> QED BY <1>4, <2>2
<1>6. pc[p] # "lock"
  BY <1>5 DEF LockHeld, Holding
<1> QED BY <1>2, <1>6

(* Every deadlock, of any number of processes, involves a start-up that    *)
(* holds Share and wants AccessExclusive (schema.sql: CREATE INDEX before  *)
(* ALTER TABLE in one transaction).                                        *)
THEOREM OnlyUpgradesDeadlock == StartupSpec => []DeadlocksNeedAnUpgrade
<1>1. IInv => LockHeld
  BY DEF IInv, Steady
<1>2. GuardInv /\ AppendsWhenUp /\ LockHeld => DeadlocksNeedAnUpgrade
  BY CirclesUpgrade
<1> QED
  BY <1>1, <1>2, GuardInit, GuardNext, UpInit, UpNext, StartupImplementsChain, Inductive, PTL
  DEF StartupSpec

=============================================================================
