---------------------------- MODULE AuditStartup ----------------------------
(***************************************************************************)
(* checkpoint/postgres.py open_checkpointer and ensure_audit_schema beside *)
(* write_audit.  Every process executes audit/schema.sql when it starts,   *)
(* as one transaction, on the table that the others are appending to.  The *)
(* table exists already; what a statement changes is there already too, so *)
(* that only its table locks and the replaced trigger matter.              *)
(*                                                                         *)
(* Postgres is external: its lock modes and their conflicts, and that it   *)
(* aborts a transaction of every deadlock.                                 *)
(***************************************************************************)
EXTENDS AuditChain

VARIABLE
  start   (* start[w]: how far w is: the statement of schema.sql that it   *)
          (* executes next, or "down" or "up"                              *)

startVars == <<vars, start>>

Starting == {"index", "drop", "create", "commit"}

-----------------------------------------------------------------------------
(* Locks on the table                                                      *)

Conflicts(mode) ==
  CASE mode = "AccessShare"     -> {"AccessExclusive"}
    [] mode = "RowExclusive"    -> {"Share", "AccessExclusive"}
    [] mode = "Share"           -> {"RowExclusive", "AccessExclusive"}
    [] mode = "AccessExclusive" -> {"AccessShare", "RowExclusive", "Share", "AccessExclusive"}

(* What write_audit has locked before its statement at label: a SELECT     *)
(* takes AccessShare, an INSERT RowExclusive.                              *)
AppendHolds(label) ==
  CASE label = "insert" -> {"AccessShare"}
    [] label = "commit" -> {"AccessShare", "RowExclusive"}
    [] OTHER            -> {}

(* Mutant: schema.sql is executed on a connection in autocommit mode. *)
NoSchemaHolds(label) == {}

(* Mutant: schema.sql fills in a column before it creates the index. *)
SchemaHoldsRows(label) ==
  CASE label = "index"               -> {"RowExclusive"}
    [] label = "drop"                -> {"RowExclusive", "Share"}
    [] label \in {"create", "commit"} -> {"RowExclusive", "Share", "AccessExclusive"}
    [] OTHER                         -> {}

(* The same for schema.sql, in one transaction: CREATE INDEX takes Share   *)
(* even if the index exists, ALTER TABLE and DROP TRIGGER AccessExclusive. *)
SchemaHolds(label) ==
  CASE label = "drop"                -> {"Share"}
    [] label \in {"create", "commit"} -> {"Share", "AccessExclusive"}
    [] OTHER                         -> {}

Holds(w) == AppendHolds(pc[w]) \cup SchemaHolds(start[w])

InTheWay(w, mode) == {p \in Writers \ {w} : Holds(p) \cap Conflicts(mode) # {}}

Granted(w, mode) == InTheWay(w, mode) = {}

-----------------------------------------------------------------------------
(* The processes                                                           *)

StartupInit == Init /\ start = [w \in Writers |-> "down"]

Advance(w, from, to) ==
  /\ start[w] = from
  /\ start' = [start EXCEPT ![w] = to]
  /\ UNCHANGED vars

Open(w) == Advance(w, "down", "index")

CreateIndex(w) == Granted(w, "Share") /\ Advance(w, "index", "drop")

AlterAndDrop(w) == Granted(w, "AccessExclusive") /\ Advance(w, "drop", "create")

CreateTrigger(w) == Advance(w, "create", "commit")

CommitSchema(w) == Advance(w, "commit", "up")

(* Mutant: a start-up that fails leaves its connection and locks behind. *)
StartFailsHanging(w) == start[w] \in Starting /\ UNCHANGED startVars

(* The process dies, or a statement fails: the connection is closed.       *)
StartFails(w) == start[w] \in Starting /\ Advance(w, start[w], "down")

(* write_audit, by a process that is up.  A SELECT or INSERT that waits    *)
(* for a table lock is not executed.                                       *)
Appending(w) ==
  /\ start[w] = "up"
  /\ \/ Call(w)
     \/ AcquireLock(w)
     \/ Granted(w, "AccessShare") /\ ReadTail(w)
     \/ Granted(w, "RowExclusive") /\ Insert(w)
     \/ Commit(w)
     \/ Rollback(w)
  /\ UNCHANGED start

(* The process ends, or dies in a transaction; another can take its place. *)
Down(w) ==
  /\ start[w] = "up"
  /\ start' = [start EXCEPT ![w] = "down"]
  /\ Rollback(w) \/ (pc[w] = Idle /\ UNCHANGED vars)

StartupNext ==
  \E w \in Writers :
    \/ Open(w)
    \/ CreateIndex(w)
    \/ AlterAndDrop(w)
    \/ CreateTrigger(w)
    \/ CommitSchema(w)
    \/ StartFails(w)
    \/ Appending(w)
    \/ Down(w)

StartupSpec == StartupInit /\ [][StartupNext]_startVars

(* Who keeps w from its next statement.                                    *)
Blockers(w) ==
  CASE pc[w] = "lock"      -> {lock} \ {Nobody}
    [] pc[w] = "tail"      -> InTheWay(w, "AccessShare")
    [] pc[w] = "insert"    -> InTheWay(w, "RowExclusive")
    [] start[w] = "index"  -> InTheWay(w, "Share")
    [] start[w] = "drop"   -> InTheWay(w, "AccessExclusive")
    [] OTHER               -> {}

(* Processes that wait for each other in a circle.                         *)
Circle(some) == some # {} /\ \A w \in some : Blockers(w) \cap some # {}

Deadlocked(w) ==
  \E some \in SUBSET Writers :
    /\ w \in some
    /\ Circle(some)
    /\ \A fewer \in SUBSET some : Circle(fewer) => fewer = some

Abort(w) == Deadlocked(w) /\ (StartFails(w) \/ (Rollback(w) /\ UNCHANGED start))

(* w executes its next statement, or fails for want of ids.                *)
Forward(w) ==
  \/ CreateIndex(w)
  \/ AlterAndDrop(w)
  \/ CreateTrigger(w)
  \/ CommitSchema(w)
  \/ Appending(w) /\ (AcquireLock(w) \/ ReadTail(w) \/ Insert(w) \/ Commit(w) \/ OutOfIds(w))

(* Postgres serves the waiters of a lock in turn and aborts a transaction  *)
(* of every deadlock.                                                      *)
StartupFairness ==
  \A w \in Writers : SF_startVars(Forward(w)) /\ WF_startVars(Abort(w))

StartupFairSpec == StartupSpec /\ StartupFairness

-----------------------------------------------------------------------------
(* Properties                                                              *)

(* Between the drop of the trigger and the commit of a start-up that puts  *)
(* it back, no other transaction has the table open: there is no moment at *)
(* which rows could be changed (schema.sql: "Immutability guard"), though  *)
(* every process drops the trigger when it starts.                         *)
GuardNeverMissing ==
  \A w \in Writers : start[w] \in {"create", "commit"} =>
    \A p \in Writers \ {w} : Holds(p) = {}

(* In every circle of waiting processes there is a start-up that holds     *)
(* Share and wants AccessExclusive: what deadlocks is that schema.sql      *)
(* raises its lock.  Appends do not deadlock by themselves, for they queue *)
(* for the advisory lock before they open the table (log.py: "serialized   *)
(* with a transaction-scoped advisory lock") and none has the table open   *)
(* while it queues.                                                        *)
DeadlocksNeedAnUpgrade ==
  \A some \in SUBSET Writers : Circle(some) => \E w \in some : start[w] = "drop"

(* Nobody waits for ever: a process that starts gets up or fails, and an   *)
(* append ends, though start-ups and appends deadlock (a start-up has      *)
(* Share and wants AccessExclusive while an append has AccessShare and     *)
(* wants RowExclusive, or while another start-up has Share too).           *)
Busy(w) == start[w] \in Starting \/ pc[w] # Idle

WaitsEnd == \A w \in Writers : Busy(w) ~> ~ Busy(w)

=============================================================================
