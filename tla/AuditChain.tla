----------------------------- MODULE AuditChain -----------------------------
(***************************************************************************)
(* audit/log.py and audit/schema.sql: the hash-chained, append-only table  *)
(* screening_audit and the transactions that append to it.                 *)
(*                                                                         *)
(* Every agent process appends through write_audit on a connection of its  *)
(* own.  One call is one transaction: take the advisory lock, read the     *)
(* hash of the last row, INSERT a row that commits to it, COMMIT (which    *)
(* also releases the lock).  The statements of two processes interleave,   *)
(* and any of them can be the last one that a process executes.            *)
(*                                                                         *)
(* sha256 is modelled as injective: the hash of a row IS the sequence of   *)
(* records it commits to, its own record last.  A record stands for the    *)
(* hashed business fields and created_at.                                  *)
(***************************************************************************)
EXTENDS Naturals, Sequences

CONSTANTS
  Writers,   (* processes that append                                     *)
  Records,   (* what a row can say                                        *)
  Legacy,    (* number of rows written before the hash columns were added *)
  MaxId,     (* the last id that screening_audit_id_seq can hand out      *)
  Nobody,    (* the holder of a free lock                                 *)
  NoHash     (* a NULL hash column                                        *)

ASSUME IdAssumption == Legacy \in Nat /\ MaxId \in Nat /\ Legacy <= MaxId
ASSUME NobodyAssumption == Nobody \notin Writers
ASSUME NoHashAssumption == NoHash \notin Seq(Records)

VARIABLES
  table,     (* the committed rows                                        *)
  seq,       (* the last id handed out: a sequence is not rolled back     *)
  lock,      (* the holder of the advisory lock _CHAIN_LOCK_KEY           *)
  pc,        (* pc[w]: the statement of write_audit that w executes next  *)
  prev,      (* prev[w]: the prev_hash w has computed from the tail row   *)
  inserted   (* inserted[w]: the row w has inserted and not committed, in *)
             (* a set of at most one                                      *)

vars == <<table, seq, lock, pc, prev, inserted>>

Hashes == Seq(Records)

Row == [id : Nat, record : Records,
        prev_hash : Hashes \cup {NoHash}, record_hash : Hashes \cup {NoHash}]

-----------------------------------------------------------------------------
(* The chain                                                               *)

GENESIS == <<>>

(* Mutant: a row does not commit to the row before it. *)
ForgetfulHash(r, prev_hash) == <<r>>

ChainHash(r, prev_hash) == Append(prev_hash, r)

OrGenesis(hash) == IF hash = NoHash THEN GENESIS ELSE hash

Before(rows, r) == {q \in rows : q.id < r.id}

IsLast(rows, r) == r \in rows /\ \A q \in rows : q.id <= r.id

LastRow(rows) == CHOOSE r \in rows : IsLast(rows, r)

(* Mutant: a tail row without hashes is not taken for the genesis. *)
UnguardedTailHash(rows) ==
  IF rows = {} THEN GENESIS ELSE LastRow(rows).record_hash

(* The prev_hash of the row appended after these rows.                     *)
TailHash(rows) ==
  IF rows = {} THEN GENESIS ELSE OrGenesis(LastRow(rows).record_hash)

(* The hash that the loop of verify_chain carries into r while it has      *)
(* found no fault: that of the row before r.                               *)
CarriedInto(rows, r, start) ==
  IF Before(rows, r) = {} THEN start ELSE LastRow(Before(rows, r)).record_hash

(* Mutant: only the row's own hash is recomputed. *)
SelfConsistent(rows, r, start) ==
  r.record_hash = ChainHash(r.record, OrGenesis(r.prev_hash))

Links(rows, r, start) ==
  LET prev_hash == CarriedInto(rows, r, start)
  IN  /\ OrGenesis(r.prev_hash) = prev_hash
      /\ r.record_hash = ChainHash(r.record, prev_hash)

Broken(rows, start) == {r \in rows : ~ Links(rows, r, start)}

VerifyChain(rows, start) == Broken(rows, start) = {}

(* The broken_at_id of a verification that fails.                          *)
BrokenAt(rows, start) ==
  CHOOSE n \in {r.id : r \in Broken(rows, start)} :
    \A r \in Broken(rows, start) : n <= r.id

-----------------------------------------------------------------------------
(* The program                                                             *)

Idle == "idle"

TypeOK ==
  /\ table \subseteq Row
  /\ seq \in 0..MaxId
  /\ lock \in Writers \cup {Nobody}
  /\ pc \in [Writers -> {Idle, "lock", "tail", "insert", "commit"}]
  /\ prev \in [Writers -> Hashes]
  /\ inserted \in [Writers -> SUBSET Row]

LegacyRow(n, r) ==
  [id |-> n, record |-> r, prev_hash |-> NoHash, record_hash |-> NoHash]

Init ==
  /\ \E said \in [1..Legacy -> Records] :
       table = {LegacyRow(n, said[n]) : n \in 1..Legacy}
  /\ seq = Legacy
  /\ lock = Nobody
  /\ pc = [w \in Writers |-> Idle]
  /\ prev = [w \in Writers |-> GENESIS]
  /\ inserted = [w \in Writers |-> {}]

Goto(w, from, to) ==
  /\ pc[w] = from
  /\ pc' = [pc EXCEPT ![w] = to]

Call(w) ==
  /\ Goto(w, Idle, "lock")
  /\ UNCHANGED <<table, seq, lock, prev, inserted>>

(* Mutant: the advisory lock is not taken. *)
SkipLock(w) ==
  /\ Goto(w, "lock", "tail")
  /\ lock' = w
  /\ UNCHANGED <<table, seq, prev, inserted>>

AcquireLock(w) ==
  /\ lock = Nobody
  /\ Goto(w, "lock", "tail")
  /\ lock' = w
  /\ UNCHANGED <<table, seq, prev, inserted>>

ReadTail(w) ==
  /\ Goto(w, "tail", "insert")
  /\ prev' = [prev EXCEPT ![w] = TailHash(table)]
  /\ UNCHANGED <<table, seq, lock, inserted>>

NewRow(w, r) ==
  [id |-> seq + 1, record |-> r,
   prev_hash |-> prev[w], record_hash |-> ChainHash(r, prev[w])]

(* Mutant: the lock is released after the statement, not at COMMIT. *)
InsertAndUnlock(w) ==
  /\ seq < MaxId
  /\ Goto(w, "insert", "commit")
  /\ \E r \in Records : inserted' = [inserted EXCEPT ![w] = {NewRow(w, r)}]
  /\ seq' = seq + 1
  /\ lock' = Nobody
  /\ UNCHANGED <<table, prev>>

Insert(w) ==
  /\ seq < MaxId
  /\ Goto(w, "insert", "commit")
  /\ \E r \in Records : inserted' = [inserted EXCEPT ![w] = {NewRow(w, r)}]
  /\ seq' = seq + 1
  /\ UNCHANGED <<table, lock, prev>>

(* The rows become visible before the lock of the transaction is released. *)
Commit(w) ==
  /\ Goto(w, "commit", Idle)
  /\ table' = table \cup inserted[w]
  /\ inserted' = [inserted EXCEPT ![w] = {}]
  /\ lock' = Nobody
  /\ UNCHANGED <<seq, prev>>

(* Mutant: the lock belongs to the session, and a rollback keeps it. *)
RollbackKeepingLock(w) ==
  /\ pc[w] # Idle
  /\ pc' = [pc EXCEPT ![w] = Idle]
  /\ inserted' = [inserted EXCEPT ![w] = {}]
  /\ UNCHANGED <<table, seq, lock, prev>>

(* Mutant: a rollback frees the lock whoever holds it. *)
RollbackFreeingLock(w) ==
  /\ pc[w] # Idle
  /\ pc' = [pc EXCEPT ![w] = Idle]
  /\ lock' = Nobody
  /\ inserted' = [inserted EXCEPT ![w] = {}]
  /\ UNCHANGED <<table, seq, prev>>

(* The process or its connection dies, or a statement fails (nextval does  *)
(* when the ids are used up): the transaction is rolled back and its locks *)
(* released.  An id it took is not given back.                             *)
Rollback(w) ==
  /\ pc[w] # Idle
  /\ pc' = [pc EXCEPT ![w] = Idle]
  /\ lock' = IF lock = w THEN Nobody ELSE lock
  /\ inserted' = [inserted EXCEPT ![w] = {}]
  /\ UNCHANGED <<table, seq, prev>>

Next ==
  \E w \in Writers :
    \/ Call(w)
    \/ AcquireLock(w)
    \/ ReadTail(w)
    \/ Insert(w)
    \/ Commit(w)
    \/ Rollback(w)

Spec == Init /\ [][Next]_vars

OutOfIds(w) == pc[w] = "insert" /\ seq = MaxId /\ Rollback(w)

(* A process keeps executing its statements, and Postgres serves the       *)
(* waiters of a lock in turn, so one that waits is not passed over for     *)
(* ever.  Nothing obliges a process to call write_audit again.             *)
Fairness ==
  \A w \in Writers :
    /\ SF_vars(AcquireLock(w))
    /\ WF_vars(ReadTail(w))
    /\ WF_vars(Insert(w))
    /\ WF_vars(Commit(w))
    /\ WF_vars(OutOfIds(w))

FairSpec == Spec /\ Fairness

-----------------------------------------------------------------------------
(* Properties                                                              *)

Chained == {r \in table : r.record_hash # NoHash}

(* The rows that write_audit has committed verify from the genesis hash,   *)
(* whatever the interleaving of the writers and wherever they die          *)
(* (log.py, write_audit: "so two concurrent writers can't both read the    *)
(* same chain tail").                                                      *)
ChainIntact == VerifyChain(Chained, GENESIS)

(* What a writer read from the tail is still the tail when its row becomes *)
(* visible: between the read and the commit nobody else commits.           *)
TailStaysFresh ==
  \A w \in Writers : pc[w] \in {"insert", "commit"} => prev[w] = TailHash(table)

IsPrefixOf(some, rows) ==
  \A r \in some : \A q \in rows : q.id < r.id => q \in some

(* The rows that directly followed a row that is missing now.              *)
AfterGap(some, rows) ==
  {r \in some : Before(rows, r) # {} /\ LastRow(Before(rows, r)) \notin some}

(* Whatever rows are deleted, verify_chain notices unless only the newest  *)
(* ones are gone, and it points at the row after the first gap (log.py,    *)
(* write_audit: "deleting or reordering any row breaks every hash after    *)
(* it").                                                                   *)
DeletionDetected ==
  \A some \in SUBSET Chained :
    IF IsPrefixOf(some, Chained)
    THEN VerifyChain(some, GENESIS)
    ELSE /\ ~ VerifyChain(some, GENESIS)
         /\ \E r \in AfterGap(some, Chained) :
              /\ BrokenAt(some, GENESIS) = r.id
              /\ \A q \in AfterGap(some, Chained) : r.id <= q.id

(* Two rows that change places (all columns but the id) are noticed, even  *)
(* when they say the same.                                                 *)
Swapped(rows, a, b) ==
  (rows \ {a, b}) \cup {[a EXCEPT !.id = b.id], [b EXCEPT !.id = a.id]}

ReorderDetected ==
  \A a, b \in Chained :
    a # b => ~ VerifyChain(Swapped(Chained, a, b), GENESIS)

(* Every writer that asks for the lock gets through write_audit or is      *)
(* rolled back: no one waits for ever.                                     *)
EveryAppendEnds == \A w \in Writers : pc[w] = "lock" ~> pc[w] = Idle

(* The table implements the ledger its readers rely on: rows are only ever *)
(* added, and in the order of their ids.  BIGSERIAL alone does not give    *)
(* this; it rests on the lock being held from before nextval to COMMIT.    *)
Entries(rows) == {[id |-> r.id, record |-> r.record] : r \in rows}

Log == INSTANCE AuditLog WITH
  ledger <- Entries(table),
  Ids <- 1..MaxId,
  Earlier <- {{[id |-> n, record |-> said[n]] : n \in 1..Legacy}
                : said \in [1..Legacy -> Records]}

AppendsInIdOrder == Log!Spec

=============================================================================
