-------------------------- MODULE AuditChainProofs --------------------------
(***************************************************************************)
(* Proofs about AuditChain, for any number of writers, records and ids.    *)
(*                                                                         *)
(* ChainIntact is not inductive: that the row a writer commits links to    *)
(* the last row depends on the lock (nobody else commits between its read  *)
(* and its commit), on what it has inserted, and on where rows without     *)
(* hashes can be.  IInv says all of that.                                  *)
(***************************************************************************)
EXTENDS AuditChain, FoldLemmas

Holding == {"tail", "insert", "commit"}

(* Exactly the writer between lock and COMMIT holds the lock.              *)
LockHeld == \A w \in Writers : pc[w] \in Holding <=> lock = w

(* The uncommitted row of w, if any, would extend the table.               *)
Extends(row, w) ==
  /\ row \in Row
  /\ row.id \in 1..seq
  /\ \A q \in table : q.id < row.id
  /\ row.prev_hash = prev[w]
  /\ row.record_hash = ChainHash(row.record, prev[w])

InsertedExtends ==
  \A w \in Writers :
    IF pc[w] = "commit" THEN \E row \in Row : inserted[w] = {row} /\ Extends(row, w)
                        ELSE inserted[w] = {}

IdsHandedOut == \A r \in table : r.id \in 1..seq

IdsUnique(rows) == \A r, q \in rows : r.id = q.id => r = q

HasLast == table = {} \/ \E r \in table : IsLast(table, r)

LegacyFirst ==
  \A r, q \in table :
    r.record_hash = NoHash /\ q.record_hash # NoHash => r.id < q.id

(* What holds also of a table that has lost rows.                          *)
Steady ==
  /\ TypeOK
  /\ LockHeld
  /\ InsertedExtends
  /\ IdsHandedOut
  /\ IdsUnique(table)
  /\ HasLast

IInv ==
  /\ Steady
  /\ LegacyFirst
  /\ TailStaysFresh
  /\ ChainIntact

-----------------------------------------------------------------------------
(* Lemmas about the last row and the tail hash                             *)

LEMMA LastRowIs ==
  ASSUME NEW rows, rows \subseteq Row, IdsUnique(rows),
         NEW r, IsLast(rows, r)
  PROVE  LastRow(rows) = r
<1>1. IsLast(rows, LastRow(rows))
  BY DEF LastRow, IsLast
<1>2. LastRow(rows).id = r.id
  BY <1>1, SMT DEF IsLast, Row
<1>. QED
  BY <1>1, <1>2 DEF IsLast, IdsUnique

LEMMA HashType ==
  /\ GENESIS \in Hashes
  /\ \A h \in Hashes \cup {NoHash} : OrGenesis(h) \in Hashes
  /\ \A h \in Hashes : OrGenesis(h) = h
  /\ \A h \in Hashes, r \in Records : ChainHash(r, h) \in Hashes
  /\ NoHash \notin Hashes
BY NoHashAssumption DEF GENESIS, OrGenesis, ChainHash, Hashes

LEMMA TailHashType ==
  ASSUME TypeOK, HasLast
  PROVE  TailHash(table) \in Hashes
<1>1. CASE table = {}
  BY <1>1, HashType DEF TailHash
<1>2. CASE table # {}
  <2>1. LastRow(table) \in table
    BY <1>2 DEF LastRow, HasLast, IsLast
  <2>2. LastRow(table).record_hash \in Hashes \cup {NoHash}
    BY <2>1 DEF TypeOK, Row
  <2>. QED
    BY <1>2, <2>2, HashType DEF TailHash
<1>. QED
  BY <1>1, <1>2

(* The tail hash that a writer computes is what a verifier carries past    *)
(* the last chained row.                                                   *)
LEMMA TailHashIsCarried ==
  ASSUME TypeOK, IdsUnique(table), HasLast, LegacyFirst
  PROVE  TailHash(table) = IF Chained = {} THEN GENESIS
                                           ELSE LastRow(Chained).record_hash
<1>1. CASE table = {}
  BY <1>1 DEF TailHash, Chained
<1>2. CASE table # {}
  <2>1. PICK t \in table : IsLast(table, t)
    BY <1>2 DEF HasLast
  <2>2. LastRow(table) = t
    BY <2>1, LastRowIs DEF TypeOK
  <2>3. CASE t \in Chained
    <3>1. IsLast(Chained, t)
      BY <2>1, <2>3 DEF IsLast, Chained
    <3>2. LastRow(Chained) = t
      <4>1. Chained \subseteq Row /\ IdsUnique(Chained)
        BY DEF TypeOK, Chained, IdsUnique
      <4>. QED
        BY <3>1, <4>1, LastRowIs
    <3>. QED
      BY <1>2, <2>2, <2>3, <3>2 DEF TailHash, OrGenesis, Chained
  <2>4. CASE t \notin Chained
    <3>1. t.record_hash = NoHash
      BY <2>4 DEF Chained
    <3>2. Chained = {}
      <4>1. SUFFICES ASSUME NEW c \in Chained PROVE FALSE
        OBVIOUS
      <4>2. c \in table /\ c.id <= t.id
        BY <2>1 DEF IsLast, Chained
      <4>3. t.id < c.id
        BY <3>1, <2>1 DEF LegacyFirst, Chained
      <4>. QED
        BY <4>2, <4>3, <2>1 DEF TypeOK, Row
    <3>. QED
      BY <1>2, <2>2, <3>1, <3>2 DEF TailHash, OrGenesis
  <2>. QED
    BY <2>3, <2>4
<1>. QED
  BY <1>1, <1>2

-----------------------------------------------------------------------------
(* The invariant is inductive                                              *)

LEMMA InitIInv == Init => IInv
<1>. SUFFICES ASSUME Init PROVE IInv
  OBVIOUS
<1>. USE IdAssumption
<1>1. PICK said \in [1..Legacy -> Records] :
        table = {LegacyRow(n, said[n]) : n \in 1..Legacy}
  BY DEF Init
<1>2. \A r \in table : r \in Row /\ r.id \in 1..Legacy /\ r.record_hash = NoHash
  BY <1>1 DEF LegacyRow, Row
<1>3. TypeOK
  BY <1>2, HashType DEF Init, TypeOK, Idle
<1>4. LockHeld
  BY NobodyAssumption DEF Init, LockHeld, Holding, Idle
<1>5. InsertedExtends
  BY DEF Init, InsertedExtends, Idle
<1>6. IdsHandedOut
  BY <1>2 DEF Init, IdsHandedOut
<1>7. IdsUnique(table)
  BY <1>1 DEF IdsUnique, LegacyRow
<1>8. HasLast
  <2>1. CASE Legacy = 0
    BY <1>1, <2>1 DEF HasLast
  <2>2. CASE Legacy # 0
    <3>1. Legacy \in 1..Legacy
      BY <2>2
    <3>2. LegacyRow(Legacy, said[Legacy]) \in table
      BY <1>1, <3>1
    <3>3. LegacyRow(Legacy, said[Legacy]).id = Legacy
      BY DEF LegacyRow
    <3>. QED
      BY <1>2, <3>2, <3>3 DEF HasLast, IsLast
  <2>. QED
    BY <2>1, <2>2
<1>9. LegacyFirst
  BY <1>2 DEF LegacyFirst
<1>10. TailStaysFresh
  BY DEF Init, TailStaysFresh, Idle
<1>11. ChainIntact
  BY <1>2 DEF ChainIntact, Chained, VerifyChain, Broken
<1>. QED
  BY <1>3, <1>4, <1>5, <1>6, <1>7, <1>8, <1>9, <1>10, <1>11 DEF IInv, Steady

(* A step that leaves the table alone keeps what is said of it alone.      *)
LEMMA TableKept ==
  ASSUME IInv, table' = table
  PROVE  LegacyFirst' /\ ChainIntact'
BY DEF IInv, LegacyFirst, ChainIntact, Chained

LEMMA TypeStep == TypeOK /\ HasLast /\ InsertedExtends /\ [Next]_vars => TypeOK'
<1>. SUFFICES ASSUME TypeOK, HasLast, InsertedExtends, [Next]_vars PROVE TypeOK'
  OBVIOUS
<1>. USE DEF TypeOK
<1>1. ASSUME NEW w \in Writers, Call(w) PROVE TypeOK'
  BY <1>1 DEF Call, Goto, Idle
<1>2. ASSUME NEW w \in Writers, AcquireLock(w) PROVE TypeOK'
  BY <1>2 DEF AcquireLock, Goto
<1>3. ASSUME NEW w \in Writers, ReadTail(w) PROVE TypeOK'
  <2>1. TailHash(table) \in Hashes
    BY TailHashType
  <2>. QED
    BY <1>3, <2>1 DEF ReadTail, Goto
<1>4. ASSUME NEW w \in Writers, Insert(w) PROVE TypeOK'
  <2>1. PICK r \in Records : inserted' = [inserted EXCEPT ![w] = {NewRow(w, r)}]
    BY <1>4 DEF Insert
  <2>2. seq + 1 \in Nat /\ seq' \in 0..MaxId
    BY <1>4, IdAssumption DEF Insert
  <2>3. NewRow(w, r) \in Row
    BY <2>2, HashType DEF NewRow, Row
  <2>. QED
    BY <1>4, <2>1, <2>2, <2>3 DEF Insert, Goto
<1>5. ASSUME NEW w \in Writers, Commit(w) PROVE TypeOK'
  BY <1>5 DEF Commit, Goto, Idle
<1>6. ASSUME NEW w \in Writers, Rollback(w) PROVE TypeOK'
  BY <1>6 DEF Rollback, Idle
<1>7. CASE UNCHANGED vars
  BY <1>7 DEF vars
<1>. QED
  BY <1>1, <1>2, <1>3, <1>4, <1>5, <1>6, <1>7 DEF Next

LEMMA LockStep == Steady /\ [Next]_vars => LockHeld'
<1>. SUFFICES ASSUME Steady, [Next]_vars PROVE LockHeld'
  OBVIOUS
<1>. USE NobodyAssumption DEF Steady, TypeOK, LockHeld, Holding
<1>1. ASSUME NEW w \in Writers, Call(w) PROVE LockHeld'
  BY <1>1 DEF Call, Goto, Idle
<1>2. ASSUME NEW w \in Writers, AcquireLock(w) PROVE LockHeld'
  BY <1>2 DEF AcquireLock, Goto
<1>3. ASSUME NEW w \in Writers, ReadTail(w) PROVE LockHeld'
  BY <1>3 DEF ReadTail, Goto
<1>4. ASSUME NEW w \in Writers, Insert(w) PROVE LockHeld'
  BY <1>4 DEF Insert, Goto
<1>5. ASSUME NEW w \in Writers, Commit(w) PROVE LockHeld'
  BY <1>5 DEF Commit, Goto, Idle
<1>6. ASSUME NEW w \in Writers, Rollback(w) PROVE LockHeld'
  BY <1>6 DEF Rollback, Idle
<1>7. CASE UNCHANGED vars
  BY <1>7 DEF vars
<1>. QED
  BY <1>1, <1>2, <1>3, <1>4, <1>5, <1>6, <1>7 DEF Next

LEMMA InsertedStep == Steady /\ TypeOK' /\ [Next]_vars => InsertedExtends'
<1>. SUFFICES ASSUME Steady, TypeOK', [Next]_vars PROVE InsertedExtends'
  OBVIOUS
<1>. USE DEF Steady, TypeOK
<1>0. ASSUME NEW u \in Writers, NEW row, Extends(row, u),
             table' = table, prev'[u] = prev[u], seq' \in seq..MaxId
      PROVE  Extends(row, u)'
  BY <1>0 DEF Extends
<1>1. ASSUME NEW w \in Writers, Call(w) \/ AcquireLock(w) \/ ReadTail(w)
      PROVE  InsertedExtends'
  <2>1. seq' \in seq..MaxId /\ table' = table /\ inserted' = inserted
    BY <1>1 DEF Call, AcquireLock, ReadTail
  <2>2. ASSUME NEW u \in Writers, pc'[u] = "commit"
        PROVE  pc[u] = "commit" /\ prev'[u] = prev[u]
    BY <1>1, <2>2 DEF Call, AcquireLock, ReadTail, Goto, Idle
  <2>3. ASSUME NEW u \in Writers, pc'[u] # "commit" PROVE inserted'[u] = {}
    BY <1>1, <2>1, <2>3 DEF Call, AcquireLock, ReadTail, Goto, Idle, InsertedExtends
  <2>. QED
    BY <1>0, <2>1, <2>2, <2>3 DEF InsertedExtends
<1>2. ASSUME NEW w \in Writers, Insert(w) PROVE InsertedExtends'
  <2>1. PICK r \in Records : inserted' = [inserted EXCEPT ![w] = {NewRow(w, r)}]
    BY <1>2 DEF Insert
  <2>2. PICK fresh : fresh = NewRow(w, r)
    OBVIOUS
  <2>3. /\ seq' = seq + 1 /\ seq' \in seq..MaxId
        /\ table' = table /\ prev' = prev
        /\ pc' = [pc EXCEPT ![w] = "commit"]
    BY <1>2, IdAssumption DEF Insert, Goto
  <2>4. fresh \in Row /\ Extends(fresh, w)'
    <3>1. fresh = [id |-> seq + 1, record |-> r,
                   prev_hash |-> prev[w], record_hash |-> ChainHash(r, prev[w])]
      BY <2>2 DEF NewRow
    <3>2. fresh \in Row
      BY <2>3, <3>1, HashType DEF Row
    <3>3. \A q \in table : q.id < seq + 1
      BY DEF IdsHandedOut
    <3>. QED
      BY <2>3, <3>1, <3>2, <3>3 DEF Extends
  <2>5. ASSUME NEW u \in Writers, u # w
        PROVE  IF pc'[u] = "commit"
               THEN \E row \in Row : inserted'[u] = {row} /\ Extends(row, u)'
               ELSE inserted'[u] = {}
    BY <1>0, <2>1, <2>3, <2>5 DEF InsertedExtends
  <2>. QED
    BY <2>1, <2>2, <2>3, <2>4, <2>5 DEF InsertedExtends
<1>3. ASSUME NEW w \in Writers, Commit(w) PROVE InsertedExtends'
  <2>1. lock = w
    BY <1>3 DEF Commit, Goto, LockHeld, Holding
  <2>2. \A u \in Writers : u # w => pc[u] # "commit"
    BY <2>1 DEF LockHeld, Holding
  <2>. QED
    BY <1>3, <2>2 DEF Commit, Goto, Idle, InsertedExtends
<1>4. ASSUME NEW w \in Writers, Rollback(w) PROVE InsertedExtends'
  <2>1. seq' \in seq..MaxId /\ table' = table /\ prev' = prev
    BY <1>4 DEF Rollback
  <2>. QED
    BY <1>0, <1>4, <2>1 DEF Rollback, Idle, InsertedExtends
<1>5. CASE UNCHANGED vars
  BY <1>5 DEF vars, InsertedExtends, Extends
<1>. QED
  BY <1>1, <1>2, <1>3, <1>4, <1>5 DEF Next

(* Appending one row after the last keeps the ids distinct and the chain   *)
(* unbroken.                                                               *)
LEMMA CommitStep ==
  ASSUME IInv, NEW w \in Writers, Commit(w)
  PROVE  LegacyFirst' /\ ChainIntact'
<1>. USE DEF IInv, Steady, TypeOK
<1>1. PICK row \in Row : inserted[w] = {row} /\ Extends(row, w)
  BY DEF Commit, Goto, InsertedExtends
<1>2. table' = table \cup {row} /\ seq' = seq
  BY <1>1 DEF Commit
<1>3. /\ row.id \in 1..seq
      /\ \A q \in table : q.id < row.id /\ q.id \in Nat
      /\ row.prev_hash = TailHash(table)
      /\ row.record_hash = ChainHash(row.record, TailHash(table))
  BY <1>1 DEF Extends, Commit, Goto, TailStaysFresh, Row
<1>4. /\ TailHash(table) \in Hashes
      /\ OrGenesis(row.prev_hash) = TailHash(table)
      /\ row.record_hash # NoHash
  BY <1>3, TailHashType, HashType DEF Row
<1>5. LegacyFirst'
  BY <1>2, <1>3, <1>4 DEF LegacyFirst
<1>6. ChainIntact'
  <2>1. Chained' = Chained \cup {row}
    BY <1>2, <1>4 DEF Chained
  <2>2. ASSUME NEW r \in Chained PROVE Links(Chained', r, GENESIS)
    <3>1. Links(Chained, r, GENESIS)
      BY DEF ChainIntact, VerifyChain, Broken
    <3>2. r \in table /\ ~ (row.id < r.id)
      BY <1>3 DEF Chained
    <3>3. Before(Chained', r) = Before(Chained, r)
      BY <2>1, <3>2 DEF Before
    <3>. QED
      BY <3>1, <3>3 DEF Links, CarriedInto
  <2>3. Links(Chained', row, GENESIS)
    <3>1. Before(Chained', row) = Chained
      BY <1>3, <2>1 DEF Before, Chained
    <3>2. CarriedInto(Chained', row, GENESIS) = TailHash(table)
      BY <3>1, TailHashIsCarried DEF CarriedInto
    <3>. QED
      BY <1>3, <1>4, <3>2 DEF Links
  <2>. QED
    BY <2>1, <2>2, <2>3 DEF ChainIntact, VerifyChain, Broken
<1>. QED
  BY <1>5, <1>6

LEMMA FreshStep == IInv /\ TypeOK' /\ [Next]_vars => TailStaysFresh'
<1>. SUFFICES ASSUME IInv, TypeOK', [Next]_vars PROVE TailStaysFresh'
  OBVIOUS
<1>. USE DEF IInv, Steady, TypeOK
<1>1. ASSUME NEW w \in Writers,
             Call(w) \/ AcquireLock(w) \/ ReadTail(w) \/ Insert(w) \/ Rollback(w)
      PROVE  TailStaysFresh'
  <2>1. table' = table
    BY <1>1 DEF Call, AcquireLock, ReadTail, Insert, Rollback
  <2>. QED
    BY <1>1, <2>1
    DEF Call, AcquireLock, ReadTail, Insert, Rollback, Goto, Idle, TailStaysFresh
<1>2. ASSUME NEW w \in Writers, Commit(w) PROVE TailStaysFresh'
  <2>1. lock = w
    BY <1>2 DEF Commit, Goto, LockHeld, Holding
  <2>2. \A u \in Writers : pc'[u] \notin {"insert", "commit"}
    BY <1>2, <2>1 DEF Commit, Goto, Idle, LockHeld, Holding
  <2>. QED
    BY <2>2 DEF TailStaysFresh
<1>3. CASE UNCHANGED vars
  BY <1>3 DEF vars, TailStaysFresh
<1>. QED
  BY <1>1, <1>2, <1>3 DEF Next

(* Whether a row has been committed or not.                                *)
LEMMA CommittedOrNot ==
  ASSUME TypeOK, [Next]_vars, ~ \E w \in Writers : Commit(w)
  PROVE  table' = table /\ seq' \in seq..MaxId
BY IdAssumption DEF TypeOK, Next, vars, Call, AcquireLock, ReadTail, Insert, Rollback

LEMMA SteadyStep == Steady /\ [Next]_vars => Steady'
<1>. SUFFICES ASSUME Steady, [Next]_vars PROVE Steady'
  OBVIOUS
<1>1. TypeOK'
  BY TypeStep DEF Steady
<1>2. LockHeld' /\ InsertedExtends'
  BY <1>1, LockStep, InsertedStep
<1>3. IdsHandedOut' /\ IdsUnique(table)' /\ HasLast'
  <2>1. ASSUME NEW w \in Writers, Commit(w)
        PROVE  IdsHandedOut' /\ IdsUnique(table)' /\ HasLast'
    <3>1. PICK row \in Row : inserted[w] = {row} /\ Extends(row, w)
      BY <2>1 DEF Commit, Goto, Steady, InsertedExtends
    <3>2. table' = table \cup {row} /\ seq' = seq
      BY <2>1, <3>1 DEF Commit
    <3>3. row.id \in 1..seq /\ \A q \in table : q.id < row.id /\ q.id \in Nat
      BY <3>1 DEF Extends, Steady, TypeOK, Row
    <3>. QED
      BY <3>2, <3>3 DEF Steady, IdsHandedOut, IdsUnique, HasLast, IsLast
  <2>2. CASE ~ \E w \in Writers : Commit(w)
    <3>1. table' = table /\ seq' \in seq..MaxId
      BY <2>2, CommittedOrNot DEF Steady
    <3>. QED
      BY <3>1 DEF Steady, TypeOK, IdsHandedOut, IdsUnique, HasLast
  <2>. QED
    BY <2>1, <2>2
<1>. QED
  BY <1>1, <1>2, <1>3 DEF Steady

LEMMA NextIInv == IInv /\ [Next]_vars => IInv'
<1>. SUFFICES ASSUME IInv, [Next]_vars PROVE IInv'
  OBVIOUS
<1>1. Steady'
  BY SteadyStep DEF IInv
<1>2. TailStaysFresh'
  BY <1>1, FreshStep DEF Steady
<1>3. LegacyFirst' /\ ChainIntact'
  <2>1. CASE \E w \in Writers : Commit(w)
    BY <2>1, CommitStep
  <2>2. CASE ~ \E w \in Writers : Commit(w)
    <3>1. table' = table /\ seq' \in seq..MaxId
      BY <2>2, CommittedOrNot DEF IInv, Steady
    <3>. QED
      BY <3>1, TableKept
  <2>. QED
    BY <2>1, <2>2
<1>. QED
  BY <1>1, <1>2, <1>3 DEF IInv

LEMMA Inductive == Spec => []IInv
<1>. QED
  BY InitIInv, NextIInv, PTL DEF Spec

-----------------------------------------------------------------------------
(* Theorems                                                                *)

(* The variables keep their types.                                         *)
THEOREM TypeCorrect == Spec => []TypeOK
<1>1. IInv => TypeOK
  BY DEF IInv, Steady
<1>. QED
  BY <1>1, Inductive, PTL

(* write_audit: the rows it has committed always verify from the genesis   *)
(* hash, for any number of concurrent writers and rollbacks, and after any *)
(* number of rows without hashes.                                          *)
THEOREM ChainAlwaysIntact == Spec => []ChainIntact
<1>1. IInv => ChainIntact
  BY DEF IInv
<1>. QED
  BY <1>1, Inductive, PTL

(* write_audit: the tail hash that a writer has read is still that of the  *)
(* last row when its own row is committed.                                 *)
THEOREM TailAlwaysFresh == Spec => []TailStaysFresh
<1>1. IInv => TailStaysFresh
  BY DEF IInv
<1>. QED
  BY <1>1, Inductive, PTL

LEMMA InitAppends == Init => Log!Init
<1>. SUFFICES ASSUME Init PROVE Log!Init
  OBVIOUS
<1>1. PICK said \in [1..Legacy -> Records] :
        table = {LegacyRow(n, said[n]) : n \in 1..Legacy}
  BY DEF Init
<1>2. Entries(table) = {[id |-> n, record |-> said[n]] : n \in 1..Legacy}
  <2>. DEFINE E == {[id |-> n, record |-> said[n]] : n \in 1..Legacy}
  <2>1. \A n \in 1..Legacy : /\ LegacyRow(n, said[n]).id = n
                            /\ LegacyRow(n, said[n]).record = said[n]
    BY DEF LegacyRow
  <2>2. ASSUME NEW e \in Entries(table) PROVE e \in E
    <3>1. PICK r \in table : e = [id |-> r.id, record |-> r.record]
      BY DEF Entries
    <3>2. PICK n \in 1..Legacy : r = LegacyRow(n, said[n])
      BY <1>1
    <3>. QED
      BY <2>1, <3>1, <3>2
  <2>3. ASSUME NEW n \in 1..Legacy PROVE [id |-> n, record |-> said[n]] \in Entries(table)
    <3>1. LegacyRow(n, said[n]) \in table
      BY <1>1
    <3>. QED
      BY <2>1, <3>1 DEF Entries
  <2>. QED
    BY <2>2, <2>3
<1>. QED
  BY <1>2 DEF Log!Init

LEMMA StepAppends == IInv /\ [Next]_vars => [Log!Next]_(Entries(table))
<1>. SUFFICES ASSUME IInv, [Next]_vars PROVE [Log!Next]_(Entries(table))
  OBVIOUS
<1>1. ASSUME NEW w \in Writers, Commit(w) PROVE Log!Next
  <2>1. PICK row \in Row : inserted[w] = {row} /\ Extends(row, w)
    BY <1>1 DEF IInv, Steady, InsertedExtends, Commit, Goto
  <2>2. table' = table \cup {row}
    BY <1>1, <2>1 DEF Commit
  <2>3. row.id \in 1..MaxId /\ row.record \in Records
    BY <2>1, IdAssumption DEF Extends, Row, IInv, Steady, TypeOK
  <2>4. \A e \in Entries(table) : e.id < row.id
    BY <2>1 DEF Extends, Entries
  <2>5. Entries(table)' = Entries(table) \cup {[id |-> row.id, record |-> row.record]}
    BY <2>2 DEF Entries
  <2>. QED
    BY <2>3, <2>4, <2>5 DEF Log!Next, Log!Append
<1>2. CASE ~ \E w \in Writers : Commit(w)
  <2>1. table' = table
    BY <1>2 DEF Next, vars, Call, AcquireLock, ReadTail, Insert, Rollback
  <2>. QED
    BY <2>1 DEF Entries
<1>. QED
  BY <1>1, <1>2

(* The table implements the append-only ledger of AuditLog: rows appear in *)
(* the order of their ids, and nothing that was committed changes.         *)
THEOREM ImplementsLog == Spec => AppendsInIdOrder
<1>. QED
  BY InitAppends, StepAppends, Inductive, PTL DEF Spec, Log!Spec, AppendsInIdOrder

-----------------------------------------------------------------------------
(* What verify_chain notices, for any table write_audit can have produced: *)
(* every deletion of rows but that of the newest ones, at the right place, *)
(* and every exchange of two rows.                                         *)
(*                                                                         *)
(* Both rest on one more invariant: hashes commit to more and more rows,   *)
(* so that no two rows have the same hash.                                 *)

HashesGrow ==
  /\ \A r \in Chained : r.record_hash \in Hashes /\ r.record_hash # GENESIS
  /\ \A q, r \in Chained : q.id < r.id => Len(q.record_hash) < Len(r.record_hash)

LEMMA LastExists ==
  ASSUME IInv, NEW rows, rows \subseteq table, rows # {}
  PROVE  IsLast(rows, LastRow(rows))
<1>. DEFINE S == {r.id : r \in rows}
<1>1. seq \in Nat /\ S \subseteq 0..seq /\ S # {}
  BY DEF IInv, Steady, TypeOK, IdsHandedOut
<1>. HIDE DEF S
<1>2. PICK n \in S : \A m \in S : m <= n
  BY <1>1, GreatestNat
<1>3. PICK r \in rows : n = r.id
  BY DEF S
<1>4. IsLast(rows, r)
  BY <1>2, <1>3 DEF IsLast, S
<1>. QED
  BY <1>4 DEF LastRow, IsLast

-----------------------------------------------------------------------------
(* Hashes grow                                                             *)

LEMMA InitGrows == Init => HashesGrow
<1>. SUFFICES ASSUME Init PROVE Chained = {}
  BY DEF HashesGrow
<1>. QED
  BY DEF Init, LegacyRow, Chained

LEMMA LenAppend ==
  ASSUME NEW h \in Hashes, NEW r \in Records
  PROVE  /\ ChainHash(r, h) \in Hashes
         /\ Len(ChainHash(r, h)) = Len(h) + 1
         /\ Len(h) \in Nat
         /\ ChainHash(r, h) # GENESIS
BY DEF ChainHash, Hashes, GENESIS

LEMMA StepGrows == IInv /\ HashesGrow /\ [Next]_vars => HashesGrow'
<1>. SUFFICES ASSUME IInv, HashesGrow, [Next]_vars PROVE HashesGrow'
  OBVIOUS
<1>1. ASSUME NEW w \in Writers, Commit(w) PROVE HashesGrow'
  <2>1. PICK row \in Row : inserted[w] = {row} /\ Extends(row, w)
    BY <1>1 DEF IInv, Steady, InsertedExtends, Commit, Goto
  <2>2. /\ table' = table \cup {row}
        /\ \A q \in table : q.id < row.id
        /\ row.record_hash = ChainHash(row.record, TailHash(table))
        /\ row.record \in Records /\ row.id \in Nat
    BY <1>1, <2>1 DEF Commit, Goto, Extends, IInv, Steady, TailStaysFresh, Row
  <2>3. TailHash(table) \in Hashes
    BY TailHashType DEF IInv, Steady
  <2>4. /\ row.record_hash \in Hashes /\ row.record_hash # GENESIS
        /\ Len(row.record_hash) = Len(TailHash(table)) + 1
        /\ Len(TailHash(table)) \in Nat
    BY <2>2, <2>3, LenAppend
  <2>5. Chained' = Chained \cup {row}
    BY <2>2, <2>4, HashType DEF Chained
  <2>6. ASSUME NEW q \in Chained PROVE Len(q.record_hash) < Len(row.record_hash)
    <3>. DEFINE last == LastRow(Chained)
    <3>1. IsLast(Chained, last)
      <4>1. Chained \subseteq table /\ Chained # {}
        BY DEF Chained
      <4>. QED
        BY <4>1, LastExists
    <3>2. TailHash(table) = last.record_hash
      BY TailHashIsCarried DEF IInv, Steady
    <3>3. q.id <= last.id /\ last \in Chained
      BY <3>1 DEF IsLast
    <3>4. q \in table /\ last \in table /\ q.id \in Nat /\ last.id \in Nat
      BY <3>3 DEF Chained, IInv, Steady, TypeOK, Row
    <3>. HIDE DEF last
    <3>5. CASE q.id = last.id
      <4>1. q = last
        BY <3>4, <3>5 DEF IInv, Steady, IdsUnique
      <4>. QED
        BY <2>4, <3>2, <4>1
    <3>6. CASE q.id < last.id
      <4>1. Len(q.record_hash) < Len(last.record_hash)
        BY <3>3, <3>6 DEF HashesGrow
      <4>2. Len(q.record_hash) \in Nat
        BY DEF HashesGrow, Hashes
      <4>. QED
        BY <2>4, <3>2, <4>1, <4>2
    <3>. QED
      BY <3>3, <3>4, <3>5, <3>6
  <2>7. ASSUME NEW q \in Chained PROVE q.id < row.id /\ q.id \in Nat /\ row.id \in Nat
    BY <2>1, <2>2 DEF Chained, IInv, Steady, TypeOK, Row
  <2>8. \A r \in Chained' : r.record_hash \in Hashes /\ r.record_hash # GENESIS
    BY <2>4, <2>5 DEF HashesGrow
  <2>9. ASSUME NEW q \in Chained', NEW r \in Chained', q.id < r.id
        PROVE  Len(q.record_hash) < Len(r.record_hash)
    <3>1. CASE r = row
      <4>1. q \in Chained
        BY <2>2, <2>5, <2>9, <3>1
      <4>. QED
        BY <2>6, <3>1, <4>1
    <3>2. CASE r # row
      <4>1. r \in Chained /\ q # row
        BY <2>5, <2>7, <2>9, <3>2
      <4>. QED
        BY <2>5, <2>9, <4>1 DEF HashesGrow
    <3>. QED
      BY <3>1, <3>2
  <2>. QED
    BY <2>8, <2>9 DEF HashesGrow
<1>2. CASE ~ \E w \in Writers : Commit(w)
  <2>1. table' = table
    BY <1>2 DEF Next, vars, Call, AcquireLock, ReadTail, Insert, Rollback
  <2>. QED
    BY <2>1 DEF HashesGrow, Chained
<1>. QED
  BY <1>1, <1>2

LEMMA Grows == Spec => [](IInv /\ HashesGrow)
<1>. QED
  BY InitIInv, NextIInv, InitGrows, StepGrows, PTL DEF Spec

-----------------------------------------------------------------------------
(* Deletions                                                               *)

LEMMA ChainedFacts ==
  ASSUME IInv
  PROVE  /\ Chained \subseteq table
         /\ Chained \subseteq Row
         /\ IdsUnique(Chained)
         /\ \A r \in Chained : r.id \in Nat
         /\ \A r \in Chained : Links(Chained, r, GENESIS)
BY DEF IInv, Steady, TypeOK, Row, Chained, IdsUnique, ChainIntact, VerifyChain, Broken

(* With some rows missing, the rows that do not link are those that follow *)
(* a gap.                                                                  *)
LEMMA BrokenIsAfterGap ==
  ASSUME IInv, HashesGrow, NEW some, some \subseteq Chained
  PROVE  Broken(some, GENESIS) = AfterGap(some, Chained)
<1>. SUFFICES ASSUME NEW r \in some
              PROVE  ~ Links(some, r, GENESIS) <=>
                       /\ Before(Chained, r) # {}
                       /\ LastRow(Before(Chained, r)) \notin some
  BY DEF Broken, AfterGap
<1>. DEFINE all == Before(Chained, r)
            left == Before(some, r)
            q == LastRow(all)
<1>1. Links(Chained, r, GENESIS) /\ r \in Chained /\ left \subseteq all
  BY ChainedFacts DEF Before
<1>2. CASE all = {}
  <2>1. left = {}
    BY <1>1, <1>2
  <2>2. CarriedInto(some, r, GENESIS) = CarriedInto(Chained, r, GENESIS)
    BY <1>2, <2>1 DEF CarriedInto
  <2>. QED
    BY <1>1, <1>2, <2>2 DEF Links
<1>3. CASE all # {}
  <2>1. IsLast(all, q)
    BY <1>3, ChainedFacts, LastExists DEF Before
  <2>2. q \in Chained /\ q.id < r.id
    BY <2>1 DEF IsLast, Before
  <2>3. CarriedInto(Chained, r, GENESIS) = q.record_hash
    BY <1>3 DEF CarriedInto
  <2>4. CASE q \in some
    <3>1. q \in left
      BY <2>2, <2>4 DEF Before
    <3>2. IsLast(left, q)
      BY <1>1, <2>1, <3>1 DEF IsLast
    <3>3. left \subseteq Row /\ IdsUnique(left)
      BY ChainedFacts DEF Before, IdsUnique
    <3>4. LastRow(left) = q
      BY <3>2, <3>3, LastRowIs
    <3>5. CarriedInto(some, r, GENESIS) = q.record_hash
      BY <3>1, <3>4 DEF CarriedInto
    <3>. QED
      BY <1>1, <1>3, <2>3, <2>4, <3>5 DEF Links
  <2>5. CASE q \notin some
    <3>1. CarriedInto(some, r, GENESIS) # q.record_hash
      <4>1. CASE left = {}
        BY <2>2, <4>1 DEF CarriedInto, HashesGrow
      <4>2. CASE left # {}
        <5>. DEFINE p == LastRow(left)
        <5>1. IsLast(left, p)
          BY <4>2, ChainedFacts, LastExists DEF Before
        <5>2. p \in Chained /\ p \in all /\ p # q
          BY <1>1, <2>5, <5>1 DEF IsLast, Before
        <5>3. p.id <= q.id /\ p.id # q.id /\ p.id \in Nat /\ q.id \in Nat
          BY <2>1, <2>2, <5>2, ChainedFacts DEF IsLast, IdsUnique
        <5>4. Len(p.record_hash) < Len(q.record_hash)
          BY <2>2, <5>2, <5>3 DEF HashesGrow
        <5>5. Len(p.record_hash) \in Nat
          BY <5>2 DEF HashesGrow, Hashes
        <5>6. p.record_hash # q.record_hash
          BY <5>4, <5>5
        <5>. QED
          BY <4>2, <5>6 DEF CarriedInto
      <4>. QED
        BY <4>1, <4>2
    <3>. QED
      BY <1>1, <1>3, <2>3, <2>5, <3>1 DEF Links
  <2>. QED
    BY <2>4, <2>5
<1>. QED
  BY <1>2, <1>3

(* If the rows left are not the oldest ones, one of them follows a gap:    *)
(* the first that any row before it is missing for.                        *)
LEMMA GapExists ==
  ASSUME IInv, NEW some, some \subseteq Chained
  PROVE  AfterGap(some, Chained) = {} <=> IsPrefixOf(some, Chained)
<1>1. ASSUME IsPrefixOf(some, Chained) PROVE AfterGap(some, Chained) = {}
  <2>. SUFFICES ASSUME NEW r \in some, Before(Chained, r) # {}
                PROVE  LastRow(Before(Chained, r)) \in some
    BY DEF AfterGap
  <2>1. IsLast(Before(Chained, r), LastRow(Before(Chained, r)))
    BY ChainedFacts, LastExists DEF Before
  <2>. QED
    BY <1>1, <2>1 DEF IsLast, Before, IsPrefixOf
<1>2. ASSUME ~ IsPrefixOf(some, Chained) PROVE AfterGap(some, Chained) # {}
  <2>. DEFINE Lacking == {r \in some : \E q \in Chained : q.id < r.id /\ q \notin some}
              Ids == {r.id : r \in Lacking}
  <2>1. Ids \subseteq Nat /\ Ids # {}
    BY <1>2, ChainedFacts DEF IsPrefixOf
  <2>. HIDE DEF Ids
  <2>2. PICK n \in Ids : \A m \in Ids : n <= m
    BY <2>1, LeastNat
  <2>3. PICK r \in Lacking : n = r.id
    BY <2>2 DEF Ids
  <2>4. PICK q \in Chained : q.id < r.id /\ q \notin some
    BY <2>3
  <2>. DEFINE last == LastRow(Before(Chained, r))
  <2>5. Before(Chained, r) # {}
    BY <2>4 DEF Before
  <2>6. IsLast(Before(Chained, r), last)
    BY <2>5, ChainedFacts, LastExists DEF Before
  <2>7. last \notin some
    <3>1. SUFFICES ASSUME last \in some PROVE FALSE
      OBVIOUS
    <3>2. last \in Chained /\ last.id < r.id /\ q.id <= last.id
      BY <2>4, <2>6 DEF IsLast, Before
    <3>3. q.id \in Nat /\ last.id \in Nat /\ r.id \in Nat /\ q.id # last.id
      BY <2>3, <2>4, <3>1, <3>2, ChainedFacts DEF IdsUnique
    <3>4. last \in Lacking
      BY <2>4, <3>1, <3>2, <3>3
    <3>5. n <= last.id
      BY <2>2, <3>4 DEF Ids
    <3>. QED
      BY <2>3, <3>2, <3>3, <3>5
  <2>. QED
    BY <2>3, <2>5, <2>7 DEF AfterGap
<1>. QED
  BY <1>1, <1>2

LEMMA DeletionStep == IInv /\ HashesGrow => DeletionDetected
<1>. SUFFICES ASSUME IInv, HashesGrow, NEW some \in SUBSET Chained
              PROVE  IF IsPrefixOf(some, Chained)
                     THEN VerifyChain(some, GENESIS)
                     ELSE /\ ~ VerifyChain(some, GENESIS)
                          /\ \E r \in AfterGap(some, Chained) :
                               /\ BrokenAt(some, GENESIS) = r.id
                               /\ \A q \in AfterGap(some, Chained) : r.id <= q.id
  BY DEF DeletionDetected
<1>1. Broken(some, GENESIS) = AfterGap(some, Chained)
  BY BrokenIsAfterGap
<1>2. CASE IsPrefixOf(some, Chained)
  BY <1>1, <1>2, GapExists DEF VerifyChain
<1>3. CASE ~ IsPrefixOf(some, Chained)
  <2>. DEFINE Ids == {r.id : r \in Broken(some, GENESIS)}
  <2>1. Ids \subseteq Nat /\ Ids # {}
    BY <1>1, <1>3, GapExists, ChainedFacts DEF AfterGap
  <2>2. PICK n \in Ids : \A m \in Ids : n <= m
    <3>. HIDE DEF Ids
    <3>. QED
      BY <2>1, LeastNat
  <2>3. BrokenAt(some, GENESIS) \in Ids
    BY <2>2 DEF BrokenAt
  <2>4. \A r \in Broken(some, GENESIS) : BrokenAt(some, GENESIS) <= r.id
    BY <2>2 DEF BrokenAt
  <2>5. PICK r \in Broken(some, GENESIS) : BrokenAt(some, GENESIS) = r.id
    BY <2>3
  <2>. QED
    BY <1>1, <1>3, <2>4, <2>5, GapExists DEF VerifyChain
<1>. QED
  BY <1>2, <1>3

(* verify_chain: of all the ways to delete rows that write_audit has       *)
(* written, only the loss of the newest rows goes unnoticed, and the row   *)
(* it reports is the one after the first gap.                              *)
THEOREM DeletionAlwaysDetected == Spec => []DeletionDetected
<1>. QED
  BY Grows, DeletionStep, PTL

-----------------------------------------------------------------------------
(* Exchanges                                                               *)

(* The row that moves forward has a hash longer than the chain before it.  *)
LEMMA ForwardMoveBreaks ==
  ASSUME IInv, HashesGrow, NEW a \in Chained, NEW b \in Chained, a.id < b.id,
         NEW rows, rows \subseteq Row,
         [b EXCEPT !.id = a.id] \in rows,
         Before(rows, [b EXCEPT !.id = a.id]) = Before(Chained, a)
  PROVE  ~ VerifyChain(rows, GENESIS)
<1>. DEFINE moved == [b EXCEPT !.id = a.id]
            carried == CarriedInto(Chained, a, GENESIS)
<1>1. /\ a \in Row /\ b \in Row
      /\ moved.id = a.id /\ moved.record = b.record
      /\ moved.record_hash = b.record_hash
  BY ChainedFacts DEF Row
<1>2. a.record_hash = ChainHash(a.record, carried) /\ carried \in Hashes
  <2>1. Links(Chained, a, GENESIS)
    BY ChainedFacts
  <2>2. OrGenesis(a.prev_hash) \in Hashes
    BY <1>1, HashType DEF Row
  <2>. QED
    BY <2>1, <2>2 DEF Links
<1>3. CarriedInto(rows, moved, GENESIS) = carried
  BY DEF CarriedInto
<1>4. ASSUME Links(rows, moved, GENESIS) PROVE FALSE
  <2>1. b.record_hash = ChainHash(b.record, carried)
    BY <1>1, <1>3, <1>4 DEF Links
  <2>2. a.record \in Records /\ b.record \in Records
    BY <1>1 DEF Row
  <2>. HIDE DEF carried
  <2>3. Len(a.record_hash) = Len(carried) + 1 /\ Len(b.record_hash) = Len(carried) + 1
    BY <1>2, <2>1, <2>2, LenAppend
  <2>4. Len(carried) \in Nat
    BY <1>2, <2>2, LenAppend
  <2>5. Len(a.record_hash) < Len(b.record_hash)
    BY DEF HashesGrow
  <2>. QED
    BY <2>3, <2>4, <2>5
<1>. QED
  BY <1>4 DEF VerifyChain, Broken

LEMMA SwapBreaks ==
  ASSUME IInv, HashesGrow, NEW a \in Chained, NEW b \in Chained, a.id < b.id
  PROVE  ~ VerifyChain(Swapped(Chained, a, b), GENESIS)
<1>. DEFINE later == [a EXCEPT !.id = b.id]
            sooner == [b EXCEPT !.id = a.id]
            rows == Swapped(Chained, a, b)
<1>1. /\ a \in Row /\ b \in Row /\ a.id \in Nat /\ b.id \in Nat
      /\ later \in Row /\ sooner \in Row
      /\ later.id = b.id /\ sooner.id = a.id
  BY ChainedFacts DEF Row
<1>2. rows = (Chained \ {a, b}) \cup {later, sooner} /\ rows \subseteq Row
  BY <1>1, ChainedFacts DEF Swapped
<1>. HIDE DEF rows, later, sooner
<1>3. Before(rows, sooner) = Before(Chained, a)
  BY <1>1, <1>2 DEF Before
<1>. USE DEF sooner
<1>. QED
  BY <1>2, <1>3, ForwardMoveBreaks DEF rows

LEMMA ReorderStep == IInv /\ HashesGrow => ReorderDetected
<1>. SUFFICES ASSUME IInv, HashesGrow,
                     NEW a \in Chained, NEW b \in Chained, a # b
              PROVE  ~ VerifyChain(Swapped(Chained, a, b), GENESIS)
  BY DEF ReorderDetected
<1>1. a.id \in Nat /\ b.id \in Nat /\ a.id # b.id
  BY ChainedFacts DEF IdsUnique
<1>2. Swapped(Chained, a, b) = Swapped(Chained, b, a)
  BY DEF Swapped
<1>. QED
  BY <1>1, <1>2, SwapBreaks

(* verify_chain: two rows that have changed places never verify, not even  *)
(* when both say the same.                                                 *)
THEOREM ReorderAlwaysDetected == Spec => []ReorderDetected
<1>. QED
  BY Grows, ReorderStep, PTL

=============================================================================
