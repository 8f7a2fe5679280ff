-------------------------- MODULE AuditExportProofs --------------------------
(***************************************************************************)
(* Proofs about AuditExport: what the bucket holds after any number of     *)
(* exports, deaths and losses of rows.                                     *)
(*                                                                         *)
(* A table that has lost rows does not verify any more, so the invariant   *)
(* of AuditChainProofs is of little use here; what counts is that ids are  *)
(* handed out in order (Steady) and that every batch continues the chain   *)
(* of the manifest it names.                                               *)
(***************************************************************************)
EXTENDS AuditExport, AuditChainProofs

-----------------------------------------------------------------------------
(* The invariant                                                           *)

Busy(e) == epc[e] \in {"data", "manifest"}

ExportTypes ==
  /\ data \subseteq [key : Nat, rows : SUBSET Row]
  /\ manifests \subseteq Manifest
  /\ clock \in Nat
  /\ epc \in [Exporters -> {"start", "select", "data", "manifest", "refused"}]
  /\ latest \in [Exporters -> manifests \cup {NoManifest}]
  /\ batch \in [Exporters -> SUBSET Row]
  /\ stamp \in [Exporters -> Nat]

(* Two exports never have the same key, and what is put under a key stays  *)
(* what it is.                                                             *)
KeysTaken ==
  /\ \A d \in data : d.key <= clock
  /\ \A m \in manifests : m.key <= clock /\ m.first <= seq
  /\ \A m, n \in manifests : m.key = n.key => m = n
  /\ \A e \in Exporters : Busy(e) =>
       /\ stamp[e] <= clock
       /\ \A f \in Exporters : f # e /\ Busy(f) => stamp[f] # stamp[e]
       /\ \A m \in manifests : m.key # stamp[e]
  /\ \A e \in Exporters : epc[e] = "data" => \A d \in data : d.key # stamp[e]
  /\ \A e \in Exporters : epc[e] = "manifest" => RowsAt(stamp[e]) = batch[e]

(* Rows that verify from a hash, above an id.                              *)
Continues(rows, since, start) ==
  /\ rows # {} /\ rows \subseteq Row /\ IdsUnique(rows)
  /\ \A r \in rows : since < r.id /\ r.id \in 1..seq
  /\ VerifyChain(rows, start)

BatchesContinue ==
  \A e \in Exporters : Busy(e) => Continues(batch[e], SinceId(e), StartHash(e))

(* The rows up to an id are among some rows, and none is still to come.    *)
Covered(n, rows) ==
  /\ n \in 0..seq
  /\ \A w \in Writers : \A row \in inserted[w] : n < row.id
  /\ \A r \in table : r.id <= n => r \in rows

BucketCovers ==
  /\ \A m \in manifests : Covered(m.last, Exported)
  /\ \A e \in Exporters : Busy(e) => Covered(LastRow(batch[e]).id, batch[e] \cup Exported)

(* The prefixes of a hash are the hashes of some rows.                     *)
Closed(hash, rows) ==
  /\ hash \in Hashes
  /\ \A k \in 1..Len(hash) : \E r \in rows : r.record_hash = SubSeq(hash, 1, k)

HistoryWhole ==
  /\ \A q \in Exported : Closed(q.record_hash, Exported)
  /\ \A m \in manifests : Closed(m.head, Exported)

ExportInv ==
  /\ Steady
  /\ ExportTypes
  /\ KeysTaken
  /\ BatchesContinue
  /\ BucketCovers
  /\ HistoryWhole

(* The clock counts selections.  Every one of them ended in a death, is    *)
(* under way, or has a manifest; an exporter selects ever greater first    *)
(* ids, since it starts after a manifest that comes last in the order of   *)
(* first ids.  So the pairs of an exporter and a first id count them.      *)
Reached(e, i) ==
  \/ epc[e] \in {"start", "refused"} /\ \E m \in manifests : i <= m.first
  \/ epc[e] = "select" /\ latest[e] # NoManifest /\ i <= latest[e].first
  \/ Busy(e) /\ latest[e] # NoManifest /\ i <= latest[e].first
  \/ Busy(e) /\ i = FirstId(batch[e])

SelectionsCounted ==
  \E made \in SUBSET (Exporters \X (1..MaxId)) :
    /\ clock <= faults.deaths + Cardinality(made)
    /\ \A x \in made : Reached(x[1], x[2])

BoundsInv ==
  /\ \A e \in Exporters : stamp[e] <= clock
  /\ \A e \in Exporters : Busy(e) <=> batch[e] # {}
  /\ \A m \in manifests : m.first <= m.last
  /\ lost \subseteq Row
  /\ faults \in [deaths : 0..MaxDeaths, losses : 0..MaxLosses]
  /\ SelectionsCounted

-----------------------------------------------------------------------------
(* Rows and their hashes                                                   *)

LEMMA RowsHaveLast ==
  ASSUME NEW rows, rows \subseteq Row, rows # {},
         NEW n \in Nat, \A r \in rows : r.id <= n
  PROVE  IsLast(rows, LastRow(rows))
<1> DEFINE S == {r.id : r \in rows}
<1>1. S \subseteq 0..n /\ S # {}
  BY DEF Row
<1> HIDE DEF S
<1>2. PICK i \in S : \A j \in S : j <= i
  BY <1>1, GreatestNat
<1>3. PICK r \in rows : r.id = i
  BY DEF S
<1>4. IsLast(rows, r)
  BY <1>2, <1>3 DEF IsLast, S
<1> QED BY <1>4 DEF LastRow, IsLast

LEMMA RowsHaveFirst ==
  ASSUME NEW rows, rows \subseteq Row, rows # {}
  PROVE  \E r \in rows : \A q \in rows : r.id <= q.id
<1> DEFINE S == {r.id : r \in rows}
<1>1. S \subseteq Nat /\ S # {}
  BY DEF Row
<1> HIDE DEF S
<1>2. PICK i \in S : \A j \in S : i <= j
  BY <1>1, LeastNat
<1> QED BY <1>2 DEF S

LEMMA PrefixOfAppend ==
  ASSUME NEW hash \in Hashes, NEW r \in Records
  PROVE  /\ ChainHash(r, hash) \in Hashes
         /\ Len(hash) \in Nat /\ Len(ChainHash(r, hash)) = Len(hash) + 1
         /\ SubSeq(ChainHash(r, hash), 1, Len(hash) + 1) = ChainHash(r, hash)
         /\ \A k \in 1..Len(hash) : SubSeq(ChainHash(r, hash), 1, k) = SubSeq(hash, 1, k)
<1> DEFINE h == Append(hash, r)
<1>1. h \in Seq(Records) /\ Len(h) = Len(hash) + 1 /\ Len(hash) \in Nat
  BY DEF Hashes
<1>2. \A i \in 1..Len(hash) : h[i] = hash[i]
  BY DEF Hashes
<1>3. SubSeq(h, 1, Len(hash) + 1) = h
  BY <1>1
<1>4. ASSUME NEW k \in 1..Len(hash) PROVE SubSeq(h, 1, k) = SubSeq(hash, 1, k)
  <2>1. /\ SubSeq(h, 1, k) = [i \in 1..k |-> h[i]]
        /\ SubSeq(hash, 1, k) = [i \in 1..k |-> hash[i]]
    BY <1>1 DEF Hashes
  <2>2. \A i \in 1..k : h[i] = hash[i]
    BY <1>1, <1>2
  <2> QED BY <2>1, <2>2
<1> QED BY <1>1, <1>3, <1>4 DEF ChainHash, Hashes

LEMMA AppendClosed ==
  ASSUME NEW hash, NEW rows, Closed(hash, rows), NEW q \in Row, q \in rows,
         q.record_hash = ChainHash(q.record, hash)
  PROVE  Closed(q.record_hash, rows)
<1> DEFINE h == ChainHash(q.record, hash)
<1>1. hash \in Hashes /\ q.record \in Records
  BY DEF Closed, Row
<1>2. h \in Hashes /\ Len(hash) \in Nat /\ Len(h) = Len(hash) + 1
  BY <1>1, PrefixOfAppend
<1>3. ASSUME NEW k \in 1..Len(h)
      PROVE  \E r \in rows : r.record_hash = SubSeq(h, 1, k)
  <2>1. CASE k = Len(hash) + 1
    BY <1>1, <2>1, PrefixOfAppend
  <2>2. CASE k # Len(hash) + 1
    <3>1. k \in 1..Len(hash)
      BY <1>2, <2>2
    <3>2. SubSeq(h, 1, k) = SubSeq(hash, 1, k)
      BY <1>1, <3>1, PrefixOfAppend
    <3> QED BY <3>1, <3>2 DEF Closed
  <2> QED BY <2>1, <2>2
<1> QED BY <1>2, <1>3 DEF Closed

LEMMA ClosedInMore ==
  ASSUME NEW hash, NEW rows, NEW more, rows \subseteq more, Closed(hash, rows)
  PROVE  Closed(hash, more)
BY DEF Closed

LEMMA GenesisClosed == \A rows : Closed(GENESIS, rows)
BY HashType DEF Closed, GENESIS

(* Rows that verify from a hash that some rows account for are accounted   *)
(* for by those and themselves: each commits to the one before it.         *)
LEMMA BatchClosed ==
  ASSUME NEW rows, rows \subseteq Row, IdsUnique(rows),
         NEW n \in Nat, \A r \in rows : r.id <= n,
         NEW start, VerifyChain(rows, start), NEW old, Closed(start, old)
  PROVE  \A q \in rows : Closed(q.record_hash, rows \cup old)
<1> DEFINE all == rows \cup old
           Open == {q \in rows : ~ Closed(q.record_hash, all)}
<1> SUFFICES ASSUME Open # {} PROVE FALSE
  OBVIOUS
<1>1. PICK q \in Open : \A p \in Open : q.id <= p.id
  <2> HIDE DEF Open
  <2>1. Open \subseteq Row
    BY DEF Open
  <2> QED BY <2>1, RowsHaveFirst
<1>2. q \in rows /\ q \in Row
  OBVIOUS
<1>3. q.record_hash = ChainHash(q.record, CarriedInto(rows, q, start))
  BY DEF VerifyChain, Broken, Links
<1>4. Closed(CarriedInto(rows, q, start), all)
  <2>1. CASE Before(rows, q) = {}
    BY <2>1, ClosedInMore DEF CarriedInto
  <2>2. CASE Before(rows, q) # {}
    <3>1. IsLast(Before(rows, q), LastRow(Before(rows, q)))
      BY <2>2, RowsHaveLast DEF Before
    <3>2. PICK p \in rows : p = LastRow(Before(rows, q)) /\ p.id < q.id
      BY <3>1 DEF IsLast, Before
    <3>3. p \notin Open
      BY <1>1, <1>2, <3>2 DEF Row
    <3> QED BY <2>2, <3>2, <3>3 DEF CarriedInto
  <2> QED BY <2>1, <2>2
<1> HIDE DEF all
<1>5. Closed(q.record_hash, all)
  BY <1>2, <1>3, <1>4, AppendClosed DEF all
<1> QED BY <1>5

-----------------------------------------------------------------------------
(* The steps of the table                                                  *)

LEMMA SteadyLoss ==
  ASSUME Steady, table' \subseteq table, UNCHANGED <<seq, lock, pc, prev, inserted>>
  PROVE  Steady'
<1>1. TypeOK' /\ LockHeld' /\ InsertedExtends' /\ IdsHandedOut' /\ IdsUnique(table)'
  BY DEF Steady, TypeOK, LockHeld, InsertedExtends, Extends, IdsHandedOut, IdsUnique
<1>2. HasLast'
  <2> PICK rest : rest = table'
    OBVIOUS
  <2>1. rest \subseteq Row /\ seq \in Nat /\ \A r \in rest : r.id <= seq
    BY IdAssumption DEF Steady, TypeOK, IdsHandedOut
  <2>2. rest = {} \/ \E r \in rest : IsLast(rest, r)
    BY <2>1, RowsHaveLast DEF IsLast
  <2> QED BY <2>2 DEF HasLast, IsLast
<1> QED BY <1>1, <1>2 DEF Steady

(* Rows come in the order of their ids, and what is lost is not missed.    *)
LEMMA CoveredStays ==
  ASSUME Steady, NEW n, NEW rows, Covered(n, rows),
         \/ [Next]_vars
         \/ table' \subseteq table /\ UNCHANGED <<seq, inserted>>
  PROVE  Covered(n, rows)'
<1> USE DEF Covered
<1>1. CASE table' \subseteq table /\ UNCHANGED <<seq, inserted>>
  BY <1>1
<1>2. ASSUME NEW w \in Writers, Call(w) \/ AcquireLock(w) \/ ReadTail(w)
      PROVE  Covered(n, rows)'
  BY <1>2 DEF Call, AcquireLock, ReadTail
<1>3. ASSUME NEW w \in Writers, Insert(w) PROVE Covered(n, rows)'
  <2>1. PICK r \in Records : inserted' = [inserted EXCEPT ![w] = {NewRow(w, r)}]
    BY <1>3 DEF Insert
  <2>2. PICK fresh : fresh = NewRow(w, r)
    OBVIOUS
  <2>3. fresh.id = seq + 1
    BY <2>2 DEF NewRow
  <2>4. seq \in Nat /\ inserted \in [Writers -> SUBSET Row]
    BY IdAssumption DEF Steady, TypeOK
  <2>5. \A v \in Writers : \A row \in inserted'[v] : n < row.id
    BY <2>1, <2>2, <2>3, <2>4
  <2>6. seq' = seq + 1 /\ table' = table
    BY <1>3 DEF Insert
  <2> QED BY <2>4, <2>5, <2>6
<1>4. ASSUME NEW w \in Writers, Commit(w) PROVE Covered(n, rows)'
  <2>1. PICK row \in Row : inserted[w] = {row}
    BY <1>4 DEF Commit, Goto, Steady, InsertedExtends
  <2>2. table' = table \cup {row} /\ n < row.id
    BY <1>4, <2>1 DEF Commit
  <2>3. \A v \in Writers : inserted'[v] \subseteq inserted[v]
    BY <1>4 DEF Commit, Steady, TypeOK
  <2>4. n \in Nat /\ row.id \in Nat /\ seq' = seq
    BY <1>4, IdAssumption DEF Commit, Steady, TypeOK, Row
  <2>5. \A r \in table' : r.id <= n => r \in rows
    BY <2>2, <2>4
  <2> QED BY <2>3, <2>4, <2>5
<1>5. ASSUME NEW w \in Writers, Rollback(w) PROVE Covered(n, rows)'
  <2>1. \A v \in Writers : inserted'[v] \subseteq inserted[v]
    BY <1>5 DEF Rollback, Steady, TypeOK
  <2> QED BY <1>5, <2>1 DEF Rollback
<1>6. CASE UNCHANGED vars
  BY <1>6 DEF vars
<1> QED BY <1>1, <1>2, <1>3, <1>4, <1>5, <1>6 DEF Next

LEMMA SeqGrows ==
  ASSUME Steady, [Next]_vars
  PROVE  seq' \in Nat /\ seq \in Nat /\ seq <= seq'
BY IdAssumption
DEF Steady, TypeOK, Next, vars, Call, AcquireLock, ReadTail, Insert, Commit, Rollback

(* What the table does beside the exporters.                               *)
LEMMA TableKeeps ==
  ASSUME ExportInv, Steady', UNCHANGED <<bucketVars, exporterVars>>,
         \/ [Next]_vars
         \/ table' \subseteq table /\ UNCHANGED <<seq, inserted>>
  PROVE  ExportInv'
<1>1. seq' \in Nat /\ seq \in Nat /\ seq <= seq'
  BY SeqGrows, IdAssumption DEF ExportInv, Steady, TypeOK
<1>2. UNCHANGED <<data, manifests, clock, epc, latest, batch, stamp>>
  BY DEF bucketVars, exporterVars
<1>3. ExportTypes'
  BY <1>2 DEF ExportInv, ExportTypes
<1>4. KeysTaken'
  BY <1>1, <1>2 DEF ExportInv, ExportTypes, Manifest, KeysTaken, Busy, RowsAt
<1>5. BatchesContinue'
  <2>1. \A rows, since, start : Continues(rows, since, start) => Continues(rows, since, start)'
    BY <1>1 DEF Continues
  <2> SUFFICES ASSUME NEW e \in Exporters, Busy(e)'
               PROVE  Continues(batch[e], SinceId(e), StartHash(e))'
    BY DEF BatchesContinue
  <2>2. PICK rows, since, start :
          rows = batch[e] /\ since = SinceId(e) /\ start = StartHash(e)
    OBVIOUS
  <2>3. Continues(rows, since, start)
    BY <1>2, <2>2 DEF ExportInv, BatchesContinue, Busy
  <2>4. batch'[e] = rows /\ SinceId(e)' = since /\ StartHash(e)' = start
    BY <1>2, <2>2 DEF SinceId, StartHash
  <2>5. Continues(rows, since, start)'
    BY <2>1, <2>3
  <2> QED BY <2>4, <2>5 DEF Continues
<1>6. PICK old : old = Exported
  OBVIOUS
<1>7. Exported' = old
  BY <1>2, <1>6 DEF Exported, RowsAt
<1>8. BucketCovers'
  <2>1. ASSUME NEW m \in manifests PROVE Covered(m.last, old)'
    BY <1>6, CoveredStays DEF ExportInv, BucketCovers
  <2>2. ASSUME NEW e \in Exporters, Busy(e)
        PROVE  Covered(LastRow(batch[e]).id, batch[e] \cup Exported)'
    <3>1. PICK rows, n : rows = batch[e] \cup old /\ n = LastRow(batch[e]).id
      OBVIOUS
    <3>2. Covered(n, rows)'
      BY <1>6, <2>2, <3>1, CoveredStays DEF ExportInv, BucketCovers
    <3> QED BY <1>2, <1>7, <3>1, <3>2 DEF Covered
  <2> QED BY <1>2, <1>7, <2>1, <2>2 DEF BucketCovers, Busy, Covered
<1>9. HistoryWhole'
  BY <1>2, <1>6, <1>7 DEF ExportInv, HistoryWhole
<1> QED BY <1>3, <1>4, <1>5, <1>8, <1>9 DEF ExportInv

-----------------------------------------------------------------------------
(* The steps of an export                                                  *)

(* There is a latest manifest as soon as there is one.                     *)
LEMMA LatestThereIs ==
  ASSUME ExportTypes, KeysTaken, Steady, manifests # {}
  PROVE  /\ LastManifest(manifests) \in manifests
         /\ \A n \in manifests \ {LastManifest(manifests)} :
              Sorted(n, LastManifest(manifests))
<1> DEFINE firsts == {m.first : m \in manifests}
<1>1. /\ \A m \in manifests : m.first \in Nat /\ m.key \in Nat
      /\ clock \in Nat /\ seq \in Nat
  BY IdAssumption DEF ExportTypes, Manifest, Steady, TypeOK
<1>2. firsts \subseteq 0..seq /\ firsts # {}
  BY <1>1 DEF KeysTaken
<1> HIDE DEF firsts
<1>3. PICK i \in firsts : \A j \in firsts : j <= i
  BY <1>1, <1>2, GreatestNat
<1> DEFINE late == {m \in manifests : m.first = i}
           keys == {m.key : m \in late}
<1>4. keys \subseteq 0..clock /\ keys # {}
  BY <1>1, <1>3 DEF KeysTaken, firsts
<1> HIDE DEF keys
<1>5. PICK k \in keys : \A j \in keys : j <= k
  BY <1>1, <1>4, GreatestNat
<1>6. PICK m \in manifests : m.first = i /\ m.key = k
  BY DEF keys
<1>7. ASSUME NEW n \in manifests, n # m PROVE Sorted(n, m)
  <2>1. n.key # m.key /\ n.first <= i
    BY <1>3, <1>7 DEF KeysTaken, firsts
  <2>2. n.first = i => n.key <= k
    BY <1>5 DEF keys
  <2> QED BY <1>1, <1>6, <2>1, <2>2 DEF Sorted
<1> QED BY <1>6, <1>7 DEF LastManifest

LEMMA LatestTyped ==
  ASSUME ExportInv
  PROVE  LastManifest(manifests) \in manifests \cup {NoManifest}
BY LatestThereIs DEF ExportInv, LastManifest

(* What a busy exporter knows does not change by what others do.           *)
LEMMA SinceStays ==
  ASSUME NEW e, latest'[e] = latest[e]
  PROVE  SinceId(e)' = SinceId(e) /\ StartHash(e)' = StartHash(e)
BY DEF SinceId, StartHash

LEMMA TableSame ==
  ASSUME Steady, UNCHANGED vars
  PROVE  /\ Steady'
         /\ UNCHANGED <<table, seq, inserted>>
         /\ \A n, rows : Covered(n, rows)' <=> Covered(n, rows)
         /\ \A rows, since, start :
              Continues(rows, since, start)' <=> Continues(rows, since, start)
BY DEF vars, Steady, TypeOK, LockHeld, InsertedExtends, Extends, IdsHandedOut,
       IdsUnique, HasLast, Covered, Continues

(* An exporter that is not busy after its step, and has put nothing.       *)
LEMMA IdleStep ==
  ASSUME ExportInv, UNCHANGED <<vars, bucketVars, stamp>>, NEW e \in Exporters,
         NEW to \in {"start", "select", "refused"}, epc' = [epc EXCEPT ![e] = to],
         latest' \in [Exporters -> manifests \cup {NoManifest}],
         \A f \in Exporters \ {e} : latest'[f] = latest[f],
         batch' \in [Exporters -> SUBSET Row],
         \A f \in Exporters \ {e} : batch'[f] = batch[f]
  PROVE  ExportInv'
<1>1. UNCHANGED <<data, manifests, clock>>
  BY DEF bucketVars
<1>2. /\ Steady' /\ UNCHANGED <<table, seq, inserted>>
      /\ \A n, rows : Covered(n, rows)' <=> Covered(n, rows)
      /\ \A rows, since, start :
           Continues(rows, since, start)' <=> Continues(rows, since, start)
  BY TableSame DEF ExportInv
<1>3. ~ Busy(e)' /\ \A f \in Exporters \ {e} : epc'[f] = epc[f] /\ (Busy(f)' <=> Busy(f))
  BY DEF ExportInv, ExportTypes, Busy
<1>4. ExportTypes'
  BY <1>1 DEF ExportInv, ExportTypes
<1>5. KeysTaken'
  <2>1. \A key : RowsAt(key)' = RowsAt(key)
    BY <1>1 DEF RowsAt
  <2> QED BY <1>1, <1>2, <1>3, <2>1 DEF ExportInv, KeysTaken, Busy
<1>6. BatchesContinue'
  <2> SUFFICES ASSUME NEW f \in Exporters, Busy(f)'
               PROVE  Continues(batch[f], SinceId(f), StartHash(f))'
    BY DEF BatchesContinue
  <2>1. f # e /\ Busy(f) /\ batch'[f] = batch[f]
    BY <1>3
  <2>2. SinceId(f)' = SinceId(f) /\ StartHash(f)' = StartHash(f)
    BY <2>1, SinceStays
  <2>3. PICK rows, since, start :
          rows = batch[f] /\ since = SinceId(f) /\ start = StartHash(f)
    OBVIOUS
  <2>4. Continues(rows, since, start)'
    BY <1>2, <2>1, <2>3 DEF ExportInv, BatchesContinue
  <2> QED BY <2>1, <2>2, <2>3, <2>4 DEF Continues
<1>7. PICK old : old = Exported
  OBVIOUS
<1>8. Exported' = old
  BY <1>1, <1>7 DEF Exported, RowsAt
<1>9. BucketCovers'
  <2>1. \A m \in manifests' : Covered(m.last, Exported)'
    BY <1>1, <1>2, <1>7, <1>8 DEF ExportInv, BucketCovers, Covered
  <2>2. ASSUME NEW f \in Exporters, Busy(f)'
        PROVE  Covered(LastRow(batch[f]).id, batch[f] \cup Exported)'
    <3>1. f # e /\ Busy(f) /\ batch'[f] = batch[f]
      BY <1>3, <2>2
    <3>2. PICK rows, n : rows = batch[f] \cup old /\ n = LastRow(batch[f]).id
      OBVIOUS
    <3>3. Covered(n, rows)'
      BY <1>2, <1>7, <3>1, <3>2 DEF ExportInv, BucketCovers
    <3> QED BY <1>8, <3>1, <3>2, <3>3 DEF Covered
  <2> QED BY <2>1, <2>2 DEF BucketCovers
<1>10. HistoryWhole'
  BY <1>1, <1>7, <1>8 DEF ExportInv, HistoryWhole
<1> QED BY <1>2, <1>4, <1>5, <1>6, <1>9, <1>10 DEF ExportInv

LEMMA IdleKeeps ==
  ASSUME ExportInv, NEW e \in Exporters,
         ListManifests(e) \/ NothingNew(e) \/ Refuse(e) \/ Die(e)
  PROVE  ExportInv'
<1>1. /\ latest \in [Exporters -> manifests \cup {NoManifest}]
      /\ batch \in [Exporters -> SUBSET Row]
      /\ LastManifest(manifests) \in manifests \cup {NoManifest}
  BY LatestTyped DEF ExportInv, ExportTypes
<1>2. CASE ListManifests(e)
  <2>1. latest' = [latest EXCEPT ![e] = LastManifest(manifests)]
    BY <1>2 DEF ListManifests
  <2> QED BY <1>1, <1>2, <2>1, IdleStep DEF ListManifests
<1>3. CASE NothingNew(e)
  BY <1>1, <1>3, IdleStep DEF NothingNew, Continue
<1>4. CASE Refuse(e)
  BY <1>1, <1>4, IdleStep DEF Refuse, Continue
<1>5. CASE Die(e)
  BY <1>1, <1>5, IdleStep DEF Die
<1> QED BY <1>2, <1>3, <1>4, <1>5

(* The rows that come after the latest export are the ones that are left.  *)
LEMMA SelectedCovers ==
  ASSUME ExportInv, NEW e \in Exporters, Selected(e) # {}
  PROVE  /\ Selected(e) \subseteq table /\ Selected(e) \subseteq Row
         /\ IsLast(Selected(e), LastRow(Selected(e)))
         /\ Covered(LastRow(Selected(e)).id, Selected(e) \cup Exported)
<1>1. Selected(e) \subseteq table /\ table \subseteq Row /\ seq \in Nat
  BY IdAssumption DEF Selected, ExportInv, Steady, TypeOK
<1>2. \A r \in Selected(e) : r.id <= seq
  BY <1>1 DEF ExportInv, Steady, IdsHandedOut
<1>3. IsLast(Selected(e), LastRow(Selected(e)))
  BY <1>1, <1>2, RowsHaveLast
<1>4. PICK row \in table : row = LastRow(Selected(e)) /\ row.id \in 1..seq
  BY <1>1, <1>3 DEF IsLast, ExportInv, Steady, IdsHandedOut
<1>5. ASSUME NEW w \in Writers, NEW r \in inserted[w] PROVE row.id < r.id
  BY DEF ExportInv, Steady, InsertedExtends, Extends
<1>6. ASSUME NEW r \in table PROVE r \in Selected(e) \cup Exported
  <2>1. CASE r.id > SinceId(e)
    BY <2>1 DEF Selected
  <2>2. CASE ~ (r.id > SinceId(e))
    <3>1. latest[e] \in manifests \cup {NoManifest} /\ r.id \in 1..seq
      BY DEF ExportInv, ExportTypes, Steady, IdsHandedOut
    <3>2. CASE latest[e] = NoManifest
      BY <1>1, <2>2, <3>1, <3>2 DEF SinceId
    <3>3. CASE latest[e] # NoManifest
      <4>1. latest[e] \in manifests /\ SinceId(e) = latest[e].last
        BY <3>1, <3>3 DEF SinceId
      <4>2. latest[e].last \in Nat /\ Covered(latest[e].last, Exported)
        BY <4>1 DEF ExportInv, ExportTypes, Manifest, BucketCovers
      <4> QED BY <2>2, <3>1, <4>1, <4>2 DEF Covered
    <3> QED BY <3>2, <3>3
  <2> QED BY <2>1, <2>2
<1> QED BY <1>1, <1>3, <1>4, <1>5, <1>6 DEF Covered

LEMMA SelectKeeps ==
  ASSUME ExportInv, NEW e \in Exporters, Select(e)
  PROVE  ExportInv'
<1> PICK rows : rows = Selected(e)
  OBVIOUS
<1>1. /\ UNCHANGED <<data, manifests, latest>> /\ UNCHANGED vars
      /\ rows # {} /\ VerifyChain(rows, StartHash(e))
      /\ epc[e] = "select" /\ epc' = [epc EXCEPT ![e] = "data"]
      /\ batch' = [batch EXCEPT ![e] = rows]
      /\ clock' = clock + 1 /\ stamp' = [stamp EXCEPT ![e] = clock + 1]
  BY DEF Select, Continue
<1>2. /\ Steady' /\ UNCHANGED <<table, seq, inserted>>
      /\ \A n, some : Covered(n, some)' <=> Covered(n, some)
      /\ \A some, since, start :
           Continues(some, since, start)' <=> Continues(some, since, start)
  BY <1>1, TableSame DEF ExportInv
<1>3. /\ rows \subseteq table /\ rows \subseteq Row
      /\ Covered(LastRow(rows).id, rows \cup Exported)
  BY <1>1, SelectedCovers
<1>4. \A f \in Exporters \ {e} :
        /\ epc'[f] = epc[f] /\ (Busy(f)' <=> Busy(f))
        /\ batch'[f] = batch[f] /\ stamp'[f] = stamp[f]
  BY <1>1 DEF ExportInv, ExportTypes, Busy
<1>5. /\ epc'[e] = "data" /\ batch'[e] = rows /\ stamp'[e] = clock + 1 /\ clock \in Nat
  BY <1>1 DEF ExportInv, ExportTypes
<1>6. ExportTypes'
  BY <1>1, <1>3 DEF ExportInv, ExportTypes
<1>7. KeysTaken'
  <2>1. \A key : RowsAt(key)' = RowsAt(key)
    BY <1>1 DEF RowsAt
  <2>2. /\ \A d \in data : d.key \in Nat
        /\ \A m \in manifests : m.key \in Nat
        /\ \A f \in Exporters : stamp[f] \in Nat
    BY DEF ExportInv, ExportTypes, Manifest
  <2>3. /\ \A d \in data' : d.key <= clock'
        /\ \A m \in manifests' : m.key <= clock' /\ m.first <= seq'
        /\ \A m, n \in manifests' : m.key = n.key => m = n
    BY <1>1, <1>2, <1>5, <2>2 DEF ExportInv, KeysTaken
  <2>4. ASSUME NEW f \in Exporters, Busy(f)'
        PROVE  /\ stamp'[f] <= clock'
               /\ \A g \in Exporters : g # f /\ Busy(g)' => stamp'[g] # stamp'[f]
               /\ \A m \in manifests' : m.key # stamp'[f]
    BY <1>1, <1>4, <1>5, <2>2, <2>4 DEF ExportInv, KeysTaken
  <2>5. ASSUME NEW f \in Exporters, epc'[f] = "data"
        PROVE  \A d \in data' : d.key # stamp'[f]
    BY <1>1, <1>4, <1>5, <2>2, <2>5 DEF ExportInv, KeysTaken
  <2>6. ASSUME NEW f \in Exporters, epc'[f] = "manifest"
        PROVE  RowsAt(stamp[f])' = batch'[f]
    <3>1. f # e /\ epc[f] = "manifest" /\ stamp'[f] = stamp[f] /\ batch'[f] = batch[f]
      BY <1>4, <1>5, <2>6
    <3> QED BY <2>1, <3>1 DEF ExportInv, KeysTaken, RowsAt
  <2> QED BY <2>3, <2>4, <2>5, <2>6 DEF KeysTaken, Busy
<1>8. BatchesContinue'
  <2> SUFFICES ASSUME NEW f \in Exporters, Busy(f)'
               PROVE  Continues(batch[f], SinceId(f), StartHash(f))'
    BY DEF BatchesContinue
  <2>1. SinceId(f)' = SinceId(f) /\ StartHash(f)' = StartHash(f)
    BY <1>1, SinceStays
  <2>2. PICK some, since, start :
          some = batch'[f] /\ since = SinceId(f) /\ start = StartHash(f)
    OBVIOUS
  <2>3. Continues(some, since, start)
    <3>1. CASE f = e
      <4>1. \A r \in rows : since < r.id /\ r.id \in 1..seq
        <5>1. since \in Nat
          BY <2>2 DEF ExportInv, ExportTypes, Manifest, SinceId
        <5> QED BY <1>3, <2>2, <3>1, <5>1
                DEF Selected, ExportInv, Steady, TypeOK, IdsHandedOut, Row
      <4>2. IdsUnique(rows)
        BY <1>3 DEF ExportInv, Steady, IdsUnique
      <4> QED BY <1>1, <1>3, <1>5, <2>2, <3>1, <4>1, <4>2 DEF Continues
    <3>2. CASE f # e
      BY <1>4, <2>2, <3>2 DEF ExportInv, BatchesContinue
    <3> QED BY <3>1, <3>2
  <2> QED BY <1>2, <2>1, <2>2, <2>3 DEF Continues
<1>9. PICK old : old = Exported
  OBVIOUS
<1>10. Exported' = old
  BY <1>1, <1>9 DEF Exported, RowsAt
<1>11. BucketCovers'
  <2>1. \A m \in manifests' : Covered(m.last, Exported)'
    BY <1>1, <1>2, <1>9, <1>10 DEF ExportInv, BucketCovers, Covered
  <2>2. ASSUME NEW f \in Exporters, Busy(f)'
        PROVE  Covered(LastRow(batch[f]).id, batch[f] \cup Exported)'
    <3>1. PICK some, n : some = batch'[f] \cup old /\ n = LastRow(batch'[f]).id
      OBVIOUS
    <3>2. Covered(n, some)
      <4>1. CASE f = e
        BY <1>3, <1>5, <1>9, <3>1, <4>1
      <4>2. CASE f # e
        BY <1>4, <1>9, <2>2, <3>1, <4>2 DEF ExportInv, BucketCovers
      <4> QED BY <4>1, <4>2
    <3> QED BY <1>2, <1>10, <3>1, <3>2 DEF Covered
  <2> QED BY <2>1, <2>2 DEF BucketCovers
<1>12. HistoryWhole'
  BY <1>1, <1>9, <1>10 DEF ExportInv, HistoryWhole
<1> QED BY <1>2, <1>6, <1>7, <1>8, <1>11, <1>12 DEF ExportInv

LEMMA PutDataKeeps ==
  ASSUME ExportInv, NEW e \in Exporters, PutData(e)
  PROVE  ExportInv'
<1> PICK object : object = [key |-> stamp[e], rows |-> batch[e]]
  OBVIOUS
<1>1. /\ UNCHANGED <<manifests, clock, latest, batch, stamp>> /\ UNCHANGED vars
      /\ data' = data \cup {object}
      /\ epc[e] = "data" /\ epc' = [epc EXCEPT ![e] = "manifest"]
  BY DEF PutData, Continue
<1>2. /\ Steady' /\ UNCHANGED <<table, seq, inserted>>
      /\ \A n, some : Covered(n, some)' <=> Covered(n, some)
      /\ \A some, since, start :
           Continues(some, since, start)' <=> Continues(some, since, start)
  BY <1>1, TableSame DEF ExportInv
<1>3. /\ epc'[e] = "manifest" /\ \A f \in Exporters \ {e} : epc'[f] = epc[f]
      /\ \A f \in Exporters : Busy(f)' <=> Busy(f)
  BY <1>1 DEF ExportInv, ExportTypes, Busy
<1>4. /\ object.key = stamp[e] /\ object.rows = batch[e]
      /\ object \in [key : Nat, rows : SUBSET Row]
  BY DEF ExportInv, ExportTypes
<1>5. ExportTypes'
  BY <1>1, <1>4 DEF ExportInv, ExportTypes
<1>6. /\ \A key : key # stamp[e] => RowsAt(key)' = RowsAt(key)
      /\ RowsAt(stamp[e])' = batch[e]
  <2>1. \A d \in data : d.key # stamp[e]
    BY <1>1 DEF ExportInv, KeysTaken
  <2> QED BY <1>1, <1>4, <2>1 DEF RowsAt
<1>7. \A m \in manifests : m.key # stamp[e]
  BY <1>1 DEF ExportInv, KeysTaken, Busy
<1>8. KeysTaken'
  <2>1. stamp[e] <= clock /\ \A f \in Exporters : f # e /\ Busy(f) => stamp[f] # stamp[e]
    BY <1>1 DEF ExportInv, KeysTaken, Busy
  <2>2. ASSUME NEW f \in Exporters, epc'[f] = "manifest"
        PROVE  RowsAt(stamp[f])' = batch'[f]
    <3>1. CASE f = e
      BY <1>1, <1>6, <3>1 DEF RowsAt
    <3>2. CASE f # e
      <4>1. epc[f] = "manifest" /\ stamp[f] # stamp[e]
        BY <1>3, <2>1, <2>2, <3>2 DEF Busy
      <4>2. PICK key : key = stamp[f]
        OBVIOUS
      <4>3. RowsAt(key)' = batch[f]
        BY <1>6, <4>1, <4>2 DEF ExportInv, KeysTaken
      <4> QED BY <1>1, <4>2, <4>3 DEF RowsAt
    <3> QED BY <3>1, <3>2
  <2>3. ASSUME NEW f \in Exporters, epc'[f] = "data"
        PROVE  \A d \in data' : d.key # stamp'[f]
    <3>1. f # e /\ epc[f] = "data" /\ stamp[f] # stamp[e]
      BY <1>3, <2>1, <2>3 DEF Busy
    <3> QED BY <1>1, <1>4, <3>1 DEF ExportInv, KeysTaken
  <2>4. \A d \in data' : d.key <= clock'
    BY <1>1, <1>4, <2>1 DEF ExportInv, KeysTaken
  <2> QED BY <1>1, <1>2, <1>3, <2>2, <2>3, <2>4 DEF ExportInv, KeysTaken
<1>9. BatchesContinue'
  <2> SUFFICES ASSUME NEW f \in Exporters, Busy(f)'
               PROVE  Continues(batch[f], SinceId(f), StartHash(f))'
    BY DEF BatchesContinue
  <2>1. SinceId(f)' = SinceId(f) /\ StartHash(f)' = StartHash(f)
    BY <1>1, SinceStays
  <2>2. PICK some, since, start :
          some = batch[f] /\ since = SinceId(f) /\ start = StartHash(f)
    OBVIOUS
  <2>3. Continues(some, since, start)'
    BY <1>2, <1>3, <2>2 DEF ExportInv, BatchesContinue
  <2> QED BY <1>1, <2>1, <2>2, <2>3 DEF Continues
<1>10. PICK old : old = Exported
  OBVIOUS
<1>11. Exported' = old
  <2>1. \A m \in manifests : RowsAt(m.key)' = RowsAt(m.key)
    BY <1>6, <1>7
  <2>2. Exported' = UNION {RowsAt(m.key)' : m \in manifests}
    BY <1>1 DEF Exported, RowsAt
  <2> QED BY <1>10, <2>1, <2>2 DEF Exported
<1>12. BucketCovers'
  <2>1. \A m \in manifests' : Covered(m.last, Exported)'
    BY <1>1, <1>2, <1>10, <1>11 DEF ExportInv, BucketCovers, Covered
  <2>2. ASSUME NEW f \in Exporters, Busy(f)'
        PROVE  Covered(LastRow(batch[f]).id, batch[f] \cup Exported)'
    <3>1. PICK some, n : some = batch[f] \cup old /\ n = LastRow(batch[f]).id
      OBVIOUS
    <3>2. Covered(n, some)'
      BY <1>2, <1>3, <1>10, <2>2, <3>1 DEF ExportInv, BucketCovers
    <3> QED BY <1>1, <1>11, <3>1, <3>2 DEF Covered
  <2> QED BY <2>1, <2>2 DEF BucketCovers
<1>13. HistoryWhole'
  BY <1>1, <1>10, <1>11 DEF ExportInv, HistoryWhole
<1> QED BY <1>2, <1>5, <1>8, <1>9, <1>12, <1>13 DEF ExportInv

(* The manifest of a batch says where it starts and ends.                  *)
LEMMA ManifestOfBatch ==
  ASSUME ExportInv, NEW e \in Exporters, Busy(e)
  PROVE  /\ NewManifest(e) \in Manifest
         /\ NewManifest(e).key = stamp[e]
         /\ NewManifest(e).prev = KeyOf(latest[e])
         /\ IsLast(batch[e], LastRow(batch[e]))
         /\ NewManifest(e).last = LastRow(batch[e]).id
         /\ NewManifest(e).head = LastRow(batch[e]).record_hash
         /\ NewManifest(e).first \in 1..seq
         /\ \E r \in batch[e] : NewManifest(e).first = r.id
         /\ \A q \in batch[e] : Closed(q.record_hash, batch[e] \cup Exported)
<1>1. /\ batch[e] # {} /\ batch[e] \subseteq Row /\ IdsUnique(batch[e])
      /\ \A r \in batch[e] : r.id \in 1..seq
      /\ VerifyChain(batch[e], StartHash(e)) /\ seq \in Nat
  BY IdAssumption DEF ExportInv, BatchesContinue, Continues, Steady, TypeOK
<1>2. IsLast(batch[e], LastRow(batch[e]))
  BY <1>1, RowsHaveLast
<1>3. PICK r \in batch[e] : \A q \in batch[e] : r.id <= q.id
  BY <1>1, RowsHaveFirst
<1>4. FirstId(batch[e]) \in {q.id : q \in batch[e]}
  BY <1>3 DEF FirstId
<1>5. latest[e] \in manifests \cup {NoManifest} /\ manifests \subseteq Manifest
  BY DEF ExportInv, ExportTypes
<1>6. Closed(StartHash(e), Exported)
  BY <1>5, GenesisClosed DEF StartHash, ExportInv, HistoryWhole
<1>7. \A q \in batch[e] : Closed(q.record_hash, batch[e] \cup Exported)
  BY <1>1, <1>6, BatchClosed
<1>8. PICK row \in batch[e] : row = LastRow(batch[e])
  BY <1>2 DEF IsLast
<1>9. row.id \in Nat /\ row.record_hash \in Hashes
  BY <1>1, <1>7, <1>8 DEF Closed, Row
<1>10. KeyOf(latest[e]) \in Nat \cup {NoManifest}
  BY <1>5 DEF KeyOf, Manifest
<1>11. stamp[e] \in Nat /\ FirstId(batch[e]) \in 1..seq
  BY <1>1, <1>4 DEF ExportInv, ExportTypes
<1>12. /\ NewManifest(e).key = stamp[e]
       /\ NewManifest(e).first = FirstId(batch[e])
       /\ NewManifest(e).last = LastRow(batch[e]).id
       /\ NewManifest(e).head = LastRow(batch[e]).record_hash
       /\ NewManifest(e).prev = KeyOf(latest[e])
  BY DEF NewManifest
<1>13. FirstId(batch[e]) \in Nat
  BY <1>1, <1>11
<1>14. NewManifest(e) \in Manifest
  BY <1>8, <1>9, <1>10, <1>11, <1>13 DEF NewManifest, Manifest
<1>15. \E q \in batch[e] : NewManifest(e).first = q.id
  BY <1>4, <1>12
<1> QED BY <1>2, <1>7, <1>11, <1>12, <1>14, <1>15

(* With its manifest a batch is in the bucket.                             *)
LEMMA PutAdds ==
  ASSUME ExportInv, NEW e \in Exporters, PutManifest(e)
  PROVE  /\ \A key : RowsAt(key)' = RowsAt(key)
         /\ RowsAt(stamp[e]) = batch[e]
         /\ Exported' = Exported \cup batch[e]
<1>1. data' = data /\ manifests' = manifests \cup {NewManifest(e)} /\ epc[e] = "manifest"
  BY DEF PutManifest, Continue
<1>2. \A key : RowsAt(key)' = RowsAt(key)
  BY <1>1 DEF RowsAt
<1>3. NewManifest(e).key = stamp[e] /\ RowsAt(stamp[e]) = batch[e]
  BY <1>1, ManifestOfBatch DEF Busy, ExportInv, KeysTaken
<1>4. Exported' = UNION {RowsAt(m.key) : m \in manifests'}
  BY <1>1 DEF Exported, RowsAt
<1> QED BY <1>1, <1>2, <1>3, <1>4 DEF Exported

LEMMA PutManifestKeeps ==
  ASSUME ExportInv, NEW e \in Exporters, PutManifest(e)
  PROVE  ExportInv'
<1>1. /\ UNCHANGED <<data, clock, latest, stamp>> /\ UNCHANGED vars
      /\ manifests' = manifests \cup {NewManifest(e)}
      /\ epc[e] = "manifest" /\ epc' = [epc EXCEPT ![e] = "start"]
      /\ batch' = [batch EXCEPT ![e] = {}]
  BY DEF PutManifest, Continue
<1>2. /\ Steady' /\ UNCHANGED <<table, seq, inserted>>
      /\ \A n, some : Covered(n, some)' <=> Covered(n, some)
      /\ \A some, since, start :
           Continues(some, since, start)' <=> Continues(some, since, start)
  BY <1>1, TableSame DEF ExportInv
<1>3. ~ Busy(e)' /\ Busy(e)
      /\ \A f \in Exporters \ {e} :
           epc'[f] = epc[f] /\ (Busy(f)' <=> Busy(f)) /\ batch'[f] = batch[f]
  BY <1>1 DEF ExportInv, ExportTypes, Busy
<1>4. PICK m : m = NewManifest(e)
  OBVIOUS
<1>5. /\ m \in Manifest /\ m.key = stamp[e] /\ m.first \in 1..seq
      /\ m.last = LastRow(batch[e]).id /\ m.head = LastRow(batch[e]).record_hash
      /\ LastRow(batch[e]) \in batch[e]
      /\ \A q \in batch[e] : Closed(q.record_hash, batch[e] \cup Exported)
  BY <1>3, <1>4, ManifestOfBatch DEF IsLast
<1>6. PICK old, more : old = Exported /\ more = batch[e] \cup Exported
  OBVIOUS
<1>7. Exported' = more /\ old \subseteq more /\ \A key : RowsAt(key)' = RowsAt(key)
  BY <1>6, PutAdds
<1>8. manifests' = manifests \cup {m}
  BY <1>1, <1>4
<1>9. ExportTypes'
  BY <1>1, <1>5, <1>8 DEF ExportInv, ExportTypes
<1>10. KeysTaken'
  <2>1. stamp[e] <= clock /\ \A n \in manifests : n.key # stamp[e]
    BY <1>3 DEF ExportInv, KeysTaken
  <2>2. \A n \in manifests' : n.key <= clock' /\ n.first <= seq'
    BY <1>1, <1>2, <1>5, <1>8, <2>1 DEF ExportInv, KeysTaken
  <2>3. \A n, k \in manifests' : n.key = k.key => n = k
    BY <1>5, <1>8, <2>1 DEF ExportInv, KeysTaken
  <2>4. ASSUME NEW f \in Exporters, Busy(f)'
        PROVE  /\ stamp'[f] <= clock'
               /\ \A g \in Exporters : g # f /\ Busy(g)' => stamp'[g] # stamp'[f]
               /\ \A n \in manifests' : n.key # stamp'[f]
    <3>1. f # e /\ Busy(f) /\ stamp[f] # stamp[e]
      BY <1>3, <2>4 DEF ExportInv, KeysTaken
    <3> QED BY <1>1, <1>3, <1>5, <1>8, <3>1 DEF ExportInv, KeysTaken
  <2>5. ASSUME NEW f \in Exporters, epc'[f] = "data"
        PROVE  \A d \in data' : d.key # stamp'[f]
    BY <1>1, <1>3, <2>5 DEF Busy, ExportInv, KeysTaken
  <2>6. ASSUME NEW f \in Exporters, epc'[f] = "manifest"
        PROVE  RowsAt(stamp[f])' = batch'[f]
    <3>1. f # e /\ epc[f] = "manifest" /\ batch'[f] = batch[f]
      BY <1>3, <2>6 DEF Busy
    <3>2. RowsAt(stamp[f]) = batch[f]
      BY <3>1 DEF ExportInv, KeysTaken
    <3>3. PICK key : key = stamp[f]
      OBVIOUS
    <3>4. RowsAt(key)' = RowsAt(key)
      BY <1>7
    <3> QED BY <1>1, <3>1, <3>2, <3>3, <3>4 DEF RowsAt
  <2> QED BY <1>1, <2>2, <2>3, <2>4, <2>5, <2>6 DEF ExportInv, KeysTaken
<1>11. BatchesContinue'
  <2> SUFFICES ASSUME NEW f \in Exporters, Busy(f)'
               PROVE  Continues(batch[f], SinceId(f), StartHash(f))'
    BY DEF BatchesContinue
  <2>1. SinceId(f)' = SinceId(f) /\ StartHash(f)' = StartHash(f)
    BY <1>1, SinceStays
  <2>2. PICK some, since, start :
          some = batch[f] /\ since = SinceId(f) /\ start = StartHash(f)
    OBVIOUS
  <2>3. f # e /\ Busy(f) /\ batch'[f] = batch[f]
    BY <1>3
  <2>4. Continues(some, since, start)'
    BY <1>2, <2>2, <2>3 DEF ExportInv, BatchesContinue
  <2> QED BY <2>1, <2>2, <2>3, <2>4 DEF Continues
<1>12. \A n : Covered(n, old) => Covered(n, more)
  BY <1>7 DEF Covered
<1>13. BucketCovers'
  <2>1. ASSUME NEW k \in manifests' PROVE Covered(k.last, Exported)'
    <3>1. Covered(k.last, more)
      <4>1. CASE k = m
        BY <1>3, <1>5, <1>6, <4>1 DEF ExportInv, BucketCovers
      <4>2. CASE k \in manifests
        BY <1>6, <1>12, <4>2 DEF ExportInv, BucketCovers
      <4> QED BY <1>8, <4>1, <4>2
    <3>2. Covered(k.last, more)'
      BY <1>2, <3>1
    <3> QED BY <1>7, <3>2 DEF Covered
  <2>2. ASSUME NEW f \in Exporters, Busy(f)'
        PROVE  Covered(LastRow(batch[f]).id, batch[f] \cup Exported)'
    <3>1. f # e /\ Busy(f) /\ batch'[f] = batch[f]
      BY <1>3, <2>2
    <3>2. PICK some, n : some = batch[f] \cup more /\ n = LastRow(batch[f]).id
      OBVIOUS
    <3>3. Covered(n, batch[f] \cup old)
      BY <1>6, <3>1, <3>2 DEF ExportInv, BucketCovers
    <3>4. Covered(n, some)
      BY <1>7, <3>2, <3>3 DEF Covered
    <3>5. Covered(n, some)'
      BY <1>2, <3>4
    <3> QED BY <1>7, <3>1, <3>2, <3>5 DEF Covered
  <2> QED BY <2>1, <2>2 DEF BucketCovers
<1>14. HistoryWhole'
  <2>1. ASSUME NEW q \in more PROVE Closed(q.record_hash, more)
    BY <1>5, <1>6, <1>7, ClosedInMore DEF ExportInv, HistoryWhole
  <2>2. ASSUME NEW k \in manifests' PROVE Closed(k.head, more)
    BY <1>5, <1>6, <1>7, <1>8, ClosedInMore DEF ExportInv, HistoryWhole
  <2> QED BY <1>7, <2>1, <2>2 DEF HistoryWhole
<1> QED BY <1>2, <1>9, <1>10, <1>11, <1>13, <1>14 DEF ExportInv

LEMMA ExportInvInit == ExportInit => ExportInv
<1> SUFFICES ASSUME ExportInit PROVE ExportInv
  OBVIOUS
<1>1. Steady
  BY InitIInv DEF ExportInit, IInv
<1>2. \A e \in Exporters : ~ Busy(e) /\ epc[e] = "start"
  BY DEF ExportInit, Busy
<1>3. Exported = {} /\ manifests = {} /\ data = {}
  BY DEF ExportInit, Exported
<1>4. ExportTypes
  BY DEF ExportInit, ExportTypes
<1>5. KeysTaken /\ BatchesContinue /\ BucketCovers /\ HistoryWhole
  BY <1>2, <1>3 DEF KeysTaken, BatchesContinue, BucketCovers, HistoryWhole
<1> QED BY <1>1, <1>4, <1>5 DEF ExportInv

LEMMA ExportInvNext == ExportInv /\ [ExportNext]_allVars => ExportInv'
<1> SUFFICES ASSUME ExportInv, [ExportNext]_allVars PROVE ExportInv'
  OBVIOUS
<1>1. CASE WriterStep
  <2>1. Steady'
    BY <1>1, SteadyStep DEF WriterStep, ExportInv
  <2> QED BY <1>1, <2>1, TableKeeps DEF WriterStep, exportVars
<1>2. ASSUME NEW e \in Exporters, Export(e) \/ Die(e) PROVE ExportInv'
  BY <1>2, IdleKeeps, SelectKeeps, PutDataKeeps, PutManifestKeeps DEF Export
<1>3. CASE LoseRows
  <2>1. /\ table' \subseteq table /\ UNCHANGED <<seq, lock, pc, prev, inserted>>
        /\ UNCHANGED <<bucketVars, exporterVars>>
    BY <1>3 DEF LoseRows
  <2>2. Steady'
    BY <2>1, SteadyLoss DEF ExportInv
  <2> QED BY <2>1, <2>2, TableKeeps
<1>4. CASE UNCHANGED allVars
  <2>1. UNCHANGED <<vars, bucketVars, exporterVars>>
    BY <1>4 DEF allVars, exportVars
  <2>2. Steady'
    BY <2>1, TableSame DEF ExportInv
  <2> QED BY <2>1, <2>2, TableKeeps
<1> QED BY <1>1, <1>2, <1>3, <1>4 DEF ExportNext

LEMMA ExportAlways == ExportSpec => []ExportInv
BY ExportInvInit, ExportInvNext, PTL DEF ExportSpec

-----------------------------------------------------------------------------
(* The bounds of the state                                                 *)

LEMMA MadeIsFinite ==
  ASSUME NEW made \in SUBSET (Exporters \X (1..MaxId))
  PROVE  /\ IsFiniteSet(made) /\ Cardinality(made) \in Nat
         /\ Cardinality(made) <= MaxId * Cardinality(Exporters)
<1> DEFINE ids == 1..MaxId
           all == Exporters \X ids
<1>1. IsFiniteSet(ids) /\ Cardinality(ids) = MaxId
  BY IdAssumption, FS_Interval
<1>2. IsFiniteSet(Exporters) /\ Cardinality(Exporters) \in Nat
  BY BoundsAssumption, FS_CardinalityType
<1> HIDE DEF ids
<1>3. IsFiniteSet(all) /\ Cardinality(all) = Cardinality(Exporters) * Cardinality(ids)
  BY <1>1, <1>2, FS_Product
<1>4. made \subseteq all
  BY DEF ids
<1> HIDE DEF all
<1>5. /\ IsFiniteSet(made) /\ Cardinality(made) <= Cardinality(all)
      /\ Cardinality(made) \in Nat
  BY <1>3, <1>4, FS_Subset, FS_CardinalityType
<1> QED BY <1>1, <1>2, <1>3, <1>5, IdAssumption

LEMMA BoundsInvInit == ExportInit => BoundsInv
<1> SUFFICES ASSUME ExportInit PROVE BoundsInv
  OBVIOUS
<1>1. SelectionsCounted
  <2>1. Cardinality({}) = 0
    BY FS_EmptySet
  <2>2. {} \in SUBSET (Exporters \X (1..MaxId))
    OBVIOUS
  <2> QED BY <2>1, <2>2 DEF SelectionsCounted, ExportInit
<1> QED BY <1>1, BoundsAssumption DEF ExportInit, BoundsInv, Busy

LEMMA CountKept ==
  ASSUME BoundsInv, UNCHANGED clock, faults'.deaths = faults.deaths,
         \A f \in Exporters : \A i \in 1..MaxId : Reached(f, i) => Reached(f, i)'
  PROVE  SelectionsCounted'
<1>1. PICK made \in SUBSET (Exporters \X (1..MaxId)) :
        /\ clock <= faults.deaths + Cardinality(made)
        /\ \A x \in made : Reached(x[1], x[2])
  BY DEF BoundsInv, SelectionsCounted
<1>2. \A x \in made : Reached(x[1], x[2])'
  BY <1>1
<1> QED BY <1>1, <1>2 DEF SelectionsCounted

(* A new selection starts after the ids that its exporter has reached.     *)
LEMMA SelectCounts ==
  ASSUME ExportInv, BoundsInv, NEW e \in Exporters, Select(e)
  PROVE  SelectionsCounted'
<1> PICK rows : rows = Selected(e)
  OBVIOUS
<1>1. /\ UNCHANGED <<manifests, latest, faults>> /\ rows # {}
      /\ epc[e] = "select" /\ epc' = [epc EXCEPT ![e] = "data"]
      /\ batch' = [batch EXCEPT ![e] = rows]
      /\ clock' = clock + 1 /\ clock \in Nat
  BY DEF Select, Continue, ExportInv, ExportTypes
<1>2. /\ epc'[e] = "data" /\ batch'[e] = rows
      /\ \A f \in Exporters \ {e} : epc'[f] = epc[f] /\ batch'[f] = batch[f]
  BY <1>1 DEF ExportInv, ExportTypes
<1>3. PICK made \in SUBSET (Exporters \X (1..MaxId)) :
        /\ clock <= faults.deaths + Cardinality(made)
        /\ \A x \in made : Reached(x[1], x[2])
  BY DEF BoundsInv, SelectionsCounted
<1>4. rows \subseteq Row /\ seq \in 0..MaxId
      /\ \A r \in rows : r.id \in 1..seq /\ r.id > SinceId(e)
  BY DEF Selected, ExportInv, Steady, TypeOK, IdsHandedOut
<1>5. PICK first \in {r.id : r \in rows} : first = FirstId(rows)
  <2>1. PICK r \in rows : \A q \in rows : r.id <= q.id
    BY <1>1, <1>4, RowsHaveFirst
  <2>2. FirstId(rows) \in {q.id : q \in rows}
    BY <2>1 DEF FirstId
  <2> QED BY <2>2
<1>6. first \in 1..MaxId /\ first > SinceId(e)
  BY <1>4, <1>5, IdAssumption
<1>7. <<e, first>> \notin made
  <2> SUFFICES ASSUME Reached(e, first) PROVE FALSE
    BY <1>3
  <2>1. latest[e] # NoManifest /\ first <= latest[e].first
    BY <1>1 DEF Reached, Busy
  <2>2. latest[e] \in manifests /\ latest[e] \in Manifest
    BY <2>1 DEF ExportInv, ExportTypes
  <2>3. latest[e].first <= latest[e].last /\ SinceId(e) = latest[e].last
    BY <2>1, <2>2 DEF BoundsInv, SinceId
  <2> QED BY <1>6, <2>1, <2>2, <2>3 DEF Manifest
<1> DEFINE more == made \cup {<<e, first>>}
<1>8. more \in SUBSET (Exporters \X (1..MaxId)) /\ Cardinality(more) = Cardinality(made) + 1
  BY <1>6, <1>7, MadeIsFinite, FS_AddElement
<1>9. ASSUME NEW x \in more PROVE Reached(x[1], x[2])'
  <2>1. CASE x = <<e, first>>
    BY <1>2, <1>5, <2>1 DEF Reached, Busy
  <2>2. CASE x # <<e, first>> /\ x[1] = e
    <3>1. Reached(e, x[2])
      BY <1>3, <2>2
    <3>2. latest[e] # NoManifest /\ x[2] <= latest[e].first
      BY <1>1, <3>1 DEF Reached, Busy
    <3> QED BY <1>1, <1>2, <2>2, <3>2 DEF Reached, Busy
  <2>3. CASE x # <<e, first>> /\ x[1] # e
    <3>1. PICK f \in Exporters \ {e}, i \in 1..MaxId : x = <<f, i>>
      BY <1>8, <2>3
    <3>2. Reached(f, i)
      BY <1>3, <2>3, <3>1
    <3>3. Reached(f, i)'
      BY <1>1, <1>2, <3>2 DEF Reached, Busy
    <3> QED BY <3>1, <3>3
  <2> QED BY <2>1, <2>2, <2>3
<1>10. faults.deaths \in Nat /\ Cardinality(made) \in Nat
  BY MadeIsFinite DEF BoundsInv
<1>11. clock' <= faults'.deaths + Cardinality(more)
  BY <1>1, <1>3, <1>8, <1>10
<1> HIDE DEF more
<1> QED BY <1>8, <1>9, <1>11 DEF SelectionsCounted

(* One that ended in a death is counted as a death from then on.           *)
LEMMA DeathCounts ==
  ASSUME ExportInv, BoundsInv, NEW e \in Exporters, Die(e)
  PROVE  SelectionsCounted'
<1> PICK at : at = <<e, FirstId(batch[e])>>
  OBVIOUS
<1>1. /\ UNCHANGED <<manifests, latest, clock>>
      /\ epc[e] \in {"select", "data", "manifest"}
      /\ epc'[e] = "start" /\ faults'.deaths = faults.deaths + 1
      /\ \A f \in Exporters \ {e} : epc'[f] = epc[f] /\ batch'[f] = batch[f]
      /\ clock \in Nat
  BY DEF Die, bucketVars, ExportInv, ExportTypes, BoundsInv
<1>2. PICK made \in SUBSET (Exporters \X (1..MaxId)) :
        /\ clock <= faults.deaths + Cardinality(made)
        /\ \A x \in made : Reached(x[1], x[2])
  BY DEF BoundsInv, SelectionsCounted
<1> DEFINE less == made \ {at}
<1>3. less \in SUBSET (Exporters \X (1..MaxId))
  OBVIOUS
<1>4. IsFiniteSet(made) /\ Cardinality(made) \in Nat /\ faults.deaths \in Nat
  BY MadeIsFinite DEF BoundsInv
<1>5. Cardinality(less) \in Nat /\ Cardinality(less) >= Cardinality(made) - 1
  <2>1. IsFiniteSet(less) /\ Cardinality(less) \in Nat
    BY <1>3, MadeIsFinite
  <2> PICK m \in Nat : m = Cardinality(made)
    BY <1>4
  <2>2. Cardinality(less) = IF at \in made THEN m - 1 ELSE m
    BY <1>4, FS_RemoveElement
  <2>3. Cardinality(less) >= m - 1
    BY <2>1, <2>2
  <2> QED BY <2>1, <2>3
<1>6. clock' <= faults'.deaths + Cardinality(less)
  <2> PICK m, l, d \in Nat :
        m = Cardinality(made) /\ l = Cardinality(less) /\ d = faults.deaths
    BY <1>4, <1>5
  <2>1. clock' <= d + m /\ l >= m - 1 /\ faults'.deaths = d + 1 /\ clock' \in Nat
    BY <1>1, <1>2, <1>5
  <2>2. clock' <= (d + 1) + l
    BY ONLY <2>1, d \in Nat, m \in Nat, l \in Nat
  <2> QED BY <2>1, <2>2
<1>7. ASSUME NEW x \in less PROVE Reached(x[1], x[2])'
  <2>1. PICK f \in Exporters, i \in 1..MaxId : x = <<f, i>>
    BY <1>3
  <2>2. Reached(f, i)
    BY <1>2, <2>1
  <2>3. CASE f = e
    <3>1. latest[e] # NoManifest /\ i <= latest[e].first
      BY <1>1, <2>1, <2>2, <2>3 DEF Reached, Busy
    <3>2. latest[e] \in manifests
      BY <3>1 DEF ExportInv, ExportTypes
    <3> QED BY <1>1, <2>1, <2>3, <3>1, <3>2 DEF Reached
  <2>4. CASE f # e
    BY <1>1, <2>1, <2>2, <2>4 DEF Reached, Busy
  <2> QED BY <2>3, <2>4
<1> HIDE DEF less
<1> QED BY <1>3, <1>6, <1>7 DEF SelectionsCounted

(* The steps that neither select nor die leave the count alone.            *)
LEMMA OthersCount ==
  ASSUME ExportInv, BoundsInv, NEW e \in Exporters,
         ListManifests(e) \/ NothingNew(e) \/ Refuse(e) \/ PutData(e) \/ PutManifest(e)
  PROVE  SelectionsCounted'
<1>1. /\ UNCHANGED <<clock, faults>>
      /\ \A f \in Exporters \ {e} :
           epc'[f] = epc[f] /\ batch'[f] = batch[f] /\ latest'[f] = latest[f]
      /\ manifests \subseteq manifests'
  BY DEF ListManifests, NothingNew, Refuse, PutData, PutManifest, Continue, bucketVars,
         ExportInv, ExportTypes
<1> SUFFICES ASSUME NEW f \in Exporters, NEW i \in 1..MaxId, Reached(f, i)
             PROVE  Reached(f, i)'
  BY <1>1, CountKept
<1>2. CASE f # e
  BY <1>1, <1>2 DEF Reached, Busy
<1>3. ASSUME ListManifests(e), f = e PROVE Reached(f, i)'
  <2>1. PICK last : last = LastManifest(manifests)
    OBVIOUS
  <2>2. epc'[e] = "select" /\ latest'[e] = last /\ epc[e] \in {"start", "refused"}
    BY <1>3, <2>1 DEF ListManifests, ExportInv, ExportTypes
  <2>3. PICK m \in manifests : i <= m.first
    BY <1>3, <2>2 DEF Reached, Busy
  <2>4. last \in manifests /\ (m = last \/ Sorted(m, last))
    BY <2>1, <2>3, LatestThereIs DEF ExportInv
  <2>5. last # NoManifest /\ last.first \in Nat /\ m.first \in Nat
    BY <2>3, <2>4, NoManifestAssumption DEF ExportInv, ExportTypes, Manifest
  <2>6. i <= last.first
    BY <2>3, <2>4, <2>5 DEF Sorted
  <2> QED BY <1>3, <2>2, <2>5, <2>6 DEF Reached
<1>4. ASSUME NothingNew(e) \/ Refuse(e), f = e PROVE Reached(f, i)'
  <2>1. epc[e] = "select" /\ epc'[e] \in {"start", "refused"} /\ manifests' = manifests
    BY <1>4 DEF NothingNew, Refuse, Continue, bucketVars, ExportInv, ExportTypes
  <2>2. latest[e] # NoManifest /\ i <= latest[e].first /\ latest[e] \in manifests
    BY <1>4, <2>1 DEF Reached, Busy, ExportInv, ExportTypes
  <2> QED BY <1>4, <2>1, <2>2 DEF Reached
<1>5. ASSUME PutData(e), f = e PROVE Reached(f, i)'
  <2>1. /\ epc[e] = "data" /\ epc'[e] = "manifest"
        /\ latest' = latest /\ batch' = batch
    BY <1>5 DEF PutData, Continue, ExportInv, ExportTypes
  <2> QED BY <1>5, <2>1 DEF Reached, Busy
<1>6. ASSUME PutManifest(e), f = e PROVE Reached(f, i)'
  <2>1. /\ epc[e] = "manifest" /\ epc'[e] = "start"
        /\ manifests' = manifests \cup {NewManifest(e)}
    BY <1>6 DEF PutManifest, Continue, ExportInv, ExportTypes
  <2>2. PICK n \in Nat : n = FirstId(batch[e]) /\ NewManifest(e).first = n
    <3>1. NewManifest(e).first \in Nat
      BY <2>1, ManifestOfBatch DEF Busy, Manifest
    <3> QED BY <3>1 DEF NewManifest
  <2>3. CASE i = n
    BY <1>6, <2>1, <2>2, <2>3 DEF Reached
  <2>4. CASE latest[e] # NoManifest /\ i <= latest[e].first
    <3>1. latest[e] \in manifests'
      BY <2>1, <2>4 DEF ExportInv, ExportTypes
    <3> QED BY <1>6, <2>1, <2>4, <3>1 DEF Reached
  <2> QED BY <1>6, <2>1, <2>2, <2>3, <2>4 DEF Reached, Busy
<1> QED BY <1>2, <1>3, <1>4, <1>5, <1>6

LEMMA BoundsStep == ExportInv /\ BoundsInv /\ [ExportNext]_allVars => BoundsInv'
<1> SUFFICES ASSUME ExportInv, BoundsInv, [ExportNext]_allVars PROVE BoundsInv'
  OBVIOUS
<1>1. /\ clock \in Nat /\ stamp \in [Exporters -> Nat] /\ table \subseteq Row
      /\ epc \in [Exporters -> {"start", "select", "data", "manifest", "refused"}]
      /\ batch \in [Exporters -> SUBSET Row]
  BY DEF ExportInv, ExportTypes, Steady, TypeOK
<1>2. /\ \A e \in Exporters : stamp[e] <= clock
      /\ \A e \in Exporters : Busy(e) <=> batch[e] # {}
      /\ \A m \in manifests : m.first <= m.last
      /\ lost \subseteq Row
      /\ faults \in [deaths : 0..MaxDeaths, losses : 0..MaxLosses]
  BY DEF BoundsInv
<1>3. CASE WriterStep \/ UNCHANGED allVars
  <2>1. UNCHANGED <<data, manifests, clock, epc, latest, batch, stamp, lost, faults>>
    BY <1>3 DEF WriterStep, allVars, exportVars, bucketVars, exporterVars
  <2>2. SelectionsCounted'
    BY <2>1, CountKept DEF Reached, Busy
  <2> QED BY <1>2, <2>1, <2>2 DEF BoundsInv, Busy
<1>4. CASE LoseRows
  <2>1. /\ UNCHANGED <<data, manifests, clock, epc, latest, batch, stamp>>
        /\ faults' = [faults EXCEPT !.losses = @ + 1] /\ faults.losses < MaxLosses
        /\ \E gone \in SUBSET table : lost' = lost \cup gone
    BY <1>4 DEF LoseRows, bucketVars, exporterVars
  <2>2. faults'.deaths = faults.deaths
        /\ faults' \in [deaths : 0..MaxDeaths, losses : 0..MaxLosses]
    BY <1>2, <2>1, BoundsAssumption
  <2>3. SelectionsCounted'
    BY <2>1, <2>2, CountKept DEF Reached, Busy
  <2>4. lost' \subseteq Row
    BY <1>1, <1>2, <2>1
  <2> QED BY <1>2, <2>1, <2>2, <2>3, <2>4 DEF BoundsInv, Busy
<1>5. ASSUME NEW e \in Exporters,
             ListManifests(e) \/ NothingNew(e) \/ Refuse(e) \/ PutData(e)
      PROVE  BoundsInv'
  <2>1. /\ UNCHANGED <<manifests, clock, stamp, batch, lost, faults>>
        /\ \A f \in Exporters : Busy(f)' <=> Busy(f)
    BY <1>1, <1>5 DEF ListManifests, NothingNew, Refuse, PutData, Continue, bucketVars, Busy
  <2>2. SelectionsCounted'
    BY <1>5, OthersCount
  <2> QED BY <1>2, <2>1, <2>2 DEF BoundsInv
<1>6. ASSUME NEW e \in Exporters, Select(e) PROVE BoundsInv'
  <2> PICK rows : rows = Selected(e)
    OBVIOUS
  <2>1. /\ UNCHANGED <<manifests, lost, faults>> /\ rows # {}
        /\ epc' = [epc EXCEPT ![e] = "data"] /\ batch' = [batch EXCEPT ![e] = rows]
        /\ clock' = clock + 1 /\ stamp' = [stamp EXCEPT ![e] = clock + 1]
    BY <1>6 DEF Select, Continue
  <2>2. \A f \in Exporters : stamp'[f] <= clock'
    BY <1>1, <1>2, <2>1
  <2>3. \A f \in Exporters : Busy(f)' <=> batch'[f] # {}
    BY <1>1, <1>2, <2>1 DEF Busy
  <2>4. SelectionsCounted'
    BY <1>6, SelectCounts
  <2> QED BY <1>2, <2>1, <2>2, <2>3, <2>4 DEF BoundsInv
<1>7. ASSUME NEW e \in Exporters, PutManifest(e) PROVE BoundsInv'
  <2>1. /\ UNCHANGED <<clock, stamp, lost, faults>> /\ epc[e] = "manifest"
        /\ epc' = [epc EXCEPT ![e] = "start"] /\ batch' = [batch EXCEPT ![e] = {}]
        /\ manifests' = manifests \cup {NewManifest(e)}
    BY <1>7 DEF PutManifest, Continue
  <2>2. NewManifest(e).first <= NewManifest(e).last
    <3>1. Busy(e)
      BY <2>1 DEF Busy
    <3>2. PICK r \in batch[e] : NewManifest(e).first = r.id
      BY <3>1, ManifestOfBatch
    <3> QED BY <3>1, <3>2, ManifestOfBatch DEF IsLast
  <2>3. \A f \in Exporters : Busy(f)' <=> batch'[f] # {}
    BY <1>1, <1>2, <2>1 DEF Busy
  <2>4. SelectionsCounted'
    BY <1>7, OthersCount
  <2> QED BY <1>2, <2>1, <2>2, <2>3, <2>4 DEF BoundsInv
<1>8. ASSUME NEW e \in Exporters, Die(e) PROVE BoundsInv'
  <2>1. /\ UNCHANGED <<manifests, clock, stamp, lost>> /\ faults.deaths < MaxDeaths
        /\ epc' = [epc EXCEPT ![e] = "start"] /\ batch' = [batch EXCEPT ![e] = {}]
        /\ faults' = [faults EXCEPT !.deaths = @ + 1]
    BY <1>8 DEF Die, bucketVars
  <2>2. \A f \in Exporters : Busy(f)' <=> batch'[f] # {}
    BY <1>1, <1>2, <2>1 DEF Busy
  <2>3. faults' \in [deaths : 0..MaxDeaths, losses : 0..MaxLosses]
    BY <1>2, <2>1, BoundsAssumption
  <2>4. SelectionsCounted'
    BY <1>8, DeathCounts
  <2> QED BY <1>2, <2>1, <2>2, <2>3, <2>4 DEF BoundsInv
<1> QED BY <1>3, <1>4, <1>5, <1>6, <1>7, <1>8 DEF ExportNext, Export

(* The state of the exporters, of the bucket and of its key clock is of    *)
(* its type, within the bounds that the deaths, the ids and the number of  *)
(* jobs set; a job holds rows exactly while it puts them.                  *)
THEOREM ExportTypeCorrect == ExportSpec => []ExportTypeOK
<1>1. ExportInv /\ BoundsInv => ExportTypeOK
  <2> SUFFICES ASSUME ExportInv, BoundsInv PROVE ExportTypeOK
    OBVIOUS
  <2>1. PICK made \in SUBSET (Exporters \X (1..MaxId)) :
          clock <= faults.deaths + Cardinality(made)
    BY DEF BoundsInv, SelectionsCounted
  <2>2. /\ faults.deaths \in 0..MaxDeaths /\ clock \in Nat
        /\ Cardinality(Exporters) \in Nat
    BY BoundsAssumption, FS_CardinalityType DEF BoundsInv, ExportInv, ExportTypes
  <2>3. MaxId * Cardinality(Exporters) \in Nat
    BY <2>2, IdAssumption
  <2>4. clock \in Keys
    BY <2>1, <2>2, <2>3, MadeIsFinite, BoundsAssumption DEF Keys
  <2>5. ASSUME NEW k \in Nat, k <= clock PROVE k \in Keys
    BY <2>2, <2>3, <2>4, <2>5, BoundsAssumption DEF Keys
  <2>6. stamp \in [Exporters -> Keys]
    BY <2>5 DEF BoundsInv, ExportInv, ExportTypes
  <2>7. data \subseteq [key : Keys, rows : SUBSET Row]
    BY <2>5 DEF ExportInv, ExportTypes, KeysTaken
  <2>8. latest \in [Exporters -> Manifest \cup {NoManifest}]
    BY DEF ExportInv, ExportTypes
  <2> QED BY <2>4, <2>6, <2>7, <2>8
          DEF ExportInv, Steady, ExportTypes, BoundsInv, ExportTypeOK, Busy
<1> QED BY <1>1, BoundsInvInit, BoundsStep, ExportAlways, PTL DEF ExportSpec

-----------------------------------------------------------------------------
(* What follows                                                            *)

(* The exports pass over no row, however many jobs run beside the writers, *)
(* wherever they die and whatever the table loses (s3_export.py            *)
(* export_batch: the rows after the last id).                              *)
THEOREM SkipsNothing == ExportSpec => []ExportSkipsNothing
<1>1. ExportInv => ExportSkipsNothing
  BY DEF ExportInv, BucketCovers, Covered, ExportSkipsNothing
<1> QED BY <1>1, ExportAlways, PTL

(* With a row, all that its hash commits to is in the bucket: no export is *)
(* made around a lost row (s3_export.py export_batch: verify_chain from    *)
(* the head of the last manifest).                                         *)
THEOREM WholeHistoryExported == ExportSpec => []ExportsWholeHistory
<1>1. ExportInv => ExportsWholeHistory
  BY DEF ExportInv, HistoryWhole, Closed, ExportsWholeHistory
<1> QED BY <1>1, ExportAlways, PTL

-----------------------------------------------------------------------------
(* A refusal                                                               *)

(* As long as nothing is lost, the table holds what has been exported.     *)
Held ==
  /\ IInv
  /\ \A r \in table : r.record_hash # NoHash
  /\ \A m \in manifests : \E r \in table : r.id = m.last /\ r.record_hash = m.head
  /\ \A e \in Exporters : Busy(e) => batch[e] \subseteq table
  /\ \A e \in Exporters : epc[e] # "refused"

HeldUntilLoss == lost = {} => Held

(* Then what is selected verifies from the head of the latest manifest.    *)
LEMMA HeldVerifies ==
  ASSUME ExportInv, Held, NEW e \in Exporters
  PROVE  VerifyChain(Selected(e), StartHash(e))
<1> PICK S, since, start :
      S = Selected(e) /\ since = SinceId(e) /\ start = StartHash(e)
  OBVIOUS
<1>1. /\ S \subseteq table /\ table \subseteq Row /\ seq \in Nat
      /\ IdsUnique(table) /\ \A r \in table : r.id \in 1..seq
  BY IdAssumption DEF Selected, ExportInv, Steady, TypeOK, IdsHandedOut
<1>2. /\ since \in Nat /\ \A r \in table : r \in S <=> r.id > since
      /\ \/ since = 0 /\ start = GENESIS
         \/ \E x \in table : x.id = since /\ x.record_hash = start
  <2>1. latest[e] \in manifests \cup {NoManifest} /\ manifests \subseteq Manifest
    BY DEF ExportInv, ExportTypes
  <2> QED BY <2>1 DEF SinceId, StartHash, Selected, Held, Manifest
<1>3. Chained = table /\ VerifyChain(table, GENESIS)
  BY DEF Held, IInv, Chained, ChainIntact
<1> SUFFICES ASSUME NEW r \in S PROVE Links(S, r, start)
  BY DEF VerifyChain, Broken
<1>4. Links(table, r, GENESIS) /\ r \in table /\ r.id \in Nat
  BY <1>1, <1>3 DEF VerifyChain, Broken, Row
<1>5. CarriedInto(S, r, start) = CarriedInto(table, r, GENESIS)
  <2>1. Before(table, r) \subseteq Row /\ IdsUnique(Before(table, r))
    BY <1>1 DEF Before, IdsUnique
  <2>2. CASE Before(S, r) # {}
    <3>1. IsLast(Before(S, r), LastRow(Before(S, r)))
      BY <1>1, <2>2, RowsHaveLast DEF Before
    <3>2. PICK p \in S : p = LastRow(Before(S, r)) /\ p.id < r.id
      BY <3>1 DEF IsLast, Before
    <3>3. ASSUME NEW q \in table, q.id < r.id PROVE q.id <= p.id
      <4>1. CASE q \in S
        BY <3>1, <3>2, <3>3, <4>1 DEF IsLast, Before
      <4>2. CASE q \notin S
        BY <1>1, <1>2, <3>2, <4>2
      <4> QED BY <4>1, <4>2
    <3>4. IsLast(Before(table, r), p)
      BY <1>1, <3>2, <3>3 DEF IsLast, Before
    <3>5. LastRow(Before(table, r)) = p /\ Before(table, r) # {}
      BY <2>1, <3>4, LastRowIs DEF IsLast
    <3> QED BY <2>2, <3>2, <3>5 DEF CarriedInto
  <2>3. CASE Before(S, r) = {}
    <3>1. \A q \in table : q.id < r.id => q.id <= since
      BY <1>1, <1>2, <2>3 DEF Before
    <3>2. CASE since = 0 /\ start = GENESIS
      <4>1. Before(table, r) = {}
        BY <1>1, <3>1, <3>2 DEF Before
      <4> QED BY <2>3, <3>2, <4>1 DEF CarriedInto
    <3>3. ASSUME NEW x \in table, x.id = since, x.record_hash = start
          PROVE  CarriedInto(S, r, start) = CarriedInto(table, r, GENESIS)
      <4>1. since < r.id /\ r.id \in Nat
        BY <1>1, <1>2
      <4>2. IsLast(Before(table, r), x)
        BY <3>1, <3>3, <4>1 DEF IsLast, Before
      <4>3. LastRow(Before(table, r)) = x /\ Before(table, r) # {}
        BY <2>1, <4>2, LastRowIs DEF IsLast
      <4> QED BY <2>3, <3>3, <4>3 DEF CarriedInto
    <3> QED BY <1>2, <3>2, <3>3
  <2> QED BY <2>2, <2>3
<1> QED BY <1>4, <1>5 DEF Links

LEMMA HeldStep ==
  ASSUME ExportInv, Held, lost' = {}, [ExportNext]_allVars, ~ LoseRows
  PROVE  Held'
<1>1. CASE UNCHANGED exportVars /\ [Next]_vars
  <2>1. UNCHANGED <<manifests, epc, batch>> /\ IInv'
    BY <1>1, NextIInv DEF exportVars, bucketVars, exporterVars, Held
  <2>2. table \subseteq table' /\ \A r \in table' : r.record_hash # NoHash
    <3>1. ASSUME NEW w \in Writers, Commit(w)
          PROVE  table \subseteq table' /\ \A r \in table' : r.record_hash # NoHash
      <4>1. PICK row \in Row : inserted[w] = {row} /\ Extends(row, w)
        BY <3>1 DEF Commit, Goto, ExportInv, Steady, InsertedExtends
      <4>2. prev[w] \in Hashes /\ row.record \in Records
        BY DEF ExportInv, Steady, TypeOK, Row
      <4>3. row.record_hash # NoHash
        BY <4>1, <4>2, HashType DEF Extends
      <4> QED BY <3>1, <4>1, <4>3 DEF Commit, Held
    <3>2. CASE ~ \E w \in Writers : Commit(w)
      BY <1>1, <3>2, CommittedOrNot DEF ExportInv, Steady, Held
    <3> QED BY <3>1, <3>2
  <2> QED BY <2>1, <2>2 DEF Held, Busy
<1>2. ASSUME NEW e \in Exporters, Export(e) \/ Die(e) PROVE Held'
  <2>1. UNCHANGED vars
    BY <1>2 DEF Export, ListManifests, NothingNew, Refuse, Select, PutData, PutManifest, Die
  <2>2. UNCHANGED table /\ IInv'
    <3>1. [Next]_vars
      BY <2>1
    <3> QED BY <2>1, <3>1, NextIInv DEF Held, vars
  <2>3. ~ Refuse(e)
    BY HeldVerifies DEF Refuse
  <2>4. \A m \in manifests' : \E r \in table' : r.id = m.last /\ r.record_hash = m.head
    <3>1. CASE PutManifest(e)
      <4>1. Busy(e) /\ manifests' = manifests \cup {NewManifest(e)}
        BY <3>1 DEF PutManifest, Continue, Busy
      <4>2. LastRow(batch[e]) \in table
        BY <4>1, ManifestOfBatch DEF Held, IsLast
      <4> QED BY <2>2, <4>1, <4>2, ManifestOfBatch DEF Held
    <3>2. CASE ~ PutManifest(e)
      <4>1. manifests' = manifests
        BY <1>2, <3>2 DEF Export, ListManifests, NothingNew, Refuse, Select, PutData, Die,
                          bucketVars
      <4> QED BY <2>2, <4>1 DEF Held
    <3> QED BY <3>1, <3>2
  <2>5. ASSUME NEW f \in Exporters, Busy(f)' PROVE batch'[f] \subseteq table'
    <3>1. CASE Select(e)
      <4>1. batch' = [batch EXCEPT ![e] = Selected(e)] /\ Selected(e) \subseteq table
        BY <3>1 DEF Select, Selected
      <4>2. f # e => Busy(f)
        BY <2>5, <3>1 DEF Select, Continue, Busy, ExportInv, ExportTypes
      <4> QED BY <2>2, <4>1, <4>2 DEF Held, ExportInv, ExportTypes
    <3>2. CASE ~ Select(e)
      <4>1. Busy(f) /\ batch'[f] \subseteq batch[f]
        BY <1>2, <2>5, <3>2
        DEF Export, ListManifests, NothingNew, Refuse, PutData, PutManifest, Die, Continue,
            Busy, ExportInv, ExportTypes
      <4> QED BY <2>2, <4>1 DEF Held
    <3> QED BY <3>1, <3>2
  <2>6. \A f \in Exporters : epc'[f] # "refused"
    BY <1>2, <2>3
    DEF Export, ListManifests, NothingNew, Select, PutData, PutManifest, Die, Continue,
        Held, ExportInv, ExportTypes
  <2>7. \A r \in table' : r.record_hash # NoHash
    BY <2>2 DEF Held
  <2> QED BY <2>2, <2>4, <2>5, <2>6, <2>7 DEF Held
<1> QED BY <1>1, <1>2 DEF ExportNext, WriterStep, allVars

(* With no rows from before the hash columns, an export is refused only    *)
(* when rows are missing (s3_export.py: "the live table no longer matches  *)
(* the last export").                                                      *)
THEOREM RefusalsMeanLoss ==
  ASSUME Legacy = 0
  PROVE  ExportSpec => []RefusedOnlyAfterLoss
<1>1. ExportInit => HeldUntilLoss
  <2> SUFFICES ASSUME ExportInit PROVE Held
    BY DEF HeldUntilLoss
  <2>1. table = {} /\ manifests = {} /\ \A e \in Exporters : epc[e] = "start"
    BY DEF ExportInit, Init
  <2> QED BY <2>1, InitIInv DEF ExportInit, Held, Busy
<1>2. ExportInv /\ HeldUntilLoss /\ [ExportNext]_allVars => HeldUntilLoss'
  <2> SUFFICES ASSUME ExportInv, HeldUntilLoss, [ExportNext]_allVars, lost' = {}
               PROVE  Held'
    BY DEF HeldUntilLoss
  <2>1. ~ LoseRows
    BY DEF LoseRows
  <2>2. lost = {}
    BY <2>1
    DEF ExportNext, WriterStep, exportVars, Export, ListManifests, NothingNew, Refuse,
        Select, PutData, PutManifest, Die, allVars
  <2> QED BY <2>1, <2>2, HeldStep DEF HeldUntilLoss
<1>3. HeldUntilLoss => RefusedOnlyAfterLoss
  BY DEF HeldUntilLoss, Held, RefusedOnlyAfterLoss
<1> QED BY <1>1, <1>2, <1>3, ExportAlways, PTL DEF ExportSpec

-----------------------------------------------------------------------------
(* The bucket of one exporter                                              *)

OneExporter == \A e, f \in Exporters : e = f

(* The last manifest is of the last rows.                                  *)
TopIsLast ==
  manifests # {} =>
    /\ \A m \in manifests : m.first <= LastManifest(manifests).last
    /\ \E row \in Exported : /\ IsLast(Exported, row)
                             /\ row.id = LastManifest(manifests).last
                             /\ row.record_hash = LastManifest(manifests).head

HeadsRight ==
  \A m \in manifests :
    RowsAt(m.key) # {} => LastRow(RowsAt(m.key)).record_hash = m.head

PredecessorsNamed == \A m \in manifests : m.prev = KeyOf(PreviousManifest(m))

BucketChained ==
  /\ Exported \subseteq Row /\ IdsUnique(Exported)
  /\ VerifyChain(Exported, GENESIS)

(* Nobody else has put a manifest since the exporter listed them.          *)
LatestStill ==
  \A e \in Exporters :
    epc[e] \in {"select", "data", "manifest"} => latest[e] = LastManifest(manifests)

BucketInv ==
  TopIsLast /\ HeadsRight /\ PredecessorsNamed /\ BucketChained /\ LatestStill

LEMMA BucketVerified == ExportInv /\ BucketInv => VerifyExport
<1> SUFFICES ASSUME ExportInv, BucketInv PROVE VerifyExport
  OBVIOUS
<1>1. ASSUME NEW r \in Exported, Before(Exported, r) = {}
      PROVE  VerifyChain(Exported, OrGenesis(r.prev_hash))
  <2>1. OrGenesis(r.prev_hash) = GENESIS
    BY <1>1 DEF BucketInv, BucketChained, VerifyChain, Broken, Links, CarriedInto
  <2> QED BY <2>1 DEF BucketInv, BucketChained
<1> QED BY <1>1 DEF VerifyExport, BucketInv, HeadsRight, PredecessorsNamed

(* Two chains are one if the second starts where the first ends.           *)
LEMMA ChainsJoin ==
  ASSUME NEW X, X \subseteq Row, IdsUnique(X), VerifyChain(X, GENESIS),
         NEW B, B \subseteq Row, IdsUnique(B),
         NEW start, VerifyChain(B, start),
         NEW n \in Nat, \A r \in B : r.id <= n,
         \A q \in X, r \in B : q.id < r.id,
         \/ X = {} /\ start = GENESIS
         \/ \E x \in X : IsLast(X, x) /\ x.record_hash = start
  PROVE  IdsUnique(X \cup B) /\ VerifyChain(X \cup B, GENESIS)
<1> DEFINE all == X \cup B
<1>1. all \subseteq Row /\ \A r \in all : r.id \in Nat
  BY DEF Row
<1>2. IdsUnique(all)
  BY <1>1 DEF IdsUnique
<1>3. ASSUME NEW r \in X PROVE Links(all, r, GENESIS)
  <2>1. Before(all, r) = Before(X, r)
    BY <1>1 DEF Before
  <2>2. Links(X, r, GENESIS)
    BY DEF VerifyChain, Broken
  <2> QED BY <2>1, <2>2 DEF Links, CarriedInto
<1>4. ASSUME NEW r \in B PROVE Links(all, r, GENESIS)
  <2>1. Links(B, r, start)
    BY DEF VerifyChain, Broken
  <2>2. Before(all, r) = X \cup Before(B, r)
    BY DEF Before
  <2>3. CarriedInto(all, r, GENESIS) = CarriedInto(B, r, start)
    <3>1. Before(all, r) \subseteq Row /\ IdsUnique(Before(all, r))
      BY <1>1, <1>2 DEF Before, IdsUnique
    <3>2. CASE Before(B, r) # {}
      <4>1. IsLast(Before(B, r), LastRow(Before(B, r)))
        BY <3>2, RowsHaveLast DEF Before
      <4>2. PICK p \in B : p = LastRow(Before(B, r)) /\ p \in Before(B, r)
        BY <4>1 DEF IsLast, Before
      <4>3. IsLast(Before(all, r), p)
        <5>1. \A q \in X : q.id <= p.id
          BY <1>1, <4>2
        <5> QED BY <2>2, <4>1, <4>2, <5>1 DEF IsLast
      <4>4. LastRow(Before(all, r)) = p /\ Before(all, r) # {}
        BY <3>1, <4>3, LastRowIs DEF IsLast
      <4> QED BY <3>2, <4>2, <4>4 DEF CarriedInto
    <3>3. CASE Before(B, r) = {}
      <4>1. Before(all, r) = X
        BY <2>2, <3>3
      <4>2. CASE X = {} /\ start = GENESIS
        BY <3>3, <4>1, <4>2 DEF CarriedInto
      <4>3. ASSUME NEW x \in X, IsLast(X, x), x.record_hash = start
            PROVE  CarriedInto(all, r, GENESIS) = CarriedInto(B, r, start)
        <5>1. LastRow(X) = x
          BY <4>3, LastRowIs
        <5> QED BY <3>3, <4>1, <4>3, <5>1 DEF CarriedInto
      <4> QED BY <4>2, <4>3
    <3> QED BY <3>2, <3>3
  <2> QED BY <2>1, <2>3 DEF Links
<1> QED BY <1>2, <1>3, <1>4 DEF VerifyChain, Broken

(* Where nothing is put but perhaps data, without a manifest.              *)
LEMMA NoManifestPut ==
  ASSUME ExportInv, BucketInv, manifests' = manifests,
         \A m \in manifests : RowsAt(m.key)' = RowsAt(m.key),
         LatestStill'
  PROVE  BucketInv'
<1> PICK ms, old : ms = manifests /\ old = Exported
  OBVIOUS
<1>1. Exported' = UNION {RowsAt(m.key)' : m \in manifests}
  BY DEF Exported, RowsAt
<1>2. Exported' = old /\ manifests' = ms
  BY <1>1 DEF Exported
<1>3. LastManifest(manifests)' = LastManifest(ms)
  BY <1>2 DEF LastManifest
<1>4. TopIsLast'
  BY <1>2, <1>3 DEF BucketInv, TopIsLast
<1>5. HeadsRight'
  BY <1>2 DEF BucketInv, HeadsRight
<1>6. PredecessorsNamed'
  BY <1>2 DEF BucketInv, PredecessorsNamed, PreviousManifest
<1>7. BucketChained'
  BY <1>2 DEF BucketInv, BucketChained
<1> QED BY <1>4, <1>5, <1>6, <1>7 DEF BucketInv

(* A manifest that is put comes after all others.                          *)
LEMMA PutComesLast ==
  ASSUME ExportInv, BucketInv, NEW e \in Exporters, PutManifest(e),
         NEW m, m = NewManifest(e)
  PROVE  /\ manifests' = manifests \cup {m} /\ m \notin manifests
         /\ m.prev = KeyOf(LastManifest(manifests))
         /\ \A k \in manifests : Sorted(k, m) /\ ~ Sorted(m, k) /\ k.first < m.first
         /\ LastManifest(manifests') = m
<1>1. Busy(e) /\ epc[e] = "manifest" /\ manifests' = manifests \cup {m}
  BY DEF PutManifest, Continue, Busy
<1>2. /\ m \in Manifest /\ m.key = stamp[e] /\ m.prev = KeyOf(latest[e])
      /\ \E r \in batch[e] : m.first = r.id
  BY <1>1, ManifestOfBatch
<1>3. latest[e] = LastManifest(manifests)
  BY <1>1 DEF BucketInv, LatestStill
<1>4. ASSUME NEW k \in manifests
      PROVE  Sorted(k, m) /\ ~ Sorted(m, k) /\ k.first < m.first
  <2>1. latest[e] \in manifests /\ k.first <= latest[e].last
    BY <1>3, LatestThereIs DEF ExportInv, BucketInv, TopIsLast
  <2>2. SinceId(e) = latest[e].last
    BY <2>1, NoManifestAssumption DEF SinceId, ExportInv, ExportTypes
  <2>3. latest[e].last < m.first
    BY <1>1, <1>2, <2>2 DEF ExportInv, BatchesContinue, Continues
  <2>4. k.first \in Nat /\ m.first \in Nat /\ latest[e].last \in Nat
    BY <1>2, <2>1 DEF ExportInv, ExportTypes, Manifest
  <2> QED BY <2>1, <2>3, <2>4 DEF Sorted
<1>5. m \notin manifests
  BY <1>1, <1>2 DEF ExportInv, KeysTaken
<1>6. LastManifest(manifests') = m
  <2> PICK more : more = manifests \cup {m}
    OBVIOUS
  <2>1. \A n \in more \ {m} : Sorted(n, m)
    BY <1>4
  <2>2. LastManifest(more) \in more
        /\ \A n \in more \ {LastManifest(more)} : Sorted(n, LastManifest(more))
    BY <2>1 DEF LastManifest
  <2>3. LastManifest(more) = m
    BY <1>4, <2>2
  <2> QED BY <1>1, <2>3
<1> QED BY <1>1, <1>2, <1>3, <1>4, <1>5, <1>6

LEMMA PutManifestBucket ==
  ASSUME OneExporter, ExportInv, BucketInv, NEW e \in Exporters, PutManifest(e)
  PROVE  BucketInv'
<1> PICK m, ms, B, X, start :
      m = NewManifest(e) /\ ms = manifests /\ B = batch[e] /\ X = Exported
      /\ start = StartHash(e)
  OBVIOUS
<1>1. Busy(e) /\ epc' = [epc EXCEPT ![e] = "start"]
  BY DEF PutManifest, Continue, Busy
<1>2. /\ manifests' = ms \cup {m} /\ m \notin ms
      /\ m.prev = KeyOf(LastManifest(ms))
      /\ \A k \in ms : Sorted(k, m) /\ ~ Sorted(m, k) /\ k.first < m.first
      /\ LastManifest(manifests') = m
  BY PutComesLast
<1>3. /\ m \in Manifest /\ m.key = stamp[e] /\ IsLast(B, LastRow(B))
      /\ m.last = LastRow(B).id /\ m.head = LastRow(B).record_hash
      /\ \E r \in B : m.first = r.id
  BY <1>1, ManifestOfBatch
<1>4. /\ \A key : RowsAt(key)' = RowsAt(key)
      /\ RowsAt(stamp[e]) = B /\ Exported' = X \cup B
  BY PutAdds
<1>5. /\ B # {} /\ B \subseteq Row /\ IdsUnique(B) /\ VerifyChain(B, start)
      /\ seq \in Nat /\ \A r \in B : r.id <= seq /\ r.id \in Nat /\ SinceId(e) < r.id
  BY <1>1, IdAssumption DEF ExportInv, BatchesContinue, Continues, Steady, TypeOK, Row
<1>6. latest[e] = LastManifest(ms)
  BY <1>1 DEF BucketInv, LatestStill, Busy
<1>7. /\ X \subseteq Row /\ IdsUnique(X) /\ VerifyChain(X, GENESIS)
  BY DEF BucketInv, BucketChained
<1>8. /\ \A q \in X, r \in B : q.id < r.id
      /\ \/ X = {} /\ start = GENESIS
         \/ \E x \in X : IsLast(X, x) /\ x.record_hash = start
  <2>1. CASE ms = {}
    <3>1. X = {} /\ latest[e] = NoManifest
      BY <2>1 DEF Exported, ExportInv, ExportTypes
    <3> QED BY <3>1 DEF StartHash
  <2>2. CASE ms # {}
    <3>1. latest[e] \in ms /\ latest[e] # NoManifest
      BY <1>6, <2>2, LatestThereIs, NoManifestAssumption DEF ExportInv, ExportTypes
    <3>2. PICK x \in X : IsLast(X, x) /\ x.id = latest[e].last /\ x.record_hash = latest[e].head
      BY <1>6, <2>2 DEF BucketInv, TopIsLast
    <3>3. SinceId(e) = x.id /\ start = x.record_hash
      BY <3>1, <3>2 DEF SinceId, StartHash
    <3>4. \A q \in X, r \in B : q.id < r.id
      <4>1. \A q \in X : q.id \in Nat /\ q.id <= x.id
        BY <1>7, <3>2 DEF IsLast, Row
      <4>2. \A r \in B : x.id < r.id /\ r.id \in Nat
        BY <1>5, <3>3
      <4> QED BY <4>1, <4>2
    <3> QED BY <3>2, <3>3, <3>4
  <2> QED BY <2>1, <2>2
<1>9. BucketChained'
  <2>1. IdsUnique(X \cup B) /\ VerifyChain(X \cup B, GENESIS)
    BY <1>5, <1>7, <1>8, ChainsJoin
  <2> QED BY <1>4, <1>5, <1>7, <2>1 DEF BucketChained
<1>10. TopIsLast'
  <2>1. \A k \in manifests' : k.first <= m.last
    <3>1. PICK r \in B : m.first = r.id /\ r.id <= m.last
      BY <1>3 DEF IsLast
    <3>2. \A k \in manifests' : k.first <= m.first /\ k.first \in Nat
      BY <1>2, <1>3 DEF ExportInv, ExportTypes, Manifest
    <3>3. m.first \in Nat /\ m.last \in Nat
      BY <1>3 DEF Manifest
    <3> QED BY <3>1, <3>2, <3>3
  <2>2. PICK row \in B : row = LastRow(B)
    BY <1>3 DEF IsLast
  <2>3. IsLast(X \cup B, row)
    <3>1. \A q \in X : q.id <= row.id
      BY <1>5, <1>7, <1>8 DEF Row
    <3> QED BY <1>3, <2>2, <3>1 DEF IsLast
  <2>4. row \in Exported' /\ IsLast(Exported', row) /\ row.id = m.last /\ row.record_hash = m.head
    BY <1>3, <1>4, <2>2, <2>3
  <2> QED BY <1>2, <2>1, <2>4 DEF TopIsLast
<1>11. HeadsRight'
  <2> SUFFICES ASSUME NEW k \in manifests', RowsAt(k.key)' # {}
               PROVE  LastRow(RowsAt(k.key)').record_hash = k.head
    BY DEF HeadsRight
  <2>1. RowsAt(k.key)' = RowsAt(k.key)
    BY <1>4
  <2>2. CASE k = m
    BY <1>3, <1>4, <2>1, <2>2
  <2>3. CASE k \in ms
    BY <2>1, <2>3 DEF BucketInv, HeadsRight
  <2> QED BY <1>2, <2>2, <2>3
<1>12. PredecessorsNamed'
  <2>1. ASSUME NEW k \in manifests'
        PROVE  k.prev = KeyOf(LastManifest({n \in manifests' : Sorted(n, k)}))
    <3>1. CASE k = m
      <4>1. ~ Sorted(m, m)
        BY <1>3 DEF Sorted, Manifest
      <4>2. {n \in manifests' : Sorted(n, m)} = ms
        BY <1>2, <4>1
      <4> QED BY <1>2, <3>1, <4>2
    <3>2. CASE k \in ms
      <4>1. {n \in manifests' : Sorted(n, k)} = {n \in manifests : Sorted(n, k)}
        BY <1>2, <3>2
      <4>2. k.prev = KeyOf(PreviousManifest(k))
        BY <3>2 DEF BucketInv, PredecessorsNamed
      <4> QED BY <4>1, <4>2 DEF PreviousManifest
    <3> QED BY <1>2, <3>1, <3>2
  <2> QED BY <2>1 DEF PredecessorsNamed, PreviousManifest
<1>13. LatestStill'
  <2>1. \A f \in Exporters : epc'[f] = "start"
    BY <1>1 DEF OneExporter, ExportInv, ExportTypes
  <2> QED BY <2>1 DEF LatestStill
<1> QED BY <1>9, <1>10, <1>11, <1>12, <1>13 DEF BucketInv

LEMMA BucketStep ==
  ASSUME OneExporter, ExportInv, BucketInv, [ExportNext]_allVars
  PROVE  BucketInv'
<1>1. CASE \E e \in Exporters : PutManifest(e)
  BY <1>1, PutManifestBucket
<1>2. CASE ~ \E e \in Exporters : PutManifest(e)
  <2>1. manifests' = manifests
    BY <1>2
    DEF ExportNext, WriterStep, Export, ListManifests, NothingNew, Refuse, Select, PutData,
        Die, LoseRows, allVars, exportVars, bucketVars
  <2>2. \A m \in manifests : RowsAt(m.key)' = RowsAt(m.key)
    <3>1. CASE \E e \in Exporters : PutData(e)
      <4>1. PICK e \in Exporters : PutData(e)
        BY <3>1
      <4>2. data' = data \cup {[key |-> stamp[e], rows |-> batch[e]]} /\ Busy(e)
        BY <4>1 DEF PutData, Continue, Busy
      <4>3. \A m \in manifests : m.key # stamp[e]
        BY <4>2 DEF ExportInv, KeysTaken
      <4> QED BY <4>2, <4>3 DEF RowsAt
    <3>2. CASE ~ \E e \in Exporters : PutData(e)
      <4>1. data' = data
        BY <1>2, <3>2
        DEF ExportNext, WriterStep, Export, ListManifests, NothingNew, Refuse, Select,
            Die, LoseRows, allVars, exportVars, bucketVars
      <4> QED BY <4>1 DEF RowsAt
    <3> QED BY <3>1, <3>2
  <2>3. LatestStill'
    <3>1. CASE UNCHANGED exporterVars
      BY <2>1, <3>1 DEF exporterVars, BucketInv, LatestStill
    <3>2. ASSUME NEW e \in Exporters, ListManifests(e) PROVE LatestStill'
      <4>1. latest'[e] = LastManifest(manifests)
        BY <3>2 DEF ListManifests, ExportInv, ExportTypes
      <4>2. \A f \in Exporters : f = e
        BY DEF OneExporter
      <4> QED BY <2>1, <4>1, <4>2 DEF LatestStill
    <3>3. ASSUME NEW e \in Exporters,
                 NothingNew(e) \/ Refuse(e) \/ Select(e) \/ PutData(e) \/ Die(e)
          PROVE  LatestStill'
      <4>1. /\ latest' = latest
            /\ epc'[e] \in {"select", "data", "manifest"} =>
                 epc[e] \in {"select", "data", "manifest"}
        BY <3>3 DEF NothingNew, Refuse, Select, PutData, Die, Continue, ExportInv, ExportTypes
      <4>2. \A f \in Exporters : f = e
        BY DEF OneExporter
      <4> QED BY <2>1, <4>1, <4>2 DEF BucketInv, LatestStill
    <3> QED BY <1>2, <3>1, <3>2, <3>3
            DEF ExportNext, WriterStep, Export, LoseRows, allVars, exportVars
  <2> QED BY <2>1, <2>2, <2>3, NoManifestPut
<1> QED BY <1>1, <1>2

(* An auditor who holds only the bucket of one job can verify it at any    *)
(* moment, wherever exports died and whatever the table has lost           *)
(* (s3_export.py verify_export; export_batch: "Idempotent, resumable").    *)
THEOREM BucketVerifies ==
  ASSUME OneExporter
  PROVE  ExportSpec => []ExportVerifies
<1>1. ExportInit => BucketInv
  <2> SUFFICES ASSUME ExportInit PROVE BucketInv
    OBVIOUS
  <2>1. Exported = {} /\ manifests = {} /\ \A e \in Exporters : epc[e] = "start"
    BY DEF ExportInit, Exported
  <2>2. VerifyChain({}, GENESIS)
    BY DEF VerifyChain, Broken
  <2> QED BY <2>1, <2>2 DEF BucketInv, TopIsLast, HeadsRight, PredecessorsNamed,
                            BucketChained, IdsUnique, LatestStill
<1>2. ExportInv /\ BucketInv /\ [ExportNext]_allVars => BucketInv'
  BY BucketStep
<1>3. ExportInv /\ BucketInv => ExportVerifies
  BY BucketVerified DEF ExportVerifies
<1> QED BY <1>1, <1>2, <1>3, ExportAlways, PTL DEF ExportSpec

=============================================================================
