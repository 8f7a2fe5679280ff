----------------------------- MODULE AuditExport -----------------------------
(***************************************************************************)
(* audit/s3_export.py: batches of the audit table are copied to a bucket   *)
(* in which objects can be neither changed nor deleted.                    *)
(*                                                                         *)
(* export_batch is run out of band, by a job of its own.  It lists the     *)
(* manifests, selects the rows after the latest of them, verifies that     *)
(* they continue its chain, and puts a data object and then a manifest.    *)
(* The writers of AuditChain go on meanwhile, and an export can die        *)
(* between any two of its steps.  The bucket is all the state it has.      *)
(*                                                                         *)
(* Rows can be lost from the table out of band (the trigger that forbids   *)
(* UPDATE and DELETE does not bind the owner of the database).             *)
(***************************************************************************)
EXTENDS AuditChain, FiniteSets

CONSTANTS
  Exporters,  (* jobs that run export_batch                               *)
  MaxDeaths,  (* bound: exports that die                                  *)
  MaxLosses,  (* bound: times that rows are lost                          *)
  NoManifest  (* there is no manifest yet                                 *)

VARIABLES
  data,       (* the data objects: key and rows                           *)
  manifests,  (* the manifest objects                                     *)
  clock,      (* the time stamps taken so far; they make the keys unique  *)
  epc,        (* epc[e]: what e does next                                 *)
  latest,     (* latest[e]: the prev_manifest of e's export               *)
  batch,      (* batch[e]: the rows that e has selected                   *)
  stamp,      (* stamp[e]: the time stamp of e's export                   *)
  lost,       (* history: the rows that were lost                         *)
  faults      (* deaths and losses so far                                 *)

bucketVars == <<data, manifests, clock>>
exporterVars == <<epc, latest, batch, stamp>>
exportVars == <<bucketVars, exporterVars, lost, faults>>

Keys == 0..(MaxDeaths + MaxId * Cardinality(Exporters))

Manifest ==
  [key : Nat, first : Nat, last : Nat, head : Hashes, prev : Nat \cup {NoManifest}]

ASSUME NoManifestAssumption == NoManifest \notin Manifest
ASSUME BoundsAssumption ==
  IsFiniteSet(Exporters) /\ MaxDeaths \in Nat /\ MaxLosses \in Nat

ExportTypeOK ==
  /\ TypeOK
  /\ data \subseteq [key : Keys, rows : SUBSET Row]
  /\ manifests \subseteq Manifest
  /\ clock \in Keys
  /\ epc \in [Exporters -> {"start", "select", "data", "manifest", "refused"}]
  /\ latest \in [Exporters -> Manifest \cup {NoManifest}]
  /\ batch \in [Exporters -> SUBSET Row]
  /\ stamp \in [Exporters -> Keys]
  /\ \A e \in Exporters : epc[e] \in {"data", "manifest"} <=> batch[e] # {}
  /\ lost \subseteq Row
  /\ faults \in [deaths : 0..MaxDeaths, losses : 0..MaxLosses]

ExportInit ==
  /\ Init
  /\ data = {} /\ manifests = {} /\ clock = 0
  /\ epc = [e \in Exporters |-> "start"]
  /\ latest = [e \in Exporters |-> NoManifest]
  /\ batch = [e \in Exporters |-> {}]
  /\ stamp = [e \in Exporters |-> 0]
  /\ lost = {}
  /\ faults = [deaths |-> 0, losses |-> 0]

-----------------------------------------------------------------------------
(* The bucket                                                              *)

(* Manifests are sorted by first_id; those that start with the same row    *)
(* stay in the order of their keys.                                        *)
Sorted(m, n) == m.first < n.first \/ (m.first = n.first /\ m.key < n.key)

LastManifest(ms) ==
  IF ms = {} THEN NoManifest
  ELSE CHOOSE m \in ms : \A n \in ms \ {m} : Sorted(n, m)

PreviousManifest(m) == LastManifest({n \in manifests : Sorted(n, m)})

KeyOf(m) == IF m = NoManifest THEN NoManifest ELSE m.key

RowsAt(key) == UNION {d.rows : d \in {d \in data : d.key = key}}

Exported == UNION {RowsAt(m.key) : m \in manifests}

(* verify_export.                                                          *)
VerifyExport ==
  /\ \A m \in manifests :
       /\ m.prev = KeyOf(PreviousManifest(m))
       /\ LET rows == RowsAt(m.key)
          IN  rows # {} => LastRow(rows).record_hash = m.head
  /\ \A r \in Exported :
       Before(Exported, r) = {} => VerifyChain(Exported, OrGenesis(r.prev_hash))

-----------------------------------------------------------------------------
(* export_batch                                                            *)

Continue(e, from, to) ==
  /\ epc[e] = from
  /\ epc' = [epc EXCEPT ![e] = to]

ListManifests(e) ==
  /\ epc[e] \in {"start", "refused"}
  /\ epc' = [epc EXCEPT ![e] = "select"]
  /\ latest' = [latest EXCEPT ![e] = LastManifest(manifests)]
  /\ UNCHANGED <<vars, bucketVars, batch, stamp, lost, faults>>

SinceId(e) == IF latest[e] = NoManifest THEN 0 ELSE latest[e].last

StartHash(e) == IF latest[e] = NoManifest THEN GENESIS ELSE latest[e].head

(* Mutant: the last exported row is selected again. *)
SelectedAgain(e) == {r \in table : r.id >= SinceId(e)}

Selected(e) == {r \in table : r.id > SinceId(e)}

NothingNew(e) ==
  /\ Selected(e) = {}
  /\ Continue(e, "select", "start")
  /\ UNCHANGED <<vars, bucketVars, latest, batch, stamp, lost, faults>>

Refuse(e) ==
  /\ Selected(e) # {} /\ ~ VerifyChain(Selected(e), StartHash(e))
  /\ Continue(e, "select", "refused")
  /\ UNCHANGED <<vars, bucketVars, latest, batch, stamp, lost, faults>>

(* Mutant: the batch need not continue the chain of the last export. *)
SelectUnanchored(e) ==
  /\ Selected(e) # {}
  /\ \A r \in Selected(e) :
       Before(Selected(e), r) = {} =>
         VerifyChain(Selected(e), OrGenesis(r.prev_hash))
  /\ Continue(e, "select", "data")
  /\ batch' = [batch EXCEPT ![e] = Selected(e)]
  /\ clock' = clock + 1
  /\ stamp' = [stamp EXCEPT ![e] = clock']
  /\ UNCHANGED <<vars, data, manifests, latest, lost, faults>>

(* Mutant: an empty selection is exported. *)
SelectNothing(e) ==
  /\ VerifyChain(Selected(e), StartHash(e))
  /\ Continue(e, "select", "data")
  /\ batch' = [batch EXCEPT ![e] = Selected(e)]
  /\ clock' = clock + 1
  /\ stamp' = [stamp EXCEPT ![e] = clock']
  /\ UNCHANGED <<vars, data, manifests, latest, lost, faults>>

Select(e) ==
  /\ Selected(e) # {} /\ VerifyChain(Selected(e), StartHash(e))
  /\ Continue(e, "select", "data")
  /\ batch' = [batch EXCEPT ![e] = Selected(e)]
  /\ clock' = clock + 1
  /\ stamp' = [stamp EXCEPT ![e] = clock']
  /\ UNCHANGED <<vars, data, manifests, latest, lost, faults>>

PutData(e) ==
  /\ Continue(e, "data", "manifest")
  /\ data' = data \cup {[key |-> stamp[e], rows |-> batch[e]]}
  /\ UNCHANGED <<vars, manifests, clock, latest, batch, stamp, lost, faults>>

FirstId(rows) == CHOOSE n \in {r.id : r \in rows} : \A r \in rows : n <= r.id

(* Mutant: the manifest names no predecessor. *)
NewManifestAlone(e) ==
  [key |-> stamp[e], first |-> FirstId(batch[e]), last |-> LastRow(batch[e]).id,
   head |-> LastRow(batch[e]).record_hash, prev |-> NoManifest]

NewManifest(e) ==
  [key |-> stamp[e], first |-> FirstId(batch[e]), last |-> LastRow(batch[e]).id,
   head |-> LastRow(batch[e]).record_hash, prev |-> KeyOf(latest[e])]

(* Mutant: export_batch does not return after it has put the manifest. *)
PutManifestOnly(e) ==
  /\ epc[e] = "manifest"
  /\ manifests' = manifests \cup {NewManifest(e)}
  /\ UNCHANGED <<vars, data, clock, exporterVars, lost, faults>>

PutManifest(e) ==
  /\ Continue(e, "manifest", "start")
  /\ manifests' = manifests \cup {NewManifest(e)}
  /\ batch' = [batch EXCEPT ![e] = {}]
  /\ UNCHANGED <<vars, data, clock, latest, stamp, lost, faults>>

(* The job dies, or a call to Postgres or S3 fails: nothing is undone.     *)
Die(e) ==
  /\ faults.deaths < MaxDeaths /\ epc[e] \in {"select", "data", "manifest"}
  /\ epc' = [epc EXCEPT ![e] = "start"]
  /\ batch' = [batch EXCEPT ![e] = {}]
  /\ faults' = [faults EXCEPT !.deaths = @ + 1]
  /\ UNCHANGED <<vars, bucketVars, latest, stamp, lost>>

LoseRows ==
  /\ faults.losses < MaxLosses
  /\ \E gone \in (SUBSET table) \ {{}} :
       /\ table' = table \ gone
       /\ lost' = lost \cup gone
  /\ faults' = [faults EXCEPT !.losses = @ + 1]
  /\ UNCHANGED <<seq, lock, pc, prev, inserted, bucketVars, exporterVars>>

Export(e) ==
  \/ ListManifests(e)
  \/ NothingNew(e)
  \/ Refuse(e)
  \/ Select(e)
  \/ PutData(e)
  \/ PutManifest(e)

WriterStep == Next /\ UNCHANGED exportVars

ExportNext ==
  \/ WriterStep
  \/ \E e \in Exporters : Export(e) \/ Die(e)
  \/ LoseRows

allVars == <<vars, exportVars>>

ExportSpec == ExportInit /\ [][ExportNext]_allVars

(* The export is run again and again (it is made for cron), and a run that *)
(* does not die goes on.                                                   *)
FairExportSpec == ExportSpec /\ \A e \in Exporters : WF_allVars(Export(e))

-----------------------------------------------------------------------------
(* Properties                                                              *)

(* An auditor who holds only the bucket can verify it at any moment,       *)
(* wherever an export died and whatever was lost from the table            *)
(* (s3_export.py, export_batch: "Idempotent, resumable").                  *)
ExportVerifies == VerifyExport

(* No row is passed over: what the table holds up to the last exported id  *)
(* is in the bucket.  The exporter takes no lock; it relies on rows        *)
(* becoming visible in the order of their ids.                             *)
ExportSkipsNothing ==
  \A m \in manifests : \A r \in table : r.id <= m.last => r \in Exported

(* With a row, all rows that its hash commits to are in the bucket: a row  *)
(* that was lost while a later row remained is not exported around.        *)
ExportsWholeHistory ==
  \A q \in Exported : \A k \in 1..Len(q.record_hash) :
    \E r \in Exported : r.record_hash = SubSeq(q.record_hash, 1, k)

(* An export is refused only if the table does not hold any more what it   *)
(* held (s3_export.py: "the live table no longer matches the last          *)
(* export").                                                               *)
RefusedOnlyAfterLoss == \A e \in Exporters : epc[e] = "refused" => lost # {}

(* If nothing is lost, every row reaches the bucket in the end.            *)
EveryRowExported ==
  \A n \in 1..MaxId :
    (\E r \in table : r.id = n) ~> (lost # {} \/ \E r \in Exported : r.id = n)

=============================================================================
