------------------------------ MODULE AuditLog ------------------------------
(***************************************************************************)
(* What the audit trail promises its readers: an append-only ledger.  An   *)
(* entry is a business record under an id; it appears at once, under an id *)
(* larger than that of every entry before it, and then stays as it is.     *)
(* Ids need not be consecutive: a rolled back INSERT uses one up.          *)
(*                                                                         *)
(* A reader that remembers the last id it saw, as the S3 exporter does,    *)
(* misses nothing by asking for larger ids only.                           *)
(***************************************************************************)
EXTENDS Naturals

CONSTANTS
  Ids,      (* ids an entry can have                   *)
  Records,  (* business records that can be appended   *)
  Earlier   (* the ledgers the program can start with  *)

VARIABLE ledger

Init == ledger \in Earlier

Append(n, r) ==
  /\ \A e \in ledger : e.id < n
  /\ ledger' = ledger \cup {[id |-> n, record |-> r]}

Next == \E n \in Ids, r \in Records : Append(n, r)

Spec == Init /\ [][Next]_ledger

=============================================================================
