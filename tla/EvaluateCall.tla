---------------------------- MODULE EvaluateCall ----------------------------
(***************************************************************************)
(* What a call of the node evaluate promises about the audit trail: when   *)
(* it ends it leaves one row, of its result or of its failure, and nothing *)
(* before.  It leaves none only if the database did not take that row, and *)
(* this is counted.                                                        *)
(***************************************************************************)
EXTENDS Naturals, Sequences

VARIABLES
  running,   (* a call is under way                                        *)
  events,    (* the events of evaluate on record, in order                 *)
  unwritten  (* calls whose row the database did not take                  *)

vars == <<running, events, unwritten>>

Init == running = FALSE /\ events = <<>> /\ unwritten = 0

Start == ~ running /\ running' = TRUE /\ UNCHANGED <<events, unwritten>>

End(event) ==
  running /\ running' = FALSE /\ events' = Append(events, event) /\ UNCHANGED unwritten

Lose == running /\ running' = FALSE /\ unwritten' = unwritten + 1 /\ UNCHANGED events

Next == Start \/ (\E event \in {"node_completed", "node_failed"} : End(event)) \/ Lose

Spec == Init /\ [][Next]_vars

=============================================================================
