----------------------------- MODULE MCScreening -----------------------------
(* Model checking of Screening: the calls, the alerts and the decisions of   *)
(* the runs.                                                                 *)
EXTENDS Screening, TLC

CONSTANTS c1, c2, c3, c4

Start(t, alert) == [thread |-> t, alert |-> alert, decision |-> None]
Answer(t, decision) == [thread |-> t, alert |-> None, decision |-> decision]

Alert(id, hits, dob) == [id |-> id, hits |-> hits, dob |-> dob]

Decision(id, resolution, matched, named) ==
  [id |-> id, resolution |-> resolution, matched |-> matched, named |-> named]

Verdict(recommended, confident, matched, cited) ==
  [recommended |-> recommended, confident |-> confident,
   matched |-> matched, cited |-> cited]

(* A model clears or matches with and without confidence, evidence and     *)
(* entities, or asks for an analyst.                                       *)
SomeVerdicts ==
  {Verdict("clear", TRUE, FALSE, TRUE), Verdict("clear", TRUE, FALSE, FALSE),
   Verdict("clear", FALSE, FALSE, FALSE), Verdict("true_match", TRUE, TRUE, TRUE),
   Verdict("true_match", FALSE, FALSE, TRUE)}

Matches == Decision(2, "true_match", TRUE, TRUE)
MatchesNothing == Decision(3, "true_match", FALSE, TRUE)
Anonymous == Decision(4, "insufficient_data", FALSE, FALSE)

Complete == Alert(1, TRUE, TRUE)
NoBirthDate == Alert(2, TRUE, FALSE)
NoHits == Alert(3, FALSE, TRUE)

(* One of two alerts (whichever gets the thread), and the answers of       *)
(* analysts of whom one confirms a match and one names no entity.          *)
OneRun ==
  (c1 :> Start("t", Complete)) @@ (c2 :> Answer("t", Matches))
  @@ (c3 :> Answer("t", MatchesNothing)) @@ (c4 :> Start("t", NoHits))

(* A session whose thread serves two alerts, and analysts of whom one      *)
(* gives no name.                                                          *)
Session ==
  (c1 :> Start("t", Complete)) @@ (c2 :> Answer("t", Anonymous))
  @@ (c3 :> Answer("t", Matches)) @@ (c4 :> Start("t", NoHits))

(* A session whose second alert is decided by the rule overlay.            *)
NextAlert ==
  (c1 :> Start("t", Complete)) @@ (c2 :> Start("t", NoBirthDate))
  @@ (c3 :> Answer("t", Matches))
=============================================================================
