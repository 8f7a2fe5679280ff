SPECIFICATION FairSpec
CONSTANTS
  c1 = c1
  c2 = c2
  c3 = c3
  c4 = c4
  Calls = {c1, c2, c3, c4}
  Payload <- OneRun
  Verdicts <- SomeVerdicts
  Models = {"primary", "fallback"}
  Overlap = FALSE
  Reuse = FALSE
  MaxCrashes = 1
  MaxSqlErrors = 1
  MaxFaults = 1
  None = None
INVARIANTS
  TypeOK
  EveryStepOnRecord
  BookedAsAudited
  TrueMatchConfirmedByHuman
  DispositionNamesTheModelAudited
PROPERTIES
  DecisionClosesEscalation
  EscalationLeavesOnlyByDecision
CHECK_DEADLOCK FALSE
