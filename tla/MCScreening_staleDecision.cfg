SPECIFICATION Spec
CONSTANTS
  c1 = c1
  c2 = c2
  c3 = c3
  c4 = c4
  Calls = {c1, c2, c3}
  Payload <- NextAlert
  Verdicts <- SomeVerdicts
  Models = {"primary"}
  Overlap = FALSE
  Reuse = TRUE
  MaxCrashes = 0
  MaxSqlErrors = 0
  MaxFaults = 1
  None = None
INVARIANTS
  TrueMatchConfirmedByHuman
CHECK_DEADLOCK FALSE
