SPECIFICATION Spec
CONSTANTS
  c1 = c1
  c2 = c2
  c3 = c3
  c4 = c4
  Calls = {c1, c2, c3}
  Payload <- OneRun
  Verdicts <- SomeVerdicts
  Models = {"primary"}
  Overlap = FALSE
  Reuse = FALSE
  MaxCrashes = 0
  MaxSqlErrors = 1
  MaxFaults = 1
  None = None
INVARIANTS
  FailureOnRecord
CHECK_DEADLOCK FALSE
