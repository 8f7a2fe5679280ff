SPECIFICATION StartupFairSpec
CONSTANTS
  Writers = {w1, w2, w3}
  Records = {a}
  Legacy = 0
  MaxId = 2
  Nobody = Nobody
  NoHash = NoHash
INVARIANTS
  GuardNeverMissing
  DeadlocksNeedAnUpgrade
PROPERTIES
  WaitsEnd
