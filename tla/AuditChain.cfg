SPECIFICATION FairSpec
CONSTANTS
  Writers = {w1, w2, w3}
  Records = {a, b}
  Legacy = 1
  MaxId = 4
  Nobody = Nobody
  NoHash = NoHash
INVARIANTS
  TypeOK
  ChainIntact
  TailStaysFresh
  DeletionDetected
  ReorderDetected
PROPERTIES
  AppendsInIdOrder
  EveryAppendEnds
