SPECIFICATION FairSpec
CONSTANTS
  Processes = {p1, p2}
  None = None
  Torn = Torn
  MaxIngests = 3
  Corpora <- SomeCorpora
INVARIANTS
  ReadersSeeWholeIngests
  FoundByOwnText
PROPERTIES
  IngestsApplyWhole
  IngestEnds
