SPECIFICATION Spec
CONSTANTS
  Processes = {p1}
  None = None
  Torn = Torn
  MaxIngests = 1
  Corpora <- SomeCorpora
INVARIANT
  StoreOpens
