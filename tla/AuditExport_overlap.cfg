SPECIFICATION ExportSpec
CONSTANTS
  Writers = {w1}
  Records = {a}
  Legacy = 0
  MaxId = 2
  Nobody = Nobody
  NoHash = NoHash
  Exporters = {e1, e2}
  MaxDeaths = 0
  MaxLosses = 0
  NoManifest = NoManifest
INVARIANTS
  ExportVerifies
