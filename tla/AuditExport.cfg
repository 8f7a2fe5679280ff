SPECIFICATION FairExportSpec
CONSTANTS
  Writers = {w1, w2}
  Records = {a}
  Legacy = 0
  MaxId = 3
  Nobody = Nobody
  NoHash = NoHash
  Exporters = {e1}
  MaxDeaths = 1
  MaxLosses = 1
  NoManifest = NoManifest
INVARIANTS
  ExportTypeOK
  ExportVerifies
  ExportSkipsNothing
  ExportsWholeHistory
  RefusedOnlyAfterLoss
PROPERTIES
  EveryRowExported
