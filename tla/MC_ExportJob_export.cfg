SPECIFICATION ExportSpec
CONSTANTS
  Item = {i1, i2}
  Exporter = {e1, e2}
  NoExporter = NoExporter
  MaxClaims = 2
INVARIANTS ReportedFilesPresent
CHECK_DEADLOCK FALSE
