CONSTANTS
  v1 = v1
  Viewers <- OneViewer
  MaxRows = 2
  BatchSize = 2
  MaxLines = 0
  LogChCap = 2
  ViewerCap = 2
  MaxFaults = 0
SPECIFICATION FairSpec
PROPERTIES LogsShipped
