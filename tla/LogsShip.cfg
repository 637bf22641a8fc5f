CONSTANTS
  v1 = v1
  Viewers <- OneViewer
  MaxRows = 3
  BatchSize = 2
  MaxLines = 2
  LogChCap = 2
  ViewerCap = 2
  MaxFaults = 1
SPECIFICATION FairSpec
INVARIANTS NothingDropped LinesInOrder
PROPERTIES OldestSettles
