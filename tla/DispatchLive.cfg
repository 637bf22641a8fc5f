SPECIFICATION FairSpec
CONSTANTS
  c1 = c1
  c2 = c2
  n1 = n1
  n2 = n2
  NoCall = NoCall
  NoNode = NoNode
  Calls = {c1, c2}
  Nodes = {n1, n2}
  Loops = {l1, l2}
  Priority <- EqualPriority
  Permitted <- Divided
  Visible <- AllNodes
  Pinned <- NoPins
  Capacity <- OneSlot
  MaxQueueDepth = 2
  MaxPerTick = 1
  Unchecked = {}
  Impatient = {c1}
  Unstable = {n1}
  Moves = {}
  MaxManagement = 0
INVARIANTS
  OwnedOnce
PROPERTIES
  NoOvertaking
  CallsEnd
  WaitingAnswered
CHECK_DEADLOCK FALSE
