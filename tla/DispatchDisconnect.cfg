SPECIFICATION Spec
CONSTANTS
  c1 = c1
  c2 = c2
  n1 = n1
  n2 = n2
  NoCall = NoCall
  NoNode = NoNode
  Calls = {c1, c2}
  Nodes = {n1, n2}
  Loops = {l1}
  Priority <- EqualPriority
  Permitted <- AllNodes
  Visible <- AllNodes
  Pinned <- NoPins
  Capacity <- OneSlot
  MaxQueueDepth = 2
  MaxPerTick = 2
  Unchecked = {}
  Impatient = {c1}
  Unstable = {}
  Moves = {}
  MaxManagement = 0
INVARIANTS
  DisconnectReleases
CHECK_DEADLOCK FALSE
