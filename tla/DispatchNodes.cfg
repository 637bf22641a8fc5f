SPECIFICATION Spec
CONSTANTS
  c1 = c1
  c2 = c2
  n1 = n1
  n2 = n2
  NoCall = NoCall
  NoNode = NoNode
  Calls = {c1, c2}
  Nodes = {n1, n2}
  Loops = {l1}
  Priority <- EqualPriority
  Permitted <- Divided
  Visible <- N1Private
  Pinned <- PinC2
  Capacity <- OneSlot
  MaxQueueDepth = 1
  MaxPerTick = 2
  Unchecked = {c2}
  Impatient = {c1}
  Unstable = {n1}
  Moves <- Swap
  MaxManagement = 1
INVARIANTS
  SlotAccounting
PROPERTIES
  ImplementsCall
CHECK_DEADLOCK FALSE
