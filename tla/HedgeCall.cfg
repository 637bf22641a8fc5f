CONSTANTS
  n1 = n1
  n2 = n2
  NoNode = NoNode
  Nodes <- TwoNodes
  Unstable <- OneFails
SPECIFICATION FairSpec
INVARIANTS WinnerUncancelled BothHeard SlotAccounting
PROPERTIES ImplementsCall AttemptsEnd
CHECK_DEADLOCK FALSE
