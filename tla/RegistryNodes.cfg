SPECIFICATION FairSpec
CONSTANTS
  i1 = i1
  i2 = i2
  a1 = a1
  a2 = a2
  Absent = Absent
  Down = Down
  Idle = Idle
  Sent = Sent
  Addrs = {a1, a2}
  Ids = {i1}
  Homes <- Roaming
  Unstable = {a2}
  Slots = {k1, k2}
  Requests = {r1}
  ErrorThreshold = 3
  Cooloff = 2
  StaleAfter = 1
INVARIANTS
  OneRecord
PROPERTIES
  ImplementsStanding
  NodesRecover
  StaleForgotten
CHECK_DEADLOCK FALSE
