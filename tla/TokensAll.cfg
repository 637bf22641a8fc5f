SPECIFICATION FairSpec
CONSTANTS
  c1 = c1
  c2 = c2
  c3 = c3
  k1 = k1
  guest = guest
  owner = owner
  a1 = a1
  a2 = a2
  Master = Master
  AgentToken = AgentToken
  NoKey = NoKey
  NoUser = NoUser
  Calls = {c1, c2, c3}
  Keys = {k1}
  Users = {guest, owner}
  Provider = owner
  KeyOf <- KeyOfMixed
  UserOf <- UserOfMixed
  PrefersOwn = {owner}
  KeyLimit <- KeyLimit1
  UserLimit <- Limit1
  DailyLimit <- NoLimit
  UnitsPerCredit = 2
  AgentKeys = {a1, a2}
  FirstKey = a1
  ChannelSize = 2
  BatchSize = 2
  Editors = {e1}
  Deletable = {k1}
  MaxFailures = 1
  MaxEdited = 2
INVARIANTS
  QuotasMatchLedger
  CreditsKept
  OvershootBounded
PROPERTIES
  UsageSettled
CHECK_DEADLOCK FALSE
