SPECIFICATION ConsoleSpec
CONSTANTS
  Turns = {1, 2}
  MaxChunks = 1
  Runs = {1, 2}
  Sections = {"econ", "virtual"}
  MaxChanges = 2
  Aliases = {"a", "b", "c"}
  Models = {"m"}
  MaxEntries = 2
  MaxSteps = 2
  Fleet = {"n1"}
  NoNode = "none"
  Fetches = {1, 2}
  MaxEvents = 1
  Actions = {1}
  Tokens = {1, 2}
  KeyCalls = {1, 2}
  MyTokens = {1, 2, 3}
  MyCalls = {1, 2}
  ClientKeys = {1}
  ListLoads = {1, 2}
  AccessCalls = {1}
  Waiters = {1}
  QueueReads = {1, 2}
  ListReads = {1, 2}
  RegistryCalls = {1}
  MaxPulls = 2
  UserReads = {1}
  QuotaCalls = {1}
  MaxSignIns = 1
  MaxVisits = 2
  MaxLines = 2
  LogCap = 2
  Searches = {1}
  PortalTokens = {"alice", "bob", "stray"}
  Owner <- OwnerOf
  Nobody = "nobody"
  Oidc = TRUE
  Verifications = {1, 2}
  MaxSignOns = 1
  Names = {"outer", "inner", "m"}
  Physical = {"m"}
  Rank <- NamesRank
  Hosts = {"h1"}
INVARIANTS
  ConsoleTypeOK
  ChatControlled
  BufferAttributed
  DraftAccounted
  EditsKeep
  TokensAccounted
  TierHonest
  ViewsHonest
PROPERTIES
  FinalShown
  FleetSettles
  WaitersListed
CHECK_DEADLOCK FALSE
