SPECIFICATION PartsSpec
CONSTANTS
  Names = {n1, n2}
  Dirs = {d1, d2}
  MaxRuns = 2
  None = None
  Clients = {c1, c2}
  MaxDaemons = 3
  MaxAttempts = 2
  NoDaemon = NoDaemon
  TaskNames = {1, 2}
  Repo <- PartsRepo
  States = {"working", "input"}
  Filters <- PartsFilters
  MaxItems = 2
  NoAgent = NoAgent
  HookWriters = {w1, w2}
  Hooks = {"Stop", "UserPromptSubmit"}
  MaxEdits = 1
  HalfSettings = HalfSettings
  TrustWriters = {w1, w2}
  outer = outer
  inner = inner
  Cwds = {outer, inner}
  Above <- PartsAbove
  NoFile = NoFile
  HalfTrust = HalfTrust
  Bytes = {"esc", "[", ">", "u", "m", "1"}
  MaxOutput = 5
  MaxTyped = 1
  BaseNames = {"app", "App", "fix"}
  Paths <- PartsPaths
  Lower <- PartsLower
  MaxPaths = 3
  NoRepo = NoRepo
INVARIANT IndexInRange DialogHasRow ServingIsReachable StartsUnlessRaced
INVARIANT HooksIntact TrustKept RelayIsExact NamesLeadBack ReplayAgrees
PROPERTY SelectionKept
CHECK_DEADLOCK FALSE
