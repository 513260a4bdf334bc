SPECIFICATION HistorySpec
CONSTANTS
  agent1 = agent1
  task = task
  Ids = {agent1, task}
  AutoId <- MCAutoId
  Clients = {c1, c2}
  HookProviders = {claude}
  OutputProviders = {}
  HookEvents = {"stop"}
  Percents = {1}
  IdleTimeout = 1
  ContextEvery = 1
  MaxSpawns = 2
  MaxNextId = 1
  None = None
INVARIANT NoAgentLeftBehind
CHECK_DEADLOCK FALSE
