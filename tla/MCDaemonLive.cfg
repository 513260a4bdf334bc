SPECIFICATION FairSpec
CONSTANTS
  agent1 = agent1
  Ids = {agent1}
  AutoId <- MCAutoId
  Clients = {c1, c2}
  HookProviders = {}
  OutputProviders = {shell}
  HookEvents = {"stop"}
  Percents = {1}
  IdleTimeout = 2
  ContextEvery = 2
  MaxSpawns = 2
  MaxNextId = 1
  None = None
PROPERTY ExitsAreReaped ShutdownStops IdleStops
CHECK_DEADLOCK FALSE
