SPECIFICATION Spec
CONSTANTS
  c1 = c1
  c2 = c2
  Clients = {c1}
  Capacity = 2
  ReadMax = 2
  ChannelCapacity = 2
  MaxOutput = 2
  MaxAttach = 1
INVARIANT ViewersAreSessions
CHECK_DEADLOCK FALSE
