SPECIFICATION FairSpec
CONSTANTS
  c1 = c1
  c2 = c2
  Clients = {c1, c2}
  Capacity = 1
  ReadMax = 1
  ChannelCapacity = 1
  MaxOutput = 2
  MaxAttach = 2
PROPERTY OutputIsDrained SessionsEnd
CHECK_DEADLOCK FALSE
