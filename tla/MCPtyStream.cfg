SPECIFICATION Spec
CONSTANTS
  c1 = c1
  c2 = c2
  Clients = {c1, c2}
  Capacity = 2
  ReadMax = 2
  ChannelCapacity = 2
  MaxOutput = 4
  MaxAttach = 2
SYMMETRY Symmetry
INVARIANT TypeOK RingIsTail JoinedWithoutGap ClosedAtTheEnd ViewersCoverSessions
CHECK_DEADLOCK FALSE
