SPECIFICATION FairSpec
CONSTANTS
  Clients = {c1}
  Streams = {s1, s2}
  None = None
  MaxClicks = 2
  MaxDrops = 1
  MaxLate = 1
  MaxStops = 1
  MaxQueue = 1
CHECK_DEADLOCK FALSE
INVARIANTS
  NoOrphanStream
  DeadUnregistered
  ReaderNotForgotten
PROPERTIES
  StreamReturns
  BrokenStreamEnds
