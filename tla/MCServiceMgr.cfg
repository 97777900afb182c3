SPECIFICATION FairSpec
CONSTANTS
  Clients = {c1, c2}
  MaxClicks = 3
  MaxCalls = 2
INVARIANTS
  StopClosesStreams
  ServicesOutliveHandlers
PROPERTIES
  QuitEnds
CHECK_DEADLOCK FALSE
