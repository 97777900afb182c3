SPECIFICATION FairSpec
CONSTANTS
  Length = 2
  MaxSessions = 2
  MaxConnects = 2
  MaxErrors = 1
INVARIANTS
  TicksFollowContracts
PROPERTIES
  ReplayPlays
CHECK_DEADLOCK FALSE
