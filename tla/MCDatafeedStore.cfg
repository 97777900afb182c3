SPECIFICATION Spec
CONSTANTS
  Contracts <- MCContracts
  Times <- MCTimes
  Last = 5
  Left <- MCLeft
  Calls <- MCCalls
  Asked <- MCAsked
  Counts = {1, 2}
  Readers = {r1}
  PageRows = 1
  MaxCalls = 2
  MaxGets = 1
  MaxClicks = 3
  MaxEvents = 3
CHECK_DEADLOCK FALSE
INVARIANTS
  ReadsStayInSeries
  ReadMatchesRequest
  ListedFramed
PROPERTY
  NothingElseLost
