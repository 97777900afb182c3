SPECIFICATION FairSpec
CONSTANTS
  Symbols = {"IF"}
  MaxQueries = 2
  MaxTicks = 2
  MaxDrops = 1
  MaxErrors = 1
  MaxClicks = 3
  MaxEvents = 6
INVARIANTS
  TicksFramed
PROPERTIES
  ContractsStored
CHECK_DEADLOCK FALSE
