SPECIFICATION DumpFairSpec
CONSTANTS
  Labels = {"IC07", "IC"}
  Index = {"IC"}
  Other = "Other"
  Batch = 1
  MaxPacket = 2
  MaxData = 3
  MaxAsks = 1
  MaxErrors = 1
INVARIANTS
  NothingVanishes
  IndexContractsFirst
PROPERTIES
  PushEnds
CHECK_DEADLOCK FALSE
