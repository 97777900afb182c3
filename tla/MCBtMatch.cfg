SPECIFICATION Spec
CONSTANTS
  Symbols <- MCSymbols
  NoSymbol = NoSymbol
  Prices <- MCPrices
  Offered <- MCOffered
  Threads = {t1, t2}
  MaxOrders = 3
  MaxCancels = 1
  MaxTicks = 2
  MaxSessions = 1
  MaxQueue = 2
SYMMETRY MCSymmetry
CHECK_DEADLOCK FALSE
INVARIANTS
  TypeOK
  NeverOversold
  PositionMatchesTrades
  FrozenMatchesOrders
  TradesMatchOrders
  MatchedInFull
PROPERTY
  CompleteStays
