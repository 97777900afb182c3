SPECIFICATION Spec
CONSTANTS
  Symbols <- MCSymbols
  MySymbols <- MCMySymbols
  Refusals = {}
  MaxObjects = 1
  MaxClicks = 1
  MaxDrops = 1
  MaxErrors = 0
CHECK_DEADLOCK FALSE
INVARIANT
  TickHasRingBuffer
