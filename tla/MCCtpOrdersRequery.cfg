SPECIFICATION Spec
CONSTANTS
  t1 = t1
  Threads = {t1}
  Positions = 0
  Budgets <- MCOneOrder
INVARIANTS
  TradeHeardAfterQuery
CHECK_DEADLOCK FALSE
