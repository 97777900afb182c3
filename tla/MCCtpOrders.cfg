SPECIFICATION Spec
SYMMETRY ThreadSymmetry
CONSTANTS
  t1 = t1
  t2 = t2
  Threads = {t1, t2}
  Positions = 2
  Budgets <- MCBudgets
INVARIANTS
  TypeOK
  TradesAttributed
  IdsNameOrders
  OrderListsRight
  PositionsOneAnswer
CHECK_DEADLOCK FALSE
