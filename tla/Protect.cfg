CONSTANTS
  None = None
  Tick = 2  MinQty = 1  MinNotional = 40  Fee = 1
  Policy <- MCPolicy
  LevFilter <- MCLevFilter
  Lock <- MCLock
  TrailR <- MCTrailR
  ActivateR <- MCActivateR
  Plan <- MCPlan
  UserStops = {28}  Marks = {39, 56}
  MaxFails = 2  MaxUser = 0  MaxActs = 1  Torn = FALSE
SPECIFICATION MCSpec
CHECK_DEADLOCK FALSE
INVARIANTS NeverUncovered  ExitArithmetic
PROPERTIES ExitsOnlyProgress
