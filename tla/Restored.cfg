CONSTANTS
  None = None
  Tick = 2  MinQty = 1  MinNotional = 40  Fee = 1
  Policy <- MCPolicy
  LevFilter <- MCLevFilter
  Lock <- MCLock
  TrailR <- MCTrailR
  ActivateR <- MCActivateR
  Plan <- MCPlan
  UserStops = {28}  Marks = {39, 56}
  MaxFails = 0  MaxUser = 1  MaxActs = 0  Torn = FALSE
SPECIFICATION Restored
CHECK_DEADLOCK FALSE
PROPERTIES StopNeverLoosened ProtectionSettles
