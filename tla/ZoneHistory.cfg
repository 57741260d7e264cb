CONSTANTS
    None = None
    Zones = {}
    Qty <- OneAndTwo
    Has <- MCHas
    MaxHand = 1  MaxPlans = 1  MaxLate = 1
    Symbols <- TwoSymbols
    Exec <- MCExec
    Since <- YKnown
    Recent = 3  Window = 3  Retention = 14  Day = 2  Interval = 1
    Budget = 2  PageBudget = 2  PageSize = 1
    StartTime = 10  MaxTime = 18  MaxFaults = 2  Sweep = 5
SPECIFICATION OldOrCompeting
CHECK_DEADLOCK FALSE
INVARIANTS SweptInTime
PROPERTIES ConsumedIsRecorded
