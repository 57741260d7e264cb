CONSTANTS
    None = None
    Tasks = {"t1", "t2"}
    Vendors = {"v1", "v2", "v3"}
    Static = {"v3"}
    Chain <- Both
    Attempts <- TwoAndOne
    Contexts = {"c1", "c2"}
    Models = {"m1", "m2"}
    Ttl = 2
    MaxTicks = 2
    MaxRedisFaults = 1
    MaxRestarts = 1
    Callers = {"order", "leverage", "list"}
    CallKind <- OfItsName
    Pages = 2
    MaxDrifts = 2
SPECIFICATION EvaluationsOrCalls
CHECK_DEADLOCK FALSE
INVARIANTS AnswerFits CallsAreExact
PROPERTIES  RequestsEnd
