CONSTANTS
    p = p
    q = q
    r = r
    NoTask = NoTask
    NoMsg = NoMsg
    Tasks = {p, q, r}
    Parents <- MCJoin
    MaxRetries = 1
    MaxFaults = 2
    MaxStops = 1
    HasDeadline = TRUE
SPECIFICATION Spec
INVARIANTS TypeOK DispatchExact
PROPERTY LifecycleKept
CHECK_DEADLOCK FALSE
