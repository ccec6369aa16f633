CONSTANTS
    p = p
    q = q
    r = r
    NoTask = NoTask
    NoMsg = NoMsg
    Tasks = {p, r}
    Parents <- MCChain
    MaxRetries = 0
    MaxFaults = 1
    MaxStops = 0
    HasDeadline = TRUE
SPECIFICATION Spec
INVARIANT OutcomeRetained
CHECK_DEADLOCK FALSE
