CONSTANTS
    p = p
    q = q
    r = r
    NoTask = NoTask
    NoMsg = NoMsg
    Ids = {p, q}
    MaxRetries = 1
    MayRetry = {p}
    MayTimeout = {q}
    HasDeadline = TRUE
    MaxFaults = 1
    MaxCalls = 1
SPECIFICATION FairSpec
INVARIANTS DispatchSound NoneForgotten EndRecovered
PROPERTY PromiseKept
CHECK_DEADLOCK FALSE
