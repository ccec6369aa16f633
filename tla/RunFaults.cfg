CONSTANTS
    p = p
    q = q
    r = r
    NoTask = NoTask
    NoMsg = NoMsg
    Tasks = {p, r}
    Parents <- MCChain
    MaxRetries = 1
    MaxFaults = 2
    MaxStops = 2
    HasDeadline = TRUE
SPECIFICATION FairSpec
INVARIANTS ToldIsDurable ToldAgrees LogLoads CaughtUp
PROPERTY MessageDone
CHECK_DEADLOCK FALSE
