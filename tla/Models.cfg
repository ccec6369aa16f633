CONSTANTS
    a = a
    b = b
    t = t
    u = u
    llama = llama
    qwen = qwen
    NoId = NoId
    Ids = {a, b}
    Tasks = {t, u}
    Models = {llama, qwen}
    ModelOf <- ModelOfId
    Wants <- WantsOfTasks
    Watched = {a}
    Gpus = 1
    MaxRequests = 2
    Slots = 1
    MaxFaults = 1
    MaxCalls = 1
SPECIFICATION FairSpec
INVARIANTS ServerLeased InUseKept NoneAbandoned
PROPERTIES LateActorsDie DemandServed
CHECK_DEADLOCK FALSE
