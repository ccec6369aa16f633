CONSTANTS
    a = a
    b = b
    b2 = b2
    m = m
    w1 = w1
    w2 = w2
    NoObj = NoObj
    Objs = {a, m}
    TaskOf <- MCTaskOf
    Workflows = {w1}
    WorkflowOf <- MCOneWorkflow
    ClassOf <- MCClassOf
    Slots <- LiveSlots
    MaxRetries = 2
    MaxPending = 1
    NeedsModel = {}
    MayTimeout = {a}
    MayOom = {a}
    Oversized = {}
SPECIFICATION FairSpec
PROPERTY QueuesIndependent LeasesReturned
