CONSTANTS
    a = a
    b = b
    b2 = b2
    m = m
    w1 = w1
    w2 = w2
    NoObj = NoObj
    Objs = {m}
    TaskOf <- MCTaskOf
    Workflows = {w1}
    WorkflowOf <- MCOneWorkflow
    ClassOf <- MCClassOf
    Slots <- MCSlots
    MaxRetries = 1
    MaxPending = 1
    NeedsModel = {m}
    MayTimeout = {m}
    MayOom = {m}
    Oversized = {}
SPECIFICATION Spec
INVARIANT FailuresIdentified
