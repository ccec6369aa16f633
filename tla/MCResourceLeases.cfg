CONSTANTS
    head = head
    w1 = w1
    w2 = w2
    hostA = hostA
    hostB = hostB
    l1 = l1
    l2 = l2
    r1 = r1
    r2 = r2
    NoNode = NoNode
    NoGpu = NoGpu
    NoLease = NoLease
    Nodes <- MCNodes
    HeadNode = head
    Hosts = {hostA, hostB}
    HostOf <- MCHostOf
    Gpus = {0}
    Leases = {l1, l2}
    Workflows = {r1, r2}
    Needs <- MCNeeds
    Reports <- MCReports
SPECIFICATION Spec
SYMMETRY MCSymmetry
INVARIANTS TypeOK AvailabilityExact GpuExclusive CountsExact ContextsExact
PROPERTY GrantWithinCapacity
