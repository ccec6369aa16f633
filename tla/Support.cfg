CONSTANTS
    None = None
    Big = Big
    Small1 = Small1
    Small2 = Small2
    Run1 = Run1
    Run2 = Run2
    Text1 = Text1
    Text2 = Text2
    Left = Left
    Right = Right
    Merge = Merge
    Node1 = Node1
    Node2 = Node2
    Runs = {Run1, Run2}
    Nodes = {Node1, Node2}
    QueueTasks <- OrderTasks
    Actors = {Worker1, Worker2}
    Need <- NeedOf
    Slots = 2
    Threshold = 1
    Target = 1
    MaxRetries = 1
    FileTasks <- JoinTasks
    Blobs = {Text1, Text2}
    RunOf <- RunOfTask
    Parents <- ParentsOf
    Initial <- InitialOf
    Fresh = {Text1, Text2}
    MaxTries <- TriesOf
    Members <- JoinTasks
    Inputs <- InputsOf
    MaxEdges = 3
    MaxInputs = 1
    Size <- SizeOf
    Declared = 1000
    Limit <- LimitOf
    Pinned <- PinnedTo
    Capacity <- CapacityOf
    Needs = {1100}
    RetryOn <- RetryOnOf
    Retries <- RetriesOf
    Servers = {Server1}
    CoreNode = Node1
    MaxLost = 1
    MaxCleanups = 2
SPECIFICATION Spec
INVARIANTS WorkersExact ArtifactsSafe DagSound RepairsSound OwnerStopped
PROPERTY EveryTaskRuns
CHECK_DEADLOCK FALSE
