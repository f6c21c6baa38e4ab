SPECIFICATION ClusterSpec
CONSTANTS
    j1 = j1
    n1 = n1
    g1 = g1
    Jobs = {j1}
    Nodes = {n1}
    GPUs = {g1}
    AllocIds = {1, 2}
    NodeOf <- AllOnFirst
    GPUCount <- OneEach
    Priority <- SamePriority
    MaxRuntime <- Unlimited
    LeaseTicks = 1
    StaleTicks = 0
    MaxRetries = 1
    NoRow = NoRow  NoJob = NoJob  NoNode = NoNode
    NoRun = NoRun  NoReport = NoReport
    Checkers = {c1}
    Failing = {}
    Cancelable = {}
INVARIANTS
    ClusterTypeOK
    OutOfSightOnlyIfRelaunched
    SuccessIsReal
PROPERTIES
    ControlPlaneAllows
