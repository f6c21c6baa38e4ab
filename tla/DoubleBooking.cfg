SPECIFICATION Spec
CONSTANTS
    j1 = j1  j2 = j2  j3 = j3
    n1 = n1  n2 = n2
    g1 = g1  g2 = g2  g3 = g3
    Jobs = {j1, j2}
    Nodes = {n1}
    GPUs = {g1}
    AllocIds = {1, 2}
    NodeOf <- AllOnFirst
    GPUCount <- OneEach
    Priority <- SamePriority
    MaxRuntime <- Unlimited
    LeaseTicks = 1
    StaleTicks = 0
    MaxRetries = 0
    NoRow = NoRow  NoJob = NoJob  NoNode = NoNode
    Checkers = {c1}
    Failing = {n1}
    Cancelable = {j1}
INVARIANTS
    RunningExclusive
