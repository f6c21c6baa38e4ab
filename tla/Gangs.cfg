SPECIFICATION FairSpec
CONSTANTS
    j1 = j1  j2 = j2  j3 = j3
    n1 = n1  n2 = n2
    g1 = g1  g2 = g2  g3 = g3
    Jobs = {j1, j2, j3}
    Nodes = {n1, n2}
    GPUs = {g1, g2, g3}
    AllocIds = {1, 2}
    NodeOf <- TwoAndOne
    GPUCount <- OneTwoThree
    Priority <- SecondFirst
    MaxRuntime <- Unlimited
    LeaseTicks = 1
    StaleTicks = 0
    MaxRetries = 0
    NoRow = NoRow  NoJob = NoJob  NoNode = NoNode
    Checkers = {}
    Failing = {}
    Cancelable = {}
INVARIANTS
    WholeGangs
PROPERTIES
    PoolSpec
    LeasesEnd
    QueueMoves
