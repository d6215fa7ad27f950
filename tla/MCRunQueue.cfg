CONSTANTS
    t1 = t1
    t2 = t2
    j1 = j1
    j2 = j2
    j3 = j3
    j4 = j4
    NoJob = NoJob
    Threads <- MCThreads
    Jobs <- MCJobs
    MaxDepth = 3
    Expiring <- MCExpiring
SPECIFICATION FairSpec
INVARIANTS
    TypeOK
    EveryCallHasOnePlace
    NeverStalled
    DepthBounded
    PositionHonoured
PROPERTIES
    ImplementsExecutor
    InteractiveServed
