CONSTANTS
    j1 = j1
    j2 = j2
    e1 = e1
    m1 = m1
    m2 = m2
    Thread = Thread
    NoJob = NoJob
    Jobs <- MCJobs
    MaxDepth = 2
    Expiring <- MCExpiring
    Messages <- MCMessages
SPECIFICATION FairSpec
INVARIANTS
    TypeOK
    RunHasItsOwner
    NoRowLeftOpen
    SteeringInOnePlace
ACTION_CONSTRAINT MCInOrder
PROPERTIES
    SteeringHandledOnce
    EverythingSettles
