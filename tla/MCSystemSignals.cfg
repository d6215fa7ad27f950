CONSTANTS
    r1 = r1
    b1 = b1
    a1 = a1
    f1 = f1
    t1 = t1
    t2 = t2
    t3 = t3
    NoToken = NoToken
    Ops = {r1, b1, a1}
    Restarts = {r1}
    Tools = {b1}
    Approvals = {a1}
    WakeEligible = {r1, b1}
    Tokens = {t1, t2, t3}
    MaxAttempts = 2
    MaxBacklog = 2
    BatchLimit = 2
    MaxInstances = 2
SPECIFICATION Spec
INVARIANTS TypeOK CommittedOnce BatchStaysLeased BacklogReserved
PROPERTY ImplementsOutbox
