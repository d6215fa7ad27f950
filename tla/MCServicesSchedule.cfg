CONSTANTS
    p1 = p1
    p2 = p2
    p3 = p3
    x1 = x1
    t1 = t1
    t2 = t2
    c1 = c1
    c2 = c2
    c3 = c3
    k1 = k1
    k2 = k2
    s1 = s1
    o1 = o1
    d1 = d1
    a1 = a1
    a2 = a2
    a3 = a3
    r1 = r1
    r2 = r2
    m1 = m1
    m2 = m2
    m3 = m3
    b1 = b1
    b2 = b2
    u1 = u1
    u2 = u2
    g1 = g1
    g2 = g2
    g3 = g3
    v0 = v0
    v1 = v1
    v2 = v2
    i1 = i1
    i2 = i2
    e1 = e1
    e2 = e2
    Services = {"trigger"}
    MaxSeq = 3
    Cap = 1
    Retained = 1
    TriggerAt = 3
    Procs = {p1, p2, p3}
    Plan <- MCPlan
    ReadAttempts = 2
    MaxRetries = 1
    Requests = {s1}
    Commands = {c1, c2, c3}
    Extensions = {x1}
    MAX_QUEUE_DEPTH = 2
    MaxParked = 2
    Tabs = {t1, t2}
    RECENT_LIMIT = 2
    MaxTime = 4
    Tasks = {k1, k2}
    PricingTask = k1
    OnceTimes = {o1}
    CronSchedules = {d1}
    MaxBoots = 2
    Agents = {a1, a2, a3}
    Roots = {r1, r2}
    Home <- MCHome
    NoTurn = NoTurn
    MAX_DELEGATION_DEPTH = 2
    MaxThreadDepth = 2
    Budgets <- MCBudgets
    Price = 1
    MaxHandoffs = 3
    Messages = {m1, m2, m3}
    chatOf <- MCChatOf
    stampOf <- MCStampOf
    Routed = {b1}
    Upserts = {u1, u2}
    RECV_IDS_MAX = 1
    MaxBatch <- MCBatch
    MaxAdapters = 2
    Calls = {g1, g2, g3}
    Owned = {g1, g2}
    MAX_ENTRIES = 2
    MaxTries = 2
    MaxProcesses = 2
    ServerSets = {v0, v1, v2}
    NoServers = v0
    MaxGenerations = 2
    MaxConnects = 3
    Indexed = {i1, i2}
    EmbedTexts = {h1, h2}
    NoText = NoText
    Models = {e1, e2}
    NoModel = NoModel
    MaxEvents = 3
SPECIFICATION Spec
INVARIANTS NextRunFollowsSchedule
CHECK_DEADLOCK FALSE
