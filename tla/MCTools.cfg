\* Three calls of the session pool on two loops, one of them of asyncio.run, a
\* pool for one session and one cancelled call; two subagents and one worker;
\* three model calls, a threshold of two; one provider of sandboxes with room for
\* one container, two threads and one fault, or one thread, three faults and two
\* ghosts; three deliveries of two messages and a /new, two at a time.
SPECIFICATION MCSpec
CONSTANTS
    main = main
    short = short
    t1 = t1
    t2 = t2
    c1 = c1
    c2 = c2
    c3 = c3
    pr = pr
    th1 = th1
    th2 = th2
    m1 = m1
    m2 = m2
    n = n
    g1 = g1
    g2 = g2
    MaxCalls = 3
    MaxKeys = 2
    Loops = {main, short}
    ShortLoops = {short}
    MaxSessions = 1
    MaxCancels = 1
    Subtasks = {t1, t2}
    PoolSize = 1
    ModelCalls = {c1, c2, c3}
    Threshold = 2
    Budgets = {2, 3}
    Providers = {pr}
    Threads = {th1, th2}
    Ghosts = {g1, g2}
    Replicas = 1
    MaxInfos = 3
    MaxFaults = 3
    Messages = {m1, m2, n}
    NewCommands = {n}
    MaxDeliveries = 3
    MaxConcurrency = 2
    MaxEntries = 1
SYMMETRY Alike
INVARIANTS
    RegisteredIsLive
    NoSessionLeaks
    PreemptedIsWoken
    
    
    ProbeIsUnderWay
    OpenIffThreshold
    
    
    
CHECK_DEADLOCK FALSE
