\* A once and a cron task, one request, a crash and a failing call.
SPECIFICATION FairSpec
CONSTANTS
    Once = {o}
    Cron = {c}
    Requests = {q}
    Poller = p
    NoTask = none
    MaxConcurrent = 2
    MaxTasks = 1
    MaxRows = 2
    MaxFaults = 1
INVARIANTS
    
    NoScheduledOverlap
    OnceRunsOnce

    
    
CHECK_DEADLOCK FALSE
