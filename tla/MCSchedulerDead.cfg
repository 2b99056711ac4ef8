\* A cron task and one manual trigger.
SPECIFICATION Spec
CONSTANTS
    Once = {}
    Cron = {c}
    Requests = {q}
    Poller = p
    NoTask = none
    MaxConcurrent = 2
    MaxTasks = 1
    MaxRows = 2
    MaxFaults = 0
INVARIANTS
    RunningIsReclaimable
CHECK_DEADLOCK FALSE
