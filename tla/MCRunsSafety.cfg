\* Two runs on one thread, no restart, fair scheduling.
SPECIFICATION FairSpec
CONSTANTS
    MaxRuns = 2
    MaxRestarts = 0
INVARIANTS
    ThreadExclusive
    RollbackLosesOwnWorkOnly
    ThreadSettles
PROPERTIES
    RunsEnd
CHECK_DEADLOCK FALSE
