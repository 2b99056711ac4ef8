SPECIFICATION Spec
CONSTANTS
    MaxRuns = 1
    MaxRestarts = 0
INVARIANTS
    RollbackKeepsHistory
CHECK_DEADLOCK FALSE
