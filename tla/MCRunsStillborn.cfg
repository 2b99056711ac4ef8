SPECIFICATION FairSpec
CONSTANTS
    MaxRuns = 1
    MaxRestarts = 0
PROPERTIES
    RunsEndAlways
CHECK_DEADLOCK FALSE
