\* Two runs; the process drains, or crashes, and starts again.  Or one run with
\* a goal: two continuations at most, one of them without progress, three
\* changes of the conversation, and two requests beside it.
SPECIFICATION MCSpec
CONSTANTS
    q1 = q1
    q2 = q2
    MaxRuns = 2
    MaxRestarts = 1
    GoalRequests = {q1, q2}
    MaxContinuations = 2
    MaxNoProgress = 1
    MaxGoalRuns = 1
    MaxGoals = 2
    MaxChanges = 3
INVARIANTS
    
    RowIsOutcome
    
    
CHECK_DEADLOCK FALSE
