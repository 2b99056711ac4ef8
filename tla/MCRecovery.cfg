\* One session submits and approves; one crash and one lease that its owner
\* outlives.
SPECIFICATION MCSpec
CONSTANTS
    p1 = p1
    p2 = p2
    w1 = w1
    w2 = w2
    s1 = s1
    None = None
    Proposals = {p1, p2}
    Workers = {w1, w2}
    Sessions = {s1}
    NeedsApproval = {p1}
    HasCompensation = {p1}
    Versioned = {}
    RowLocks = TRUE
    MaxCrashes = 1
    MaxSlow = 1
PROPERTIES
    ExecutionsFinish
CHECK_DEADLOCK FALSE
