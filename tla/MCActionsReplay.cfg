SPECIFICATION Spec
CONSTANTS
  p1 = p1
  w1 = w1
  w2 = w2
  s1 = s1
  p2 = p2
  s2 = s2
  None = None
  Proposals = {p1}
  Workers = {w1, w2}
  Sessions = {s1}
  NeedsApproval = {p1}
  HasCompensation = {p1}
  Versioned = {}
  RowLocks = TRUE
  MaxCrashes = 0
  MaxSlow = 1
PROPERTIES NoReplayDuringCompensation
CHECK_DEADLOCK FALSE
