SPECIFICATION Spec
CONSTANTS
  p1 = p1
  w1 = w1
  w2 = w2
  s1 = s1
  p2 = p2
  s2 = s2
  None = None
  Proposals = {p1}
  Workers = {w1, w2}
  Sessions = {s1, s2}
  NeedsApproval = {p1}
  HasCompensation = {p1}
  Versioned = {p1}
  RowLocks = TRUE
  MaxCrashes = 1
  MaxSlow = 1
INVARIANTS ApprovalGate OutcomeIsReal CompensationIsDeclared
PROPERTIES TerminalIsFenced
CHECK_DEADLOCK FALSE
