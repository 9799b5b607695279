SPECIFICATION Spec
CONSTANTS
  Requests = {q1, q2}
  Commands = {c1}
  Keys = {k}
  Nothing = nothing
  MaxApprovals = 1
INVARIANT
  VerdictLands
CHECK_DEADLOCK FALSE
