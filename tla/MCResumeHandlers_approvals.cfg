SPECIFICATION Spec
CONSTANTS
  Requests = {q1, q2, q3}
  Commands = {c1, c2}
  Keys = {k}
  Nothing = nothing
  MaxApprovals = 2
SYMMETRY Symmetry
INVARIANTS
  RunsWhatWasApproved
  LaterAnswerRunsNothing
  
CHECK_DEADLOCK FALSE
