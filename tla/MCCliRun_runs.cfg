SPECIFICATION Spec
CONSTANTS
  Runs = {r1, r2, r3}
  c1 = c1
  c2 = c2
  p1 = p1
  p2 = p2
  Crashes = {c1, c2}
  Params = {p1, p2}
  Requests <- MCRequests
  MaxActive = 2
  None = none
SYMMETRY Symmetry
INVARIANTS
  ReplayIsSameRequest
  ReplayedPatchHeld
  AcceptedWasVerified
  DecisionsAgree
CHECK_DEADLOCK FALSE
