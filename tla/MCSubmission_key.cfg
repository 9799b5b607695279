SPECIFICATION Spec
CONSTANTS
  Requests = {q1, q2, q3}
  Prints = {a, b}
  NoRun = norun
SYMMETRY Symmetric
INVARIANTS
  AnswerMatchesBody
  LaterStartsNothing
  NotSentToEvicted
CHECK_DEADLOCK FALSE
