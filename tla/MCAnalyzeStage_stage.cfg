SPECIFICATION StageSpec
CONSTANTS
  Symbols = {}
  Requests = {}
  Named <- MCNamed
  MaxRounds = 2
  MaxRequests = 1
  ApplyFixes = TRUE
  None = none
  e1 = e1
  e2 = e2
  e3 = e3
  Endpoints = {e1, e2, e3}
  Provider <- MCProvider
  Ladder <- MCLadder
  Thinking = {e1}
  Broken = {e2}
  MaxCalls = 1
  TokenLimit = TRUE
INVARIANTS
  ReplyKept
  FailoverExhausts
PROPERTY
  StageEnds
CHECK_DEADLOCK FALSE
