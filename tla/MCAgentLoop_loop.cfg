SPECIFICATION Spec
CONSTANTS
  s1 = s1
  s2 = s2
  s3 = s3
  s4 = s4
  s5 = s5
  Symbols = {s1, s2, s3, s4, s5}
  Requests <- MCRequests
  Named <- MCNamed
  MaxRounds = 4
  MaxRequests = 2
  ApplyFixes = TRUE
  None = none
INVARIANTS
  FinalWasAnnounced
  RequestedStaysReadable
  AnalysisKept
  FeedbackReachesModel
CHECK_DEADLOCK FALSE
