SPECIFICATION FairSpec
CONSTANTS
  Runs = {r1}
  Files = {f1, f2}
  Developer = developer
  Nothing = nothing
  Requested = {"isolated", "in_place", "unisolated"}
  MaxRounds = 2
  Backups = TRUE
  SamePath = FALSE
INVARIANTS
  TypeOK
  SyncedAsJudged
  SuccessIsComplete
  RollbackRestores
PROPERTIES
  ScopedEditsKept
  RunEnds
CHECK_DEADLOCK FALSE
