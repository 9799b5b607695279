SPECIFICATION FairSpec
CONSTANTS
  stdout = stdout
  stderr = stderr
  http = http
  s1 = s1
  s2 = s2
  Pumps = {stdout, stderr}
  Worker = worker
  Callers = {http}
  Streams = {s1, s2}
  Puts = 3
  Casts <- MCCasts
  LogLimit = 3
  QueueMax = 2
INVARIANTS
  TypeOK
  LiveOnce
  FinishedIsLast
  NoGap
PROPERTIES
  StreamEnds
CHECK_DEADLOCK FALSE
