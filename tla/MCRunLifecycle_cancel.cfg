SPECIFICATION FairSpec
CONSTANTS
  Runs = {r1}
  Workers = {w1}
  Clients = {c1, c2}
  Main = main
  NoRun = norun
  MaxQueue = 1
  RunTimeout = FALSE
  BadArgs = {r1}
  Deaf = {r1}
  Leaky = {r1}
  Outcomes = {"done", "error"}
  Faults = {"spawn", "pipe", "thread", "report"}
  MayStop = TRUE
PROPERTIES
  CancelHonoured
CHECK_DEADLOCK FALSE
