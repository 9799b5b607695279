SPECIFICATION FairSpec
CONSTANTS
  Runs = {r1, r2, r3}
  Workers = {w1, w2}
  Clients = {}
  Main = main
  NoRun = norun
  MaxQueue = 1
  RunTimeout = TRUE
  BadArgs = {r1}
  Deaf = {r2}
  Leaky = {r2}
  Outcomes = {"verification_pending"}
  Faults = {"thread"}
  MayStop = FALSE
PROPERTIES
  AcceptedSettles
  ImplementsBoundedPool
CHECK_DEADLOCK FALSE
