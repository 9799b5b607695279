SPECIFICATION Spec
CONSTANTS
  Runs = {r1, r2}
  Workers = {w1, w2}
  Clients = {c1}
  Main = main
  NoRun = norun
  MaxQueue = 1
  RunTimeout = TRUE
  BadArgs = {r1, r2}
  Deaf = {}
  Leaky = {}
  Outcomes = {"done"}
  Faults = {"pipe"}
  MayStop = TRUE
SYMMETRY Symmetric
INVARIANTS
  CountersExact
  AtMostOncePerRun
  CancelReachesProcess
  CliHasWorker
  CanceledResultIsFinal
PROPERTIES
  ResultStable
CHECK_DEADLOCK FALSE
