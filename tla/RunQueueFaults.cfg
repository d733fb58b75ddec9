SPECIFICATION FairSpec
CONSTANTS
  w1 = w1
  w2 = w2
  p1 = p1
  p2 = p2
  NoRun = NoRun
  NoProcess = NoProcess
  Run = {1, 2}
  Watched = {}
  FlowOf <- OwnFlows
  HostOf <- Together
  Process = {p1}
  Worker = {w1, w2}
  Nodes = 1
  MaxStops = 0
  MaxDeaths = 1
  MaxFaults = 2
INVARIANTS
  SoleExecutor
  NeverRestarted
  Consistent
PROPERTIES
  KeepsTheLedger
  EveryJobCloses
CHECK_DEADLOCK FALSE
