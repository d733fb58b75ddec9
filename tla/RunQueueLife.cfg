SPECIFICATION FairSpec
CONSTANTS
  w1 = w1
  w2 = w2
  p1 = p1
  p2 = p2
  NoRun = NoRun
  NoProcess = NoProcess
  Run = {1, 2}
  Watched = {}
  FlowOf <- OwnFlows
  HostOf <- Apart
  Process = {p1, p2}
  Worker = {w1, w2}
  Nodes = 1
  MaxStops = 1
  MaxDeaths = 1
  MaxFaults = 0
INVARIANTS
  TypeOK
  NoOrphanRun
  JobMatchesRun
  ReaperSparesLiving
  StopBeforeStart
PROPERTIES
  NeverTurnsGreen
  EveryRunSettles
CHECK_DEADLOCK FALSE
