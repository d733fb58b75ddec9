SPECIFICATION Spec
CONSTANTS
  w1 = w1
  w2 = w2
  p1 = p1
  p2 = p2
  NoRun = NoRun
  NoProcess = NoProcess
  Run = {1, 2}
  Watched = {}
  FlowOf <- OneFlow
  HostOf <- Together
  Process = {p1}
  Worker = {w1, w2}
  Nodes = 1
  MaxStops = 0
  MaxDeaths = 0
  MaxFaults = 0
INVARIANTS
  FlowSerialised
CHECK_DEADLOCK FALSE
