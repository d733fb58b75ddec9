SPECIFICATION Spec
CONSTANTS
  w1 = w1
  w2 = w2
  m1 = m1
  m2 = m2
  NoMessage = NoMessage
  NoServer = NoServer
  Message = {m1, m2}
  Server = {s1}
  Worker = {w1, w2}
  Operator = {o1}
  MaxAttempts = 2
  MaxRequests = 1
  MaxFaults = 0
SYMMETRY Interchangeable
INVARIANTS
  CancelIsTrue
CHECK_DEADLOCK FALSE
