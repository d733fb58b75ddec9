SPECIFICATION Spec
CONSTANTS
  t1 = t1
  t2 = t2
  s1 = s1
  s2 = s2
  e1 = e1
  e2 = e2
  NoScheduler = NoScheduler
  Never = Never
  Trigger = {t1}
  Interval <- Every2
  Policy <- Queues
  FiredBefore = {t1}
  Scheduler = {s1, s2}
  QueueLimit = 2
  BatchLimit = 2
  Editor = {e1}
  EditSpan = 0
  MaxClock = 6
  MaxEdits = 2
  MaxManual = 1
  MaxDeaths = 1
  MaxFaults = 0
SYMMETRY Interchangeable
INVARIANTS
  SlotAccounted
  OneRunPerInterval
PROPERTIES
  KeepsTheTimetable
CHECK_DEADLOCK FALSE
