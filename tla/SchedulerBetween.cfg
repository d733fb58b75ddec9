SPECIFICATION Spec
CONSTANTS
  t1 = t1
  t2 = t2
  s1 = s1
  s2 = s2
  e1 = e1
  e2 = e2
  NoScheduler = NoScheduler
  Never = Never
  Trigger = {t1}
  Interval <- Every1
  Policy <- Cancels
  FiredBefore = {}
  Scheduler = {s1}
  QueueLimit = 3
  BatchLimit = 2
  Editor = {e1}
  EditSpan = 1
  MaxClock = 3
  MaxEdits = 0
  MaxManual = 0
  MaxDeaths = 1
  MaxFaults = 0
INVARIANTS
  SlotAccounted
CHECK_DEADLOCK FALSE
