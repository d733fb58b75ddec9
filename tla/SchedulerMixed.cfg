SPECIFICATION FairSpec
CONSTANTS
  t1 = t1
  t2 = t2
  s1 = s1
  s2 = s2
  e1 = e1
  e2 = e2
  NoScheduler = NoScheduler
  Never = Never
  Trigger = {t1, t2}
  Interval <- Every1
  Policy <- Mixed
  FiredBefore = {t2}
  Scheduler = {s1, s2}
  QueueLimit = 3
  BatchLimit = 2
  Editor = {e1}
  EditSpan = 1
  MaxClock = 3
  MaxEdits = 0
  MaxManual = 0
  MaxDeaths = 0
  MaxFaults = 1
INVARIANTS
  TypeOK
  SlotOnce
  PolicyKept
PROPERTIES
  FiredOnce
  DueSlotPasses
CHECK_DEADLOCK FALSE
