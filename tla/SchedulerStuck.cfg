SPECIFICATION FairSpec
CONSTANTS
  t1 = t1
  t2 = t2
  s1 = s1
  s2 = s2
  e1 = e1
  e2 = e2
  NoScheduler = NoScheduler
  Never = Never
  Trigger = {t1}
  Interval <- Every1
  Policy <- Skips
  FiredBefore = {t1}
  Scheduler = {s1}
  QueueLimit = 3
  BatchLimit = 2
  Editor = {e1, e2}
  EditSpan = 2
  MaxClock = 1
  MaxEdits = 3
  MaxManual = 0
  MaxDeaths = 0
  MaxFaults = 0
PROPERTIES
  DueSlotPasses
CHECK_DEADLOCK FALSE
