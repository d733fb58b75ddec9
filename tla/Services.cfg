CONSTANTS
  e1 = e1
  e2 = e2
  report = report
  Exports = {e1, e2}
  ExportWorkers = {w1}
  BatchCount = 2
  WantedName <- SameName
  MaxSuffix = 1
  MaxBatchAttempts = 2
  MaxDeaths = 1
  MaxTroubles = 1
  ReaperMayDie = FALSE
  NoFile = NoFile
  Fragment = Fragment
  NoExport = NoExport
  ka = ka
  kb = kb
  kc = kc
  SourceSize = 5
  PageSize = 2
  BatchSize = 3
  MaxPages = 4
  MaxRecords = 5
  Rules <- VendorRules
  NoToken = NoToken
  NaturalKeys = {ka, kb, kc}
  KeyOf <- FiveRecords
  Operations = {"plain", "idempotent", "header"}
  Parallel = 2
  MaxSendAttempts = 2
  MaxMishaps = 2
  MaxPasses = 3
  MaxSyncRuns = 2
  Refreshers = {n1, n2}
  Rotations = {TRUE, FALSE}
  MaxIssued = 2
  MaxHitches = 2
  NoRefresher = NoRefresher
  Senders = {s1, s2}
  Capacity = 2
  TokenUnits = 3
  MaxClock = 7
  front = front
  orders = orders
  mail = mail
  number = number
  found = found
  Flow = {front, orders, mail}
  Root = front
  Saves <- ShopSaves
  Name = {number, found}
  Nothing = Nothing
  Option = {"look", "leave", "other"}
  Turn = {v1}
  MaxInternalHops = 8
  MaxCallDepth = 3
  MaxMessages = 4
  MaxEdits = 2
  MaxLosses = 1
SPECIFICATION ServicesSpec
INVARIANTS
  ServicesTypeOK
  ServedFileIsWhole
  ExportFollowsJob
  ReadsInOrder
  CompleteIsAll
  NoUnexplainedCopy
  KnownExists
  RecordsAccounted
  OneExchange
  StoredTokenWorks
  WithinAllowance
  RowIsOnePlace
  ScopesApart
PROPERTIES
  EveryExportJobEnds
CHECK_DEADLOCK FALSE
