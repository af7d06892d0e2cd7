\* Around the sales, two requests at a time of each part.
CONSTANTS
  t1 = t1
  t2 = t2
  Carts = {1, 2}
  Uuids = {t1, t2}
  NoUuid = NoUuid
  OfflineSales = {x1, x2}
  Handlers = {t1, t2}
  MaxTries = 1
  BatchIsValid = TRUE
  Routes = {a, b}
  Fetches = {t1, t2}
  Loads = {l1}
  MaxVersions = 2
  MaxData = 1
  MaxTokens = 2
  Guards = {g1}
  CashierUsers = {c1}
  AdminUsers = {a1}
  Addresses = {i1}
  Logins = {t1, t2}
  Threshold = 1
  MaxCount = 2
  MaxCodes = 1
  Senders = {l1}
  Checks = {t1, t2}
  Visits = {t1, t2}
  Limit = 2
  Window = 2
  MaxTime = 4
  MaxFlips = 2
  Letters = {d1}
  Helpers = {t1, t2}
  SyncJobs = {t1, t2}
  MaxAttempts = 2
  MaxRetried = 2
  FlagNames = {f1}
  Readers = {t1, t2}
  Togglers = {t1, t2}
  MaxToggles = 3
  MaxSent = 2
  MaxContent = 1
  NoticeShifts = {s1}
  Ahead = 2
  Grace = 1
  MaxQuarters = 4
  FirstMonth = 11
  MaxMonths = 1
  Monitors = {t1, t2}
  Containers = {k1}
  AlertThreshold = 2
  MaxBad = 2
  Backups = {t1, t2}
  Own = Own
  MaxRestores = 1
  Outlets = {q1, q2}
  NoOutlet = NoOutlet
  TillCalls = {t1, t2}
  Members = {b1, b2}
  NoMember = NoMember
  PointCalls = {t1, t2}
SPECIFICATION HouseSpec
SYMMETRY HouseSymmetry
CHECK_DEADLOCK FALSE
INVARIANTS
  HouseTypeOK
  TillSellsOnce
  QueueIsKept
  SessionsEnd
  GuessesAreLimited
  HandledOnce
  ListIsCurrent
  PeopleAreTold
  BackupsAreWhole
PROPERTY
  CopiesAreTrue
