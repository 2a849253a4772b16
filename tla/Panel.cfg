SPECIFICATION PanelSpec
CONSTANTS
  Configs <- MCConfigs
  Dests <- MCDests
  MeterTags <- MCMeterTags
  Clients = {r1, r2}
  Nobody = nobody
  Sources = {s1, s2}
  MaxFailures = 2
  Window = 1
  LockTime = 3
  MaxEntries = 1
  Skew = 1
  MaxClock = 3
  MaxCalls = 4
  MaxSlips = 1
  Job = job
  Manual = manual
  NoOne = noone
  Samples = 1
  MaxTruncated = 2
  MaxEvents = 2
  MaxRequests = 3
  MaxLines = 4
  Times = {1, 2}
  MaxReadCells = 4
  MaxFileCells = 3
  BatchSize = 1
  MaxMishaps = 2
  Conns = {c4, c6}
  Six = {c6}
  Address <- MCAddress
  MaxBytes = 2
  MaxPendingKeys = 1
  ClosedRetention = 1
  GoneRetention = 1
  MaxSamples = 3
  MaxFailures6 = 1
  Callers = {1, 2}
  SixCallers = {1}
  Quotas = {0, 1}
  Terms = {0, 1}
  Forever = forever
  IdleAfter = 1
  MaxSampleGap = 1
  MaxRound = 1
  MaxInbounds = 2
  Budgets <- MCBudgets
  Versions = {v1, v2, v3}
  Routeless = {v1}
  Refusing = {v3}
  Down = down
  MaxPolls = 3
  MaxTries = 2
  MaxTroubles = 2
  Interval = 2
  StaleAfter = 4
  MaxInstant = 6
  MaxAsks = 4
  MaxAnswer = 2
  MaxWaiting = 3
CHECK_DEADLOCK FALSE
INVARIANTS PanelTypeOK NothingRefused HotEqualsRestart RoutesInBetween MetersChangeNothing
INVARIANTS CodeOnce GreenIsVerified AuditNotSkipped EveryLineOnce BytesOnce BanHolds UpgradeTold SummaryTold
PROPERTIES LockHolds LatecomersOnly
