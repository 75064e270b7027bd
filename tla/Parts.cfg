SPECIFICATION PartsSpec
CONSTANTS
  Planned <- MCPlanned
  Injections <- MCInjections
  Length <- MCLength
  Incidents <- MCIncidents
  Intervals = {1, 2}
  MaxConcurrent = 1
  MaxLive = 2
  Burst = 1
  Accel = 2
  MinGap = 1
  MaxGap = 2
  MaxPerTick = 2
  Delays = {1, 3}
  MaxWall = 5
  MaxControls = 2
  None = None
  Absent = Absent
  Nil = Nil
  System = System
  Staff <- MCStaff
  Recruits = {new1}
  MaxFanout = 2
  MaxGrants = 1
  MaxSagas = 2
  MaxThreats = 1
  MaxRuns = 1
  boss = boss
  clerk = clerk
  robot = robot
  new1 = new1
  f1 = f1
  f2 = f2
  w1 = w1
  w2 = w2
  u1 = u1
  u2 = u2
  e1 = e1
  srcA = srcA
  srcB = srcB
  Sources = {srcA, srcB}
  Threshold = 2
  FailureWindow = 2
  MaxKeys = 1
  MaxClock = 3
  MaxCalls = 5
  Nothing = Nothing
  Null = Null
  Width = 2
  Reservoir = 2
  Latencies = {1, 3}
  MaxSecond = 3
  MaxResults = 3
  RecentSize = 2
  TickerSize = 2
  Behind = 1
  MaxQueued = 2
  MaxEvents = 2
  Allowances <- MCAllowances
  MinInterval = 2
  MaxSamples = 1
  PruneEvery = 2
  Budgets <- MCBudgets
  Workers = {w1, w2}
  Backlogs <- MCBacklogs
  Targets <- MCTargets
  TicksPerSecond = 2
  Retryable = {401, 429}
  BaseDelay = 1
  MaxDelay = 1
  TokenTtls = {1}
  DefaultTtl = 300
  ExpirySkew = 0
  EtagLimit = 2
  LetterCapacity = 2
  MaxTime = 2
SYMMETRY Slots
INVARIANTS
  ChaosBounded
  RateCeiling
  Paced
  SentTruly
  SagasSound
  ShowsTruth
  ShedsRightly
  MetricsTrue
  RecordsTrue
PROPERTY
  MixFollows
CHECK_DEADLOCK FALSE
