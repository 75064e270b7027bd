SPECIFICATION Spec
CONSTANTS
  Events = {e1, e2}
  Mode = "batch"
  BatchSize = 1
  Concurrency = 1
  HighWater = 2
  OverflowPolicy = "block"
  MaxRetries = 0
  FailureThreshold = 1
  HalfOpenMaxProbes = 1
INVARIANTS
  FlushDrains
