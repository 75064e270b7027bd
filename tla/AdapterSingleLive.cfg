SPECIFICATION FairSpec
CONSTANTS
  Events = {e1, e2}
  Mode = "single"
  BatchSize = 1
  Concurrency = 2
  HighWater = 1
  OverflowPolicy = "drop_oldest"
  MaxRetries = 1
  FailureThreshold = 1
  HalfOpenMaxProbes = 1
PROPERTIES
  AllSettle
  KeepsContract
