SPECIFICATION FairSpec
CONSTANTS
  Events = {e1, e2, e3}
  Mode = "batch"
  BatchSize = 2
  Concurrency = 1
  HighWater = 2
  OverflowPolicy = "drop_new"
  MaxRetries = 1
  FailureThreshold = 1
  HalfOpenMaxProbes = 1
INVARIANTS
  Accounting
  StopLeavesNothingQueued
  InOrder
PROPERTIES
  AllSettle
