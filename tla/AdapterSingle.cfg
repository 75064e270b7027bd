SPECIFICATION Spec
CONSTANTS
  Events = {e1, e2, e3, e4}
  Mode = "single"
  BatchSize = 1
  Concurrency = 2
  HighWater = 1
  OverflowPolicy = "drop_oldest"
  MaxRetries = 1
  FailureThreshold = 2
  HalfOpenMaxProbes = 1
SYMMETRY EventSymmetry
INVARIANTS
  TypeOK
  EveryEventOnce
  SlotsExact
  Breaker
  Drained
  BacklogBounded
