SPECIFICATION Spec
CONSTANTS
  MaxEmployees = 3
  SeedSize = 2
  Seeds <- MCSeeds
  Profiles <- MCProfiles
  SeededPairs <- MCPairs
  None = None
  MaxFanout = 8
  MaxEvents = 4
INVARIANTS
  SamplesActive
  AccessExact
  Hierarchy
  TargetFollows
PROPERTY
  LegalMoves
CHECK_DEADLOCK FALSE
