SPECIFICATION FairSpec
CONSTANTS
  u1 = u1
  e1 = e1
  e2 = e2
  AD = AD
  EX = EX
  SAP = SAP
  Generic = Generic
  None = None
  Users = {u1}
  Entitlements = {e1, e2}
  Lanes = {AD, EX, SAP, Generic}
  LaneConcurrency <- MCLaneConcurrency
  SystemLane <- MCSystemLane
  Toxic <- MCToxic
  Tasks <- MCTasks
  PrimaryLane = AD
  MailboxLane = EX
  DefaultLane = Generic
  Keys <- EventKeys
  Requests <- AllEventRequests
  Streamed <- EventStream
  SimulateLatency = TRUE
  Capacity = 2
  HighWater = 2
  MaxCopies = 2
  MaxDeliveries = 3
  MaxOpen = 1
  MaxResets = 1
INVARIANTS
  TypeOK
  DedupWindow
  HeldFollowsEvents
  SodComplete
  ProvisionedExactly
  DepthBounded
PROPERTY
  Drains
CHECK_DEADLOCK FALSE
