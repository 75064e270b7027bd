SPECIFICATION Spec
CONSTANTS
  u1 = u1
  e1 = e1
  e2 = e2
  AD = AD
  EX = EX
  SAP = SAP
  Generic = Generic
  None = None
  Users = {u1}
  Entitlements = {e1, e2}
  Lanes = {AD, EX, SAP, Generic}
  LaneConcurrency <- MCLaneConcurrency
  SystemLane <- MCSystemLane
  Toxic <- MCToxic
  Tasks <- MCTasks
  PrimaryLane = AD
  MailboxLane = EX
  DefaultLane = Generic
  Keys <- CopyKeys
  Requests <- CopyRequests
  Streamed <- NoStream
  SimulateLatency = FALSE
  Capacity = 4
  HighWater = 4
  MaxCopies = 2
  MaxDeliveries = 3
  MaxOpen = 1
  MaxResets = 0
INVARIANT
  MembersAreHeld
CHECK_DEADLOCK FALSE
