SPECIFICATION Spec
CONSTANTS
  u1 = u1
  e1 = e1
  e2 = e2
  AD = AD
  EX = EX
  SAP = SAP
  Generic = Generic
  None = None
  Users = {u1}
  Entitlements = {e1, e2}
  Lanes = {AD, EX, SAP, Generic}
  LaneConcurrency <- MCLaneConcurrency
  SystemLane <- MCSystemLane
  Toxic <- MCToxic
  Tasks <- MCTasks
  PrimaryLane = AD
  MailboxLane = EX
  DefaultLane = Generic
  Keys <- ScimKeys
  Requests <- ScimRequests
  Streamed <- NoStream
  SimulateLatency = FALSE
  Capacity = 1
  HighWater = 3
  MaxCopies = 2
  MaxDeliveries = 4
  MaxOpen = 2
  MaxResets = 0
INVARIANTS
  PatchedMembersAreHeld
CHECK_DEADLOCK FALSE
