SPECIFICATION Spec
CONSTANTS
  Runs = {r1, r2, r3}
  Timed = {}
  None = None
  MaxEvents = 0
  StopWhileStarting = TRUE
SYMMETRY RunSymmetry
INVARIANTS
  OneRunSubscribed
