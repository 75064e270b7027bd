SPECIFICATION StreamSpec
CONSTANTS
  boss = boss
  clerk = clerk
  robot = robot
  new1 = new1
  f1 = f1
  f2 = f2
  Nil = Nil
  System = System
  Staff <- MCStaff
  Recruits = {new1}
  MaxFanout = 2
  MaxGrants = 1
  MaxSagas = 1
  MaxThreats = 1
  MaxRuns = 2
INVARIANT
  StepsStayDistinct
CHECK_DEADLOCK FALSE
