SPECIFICATION FairSpec
CONSTANTS
  Runs = {r1, r2}
  Timed = {r1}
  None = None
  MaxEvents = 1
  StopWhileStarting = FALSE
INVARIANTS
  TypeOK
  OnlyActive
  SummariesTrue
PROPERTIES
  RowsStaySettled
  RunsEnd
