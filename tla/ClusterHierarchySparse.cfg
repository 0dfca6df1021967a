SPECIFICATION Spec
CONSTANTS
  Nodes = {1, 2, 3, 4}
  Inf = 99
  Graphs <- MCGraphs
  Schedules <- MCSchedules
  Forcing = {TRUE}
  Modes = {"default"}
  SparseLists = TRUE
INVARIANTS AcceptedAreIsolated
CHECK_DEADLOCK FALSE
