SPECIFICATION Spec
CONSTANTS
  Nodes = {1, 2, 3, 4}
  Inf = 99
  Graphs <- MCGraphs
  Schedules <- MCSchedules
  Forcing = {TRUE, FALSE}
  Modes = {"default", "exact", "keep", "pairs", "table"}
  SparseLists = FALSE
INVARIANTS TypeOK Conserved UnitesInOrder ClustersAreSolvable
PROPERTIES KeepsLevelRule HierarchyCompletes
CHECK_DEADLOCK FALSE
