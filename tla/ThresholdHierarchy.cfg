SPECIFICATION Spec
CONSTANTS
  Nodes = {1, 2, 3, 4, 5}
  Inf = 9999
  Graphs <- MCGraphs
  Policies <- MCPolicies
  Deployed <- MCDeployed
  MaxDistance = 5000
  Forcing = {TRUE, FALSE}
  SingleRoots = {TRUE, FALSE}
INVARIANTS TypeOK ScheduleKeepsItsPromise OneRootOwnsAll AcceptedAreApart RegionsNest SolvableWhereItRuns
CHECK_DEADLOCK FALSE
