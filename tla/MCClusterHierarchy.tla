-------------------------- MODULE MCClusterHierarchy -------------------------
(***************************************************************************)
(* Small detector graphs and schedules of bounds.                          *)
(***************************************************************************)
EXTENDS ClusterHierarchy, TLC

Graph(edge, boundary) == [edge |-> edge, boundary |-> boundary]

MCGraphs ==
  { \* a line with its boundary at one end
    Graph({1, 2} :> 2 @@ {2, 3} :> 4 @@ {3, 4} :> 2, 1 :> 2),
    \* a line numbered out of order, so that later sources meet earlier ones
    Graph({1, 3} :> 2 @@ {2, 3} :> 2 @@ {2, 4} :> 4, 4 :> 4),
    \* a ring with a weightless edge and no boundary
    Graph({1, 2} :> 0 @@ {2, 3} :> 2 @@ {3, 4} :> 4 @@ {1, 4} :> 2, <<>>),
    \* a star whose centre may be inactive
    Graph({1, 2} :> 2 @@ {1, 3} :> 2 @@ {1, 4} :> 4, 2 :> 4 @@ 4 :> 2),
    \* two components, one without boundary
    Graph({1, 3} :> 2 @@ {2, 4} :> 7, 3 :> 2) }

Plain(d, b) == [diameter |-> d, buffer |-> b, cap |-> 0, certified |-> FALSE]
Certified(d, b) == [diameter |-> d, buffer |-> b, cap |-> 0, certified |-> TRUE]
Capped(d, b, cap) == [diameter |-> d, buffer |-> b, cap |-> cap, certified |-> TRUE]

\* Buffers grow with the level.
MCSchedules ==
  { <<Certified(2, 2), Certified(4, 4), Certified(8, 8)>>,
    <<Plain(0, 1), Plain(2, 4)>>,
    <<Capped(4, 4, 2), Certified(4, 6)>>,
    <<Certified(1, 1), Certified(2, 8)>>,
    <<Certified(2, 8), Certified(4, 10)>>,
    <<Certified(6, 3), Plain(6, 6)>> }
=============================================================================
