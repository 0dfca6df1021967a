------------------------ MODULE MCThresholdHierarchy ------------------------
(***************************************************************************)
(* Small detector graphs and schedules for the threshold hierarchy.        *)
(***************************************************************************)
EXTENDS ThresholdHierarchy, TLC

Graph(edge, boundary) == [edge |-> edge, boundary |-> boundary]

MCGraphs ==
  { \* a line with its boundary at one end
    Graph({1, 2} :> 2 @@ {2, 3} :> 4 @@ {3, 4} :> 2 @@ {4, 5} :> 4, 1 :> 2),
    \* a line numbered out of order, with a boundary in the middle
    Graph({1, 3} :> 2 @@ {3, 5} :> 2 @@ {2, 5} :> 4 @@ {2, 4} :> 2, 5 :> 4),
    \* a ring with a weightless edge
    Graph({1, 2} :> 0 @@ {2, 3} :> 2 @@ {3, 4} :> 4 @@ {4, 5} :> 2 @@ {1, 5} :> 4, 3 :> 2),
    \* two components, one without boundary
    Graph({1, 3} :> 2 @@ {2, 4} :> 6 @@ {4, 5} :> 2, 3 :> 2),
    \* a line whose parts are far from each other
    Graph({1, 2} :> 2 @@ {2, 3} :> 40 @@ {3, 4} :> 16 @@ {4, 5} :> 2, 1 :> 2 @@ 5 :> 4),
    \* a line that is decoded from one end to the other, a level at a time
    Graph({1, 2} :> 2 @@ {2, 3} :> 4 @@ {3, 4} :> 4 @@ {4, 5} :> 2, 1 :> 2 @@ 3 :> 4 @@ 5 :> 8) }

Bounds(d, b) == [diameter |-> d, buffer |-> b, cap |-> 0]
Capped(d, b, cap) == [Bounds(d, b) EXCEPT !.cap = cap]

Given(bounded) == [kind |-> "given", given |-> bounded]

\* Buffers do not shrink with the level.
GivenSchedules ==
  { Given(<<Bounds(2, 2), Bounds(4, 4), Bounds(8, 8)>>),
    Given(<<Bounds(2, 2), Bounds(2, 4), Bounds(6, 6), Bounds(12, 24)>>),
    Given(<<Capped(2, 4, 2), Bounds(2, 4), Bounds(6, 8)>>),
    Given(<<Bounds(0, 4), Bounds(2, 4), Bounds(4, 4)>>) }

\* What the policies have in common; no floor and no budgets.
Policy(kind, first, levels) ==
  [kind |-> kind, first |-> first, levels |-> levels, ratio |-> One, firstOnly |-> FALSE,
   floor |-> <<0, 1>>, budgets |-> <<>>, gap |-> FALSE, candidates |-> <<>>, additive |-> 0,
   phi2 |-> One, decay |-> One, truncate |-> FALSE, evenCaps |-> FALSE]

Budgeted(p, floor, budget) ==
  [p EXCEPT !.floor = floor, !.budgets = [k \in 1 .. p.levels |-> budget]]

\* A floor of phi and a budget per level, as the benchmark pairs them.
Floors == {<< <<1, 2>>, <<1, 4>> >>, << <<1, 4>>, <<1, 3>> >>}

Ratios(ps) ==
  {[p EXCEPT !.ratio = r, !.firstOnly = o] : p \in ps, r \in {One, <<11, 5>>, <<9, 1>>}, o \in BOOLEAN}

Candidates ==
  {[Policy("candidates", 0, 3) EXCEPT !.candidates = c, !.gap = g] :
     c \in {<<1, 2, 3, 4>>, <<2, 4, 6, 8>>, <<1, 30, 70, 95, 300>>}, g \in BOOLEAN}

Least == {Policy("least", first, 3) : first \in 1 .. 4}

\* Allocations of what the floor leaves, to all levels but the last.
Final ==
  {[Policy("final", first, Len(budgets) + 1) EXCEPT !.floor = <<1, 4>>, !.budgets = budgets] :
     first \in 1 .. 3,
     budgets \in {<<>>, << <<1, 2>> >>, << <<1, 8>> >>, << <<1, 4>>, <<1, 4>> >>, << <<1, 2>>, <<1, 4>> >>}}

\* phi2 is floor + (1 - floor) q.
Parameterised(first, floor, q) ==
  [Policy("sequence", first, 2) EXCEPT
     !.floor = floor, !.decay = q, !.phi2 = Add(floor, Multiply(Subtract(One, floor), q)),
     !.additive = 2 * (first - 1), !.truncate = TRUE, !.evenCaps = TRUE]

PhiSequences ==
  {Parameterised(first, floor, q) : first \in 1 .. 4, floor \in {<<1, 4>>, <<1, 2>>},
                                    q \in {<<1, 4>>, <<1, 2>>}}
  \cup {Parameterised(1499, <<1, 4>>, <<1, 4>>)}   \* clamped at the first level

MCPolicies ==
  GivenSchedules \cup PhiSequences \cup Final
  \cup Ratios(Candidates \cup Least
                \cup {Budgeted(p, f[1], f[2]) : p \in Candidates \cup Least, f \in Floors})

\* A schedule that is built and whose levels tell the last graph's parts apart.
MCDeployed ==
  GivenSchedules
  \cup {Budgeted([Policy("candidates", 0, 3) EXCEPT !.candidates = <<2, 4, 6, 8>>],
                  <<1, 4>>, <<1, 3>>)}
=============================================================================
