--------------------------- MODULE ClusterGeometry ---------------------------
(***************************************************************************)
(* Distances in a detector graph, as the clustering code of                *)
(* sparse_blossom/parallel caches them (ProcessingClusterGraphCache), and  *)
(* the components of a set of active detectors under a buffer bound.       *)
(*                                                                         *)
(* A graph is a record: edge maps pairs of detectors to weights, boundary  *)
(* maps a detector to the weight of its edge to the boundary.  Dijkstra's  *)
(* runs are abstracted to what they return, the shortest distance.         *)
(***************************************************************************)
EXTENDS Integers, FiniteSets, FiniteSetsExt, Functions

CONSTANTS
  Nodes,      \* the detectors, numbered as in MatchingGraph::nodes
  Inf,        \* GROWING_ONLY_INF_DISTANCE
  Graphs      \* the graphs a program may be given

\* No weight is negative: the clusterer sees the graph after negative weights were turned around.
IsGraph(g) ==
  /\ \A e \in DOMAIN g.edge : g.edge[e] \in Nat /\ \E a, b \in Nodes : e = {a, b}
  /\ \A v \in DOMAIN g.boundary : g.boundary[v] \in Nat /\ v \in Nodes

ASSUME GeometryAssumption ==
  /\ Nodes \subseteq Nat /\ IsFiniteSet(Nodes)
  /\ Inf \in Nat
  /\ \A g \in Graphs : IsGraph(g)

\* No way through the graph or to its boundary is so long that it is taken for none (weights have
\* 24 bits, GROWING_ONLY_INF_DISTANCE has 61).
Short(g) ==
  /\ \A e \in DOMAIN g.edge : 2 * Cardinality(Nodes) * g.edge[e] < Inf
  /\ \A v \in DOMAIN g.boundary : 2 * g.boundary[v] < Inf

ASSUME LengthAssumption == \A g \in Graphs : Short(g)

Weight(g, a, b) == IF {a, b} \in DOMAIN g.edge THEN g.edge[{a, b}] ELSE Inf

Plus(a, b) == Min({Inf, a + b})

\* Shortest distances over at most k edges.
Within(g) ==
  LET d[k \in 0 .. Cardinality(Nodes)] ==
        IF k = 0 THEN [p \in Nodes \X Nodes |-> IF p[1] = p[2] THEN 0 ELSE Inf]
        ELSE [p \in Nodes \X Nodes |->
                Min({d[k-1][p]} \cup
                    {Plus(d[k-1][<<p[1], m>>], Weight(g, m, p[2])) :
                       m \in {n \in Nodes : {n, p[2]} \in DOMAIN g.edge}})]
  IN d

Distances(g) == Within(g)[Cardinality(Nodes) - 1]

\* Every node at a finite distance: one id for the nodes of a component.
ComponentIds(dist) == [v \in Nodes |-> Min({u \in Nodes : dist[v, u] < Inf})]

NearestBoundary(g, dist) ==
  [v \in Nodes |-> Min({Inf} \cup {Plus(dist[v, u], g.boundary[u]) : u \in DOMAIN g.boundary})]

Finite(dist) == {d \in Range(dist) : d < Inf}

Eccentricity(dist, v) == Max({dist[v, u] : u \in {w \in Nodes : dist[v, w] < Inf}})

\* Twice the eccentricity of the best landmark bounds the diameter of a component.  The first
\* landmark is the component's first node; which others there are depends on a traversal.
LandmarkBounds(dist) ==
  LET ids == ComponentIds(dist)
      Landmark(c) == {v \in Nodes : ids[v] = c /\ Eccentricity(dist, v) <= Eccentricity(dist, c)}
  IN {Max({2 * Eccentricity(dist, mark[c]) : c \in Range(ids)}) :
        mark \in {m \in [Range(ids) -> Nodes] : \A c \in Range(ids) : m[c] \in Landmark(c)}}

\* What the cache holds once a graph has been preprocessed.  Large graphs get no table of all
\* pairs; then the bound on the diameter is the landmarks' one, or none at all.  radius tells
\* whether radius neighbours are computed.
GraphCaches(g) ==
  LET dist == Distances(g)
      Cache(upper, allPairs, radius) ==
        [dist |-> dist, near |-> NearestBoundary(g, dist), id |-> ComponentIds(dist),
         edge |-> g.edge, boundary |-> g.boundary,
         upper |-> upper, allPairs |-> allPairs, radius |-> radius]
  IN {Cache(Max(Finite(dist)), TRUE, radius) : radius \in BOOLEAN}
     \cup {Cache(upper, FALSE, radius) : upper \in LandmarkBounds(dist) \cup {Inf}, radius \in BOOLEAN}

-----------------------------------------------------------------------------
\* The members of S that a path of steps in R leads to from a.
ReachFrom(a, S, R) ==
  {b \in S : \A T \in SUBSET S :
     (a \in T /\ \A x \in T, y \in S : <<x, y>> \in R => y \in T) => b \in T}

\* Half of the table of distances is stored.
Apart(dist, a, b) == IF a <= b THEN dist[<<a, b>>] ELSE dist[<<b, a>>]

Links(dist, S, buffer) == {p \in S \X S : Apart(dist, p[1], p[2]) <= buffer}

\* The components of S when detectors at most buffer apart are linked: what every path of the
\* clusterer is meant to find.
ThresholdComponents(dist, S, buffer) ==
  {ReachFrom(a, S, Links(dist, S, buffer)) : a \in S}

InteriorComponents(id, S) == {{b \in S : id[b] = id[a]} : a \in S}

Diameter(dist, S) == Max({0} \cup {dist[p] : p \in S \X S})

\* The least bound that connects S: the longest edge of its minimum spanning tree.
Bottleneck(dist, S) ==
  Min({b \in {0} \cup {dist[p] : p \in S \X S} :
         ReachFrom(Min(S), S, Links(dist, S, b)) = S})

\* A perfect matching of S exists inside each component or over its boundary.
Solvable(cache, S) ==
  \A C \in InteriorComponents(cache.id, S) :
    Cardinality(C) % 2 = 0 \/ \E a \in C : cache.near[a] < Inf
=============================================================================
