---------------------------- MODULE MatchingGraph ----------------------------
(***************************************************************************)
(* What becomes of a user graph (driver/user_graph.cc): the graph that the *)
(* flooder grows regions on (flooder/graph.cc), and the one that paths are *)
(* searched on (search/search_graph.cc).  Both can be reweighted for one   *)
(* decode and put back (edge correlations).                                *)
(*                                                                         *)
(* A user graph p has detectors, some of which are nodes of the boundary,  *)
(* edges in the order in which they were added, and rules: if the edge     *)
(* cause has an error then effect weighs less.  Weights are as iter_-      *)
(* discretized_edges makes them: even integers.                            *)
(***************************************************************************)
EXTENDS Integers, Sequences, SequencesExt, FiniteSetsExt, TLC

None == 0           \* the null pointer, and the boundary
Never == 1000000    \* no wish: later than every time of an instance

Magnitude(w) == IF w < 0 THEN -w ELSE w

-----------------------------------------------------------------------------
(* The user graph.                                                         *)

\* add_or_merge_edge with the strategy SMALLEST_WEIGHT: an edge that is there
\* already takes weight and observables of a lighter one.
AddOrMergeEdge(edges, e) ==
    LET same == {i \in DOMAIN edges : {edges[i].u, edges[i].v} = {e.u, e.v}} IN
    IF same = {} THEN Append(edges, e)
    ELSE [i \in DOMAIN edges |->
            IF i \in same /\ e.weight < edges[i].weight
            THEN [edges[i] EXCEPT !.weight = e.weight, !.obs = e.obs] ELSE edges[i]]

\* Every edge comes with the weights that an error on it implies for others.
UserEdges(p) ==
    LET edges == FoldLeft(AddOrMergeEdge, <<>>, p.edges)
        Implied(e) == {rule \in p.rules : rule.cause = {e.u, e.v}} IN
    [i \in DOMAIN edges |-> [implied |-> SetToSeq(Implied(edges[i]))] @@ edges[i]]

IsBoundary(p, n) == n = None \/ n \in p.boundaryNodes

\* Edges between detectors; those between nodes of the boundary are dropped.
InnerEdges(p) ==
    SelectSeq(UserEdges(p), LAMBDA e : ~IsBoundary(p, e.u) /\ ~IsBoundary(p, e.v))

\* Of the edges from a detector to nodes of the boundary the lightest is kept,
\* the first of those; it is an edge to the boundary.
BoundaryEdges(p) ==
    LET edges == UserEdges(p)
        Inner(e) == IF IsBoundary(p, e.v) THEN e.u ELSE e.v
        Of(n) == {i \in DOMAIN edges : /\ IsBoundary(p, edges[i].u) # IsBoundary(p, edges[i].v)
                                       /\ Inner(edges[i]) = n}
        Kept(n) == CHOOSE i \in Of(n) : \A j \in Of(n) :
                      \/ edges[i].weight < edges[j].weight
                      \/ edges[i].weight = edges[j].weight /\ i =< j
        nodes == SetToSortSeq({n \in p.detectors : Of(n) # {}}, <) IN
    [k \in DOMAIN nodes |-> [edges[Kept(nodes[k])] EXCEPT !.u = nodes[k], !.v = None]]

-----------------------------------------------------------------------------
(* Both graphs: neighbours in the order of their edges, the boundary first, *)
(* and what previous weights there are to go back to.                       *)

EmptyGraph(nodes) == [neighbors |-> [n \in nodes |-> <<>>], previous |-> <<>>]

Neighbor(to, e) ==
    [to |-> to, weight |-> Magnitude(e.weight), obs |-> e.obs, implied |-> e.implied]

\* Self-loops are left out.
AddEdge(graph, e) ==
    [graph EXCEPT !.neighbors =
        CASE e.v = None -> [@ EXCEPT ![e.u] = <<Neighbor(None, e)>> \o @]
          [] e.u = e.v -> @
          [] OTHER -> [@ EXCEPT ![e.u] = Append(@, Neighbor(e.v, e)),
                                ![e.v] = Append(@, Neighbor(e.u, e))]]

IndexOfNeighbor(graph, n, to) ==
    Min({i \in DOMAIN graph.neighbors[n] : graph.neighbors[n][i].to = to})

\* The edges in the order in which they are put into either graph.
EdgesOf(p) == InnerEdges(p) \o BoundaryEdges(p)

\* An edge of negative weight is taken for granted: what it would flip is
\* flipped beforehand, and its weight is turned around.
ToMatchingGraph(p) ==
    LET negative == SelectSeq(EdgesOf(p), LAMBDA e : e.weight < 0)
        Flip(ends, e) == SymDiff(ends, SymDiff({e.u}, {e.v}) \ {None}) IN
    [boundaryNodes |-> p.boundaryNodes,
     negativeEvents |-> FoldLeft(Flip, {}, negative),
     negativeObs |-> FoldLeft(LAMBDA obs, e : SymDiff(obs, e.obs), {}, negative),
     negativeSum |-> FoldLeft(LAMBDA sum, e : sum + e.weight, 0, negative)]
    @@ FoldLeft(AddEdge, EmptyGraph(p.detectors), EdgesOf(p))

\* Here negative edges are only remembered; a self-loop is not even that.
ToSearchGraph(p) ==
    LET negative == SelectSeq(EdgesOf(p), LAMBDA e : e.weight < 0 /\ e.u # e.v) IN
    [negativeEdges |-> {{e.u, e.v} : e \in ToSet(negative)}]
    @@ FoldLeft(AddEdge, EmptyGraph(p.detectors), EdgesOf(p))

-----------------------------------------------------------------------------
(* Reweighting.                                                            *)

\* apply_reweights for one rule: only ever downwards, and at both ends.
ApplyRule(graph, rule) ==
    LET u == Max(rule.effect)
        v == CHOOSE n \in rule.effect : {n, u} = rule.effect
        i == IndexOfNeighbor(graph, u, v)
        ends == {<<u, i>>} \cup IF v = None THEN {} ELSE {<<v, IndexOfNeighbor(graph, v, u)>>}
        old == graph.neighbors[u][i].weight
        Put(acc, end) == [acc EXCEPT !.neighbors[end[1]][end[2]].weight = rule.weight,
                                     !.previous = Append(@, [at |-> end, weight |-> old])] IN
    IF rule.weight < old THEN FoldLeft(Put, graph, SetToSeq(ends)) ELSE graph

ReweightForEdge(graph, edge) ==
    LET u == Max(edge)
        v == CHOOSE n \in edge : {n, u} = edge IN
    FoldLeft(ApplyRule, graph, graph.neighbors[u][IndexOfNeighbor(graph, u, v)].implied)

ReweightForEdges(graph, edges) == FoldLeft(ReweightForEdge, graph, SetToSeq(edges))

\* Mutant: the oldest weight is put back first.
UndoReweightsForwards(graph) ==
    LET Restore(acc, prev) ==
            [acc EXCEPT !.neighbors[prev.at[1]][prev.at[2]].weight = prev.weight] IN
    [FoldLeft(Restore, graph, graph.previous) EXCEPT !.previous = <<>>]

\* Backwards, since some edges may have been reweighted more than once.
UndoReweights(graph) ==
    LET Restore(acc, prev) ==
            [acc EXCEPT !.neighbors[prev.at[1]][prev.at[2]].weight = prev.weight] IN
    [FoldLeft(Restore, graph, Reverse(graph.previous)) EXCEPT !.previous = <<>>]

=============================================================================
