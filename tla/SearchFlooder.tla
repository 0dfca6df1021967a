---------------------------- MODULE SearchFlooder ----------------------------
(***************************************************************************)
(* The search for a lightest path between two detectors, or from one to    *)
(* the boundary (search/search_flooder.cc): both ends are grown from until *)
(* they meet.  A whole SearchFlooder is one record s:                      *)
(*                                                                         *)
(*   graph    the search graph                                             *)
(*   flipped  the edges with the marker FLIPPED                            *)
(*   node     what the search knows of each node                           *)
(*   target   what is searched for, or None                                *)
(*   time     cur_time of the queue                                        *)
(*                                                                         *)
(* The queue is seen as in GraphFlooder: a node is looked at exactly when  *)
(* it wants to be; the order among equal times is free.                    *)
(***************************************************************************)
EXTENDS MatchingGraph

\* Nothing reached: source and predecessor are None.
EmptySearchNode == [source |-> None, pred |-> None, distance |-> 0, look |-> Never]

EmptySearch(graph) ==
    [graph |-> graph, flipped |-> {}, target |-> None, time |-> 0,
     node |-> [n \in DOMAIN graph.neighbors |-> EmptySearchNode]]

NoCollision == [node |-> None]

-----------------------------------------------------------------------------
\* Mutant: where two searches meet is taken for a step of one of them.
MeetingAtTheEnd(s, n, i) == s.node[n].distance + s.graph.neighbors[n][i].weight

\* What comes next along edge i of a node that is reached: the boundary if it is
\* the target, a node that is free, or half way a node of the other search.
NextAlong(s, n, i) ==
    LET own == s.node[n]
        edge == s.graph.neighbors[n][i]
        other == s.node[edge.to] IN
    CASE edge.to = None -> own.distance + edge.weight
      [] edge.to # None /\ other.source = None -> own.distance + edge.weight
      [] OTHER ->
            s.time + (edge.weight - (s.time - own.distance) - (s.time - other.distance)) \div 2

FindNextSearchEvent(s, n) ==
    LET nbs == s.graph.neighbors[n]
        open == {i \in DOMAIN nbs :
                    IF nbs[i].to = None THEN s.target = "boundary"
                    ELSE s.node[nbs[i].to].source # s.node[n].source}
        soonest == Min({NextAlong(s, n, i) : i \in open}) IN
    IF open = {} THEN [index |-> None, time |-> Never]
    ELSE [index |-> Min({i \in open : NextAlong(s, n, i) = soonest}), time |-> soonest]

RescheduleSearch(s, n) == [s EXCEPT !.node[n].look = FindNextSearchEvent(s, n).time]

StartSearchAt(s, n) ==
    RescheduleSearch([s EXCEPT !.node[n] = [EmptySearchNode EXCEPT !.source = n]], n)

ExploreFrom(s, n, i) ==
    LET from == s.node[s.graph.neighbors[n][i].to] IN
    RescheduleSearch(
        [s EXCEPT !.node[n] =
            [EmptySearchNode EXCEPT
                !.source = from.source, !.pred = i,
                !.distance = from.distance + s.graph.neighbors[n][i].weight]], n)

\* One look: the new state, and the edge on which the search ends, if it does.
LookAtSearchNode(s, n) ==
    LET now == [s EXCEPT !.time = s.node[n].look, !.node[n].look = Never]
        next == FindNextSearchEvent(now, n)
        to == now.graph.neighbors[n][next.index].to
        Again(t) == [t EXCEPT !.node[n].look = t.time] IN
    CASE next.time # now.time ->
            [search |-> [now EXCEPT !.node[n].look = next.time], collision |-> NoCollision]
      [] next.time = now.time /\ to # None /\ now.node[to].source = None ->
            [search |-> Again(ExploreFrom(now, to, IndexOfNeighbor(now.graph, to, n))),
             collision |-> NoCollision]
      [] OTHER -> [search |-> now, collision |-> [node |-> n, index |-> next.index]]

Searching(s) == \E n \in DOMAIN s.node : s.node[n].source # None

\* run_until_collision, up to the loop: to is None for the boundary.
SearchBetween(s, from, to) ==
    IF to = None THEN StartSearchAt([s EXCEPT !.target = "boundary"], from)
    ELSE StartSearchAt(StartSearchAt([s EXCEPT !.target = "detector"], to), from)

SearchLooks(s) ==
    LET now == Min({s.node[n].look : n \in DOMAIN s.node}) IN
    {LookAtSearchNode(s, n) : n \in {k \in DOMAIN s.node : s.node[k].look = now}}

-----------------------------------------------------------------------------
(* The path.                                                               *)

\* From a node back to where it was reached from.
RECURSIVE TracedBack(_, _)
TracedBack(s, n) ==
    IF s.node[n].pred = None THEN <<>>
    ELSE <<[node |-> n, index |-> s.node[n].pred]>>
            \o TracedBack(s, s.graph.neighbors[n][s.node[n].pred].to)

Across(s, edge) == s.graph.neighbors[edge.node][edge.index]
TracedFrom(s, n) == IF n = None THEN <<>> ELSE TracedBack(s, n)

\* iter_edges_on_shortest_path_from_middle: both ways back, then the collision.
PathFromMiddle(s, collision) ==
    TracedBack(s, collision.node) \o TracedFrom(s, Across(s, collision).to) \o <<collision>>

\* reverse_path_and_handle_edges
ReversedPath(s, path) ==
    [i \in DOMAIN path |->
        LET edge == path[Len(path) + 1 - i]
            from == Across(s, edge).to IN
        [node |-> from, index |-> IndexOfNeighbor(s.graph, from, edge.node)]]

\* iter_edges_on_shortest_path_from_source: the collision may have been found
\* from either side.
PathFromSource(s, collision, source) ==
    LET path1 == TracedBack(s, collision.node)
        path2 == <<collision>> \o TracedFrom(s, Across(s, collision).to) IN
    IF Across(s, Last(path2)).to = source THEN ReversedPath(s, path2) \o path1
    ELSE ReversedPath(s, path1) \o path2

ResetSearchNodes(s) == [s EXCEPT !.node = [n \in DOMAIN @ |-> EmptySearchNode]]

\* reset, of the nodes that were reached: the distance and the target that it
\* leaves are not read again.
ResetSearch(s) == [ResetSearchNodes(s) EXCEPT !.target = None, !.time = 0]

=============================================================================
