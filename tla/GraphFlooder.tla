----------------------------- MODULE GraphFlooder -----------------------------
(***************************************************************************)
(* The flooder of sparse blossom: regions grow from the detection events,  *)
(* freeze and shrink over the matching graph.  A whole Mwpm is one record  *)
(* m that the operators of this module and of Mwpm.tla take and return:    *)
(*                                                                         *)
(*   graph    the matching graph                                           *)
(*   node     what is ephemeral of each detector node                      *)
(*   region   the live regions of the region arena                         *)
(*   tree     the live alternating-tree nodes                              *)
(*   time     cur_time of the queue                                        *)
(*                                                                         *)
(* The queue is seen through what FloodEvents.tla shows of it: every node  *)
(* and region has at most one time it wants to be looked at (look, shrink) *)
(* and is looked at exactly then; the order among equal times is free.     *)
(***************************************************************************)
EXTENDS MatchingGraph

NoEdge == [from |-> None, to |-> None, obs |-> {}]
NoMatch == [region |-> None, edge |-> NoEdge]
NoEvent == [kind |-> "none"]

Reversed(edge) == [from |-> edge.to, to |-> edge.from, obs |-> edge.obs]

-----------------------------------------------------------------------------
(* Radii: a value at time zero and a slope.                                *)

Value(radius, t) == radius.y + radius.slope * t

Turned(radius, slope, t) == [slope |-> slope, y |-> Value(radius, t) - slope * t]

Growing == 1
Frozen == 0
Shrinking == -1

EmptyNode ==
    [region |-> None, top |-> None, source |-> None, obs |-> {},
     arrival |-> 0, wrapped |-> 0, look |-> Never]

NewRegion(r) ==
    [parent |-> None, top |-> r, tree |-> None,
     radius |-> [slope |-> Growing, y |-> 0], shrink |-> Never,
     match |-> NoMatch, children |-> <<>>, shell |-> <<>>]

\* The arenas: a slot that is free.
FreeSlot(arena) == Min((1..(Cardinality(DOMAIN arena) + 1)) \ DOMAIN arena)

RECURSIVE Descendants(_, _)
Descendants(m, r) ==
    {r} \cup UNION {Descendants(m, c.region) : c \in ToSet(m.region[r].children)}

TotalArea(m, r) == UNION {ToSet(m.region[d].shell) : d \in Descendants(m, r)}

RECURSIVE RadiiBelowTop(_, _, _)
RadiiBelowTop(m, r, top) ==
    IF r = top THEN 0
    ELSE m.region[r].radius.y + RadiiBelowTop(m, m.region[r].parent, top)

ComputeWrappedRadius(m, n) ==
    LET node == m.node[n] IN
    IF node.source = None THEN 0
    ELSE RadiiBelowTop(m, node.region, node.top) - node.arrival

LocalRadius(m, n) ==
    IF m.node[n].top = None THEN [slope |-> Frozen, y |-> 0]
    ELSE LET radius == m.region[m.node[n].top].radius IN
         [radius EXCEPT !.y = @ + m.node[n].wrapped]

RECURSIVE Heir(_, _, _)
Heir(m, r, top) ==
    IF m.region[r].parent = top THEN r ELSE Heir(m, m.region[r].parent, top)

HeirRegionOnShatter(m, n) == Heir(m, m.node[n].region, m.node[n].top)

\* Gives the tree of regions under r another top, r itself another parent.
Retop(m, r, parent, top) ==
    [m EXCEPT
        !.region = [d \in Descendants(m, r) |->
            [m.region[d] EXCEPT !.top = top, !.parent = IF d = r THEN parent ELSE @]] @@ @,
        !.node = [n \in TotalArea(m, r) |-> [m.node[n] EXCEPT !.top = top]] @@ @]

Rewrapped(m, nodes) ==
    [m EXCEPT !.node = [n \in nodes |->
        [m.node[n] EXCEPT !.wrapped = ComputeWrappedRadius(m, n)]] @@ @]

ClearBlossomParentIgnoringWrapped(m, r) == Retop(m, r, None, r)
ClearBlossomParent(m, r) ==
    Rewrapped(ClearBlossomParentIgnoringWrapped(m, r), TotalArea(m, r))
WrapIntoBlossom(m, r, blossom) == Rewrapped(Retop(m, r, blossom, blossom), TotalArea(m, r))

-----------------------------------------------------------------------------
(* When a node has to be looked at again.                                  *)

\* Mutant: neighbours that are frozen are overlooked.
CollisionsGrowingOnly(m, n) ==
    LET own == LocalRadius(m, n)
        nbs == m.graph.neighbors[n] IN
    {[index |-> i, time |-> (nbs[i].weight - own.y - LocalRadius(m, nbs[i].to).y) \div 2] :
        i \in {j \in DOMAIN nbs : /\ nbs[j].to # None
                                  /\ m.node[nbs[j].to].top # m.node[n].top
                                  /\ LocalRadius(m, nbs[j].to).slope = Growing}}

\* A growing region at n runs into the boundary, into nodes that are free or
\* frozen, and meets other growing regions half way.
CollisionsOfGrowing(m, n) ==
    LET own == LocalRadius(m, n)
        nbs == m.graph.neighbors[n]
        Free(i) == nbs[i].weight - own.y - LocalRadius(m, nbs[i].to).y IN
    {[index |-> i, time |-> nbs[i].weight - own.y] :
        i \in {j \in DOMAIN nbs : nbs[j].to = None}}
    \cup
    {[index |-> i, time |-> IF LocalRadius(m, nbs[i].to).slope = Growing
                            THEN Free(i) \div 2 ELSE Free(i)] :
        i \in {j \in DOMAIN nbs : /\ nbs[j].to # None
                                  /\ m.node[nbs[j].to].top # m.node[n].top
                                  /\ LocalRadius(m, nbs[j].to).slope # Shrinking}}

CollisionsOfOthers(m, n) ==
    LET own == LocalRadius(m, n)
        nbs == m.graph.neighbors[n] IN
    {[index |-> i, time |-> nbs[i].weight - own.y - LocalRadius(m, nbs[i].to).y] :
        i \in {j \in DOMAIN nbs : /\ nbs[j].to # None
                                  /\ LocalRadius(m, nbs[j].to).slope = Growing}}

\* The soonest, and among those the neighbour that comes first.
FindNextEvent(m, n) ==
    LET all == IF LocalRadius(m, n).slope = Growing
               THEN CollisionsOfGrowing(m, n) ELSE CollisionsOfOthers(m, n) IN
    IF all = {} THEN [index |-> None, time |-> Never]
    ELSE CHOOSE c \in all : \A d \in all :
            c.time < d.time \/ (c.time = d.time /\ c.index <= d.index)

RescheduleNodes(m, nodes) ==
    [m EXCEPT !.node = [n \in nodes |->
        [m.node[n] EXCEPT !.look = FindNextEvent(m, n).time]] @@ @]

ShrinkTime(m, r) ==
    IF m.region[r].shell = <<>> THEN m.region[r].radius.y
    ELSE LocalRadius(m, Last(m.region[r].shell)).y

ScheduleShrink(m, r) == [m EXCEPT !.region[r].shrink = ShrinkTime(m, r)]

TurnRegion(m, r, slope) ==
    [m EXCEPT !.region[r].radius = Turned(@, slope, m.time),
              !.region[r].shrink = Never]

SetRegionGrowing(m, r) ==
    LET turned == TurnRegion(m, r, Growing) IN
    RescheduleNodes(turned, TotalArea(turned, r))

SetRegionFrozen(m, r) ==
    LET turned == TurnRegion(m, r, Frozen) IN
    IF m.region[r].radius.slope = Shrinking
    THEN RescheduleNodes(turned, TotalArea(turned, r)) ELSE turned

SetRegionShrinking(m, r) ==
    LET turned == ScheduleShrink(TurnRegion(m, r, Shrinking), r) IN
    [turned EXCEPT !.node =
        [n \in TotalArea(m, r) |-> [m.node[n] EXCEPT !.look = Never]] @@ @]

-----------------------------------------------------------------------------
(* Regions come to nodes and leave them.                                   *)

CreateRegionAtNode(m, r, n) ==
    LET there == [m EXCEPT
            !.region[r].shell = Append(@, n),
            !.node[n] = [@ EXCEPT !.source = n, !.arrival = 0, !.region = r,
                                  !.top = r, !.wrapped = 0]] IN
    RescheduleNodes(there, {n})

\* The region that owns node from arrives at its neighbour i, which is empty.
ArriveAtEmptyNode(m, from, i) ==
    LET edge == m.graph.neighbors[from][i]
        r == m.node[from].top
        there == [m EXCEPT
            !.region[r].shell = Append(@, edge.to),
            !.node[edge.to] = [@ EXCEPT
                !.obs = SymDiff(m.node[from].obs, edge.obs),
                !.source = m.node[from].source,
                !.arrival = Value(m.region[r].radius, m.time),
                !.region = r, !.top = m.region[r].top]] IN
    RescheduleNodes(Rewrapped(there, {edge.to}), {edge.to})

LeaveLastNode(m, r) ==
    LET n == Last(m.region[r].shell)
        left == [m EXCEPT !.region[r].shell = Front(@),
                          !.node[n] = [EmptyNode EXCEPT !.look = m.node[n].look]] IN
    ScheduleShrink(RescheduleNodes(left, {n}), r)

CreateBlossom(m, cycle) ==
    LET b == FreeSlot(m.region)
        made == [m EXCEPT !.region =
                    (b :> [NewRegion(b) EXCEPT
                             !.radius = [slope |-> Growing, y |-> -m.time],
                             !.children = cycle]) @@ @]
        Wrap(acc, c) == WrapIntoBlossom(TurnRegion(acc, c.region, Frozen), c.region, b)
        wrapped == FoldLeft(Wrap, made, cycle) IN
    [mwpm |-> RescheduleNodes(wrapped, TotalArea(wrapped, b)), blossom |-> b]

-----------------------------------------------------------------------------
(* One look.  The result is the new state and what the matcher is told.    *)

Quiet(m) == [mwpm |-> m, event |-> NoEvent]

NeighborInteraction(m, src, i) ==
    LET edge == m.graph.neighbors[src][i]
        dst == edge.to IN
    CASE m.node[src].region # None /\ m.node[dst].region = None ->
            Quiet(ArriveAtEmptyNode(m, src, i))
      [] m.node[dst].region # None /\ m.node[src].region = None ->
            Quiet(ArriveAtEmptyNode(m, dst, IndexOfNeighbor(m.graph, dst, src)))
      [] OTHER ->
            [mwpm |-> m,
             event |-> [kind |-> "region",
                        region1 |-> m.node[src].top, region2 |-> m.node[dst].top,
                        edge |-> [from |-> m.node[src].source, to |-> m.node[dst].source,
                                  obs |-> SymDiff(SymDiff(m.node[src].obs, m.node[dst].obs),
                                                  edge.obs)]]]

BoundaryInteraction(m, n) ==
    [mwpm |-> m,
     event |-> [kind |-> "boundary", region |-> m.node[n].top,
                edge |-> [from |-> m.node[n].source, to |-> None,
                          obs |-> SymDiff(m.node[n].obs, m.graph.neighbors[n][1].obs)]]]

\* The node wants to be looked at again whenever there is something to come, at
\* once when something happens now.
LookAtNode(m, n) ==
    LET now == m.node[n].look
        awake == [m EXCEPT !.time = now, !.node[n].look = Never]
        next == FindNextEvent(awake, n)
        again == [awake EXCEPT !.node[n].look = next.time] IN
    CASE next.time # now -> Quiet(again)
      [] next.time = now /\ m.graph.neighbors[n][next.index].to = None ->
            BoundaryInteraction(again, n)
      [] OTHER -> NeighborInteraction(again, n, next.index)

DegenerateImplosion(m, r) ==
    LET node == m.tree[m.region[r].tree] IN
    [mwpm |-> m,
     event |-> [kind |-> "region",
                region1 |-> m.tree[node.parent.node].outer, region2 |-> node.outer,
                edge |-> [from |-> node.parent.edge.to, to |-> node.edge.to,
                          obs |-> SymDiff(node.edge.obs, node.parent.edge.obs)]]]

BlossomShattering(m, r) ==
    LET node == m.tree[m.region[r].tree] IN
    [mwpm |-> m,
     event |-> [kind |-> "shatter", region |-> r,
                inParent |-> HeirRegionOnShatter(m, node.parent.edge.from),
                inChild |-> HeirRegionOnShatter(m, node.edge.from)]]

LookAtShrinkingRegion(m, r) ==
    LET awake == [m EXCEPT !.time = m.region[r].shrink, !.region[r].shrink = Never]
        shell == m.region[r].shell IN
    CASE shell = <<>> -> BlossomShattering(awake, r)
      [] Len(shell) = 1 /\ m.region[r].children = <<>> -> DegenerateImplosion(awake, r)
      [] OTHER -> Quiet(LeaveLastNode(awake, r))

Wishes(m) ==
    ({m.node[n].look : n \in DOMAIN m.node} \cup
     {m.region[r].shrink : r \in DOMAIN m.region}) \ {Never}

=============================================================================
