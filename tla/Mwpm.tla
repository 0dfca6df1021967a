-------------------------------- MODULE Mwpm --------------------------------
(***************************************************************************)
(* The matcher of sparse blossom: alternating trees over the regions of    *)
(* the flooder, what it does with the four kinds of events the flooder     *)
(* reports, and the extraction of the matching from the blossoms.          *)
(* Operators on the record m of GraphFlooder.tla.                          *)
(***************************************************************************)
EXTENDS GraphFlooder

NoTreeEdge == [node |-> None, edge |-> NoEdge]

NewTreeNode(inner, outer, edge) ==
    [inner |-> inner, outer |-> outer, edge |-> edge,
     parent |-> NoTreeEdge, children |-> <<>>]

Without(arena, slots) == [s \in DOMAIN arena \ slots |-> arena[s]] @@ <<>>

\* unstable_erase: the last one takes the place of the one that goes.
EraseChild(children, t) ==
    LET i == Min({j \in DOMAIN children : children[j].node = t}) IN
    Front([children EXCEPT ![i] = Last(children)])

AddMatch(m, r1, r2, edge) ==
    [m EXCEPT !.region[r1].match = [region |-> r2, edge |-> edge],
              !.region[r2].match = [region |-> r1, edge |-> Reversed(edge)]]

-----------------------------------------------------------------------------
(* Alternating trees.                                                      *)

AddChild(m, t, child) ==
    [m EXCEPT !.tree[t].children = Append(@, child),
              !.tree[child.node].parent = [node |-> t, edge |-> Reversed(child.edge)]]

MakeChild(m, t, inner, outer, innerToOuter, edge) ==
    LET c == FreeSlot(m.tree)
        made == [m EXCEPT
            !.tree = (c :> NewTreeNode(inner, outer, innerToOuter)) @@ @,
            !.region = [@ EXCEPT ![inner].tree = c, ![outer].tree = c]] IN
    [mwpm |-> AddChild(made, t, [node |-> c, edge |-> edge]), child |-> c]

\* A rotation: the inner region of every node on the way up moves to its parent.
RECURSIVE BecomeRoot(_, _)
BecomeRoot(m, t) ==
    IF m.tree[t].parent.node = None THEN m
    ELSE LET p == m.tree[t].parent.node
             up == BecomeRoot(m, p)
             me == up.tree[t]
             turned == [up EXCEPT
                 !.tree[p] = [@ EXCEPT !.inner = me.inner, !.edge = me.parent.edge,
                                       !.children = EraseChild(@, t)],
                 !.tree[t] = [@ EXCEPT !.inner = None, !.edge = NoEdge,
                                       !.parent = NoTreeEdge]] IN
         AddChild(turned, t, [node |-> p, edge |-> Reversed(me.edge)])

RECURSIVE PathToRoot(_, _)
PathToRoot(m, t) ==
    IF t = None THEN <<>> ELSE <<t>> \o PathToRoot(m, m.tree[t].parent.node)

CommonAncestors(m, t1, t2) ==
    SelectSeq(PathToRoot(m, t1), LAMBDA t : t \in ToSet(PathToRoot(m, t2)))

\* The nodes from t up to, but without, the node stop go; their children are
\* orphans, their regions a path in the order of the blossom to be.
RECURSIVE PruneUpwardPath(_, _, _, _)
PruneUpwardPath(m, t, stop, back) ==
    IF t = stop THEN [mwpm |-> m, orphans |-> <<>>, path |-> <<>>]
    ELSE LET me == m.tree[t]
             p == me.parent.node
             two == IF back
                 THEN <<[region |-> me.inner, edge |-> me.edge],
                        [region |-> m.tree[p].outer, edge |-> Reversed(me.parent.edge)]>>
                 ELSE <<[region |-> me.outer, edge |-> Reversed(me.edge)],
                        [region |-> me.inner, edge |-> me.parent.edge]>>
             cut == [m EXCEPT
                 !.tree = Without([@ EXCEPT ![p].children = EraseChild(@, t)], {t}),
                 !.region = [@ EXCEPT ![me.outer].tree = None, ![me.inner].tree = None]]
             rest == PruneUpwardPath(cut, p, stop, back) IN
         [rest EXCEPT !.orphans = me.children \o @, !.path = two \o @]

RECURSIVE ShatterDescendants(_, _)
ShatterDescendants(m, t) ==
    LET Below(acc, c) == ShatterDescendants(acc, c.node)
        below == FoldLeft(Below, m, m.tree[t].children)
        me == m.tree[t]
        matched == IF me.inner = None THEN below
                   ELSE SetRegionFrozen(SetRegionFrozen(
                            AddMatch(below, me.inner, me.outer, me.edge), me.inner), me.outer)
        loose == {me.inner, me.outer} \ {None} IN
    [matched EXCEPT
        !.region = [r \in loose |-> [matched.region[r] EXCEPT !.tree = None]] @@ @,
        !.tree = Without(@, {t})]

-----------------------------------------------------------------------------
(* The events.                                                             *)

ShatterTreeOf(m, r) == ShatterDescendants(BecomeRoot(m, m.region[r].tree), m.region[r].tree)

HandleTreeHittingBoundary(m, event) ==
    LET shattered == ShatterTreeOf(m, event.region) IN
    SetRegionFrozen(
        [shattered EXCEPT !.region[event.region].match =
            [region |-> None, edge |-> event.edge]], event.region)

HandleTreeHittingBoundaryMatch(m, unmatched, matched, edge) ==
    ShatterTreeOf(SetRegionFrozen(AddMatch(m, unmatched, matched, edge), unmatched), unmatched)

\* Both trees are rotated before either is shattered.
HandleTreeHittingOtherTree(m, event) ==
    LET t1 == m.region[event.region1].tree
        t2 == m.region[event.region2].tree
        rotated == BecomeRoot(BecomeRoot(m, t1), t2)
        shattered == ShatterDescendants(ShatterDescendants(rotated, t1), t2)
        matched == AddMatch(shattered, event.region1, event.region2, event.edge) IN
    SetRegionFrozen(SetRegionFrozen(matched, event.region1), event.region2)

\* Mutant: the partner of the region that was hit stays frozen.
HandleTreeHittingMatchHalf(m, unmatched, matched, edge) ==
    LET match == m.region[matched].match
        grown == MakeChild(m, m.region[unmatched].tree, matched, match.region,
                           match.edge, edge).mwpm
        free == [grown EXCEPT !.region = [@ EXCEPT ![match.region].match = NoMatch,
                                                   ![matched].match = NoMatch]] IN
    SetRegionShrinking(free, matched)

HandleTreeHittingMatch(m, unmatched, matched, edge) ==
    LET match == m.region[matched].match
        grown == MakeChild(m, m.region[unmatched].tree, matched, match.region,
                           match.edge, edge).mwpm
        free == [grown EXCEPT !.region = [@ EXCEPT ![match.region].match = NoMatch,
                                                   ![matched].match = NoMatch]] IN
    SetRegionGrowing(SetRegionShrinking(free, matched), match.region)

\* A blossom takes the place of the common ancestor's outer region.
HandleTreeHittingSelf(m, event, ancestor) ==
    LET first == PruneUpwardPath(m, m.region[event.region1].tree, ancestor, TRUE)
        second == PruneUpwardPath(first.mwpm, m.region[event.region2].tree, ancestor, FALSE)
        cycle == second.path \o Reverse(first.path)
                    \o <<[region |-> event.region1, edge |-> event.edge]>>
        made == CreateBlossom(
            [second.mwpm EXCEPT !.region[second.mwpm.tree[ancestor].outer].tree = None], cycle)
        placed == [made.mwpm EXCEPT !.tree[ancestor].outer = made.blossom,
                                    !.region[made.blossom].tree = ancestor]
        Adopt(acc, c) == AddChild(acc, ancestor, c) IN
    FoldLeft(Adopt, placed, first.orphans \o second.orphans)

\* One more pair of the cycle becomes a node of the tree, below node at.
AddPair(at, inner, outer, innerToOuter, edgeOut) ==
    LET made == MakeChild(at.mwpm, at.node, inner, outer, innerToOuter, at.edge) IN
    [mwpm |-> SetRegionGrowing(SetRegionShrinking(made.mwpm, inner), outer),
     node |-> made.child, edge |-> edgeOut]

\* A shrinking blossom falls apart: the path of odd length from the child that
\* touches the tree's parent to the one that touches the blossom's partner goes
\* into the tree, the rest of the cycle is matched in pairs.
HandleBlossomShattering(m, event) ==
    LET b == event.region
        cycle == m.region[b].children
        size == Len(cycle)
        At(i) == cycle[(i % size) + 1]      \* positions from zero, as in the code
        Position(r) == (CHOOSE i \in DOMAIN cycle : cycle[i].region = r) - 1
        parentIdx == Position(event.inParent)
        childIdx == Position(event.inChild)
        gap == (childIdx + size - parentIdx) % size
        Clear(acc, c) == ClearBlossomParent(acc, c.region)
        t == m.region[b].tree
        above == m.tree[t].parent.node
        freed == [FoldLeft(Clear, m, cycle) EXCEPT
                    !.tree[above].children = EraseChild(@, t)]
        start == [mwpm |-> freed, node |-> above,
                  edge |-> Reversed(m.tree[t].parent.edge)]
        Forward(at, k) ==
            LET i == parentIdx + 2 * (k - 1) IN
            AddPair(at, At(i).region, At(i + 1).region, At(i).edge, At(i + 1).edge)
        Backward(at, k) ==
            LET i == parentIdx + 2 * size - 2 * (k - 1) IN
            AddPair(at, At(i).region, At(i - 1).region,
                    Reversed(At(i - 1).edge), Reversed(At(i - 2).edge))
        pathed == IF gap % 2 = 0
                  THEN FoldLeft(Forward, start, [k \in 1..(gap \div 2) |-> k])
                  ELSE FoldLeft(Backward, start, [k \in 1..((size - gap) \div 2) |-> k])
        evens == IF gap % 2 = 0
                 THEN [k \in 1..((size - gap) \div 2) |-> childIdx + 2 * k - 1]
                 ELSE [k \in 1..(gap \div 2) |-> parentIdx + 2 * k - 1]
        Pair(acc, i) ==
            LET r1 == At(i).region
                r2 == At(i + 1).region
                paired == AddMatch(acc, r1, r2, At(i).edge)
                seen1 == RescheduleNodes(paired, TotalArea(paired, r1)) IN
            RescheduleNodes(seen1, TotalArea(seen1, r2))
        paired == FoldLeft(Pair, pathed.mwpm, evens)
        moved == SetRegionShrinking([paired EXCEPT !.tree[t].inner = event.inChild],
                                    event.inChild)
        linked == AddChild([moved EXCEPT !.region[event.inChild].tree = t],
                           pathed.node, [node |-> t, edge |-> pathed.edge]) IN
    [linked EXCEPT !.region = Without(@, {b})]

HandleRegionHitRegion(m, event) ==
    LET t1 == m.region[event.region1].tree
        t2 == m.region[event.region2].tree
        Hit(unmatched, other, edge) ==
            IF m.region[other].match.region # None
            THEN HandleTreeHittingMatch(m, unmatched, other, edge)
            ELSE HandleTreeHittingBoundaryMatch(m, unmatched, other, edge) IN
    CASE t1 # None /\ t2 # None /\ CommonAncestors(m, t1, t2) = <<>> ->
            HandleTreeHittingOtherTree(m, event)
      [] t1 # None /\ t2 # None /\ CommonAncestors(m, t1, t2) # <<>> ->
            HandleTreeHittingSelf(m, event, Head(CommonAncestors(m, t1, t2)))
      [] t1 # None /\ t2 = None -> Hit(event.region1, event.region2, event.edge)
      [] OTHER -> Hit(event.region2, event.region1, Reversed(event.edge))

ProcessEvent(m, event) ==
    CASE event.kind = "none" -> m
      [] event.kind = "region" -> HandleRegionHitRegion(m, event)
      [] event.kind = "boundary" -> HandleTreeHittingBoundary(m, event)
      [] event.kind = "shatter" -> HandleBlossomShattering(m, event)

-----------------------------------------------------------------------------
(* A detection event, and what becomes of all of them in the end.          *)

EmptyMwpm(graph) ==
    [graph |-> graph, node |-> [n \in DOMAIN graph.neighbors |-> EmptyNode],
     region |-> <<>>, tree |-> <<>>, time |-> 0]

CreateDetectionEvent(m, n) ==
    LET r == FreeSlot(m.region)
        t == FreeSlot(m.tree) IN
    CreateRegionAtNode(
        [m EXCEPT !.region = (r :> [NewRegion(r) EXCEPT !.tree = t]) @@ @,
                  !.tree = (t :> NewTreeNode(None, r, NoEdge)) @@ @], r, n)

CleanupShellArea(m, r) ==
    [m EXCEPT !.node = [n \in ToSet(m.region[r].shell) |-> EmptyNode] @@ @]

\* Of the matches: weight and observables, and the edges between detection events.
NoResult == [weight |-> 0, obs |-> {}, matches |-> <<>>]
Plus(a, b) ==
    [weight |-> a.weight + b.weight, obs |-> SymDiff(a.obs, b.obs),
     matches |-> a.matches \o b.matches]

\* A blossom goes: the child that its match starts in inherits the match, the
\* others are paired around the cycle; one of each pair is in todo.
PairAndShatterSubblossoms(m, r) ==
    LET children == m.region[r].children
        match == m.region[r].match
        Clear(acc, c) == ClearBlossomParentIgnoringWrapped(acc, c.region)
        cleared == FoldLeft(Clear, m, children)
        heir == cleared.node[match.edge.from].top
        index == CHOOSE i \in DOMAIN children : children[i].region = heir
        At(i) == children[((index + i - 1) % Len(children)) + 1]
        inherited == [cleared EXCEPT !.region =
            [q \in {heir, match.region} \ {None} |->
                [cleared.region[q] EXCEPT !.match = IF q = heir THEN match
                                                    ELSE [@ EXCEPT !.region = heir]]] @@ @]
        Pair(acc, k) == AddMatch(acc, At(2 * k - 1).region, At(2 * k).region, At(2 * k - 1).edge)
        ks == [k \in 1..((Len(children) - 1) \div 2) |-> k] IN
    [mwpm |-> [FoldLeft(Pair, inherited, ks) EXCEPT !.region = Without(@, {r})],
     weight |-> m.region[r].radius.y, heir |-> heir,
     todo |-> [k \in DOMAIN ks |-> At(2 * k - 1).region]]

Untouched(m, r) == [mwpm |-> m, weight |-> 0, heir |-> r, todo |-> <<>>]

\* Takes the matched pairs of regions in todo apart, and the pairs within them.
RECURSIVE ShatterBlossomsAndExtract(_, _, _)
ShatterBlossomsAndExtract(m, todo, result) ==
    IF todo = <<>> THEN [mwpm |-> m, result |-> result]
    ELSE LET r == Head(todo)
             partner == m.region[r].match.region
             Blossom(q) == q # None /\ m.region[q].children # <<>>
             Clean(acc, q) == CleanupShellArea(acc, q)
             clean == FoldLeft(Clean, m, SetToSeq({r, partner} \ {None}))
             own == IF Blossom(r) THEN PairAndShatterSubblossoms(clean, r)
                    ELSE Untouched(clean, r)
             other == IF Blossom(partner) THEN PairAndShatterSubblossoms(own.mwpm, partner)
                      ELSE Untouched(own.mwpm, partner)
             Radius(q) == IF q = None THEN 0 ELSE m.region[q].radius.y
             plain == ~Blossom(r) /\ ~Blossom(partner) IN
         ShatterBlossomsAndExtract(
             IF plain THEN [clean EXCEPT !.region = Without(@, {r, partner})] ELSE other.mwpm,
             (IF plain THEN <<>> ELSE own.todo \o other.todo \o <<own.heir>>) \o Tail(todo),
             Plus(result, IF plain
                 THEN [weight |-> Radius(r) + Radius(partner), obs |-> m.region[r].match.edge.obs,
                       matches |-> <<m.region[r].match.edge>>]
                 ELSE [NoResult EXCEPT !.weight = own.weight + other.weight]))

\* The other version, which keeps the edges only.
ShatterAndExtractMatchEdges(m, r, matches) ==
    LET extracted == ShatterBlossomsAndExtract(m, <<r>>, NoResult) IN
    [mwpm |-> extracted.mwpm, matches |-> matches \o extracted.result.matches]

-----------------------------------------------------------------------------
(* The calls of the driver.                                                *)

\* Boundary nodes of the user graph are never matched.
EventsToCreate(graph, events) ==
    SymDiff(events, graph.negativeEvents) \ (events \cap graph.boundaryNodes)

InitializeForDetectionEvents(m, events) ==
    FoldLeft(CreateDetectionEvent, [m EXCEPT !.time = 0],
             SetToSortSeq(EventsToCreate(m.graph, events), <))

\* Detection events that an earlier one was matched with have gone already.
ExtractFrom(acc, n) ==
    IF acc.mwpm.node[n].region = None THEN acc
    ELSE ShatterBlossomsAndExtract(acc.mwpm, <<acc.mwpm.node[n].top>>, acc.result)

\* First from the detection events asked for, then from the negative ones.
InOrder(m, events) == SetToSortSeq(events, <) \o SetToSortSeq(m.graph.negativeEvents, <)

ExtractResult(m, events) ==
    FoldLeft(ExtractFrom,
             [mwpm |-> m, result |-> [weight |-> m.graph.negativeSum,
                                      obs |-> m.graph.negativeObs, matches |-> <<>>]],
             InOrder(m, events))

ExtractMatchEdges(m, events) ==
    LET From(acc, n) ==
            IF acc.mwpm.node[n].region = None THEN acc
            ELSE ShatterAndExtractMatchEdges(acc.mwpm, acc.mwpm.node[n].top, acc.matches) IN
    FoldLeft(From, [mwpm |-> m, matches |-> <<>>], InOrder(m, events))

\* Mutant: the arenas are cleared and the nodes still point into them.
ResetArenas(m) == [m EXCEPT !.region = <<>>, !.tree = <<>>]

Reset(m) ==
    [m EXCEPT !.node = [n \in DOMAIN @ |-> EmptyNode],
              !.region = <<>>, !.tree = <<>>]

=============================================================================
