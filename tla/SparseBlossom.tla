---------------------------- MODULE SparseBlossom ----------------------------
(***************************************************************************)
(* One Mwpm decodes one set of detection events after the other            *)
(* (driver/mwpm_decoding.cc over matcher/ and flooder/), by itself or as   *)
(* the root of a hierarchy of two levels: then a cluster that is isolated  *)
(* is first run in a Mwpm of its own until it stops, and what is left of   *)
(* it there is imported (parallel/).  Each step is one look of the flooder *)
(* with all the matcher does about it, or one look of the search for the   *)
(* paths that matches stand for (search/).                                 *)
(***************************************************************************)
EXTENDS StoppedState, SearchFlooder

CONSTANT Problems   \* user graphs: see MatchingGraph; wide says whether there are more
                    \* observables than bits in a mask, correlated whether the weights
                    \* that errors imply are to be used; asks bounds what is asked for

\* If all edge weights are even, collisions happen at integer times.  Of parallel
\* edges only one is kept, which is the lightest choice if none has a negative
\* weight.  A rule does not change the sign of a weight.
ASSUME ProblemAssumption ==
    \A p \in Problems :
        /\ p.asks \subseteq {"matching", "edges", "path"}
        /\ 0 \notin p.detectors /\ p.boundaryNodes \subseteq p.detectors
        /\ \A i \in DOMAIN p.edges :
             /\ p.edges[i].weight % 2 = 0
             /\ p.edges[i].u \in p.detectors
             /\ p.edges[i].v \in p.detectors \cup {None}
             /\ p.edges[i].weight < 0 =>
                  LET At(e) == {IF IsBoundary(p, n) THEN None ELSE n : n \in {e.u, e.v}} IN
                  /\ At(p.edges[i]) # {None}
                  /\ \A j \in DOMAIN p.edges \ {i} : At(p.edges[j]) # At(p.edges[i])
        /\ \A rule \in p.rules :
             /\ rule.weight % 2 = 0 /\ rule.weight >= 0
             /\ \E i \in DOMAIN p.edges : {p.edges[i].u, p.edges[i].v} = rule.cause
             /\ \E i \in DOMAIN p.edges :
                  /\ {p.edges[i].u, p.edges[i].v} = rule.effect
                  /\ p.edges[i].u # p.edges[i].v /\ p.edges[i].weight >= 0
             /\ (rule.cause \cup rule.effect) \cap p.boundaryNodes = {}

VARIABLES
    problem,
    m,          \* the Mwpm
    s,          \* its search flooder
    child,      \* a cluster that is decoded in another Mwpm
    call,       \* how far the call is
    events,     \* the detection events being decoded
    ends,       \* the ends of the path being asked for
    answer      \* what the caller has got

vars == <<problem, m, s, child, call, events, ends, answer>>

NoChild == [events |-> {}]
NoCall == [phase |-> "none"]

Asked == [kind |-> "asked"]
NoMatching == [kind |-> "none"]

\* The time line, for the first time or with the weights that the first answer
\* implies; parallel decoding knows of the first only.
TimeLine(pass, parallel) == [phase |-> "timeline", pass |-> pass, parallel |-> parallel]

Init ==
    /\ problem \in Problems
    /\ m = EmptyMwpm(ToMatchingGraph(problem))
    /\ s = EmptySearch(ToSearchGraph(problem))
    /\ child = NoChild /\ call = NoCall
    /\ events = {} /\ ends = <<>>
    /\ answer = NoMatching

\* process_timeline_until_completion begins.
Start ==
    /\ answer # Asked /\ problem.asks # {"path"}
    /\ events' \in SUBSET problem.detectors
    /\ m' = InitializeForDetectionEvents(m, events')
    /\ call' = TimeLine(1, FALSE)
    /\ answer' = Asked
    /\ UNCHANGED <<problem, s, child, ends>>

\* The weight of the edge between two detectors, or to the boundary.
Lightest(graph, a, b) ==
    Min({Never} \cup {graph.neighbors[a][i].weight :
                        i \in {j \in DOMAIN graph.neighbors[a] : graph.neighbors[a][j].to = b}})

\* The distances that the clusterer has cached: between detectors, and to the boundary.
Distances(graph) ==
    LET detectors == DOMAIN graph.neighbors
        pairs == detectors \X (detectors \cup {None})
        Through(d, k) ==
            [q \in pairs |-> Min({d[q], d[q[1], k] + d[k, q[2]]})] @@ <<>> IN
    FoldLeft(Through,
             [q \in pairs |-> IF q[1] = q[2] THEN 0 ELSE Lightest(graph, q[1], q[2])] @@ <<>>,
             SetToSeq(detectors))

\* A component that is accepted: no wider than a bound, as near to the boundary if
\* it needs it, and further from all others than the buffer that goes with it.
MayStopAlone(d, cluster, rest) ==
    LET partners == cluster \cup IF Cardinality(cluster) % 2 = 0 THEN {} ELSE {None}
        width == Max({d[a, b] : a \in cluster, b \in partners})
        buffer == 1 + 2 * (width + 1) IN
    \A a \in cluster, b \in rest : d[a, b] > buffer

\* A hierarchical decode begins, with one child below the root.
StartHierarchy ==
    /\ answer # Asked /\ "matching" \in problem.asks
    /\ m.graph.negativeEvents = {} /\ m.graph.boundaryNodes = {}
    /\ \E d \in {Distances(m.graph)}, asked \in SUBSET problem.detectors :
         \E cluster \in (SUBSET asked) \ {{}, asked} :
           /\ MayStopAlone(d, cluster, asked \ cluster)
           /\ events' = asked
           /\ child' = [events |-> cluster,
                        mwpm |-> InitializeForDetectionEvents(EmptyMwpm(m.graph), cluster)]
           /\ m' = InitializeForDetectionEvents(m, asked \ cluster)
    /\ call' = TimeLine(1, TRUE)
    /\ answer' = Asked
    /\ UNCHANGED <<problem, s, ends>>

\* Nodes and regions whose time is the soonest are looked at in any order.
Looks(mwpm) ==
    LET now == Min(Wishes(mwpm)) IN
    {LookAtNode(mwpm, n) : n \in {k \in DOMAIN mwpm.node : mwpm.node[k].look = now}} \cup
    {LookAtShrinkingRegion(mwpm, r) :
        r \in {k \in DOMAIN mwpm.region : mwpm.region[k].shrink = now}}

\* A level runs only when the levels below it have stopped.
Look ==
    /\ call.phase = "timeline" /\ child = NoChild /\ Wishes(m) # {}
    /\ \E look \in Looks(m) : m' = ProcessEvent(look.mwpm, look.event)
    /\ UNCHANGED <<problem, s, child, call, events, ends, answer>>

ChildLook ==
    /\ child # NoChild /\ Wishes(child.mwpm) # {}
    /\ \E look \in Looks(child.mwpm) :
         child' = [child EXCEPT !.mwpm = ProcessEvent(look.mwpm, look.event)]
    /\ UNCHANGED <<problem, m, s, call, events, ends, answer>>

\* The child has stopped; its state becomes part of the root's.
ImportChild ==
    /\ child # NoChild /\ Exportable(child.mwpm)
    /\ \E stopped \in {ExportedForActiveDetectors(child.mwpm, child.events)} :
         /\ ~WouldOverwrite(m, stopped)
         /\ m' = RescheduleImported(Imported(m, stopped), stopped)
    /\ child' = NoChild
    /\ UNCHANGED <<problem, s, call, events, ends, answer>>

-----------------------------------------------------------------------------
(* The end of a call: the question is forgotten.                           *)

AnswerWith(reply) ==
    /\ answer' = reply
    /\ call' = NoCall /\ events' = {} /\ ends' = <<>>

\* The clock that is left is only read after it has been set to 0.
AtRest(mwpm) == [mwpm EXCEPT !.time = 0]

Completed == call.phase = "timeline" /\ child = NoChild /\ Wishes(m) = {}

\* No perfect matching could be found: alternating trees remain.  The exception
\* leaves the weights as they are.
GiveUp ==
    /\ Completed /\ m.tree # <<>>
    /\ m' = AtRest(Reset(m)) /\ s' = ResetSearchNodes(s)
    /\ AnswerWith(NoMatching)
    /\ UNCHANGED <<problem, child>>

\* What a caller asked for is of no importance before, and so is only chosen now.

\* undo_reweights, after the second pass.
Undone(graph) == IF call.pass = 2 THEN UndoReweights(graph) ELSE graph

\* The weight and observables that came out of the matching.
Finish ==
    /\ Completed /\ m.tree = <<>> /\ ~problem.wide /\ "matching" \in problem.asks
    /\ \E extracted \in {ExtractResult(m, events)} :
         /\ m' = AtRest([extracted.mwpm EXCEPT !.graph = Undone(@)])
         /\ AnswerWith([kind |-> "matching", weight |-> extracted.result.weight,
                        obs |-> extracted.result.obs])
    /\ s' = [s EXCEPT !.graph = Undone(@)]
    /\ UNCHANGED <<problem, child>>

\* With too many observables for a mask, or to get the edges, the matches are
\* replaced by paths.  Edges that are taken for granted are flipped beforehand.
Goals ==
    {goal \in {"weight", "edges"} :
        IF goal = "weight" THEN problem.wide /\ "matching" \in problem.asks
        ELSE "edges" \in problem.asks /\ ~call.parallel}

ExtractMatches ==
    /\ Completed /\ m.tree = <<>>
    /\ \E extracted \in {ExtractMatchEdges(m, events)} :
       \E goal \in Goals :
         /\ m' = AtRest(extracted.mwpm)
         /\ call' = [phase |-> "paths", pass |-> call.pass, goal |-> goal,
                     matches |-> extracted.matches,
                     weight |-> m.graph.negativeSum, obs |-> m.graph.negativeObs]
         /\ s' = IF goal = "edges" THEN [s EXCEPT !.flipped = SymDiff(@, s.graph.negativeEdges)]
                 ELSE s
    /\ UNCHANGED <<problem, child, events, ends, answer>>

StartSearch ==
    /\ call.phase = "paths" /\ call.matches # <<>> /\ ~Searching(s)
    /\ LET match == Head(call.matches) IN s' = SearchBetween(s, match.from, match.to)
    /\ UNCHANGED <<problem, m, child, call, events, ends, answer>>

SearchOn(search) ==
    /\ search.collision = NoCollision
    /\ s' = search.search
    /\ UNCHANGED <<call, events, ends, answer>>

\* The path for a match: its edges are flipped, or weighed.
AddPath(search) ==
    LET path == PathFromMiddle(search.search, search.collision)
        edges == [i \in DOMAIN path |-> Across(s, path[i])]
        Named(i) == {path[i].node, edges[i].to}
        Flip(flipped, i) == SymDiff(flipped, {Named(i)})
        ks == [i \in DOMAIN path |-> i]
        reset == ResetSearch(search.search) IN
    /\ search.collision # NoCollision
    /\ IF call.goal = "edges"
       THEN /\ s' = [reset EXCEPT !.flipped = FoldLeft(Flip, @, ks)]
            /\ call' = [call EXCEPT !.matches = Tail(@)]
       ELSE /\ s' = reset
            /\ call' = [call EXCEPT
                 !.matches = Tail(@),
                 !.weight = FoldLeft(LAMBDA sum, e : sum + e.weight, @, edges),
                 !.obs = FoldLeft(LAMBDA obs, e : SymDiff(obs, e.obs), @, edges)]
    /\ UNCHANGED <<events, ends, answer>>

SearchLook ==
    /\ call.phase = "paths" /\ Searching(s)
    /\ \E search \in SearchLooks(s) : SearchOn(search) \/ AddPath(search)
    /\ UNCHANGED <<problem, m, child>>

AllPathsFound == call.phase = "paths" /\ call.matches = <<>> /\ ~Searching(s)

\* Edges that are no longer flipped are removed from the list, the others are
\* flipped back.
FinishPaths ==
    /\ AllPathsFound
    /\ AnswerWith(IF call.goal = "edges" THEN [kind |-> "edges", edges |-> s.flipped]
                  ELSE [kind |-> "matching", weight |-> call.weight, obs |-> call.obs])
    /\ m' = [m EXCEPT !.graph = Undone(@)]
    /\ s' = [s EXCEPT !.graph = Undone(@), !.flipped = {}]
    /\ UNCHANGED <<problem, child>>

\* Edge correlations: the edges of the first answer imply weights for the second.
StartSecondPass ==
    /\ AllPathsFound /\ call.goal = "edges" /\ call.pass = 1 /\ problem.correlated
    /\ m' = InitializeForDetectionEvents(
                [m EXCEPT !.graph = ReweightForEdges(@, s.flipped)], events)
    /\ s' = [s EXCEPT !.graph = ReweightForEdges(@, s.flipped), !.flipped = {}]
    /\ call' = TimeLine(2, FALSE)
    /\ UNCHANGED <<problem, child, events, ends, answer>>

-----------------------------------------------------------------------------
(* Paths that are asked for.                                               *)

\* get_nodes_on_shortest_path_from_source; at most one end is at the boundary, and
\* then it is the search's target.  Nothing is checked: there must be a path.
AskPath ==
    /\ answer # Asked /\ "path" \in problem.asks
    /\ \E d \in {Distances(m.graph)}, a, b \in problem.detectors \cup {None} :
         LET source == IF IsBoundary(problem, a) THEN b ELSE a
             other == IF IsBoundary(problem, a) THEN a ELSE b
             target == IF IsBoundary(problem, other) THEN None ELSE other IN
         /\ ~IsBoundary(problem, source) /\ source # target /\ d[source, target] < Never
         /\ ends' = <<a, b>>
         /\ s' = SearchBetween(s, source, target)
         /\ call' = [phase |-> "path", source |-> source, target |-> target]
    /\ answer' = Asked
    /\ UNCHANGED <<problem, m, child, events>>

\* Its nodes, from the first end to the second.
AnswerPath(search) ==
    LET path == PathFromSource(search.search, search.collision, call.source)
        nodes == [i \in DOMAIN path |-> path[i].node]
            \o IF call.target = None THEN <<>> ELSE <<call.target>> IN
    /\ search.collision # NoCollision
    /\ s' = ResetSearch(search.search)
    /\ AnswerWith([kind |-> "path",
                   nodes |-> IF IsBoundary(problem, ends[1]) THEN Reverse(nodes) ELSE nodes])

PathLook ==
    /\ call.phase = "path"
    /\ \E search \in SearchLooks(s) : SearchOn(search) \/ AnswerPath(search)
    /\ UNCHANGED <<problem, m, child>>

-----------------------------------------------------------------------------
Decode ==
    \/ Look \/ ChildLook \/ ImportChild \/ GiveUp \/ Finish
    \/ ExtractMatches \/ StartSearch \/ SearchLook \/ FinishPaths \/ StartSecondPass
    \/ PathLook

Next == Start \/ StartHierarchy \/ AskPath \/ Decode

\* The decoder runs to the end by itself; when it is asked is up to its caller.
\* This is WF_vars(Decode): Decode is enabled exactly while there is a question,
\* whose every step is one of Decode that changes something.
Running == answer = Asked
Fairness == []<>~Running \/ []<><<Running>>_vars

Spec == Init /\ [][Next]_vars /\ Fairness

-----------------------------------------------------------------------------
(* Properties.                                                             *)

\* Ids refer to things that exist.
TypeOK ==
    LET nodes == problem.detectors
        regions == DOMAIN m.region
        trees == DOMAIN m.tree IN
    /\ problem \in Problems
    /\ events \subseteq nodes
    /\ answer.kind \in {"asked", "none", "matching", "edges", "path"}
    /\ call.phase \in {"none", "timeline", "paths", "path"}
    /\ answer = Asked <=> call # NoCall
    /\ \A n \in nodes : s.node[n].source \in nodes \cup {None}
    /\ DOMAIN m.node = nodes
    /\ \A n \in nodes :
         /\ m.node[n].region \in regions \cup {None}
         /\ m.node[n].top \in regions \cup {None}
         /\ m.node[n].source \in nodes \cup {None}
    /\ \A r \in regions :
         /\ m.region[r].parent \in regions \cup {None}
         /\ m.region[r].top \in regions
         /\ m.region[r].tree \in trees \cup {None}
         /\ m.region[r].radius.slope \in {Growing, Frozen, Shrinking}
         /\ ToSet(m.region[r].shell) \subseteq nodes
         /\ \A c \in ToSet(m.region[r].children) : c.region \in regions
    /\ \A t \in trees :
         /\ m.tree[t].inner \in regions \cup {None}
         /\ m.tree[t].outer \in regions
         /\ m.tree[t].parent.node \in trees \cup {None}
         /\ \A c \in ToSet(m.tree[t].children) : c.node \in trees

LOCAL Reach(n) == Value(LocalRadius(m, n), m.time)

\* Regions of different owners never grow into each other or past the boundary,
\* and none is smaller than nothing: the radii are a feasible dual solution, and
\* the answer is the lightest only because of that.
DualFeasible ==
    call.phase = "timeline" =>
    /\ \A r \in DOMAIN m.region : Value(m.region[r].radius, m.time) >= 0
    /\ \A n \in DOMAIN m.node : \A i \in DOMAIN m.graph.neighbors[n] :
         LET edge == m.graph.neighbors[n][i] IN
         IF edge.to = None THEN Reach(n) <= edge.weight
         ELSE m.node[n].top # m.node[edge.to].top =>
                Reach(n) + Reach(edge.to) <= edge.weight

\* What is cached about a node and a region stays what a walk up the blossoms
\* would compute, and shells hold each node once, at its region.
CachesAreFresh ==
    /\ \A n \in DOMAIN m.node :
         m.node[n].region # None =>
           /\ m.node[n].top = m.region[m.node[n].region].top
           /\ m.node[n].wrapped = ComputeWrappedRadius(m, n)
    /\ \A r \in DOMAIN m.region :
         IF m.region[r].parent = None THEN m.region[r].top = r
         ELSE m.region[r].top = m.region[m.region[r].parent].top
    /\ \A n \in DOMAIN m.node, r \in DOMAIN m.region :
         Cardinality({i \in DOMAIN m.region[r].shell : m.region[r].shell[i] = n})
            = IF m.node[n].region = r THEN 1 ELSE 0

\* An edge in a tree, in a match or around a blossom leads from a detection event
\* of the one region to one of the other.
EdgesLeadHome ==
    LET Home(edge, r, other) ==
            /\ m.node[edge.from].source = edge.from
            /\ m.node[edge.from].region \in Descendants(m, r)
            /\ IF other = None THEN edge.to = None
               ELSE m.node[edge.to].region \in Descendants(m, other) IN
    /\ \A t \in DOMAIN m.tree :
         m.tree[t].inner # None =>
           /\ Home(m.tree[t].edge, m.tree[t].inner, m.tree[t].outer)
           /\ Home(m.tree[t].parent.edge, m.tree[t].inner,
                   m.tree[m.tree[t].parent.node].outer)
    /\ \A r \in DOMAIN m.region :
         LET children == m.region[r].children IN
         /\ m.region[r].parent = None /\ m.region[r].tree = None =>
              Home(m.region[r].match.edge, r, m.region[r].match.region)
         /\ \A i \in DOMAIN children :
              Home(children[i].edge, children[i].region,
                   children[(i % Len(children)) + 1].region)

\* Trees alternate: outer regions grow, inner ones shrink, and pointers agree in
\* both directions; every other region that is no blossom's child is frozen and
\* matched, mutually or to the boundary; and the edges between them lead home.
TreesAlternate ==
    /\ \A t \in DOMAIN m.tree :
         LET node == m.tree[t] IN
         /\ m.region[node.outer].tree = t /\ m.region[node.outer].radius.slope = Growing
         /\ node.inner = None <=> node.parent.node = None
         /\ node.inner # None =>
              /\ m.region[node.inner].tree = t
              /\ m.region[node.inner].radius.slope = Shrinking
              /\ [node |-> t, edge |-> Reversed(node.parent.edge)]
                    \in ToSet(m.tree[node.parent.node].children)
         /\ \A c \in ToSet(node.children) : m.tree[c.node].parent.node = t
    /\ \A r \in DOMAIN m.region :
         LET region == m.region[r] IN
         /\ region.tree # None =>
              r \in {m.tree[region.tree].inner, m.tree[region.tree].outer}
         /\ region.tree = None => region.radius.slope = Frozen
         /\ region.parent = None /\ region.tree = None =>
              /\ region.match.edge.from # None
              /\ region.match.region # None =>
                   m.region[region.match.region].match =
                       [region |-> r, edge |-> Reversed(region.match.edge)]
    /\ EdgesLeadHome

\* Whatever two regions will do to each other along an edge is not later than a
\* look at one of its ends, a region that shrinks is looked at when its last node
\* leaves, and nobody wishes for a time that has passed.
NothingMissed ==
    call.phase = "timeline" =>
    /\ \A t \in Wishes(m) : t >= m.time
    /\ \A n \in DOMAIN m.node :
         LET next == FindNextEvent(m, n) IN
         next.index # None /\ LocalRadius(m, n).slope # Shrinking =>
           LET to == m.graph.neighbors[n][next.index].to IN
           \/ m.node[n].look <= next.time
           \/ to # None /\ m.node[to].look <= next.time
    /\ \A r \in DOMAIN m.region :
         m.region[r].shrink =
            IF m.region[r].radius.slope = Shrinking THEN ShrinkTime(m, r) ELSE Never

\* Between two calls the Mwpm is as good as new: a pool hands it to the next one.
\* No weights of an earlier call are left either, although an exception would
\* leave them: a second pass fails only where the first does.
CleanBetweenCalls ==
    answer # Asked =>
        /\ m = EmptyMwpm(ToMatchingGraph(problem))
        /\ [s EXCEPT !.target = None] = EmptySearch(ToSearchGraph(problem))

\* The decoder answers every question, and with a lightest explanation.
Correction == INSTANCE MinimumWeightCorrection
FindsMinimumWeightCorrection == Correction!CorrectionSpec

=============================================================================
