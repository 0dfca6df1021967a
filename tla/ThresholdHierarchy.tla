------------------------- MODULE ThresholdHierarchy --------------------------
(***************************************************************************)
(* build_processing_cluster_hierarchy (processing_cluster.cc) and what     *)
(* lockstep_hierarchical_decode does to its result before subgraphs are    *)
(* built: the hierarchy that decode_detection_events_in_user_graph uses.   *)
(*                                                                         *)
(* Level by level the components of what is left are found under the       *)
(* buffer bound; those that may stop become clusters, each with the region *)
(* of the graph it will be decoded in.  Then every cluster gets a parent,  *)
(* and the region of a parent is made to contain those of its children.    *)
(* Before the first shot, the bounds of the levels are given or built.     *)
(***************************************************************************)
EXTENDS ClusterGeometry, StoppingSchedule

CONSTANTS
  Deployed,      \* the policies whose schedules are used for shots
  Forcing,       \* values of force_cluster_at_max_level
  SingleRoots    \* values of force_single_final_root

\* A bound is no longer than a distance can be.
ASSUME BoundsAssumption == MaxDistance < Inf

VARIABLES
  setting,       \* [schedule: bounds [diameter, buffer, cap] by level, force, single]
  cache,         \* ProcessingClusterGraphCache
  syndrome,      \* the active detectors of the shot
  level,         \* the level to run
  residual,      \* active detectors in no cluster
  clusters,      \* by id: [level, members, full, region, parent]
  roots,         \* root_cluster_ids
  phase          \* what the builder is at

vars == <<scheduleVars, setting, cache, syndrome, level, residual, clusters, roots, phase>>

given == <<scheduleVars, setting, cache, syndrome>>

NoParent == 0

MaxLevel == Len(setting.schedule)
Forced   == setting.force /\ level >= MaxLevel

NoOwner  == -1

\* The members of S in the order of their marks, which differ.
Ranked(S, mark) ==
  [i \in 1 .. Cardinality(S) |->
     CHOOSE x \in S : Cardinality({y \in S : mark[y] < mark[x]}) = i - 1]

Sorted(S) == Ranked(S, [x \in S |-> x])

Cluster(l, members, full, region) ==
  [level |-> l, members |-> members, full |-> full, region |-> region, parent |-> NoParent]

-----------------------------------------------------------------------------
\* What the cache says of the graph.

\* buffer_covers_all_interior_distances_by_upper_bound, which the other ways to tell imply
CoversEach(bound) == cache.upper < Inf /\ bound >= cache.upper

\* Radius neighbours exist up to the first level whose bounds cover the graph.
RadiusLevels ==
  LET covered == {l \in 1 .. MaxLevel : /\ CoversEach(setting.schedule[l].buffer)
                                        /\ CoversEach(setting.schedule[l].diameter)}
  IN IF covered = {} THEN MaxLevel ELSE Min(covered)

RadiusListed == cache.radius /\ level <= RadiusLevels

\* The neighbours of v in the list of the level, which has them in the order of their ids.  From
\* the table of all pairs, a pair is listed from the first level that contains it on.
RadiusRow(v) ==
  {u \in Nodes \ {v} :
     IF cache.allPairs
     THEN cache.dist[v, u] < Inf
          /\ \E l \in 1 .. level : cache.dist[v, u] <= setting.schedule[l].buffer
     ELSE cache.dist[v, u] <= setting.schedule[level].buffer}

-----------------------------------------------------------------------------
\* The components of the residual under the buffer bound, and the order they come in.

\* A division of the residual, its parts in the order of their marks.
ByMark(division, mark) ==
  LET parts == Ranked(division, mark) IN [i \in DOMAIN parts |-> Sorted(parts[i])]

ByFirstMember(division) == ByMark(division, [S \in division |-> Min(S)])

\* By the roots of a disjoint set, which depend on the order of its unions.
ByRepresentative(division) ==
  {ByMark(division, mark) : mark \in {m \in [division -> residual] : \A S \in division : m[S] \in S}}

\* Mutant: territories are not united that meet on a way of just the buffer.
MeetSooner(way, buffer) == way < buffer

Meet(way, buffer) == way <= buffer

\* build_threshold_components_with_lightweight_cluster_flooder: every node is owned by the
\* nearest detector, or the first of the nearest, and two owners are united where their
\* territories meet on a way no longer than the buffer.
Owner(v, buffer) ==
  LET near == Min({cache.dist[s, v] : s \in residual}) IN
  IF near > buffer THEN NoOwner ELSE Min({s \in residual : cache.dist[s, v] = near})

FloodedUnions(buffer) ==
  LET own == [v \in Nodes |-> Owner(v, buffer)]
      Way(u, v) == cache.dist[own[u], u] + Weight(cache, u, v) + cache.dist[own[v], v]
      met == {p \in Nodes \X Nodes : own[p[1]] # NoOwner /\ own[p[2]] # NoOwner /\ Meet(Way(p[1], p[2]), buffer)}
  IN {<<own[p[1]], own[p[2]]>> : p \in met} \cup UNION {{<<s, own[s]>>, <<own[s], s>>} : s \in residual}

FloodedComponents(buffer) ==
  {ReachFrom(a, residual, FloodedUnions(buffer)) : a \in residual}

\* Mutant: a detector is only known to be seen once it is taken from the stack.
VisitLate(walk) ==
  IF walk.stack = <<>> THEN walk
  ELSE LET a == Last(walk.stack)
           next == (RadiusRow(a) \cap residual) \ walk.seen
       IN [stack |-> Front(walk.stack) \o Sorted(next), seen |-> walk.seen \cup {a},
           out |-> Append(walk.out, a)]

\* build_threshold_components_from_radius_neighbors: a stack of detectors still to be visited;
\* the neighbours of the one on top that were not seen go on it.
Visit(walk) ==
  IF walk.stack = <<>> THEN walk
  ELSE LET a == Last(walk.stack)
           next == (RadiusRow(a) \cap residual) \ walk.seen
       IN [stack |-> Front(walk.stack) \o Sorted(next), seen |-> walk.seen \cup next,
           out |-> Append(walk.out, a)]

Visited(start, seen) ==
  LET walk[k \in 0 .. Cardinality(residual)] ==
        IF k = 0 THEN [stack |-> <<start>>, seen |-> seen \cup {start}, out |-> <<>>]
        ELSE Visit(walk[k - 1])
  IN walk[Cardinality(residual)].out

Collect(found, a) ==
  IF a \in found.seen THEN found
  ELSE LET component == Visited(a, found.seen) IN
       [seen |-> found.seen \cup ToSet(component), comps |-> Append(found.comps, component)]

ListedComponents ==
  LET found[k \in 0 .. Cardinality(residual)] ==
        IF k = 0 THEN [seen |-> {}, comps |-> <<>>]
        ELSE Collect(found[k - 1], Sorted(residual)[k])
  IN found[Cardinality(residual)].comps

\* The lists of components a level may go through.
Components(buffer) ==
  IF CoversEach(buffer) THEN {<<Sorted(residual)>>}
  ELSE IF RadiusListed THEN {ListedComponents}
  ELSE IF cache.allPairs THEN {ByFirstMember(ThresholdComponents(cache.dist, residual, buffer))}
  ELSE ByRepresentative(FloodedComponents(buffer))

-----------------------------------------------------------------------------
\* Within the diameter bound: all of the graph is, or every pair of members.
Narrow(S, bound) == CoversEach(bound) \/ Diameter(cache.dist, S) <= bound

\* farthest_boundary_match_distance_for_sources
NearBoundary(S, bound) == \A a \in S : cache.near[a] <= bound

\* Mutant: an odd component stops without a look at the boundary.
MayStopWithoutBoundary(S) ==
  LET b == setting.schedule[level] IN
  \/ Forced
  \/ /\ b.cap = 0 \/ Cardinality(S) <= b.cap \/ Cardinality(S) = 1
     /\ Narrow(S, b.diameter)

MayStop(S) ==
  LET b == setting.schedule[level] IN
  \/ Forced
  \/ /\ b.cap = 0 \/ Cardinality(S) <= b.cap \/ Cardinality(S) = 1
     /\ Narrow(S, b.diameter)
     /\ Cardinality(S) % 2 = 0 \/ NearBoundary(S, b.diameter)

\* The region of a cluster: all of the graph, or what is within the buffer of a member.
Ball(members, buffer) == {v \in Nodes : \E a \in members : cache.dist[a, v] <= buffer}

\* From radius neighbours, the region is in the order it is found in.
Mark(region, a) ==
  region \o (IF a \in ToSet(region) THEN <<>> ELSE <<a>>) \o Sorted(RadiusRow(a) \ ToSet(region))

ListedRegion(members) ==
  LET marked[k \in 0 .. Len(members)] ==
        IF k = 0 THEN <<>> ELSE Mark(marked[k - 1], members[k])
  IN marked[Len(members)]

Accepted(members) ==
  LET buffer == setting.schedule[level].buffer
      full == CoversEach(buffer) IN
  Cluster(level, members, full,
          IF full THEN <<>>
          ELSE IF RadiusListed THEN ListedRegion(members)
          ELSE Sorted(Ball(ToSet(members), buffer)))

-----------------------------------------------------------------------------
\* build_cluster_subgraph: the nodes a cluster keeps, and the edges with both ends kept.
\* Edges to the boundary stay with their node.
KeptNodes(c) == IF c.full THEN Nodes ELSE ToSet(c.region)

Subgraph(c) ==
  [nodes |-> KeptNodes(c),
   edges |-> {e \in DOMAIN cache.edge : e \subseteq KeptNodes(c)},
   boundary |-> DOMAIN cache.boundary \cap KeptNodes(c)]

-----------------------------------------------------------------------------
Init ==
  /\ ScheduleInit
  /\ setting = <<>> /\ cache = <<>> /\ syndrome = {}
  /\ level = 1
  /\ residual = {}
  /\ clusters = <<>>
  /\ roots = {}
  /\ phase = "schedule"

BuildSchedule ==
  /\ phase = "schedule"
  /\ ScheduleNext
  /\ UNCHANGED <<setting, cache, syndrome, level, residual, clusters, roots, phase>>

\* A shot is decoded: what the clusterer is called with.
Begin ==
  /\ phase = "schedule" /\ built = "done" /\ policy \in Deployed
  /\ setting' \in [schedule : {Schedule}, force : Forcing, single : SingleRoots]
  /\ cache' \in UNION {GraphCaches(g) : g \in Graphs}
  /\ syndrome' \in SUBSET Nodes
  /\ residual' = syndrome'
  /\ phase' = "level"
  /\ UNCHANGED <<scheduleVars, level, clusters, roots>>

\* One level: the components that may stop become clusters, the others are left for the next.
CloseLevel ==
  /\ phase = "level" /\ residual # {}
  /\ \E listed \in Components(setting.schedule[level].buffer) :
       LET stop == Sorted({i \in DOMAIN listed : MayStop(ToSet(listed[i]))})
           accepted == [k \in DOMAIN stop |-> listed[stop[k]]] IN
       /\ clusters' = clusters \o [i \in DOMAIN accepted |-> Accepted(accepted[i])]
       /\ residual' = {a \in residual : \A i \in DOMAIN accepted : a \notin ToSet(accepted[i])}
  /\ phase' = "left"
  /\ UNCHANGED <<given, level, roots>>

\* try_append_full_root_completion_cluster: what is left is taken at once to the first level
\* whose bounds cover the graph, if the levels between are not all to be run.
CompletesAt(target) ==
  /\ cache.radius /\ target > level + 1
  /\ CoversEach(setting.schedule[target].buffer)
  /\ CoversEach(setting.schedule[target].diameter)
  /\ Cardinality(residual) % 2 = 0 \/ NearBoundary(residual, setting.schedule[target].diameter)

FullCluster(l, members) == Cluster(l, members, TRUE, <<>>)

TakeResidual(l) ==
  /\ clusters' = Append(clusters, FullCluster(l, Sorted(residual)))
  /\ residual' = {}
  /\ UNCHANGED <<given, level, roots, phase>>

CompleteRoot ==
  /\ phase = "left" /\ residual # {} /\ level < MaxLevel
  /\ CompletesAt(RadiusLevels)
  /\ TakeResidual(RadiusLevels)

NextLevel ==
  /\ phase = "left" /\ residual # {} /\ level < MaxLevel
  /\ ~CompletesAt(RadiusLevels)
  /\ level' = level + 1
  /\ phase' = "level"
  /\ UNCHANGED <<given, residual, clusters, roots>>

\* append_forced_single_final_root_cluster, after the last level
ForceFinalRoot ==
  /\ phase = "left" /\ residual # {} /\ level = MaxLevel /\ setting.single
  /\ TakeResidual(MaxLevel + 1)

\* std::invalid_argument: no cluster for what is left
Fail ==
  /\ phase = "left" /\ residual # {} /\ level = MaxLevel /\ ~setting.single
  /\ phase' = "thrown"
  /\ UNCHANGED <<given, level, residual, clusters, roots>>

-----------------------------------------------------------------------------
\* clusters_influence_intersect: one scan over both regions, as if they were sorted.
Intersect(c, d) ==
  LET a == c.region
      b == d.region
      Step(at, k) ==
        IF at.met \/ at.i > Len(a) \/ at.j > Len(b) THEN at
        ELSE IF a[at.i] = b[at.j] THEN [at EXCEPT !.met = TRUE]
        ELSE IF a[at.i] < b[at.j] THEN [at EXCEPT !.i = @ + 1] ELSE [at EXCEPT !.j = @ + 1]
  IN \/ c.full \/ d.full
     \/ FoldLeft(Step, [i |-> 1, j |-> 1, met |-> FALSE], [k \in 1 .. Len(a) + Len(b) |-> k]).met

FullIds == {i \in DOMAIN clusters : clusters[i].full}

\* Mutant: clusters of the same level may be parents too.
FirstAboveOrBeside(i) ==
  LET above == {j \in DOMAIN clusters \ {i} : clusters[j].level >= clusters[i].level
                                              /\ Intersect(clusters[i], clusters[j])}
  IN IF above = {} THEN NoParent ELSE Min(above)

\* The first cluster of the lowest level above that the region of i meets.
FirstAbove(i) ==
  LET above == {j \in DOMAIN clusters : clusters[j].level > clusters[i].level
                                         /\ Intersect(clusters[i], clusters[j])}
      lowest == {j \in above : \A k \in above : clusters[j].level <= clusters[k].level}
  IN IF above = {} THEN NoParent ELSE Min(lowest)

\* A cluster that covers the graph, if there is just one, is the parent of all below it.
Parents ==
  IF Cardinality(FullIds) = 1
  THEN LET root == Min(FullIds) IN
       [i \in DOMAIN clusters |->
          IF clusters[i].level < clusters[root].level THEN root ELSE NoParent]
  ELSE [i \in DOMAIN clusters |-> FirstAbove(i)]

Orphans(parents) == {i \in DOMAIN parents : parents[i] = NoParent}

AssignParents ==
  /\ phase \in {"level", "left"} /\ residual = {}
  /\ \E parents \in {Parents} :
       /\ clusters' = [i \in DOMAIN clusters |-> [clusters[i] EXCEPT !.parent = parents[i]]]
       /\ roots' = IF Cardinality(FullIds) = 1 THEN FullIds ELSE Orphans(parents)
  /\ phase' = "assigned"
  /\ UNCHANGED <<given, level, residual>>

Several == setting.single /\ Cardinality(roots) > 1

\* An empty cluster above all others takes the roots for its children.
AddFinalRoot ==
  /\ phase = "assigned" /\ Several
  /\ LET top == 1 + Max({clusters[i].level : i \in DOMAIN clusters})
         final == Len(clusters) + 1
         linked == [i \in DOMAIN clusters |->
                      IF i \in roots THEN [clusters[i] EXCEPT !.parent = final] ELSE clusters[i]]
     IN /\ clusters' = Append(linked, FullCluster(top, <<>>))
        /\ roots' = {final}
  /\ UNCHANGED <<given, level, residual, phase>>

\* expand_parent_influence_to_cover_direct_children: in the order of the ids, every cluster
\* adds its region to that of its parent.
Cover(made, i) ==
  LET child == made[i]
      parent == made[child.parent]
      region == ToSet(parent.region) \cup ToSet(child.region) \cup ToSet(child.members)
      full == child.full \/ region = Nodes
  IN IF child.parent = NoParent \/ parent.full THEN made
     ELSE [made EXCEPT ![child.parent] =
             [@ EXCEPT !.full = full, !.region = IF full THEN <<>> ELSE Sorted(region)]]

\* Mutant: parents are expanded before their children are.
ChildrenFromTheTop == Reverse([i \in DOMAIN clusters |-> i])

Children == [i \in DOMAIN clusters |-> i]

Covered(order) ==
  LET made[k \in 0 .. Len(order)] ==
        IF k = 0 THEN clusters ELSE Cover(made[k - 1], order[k])
  IN made[Len(order)]

ExpandRegions ==
  /\ phase = "assigned" /\ ~Several
  /\ clusters' = Covered(Children)
  /\ phase' = "done"
  /\ UNCHANGED <<given, level, residual, roots>>

Next ==
  \/ BuildSchedule \/ Begin
  \/ CloseLevel \/ CompleteRoot \/ NextLevel \/ ForceFinalRoot \/ Fail
  \/ AssignParents \/ AddFinalRoot \/ ExpandRegions

Spec == Init /\ [][Next]_vars

-----------------------------------------------------------------------------

Ids == DOMAIN clusters

\* A schedule that is built is never one its own check rejects, and keeps what the policies
\* promise: no level consumes more of phi than its budget, so that phi stays on or above the
\* floor or the wanted envelope and the levels do not run out before their number is reached,
\* and a level starts beyond three diameters and four buffers of the one below.
ScheduleKeepsItsPromise ==
  built # "no" /\ policy.kind # "given" =>
    /\ built # "rejected"
    /\ \A k \in DOMAIN bounds :
         /\ policy.kind = "sequence" => NotLess(PhiAbove(SubSeq(bounds, 1, k)), Target(k + 1))
         /\ policy.kind # "sequence" /\ k \in DOMAIN policy.budgets =>
              NotLess(policy.budgets[k], Consumption(bounds[k]))
         /\ k > 1 /\ (policy.kind # "candidates" \/ policy.gap) =>
              bounds[k].d >= 3 * bounds[k - 1].d + 4 * bounds[k - 1].b
    /\ policy.kind = "sequence" /\ Len(bounds) < policy.levels =>
         Last(bounds).d > MaxDistance \/ Last(bounds).b > MaxDistance

\* No cluster names a detector or a vertex twice.
TypeOK ==
  /\ residual \subseteq syndrome
  /\ phase # "schedule" => level \in 1 .. MaxLevel
  /\ phase \in {"schedule", "level", "left", "assigned", "done", "thrown"}
  /\ \A i \in Ids :
       /\ clusters[i].level \in 1 .. MaxLevel + 2
       /\ clusters[i].members \in Seq(syndrome) /\ IsInjective(clusters[i].members)
       /\ clusters[i].region \in Seq(Nodes) /\ IsInjective(clusters[i].region)
       /\ clusters[i].parent \in {NoParent} \cup Ids
  /\ roots \subseteq Ids

\* A hierarchy that is finished gives every active detector to exactly one cluster, has a
\* parent above and after every cluster that is not listed as a root, and no more than the one
\* root it was asked for: what the scheduler needs to start leaves and to collect roots.
OneRootOwnsAll ==
  phase = "done" =>
    /\ \A a \in syndrome : Cardinality({i \in Ids : a \in ToSet(clusters[i].members)}) = 1
    /\ \A i \in Ids \ roots : clusters[i].parent # NoParent
                             /\ clusters[i].parent > i
                             /\ clusters[clusters[i].parent].level > clusters[i].level
    /\ \A i \in roots : clusters[i].parent = NoParent
    /\ syndrome # {} => roots # {}
    /\ setting.single => Cardinality(roots) <= 1

\* Whichever way the components of a level were found, a cluster is farther than its buffer
\* from every detector that was not in one before it: it can be decoded on its own.
AcceptedAreApart ==
  \A i \in Ids : clusters[i].level <= MaxLevel =>
    \A a \in ToSet(clusters[i].members) :
      \A b \in residual \cup
               UNION {ToSet(clusters[j].members) : j \in {k \in Ids \ {i} :
                        clusters[k].level >= clusters[i].level}} :
        cache.dist[a, b] > setting.schedule[clusters[i].level].buffer

\* The subgraph of a parent contains those of its children, and so those of all below it:
\* a state stopped in any of them can be imported.
RegionsNest ==
  phase = "done" =>
    \A i \in Ids \ roots :
      LET kept == KeptNodes(clusters[clusters[i].parent]) IN
      KeptNodes(clusters[i]) \cup ToSet(clusters[i].members) \subseteq kept

\* A cluster that was not forced has a perfect matching in the graph it is decoded in, if the
\* shot has one at all and the buffer of its level is no shorter than the diameter.
Matchable(graph, S) ==
  LET Joined == {p \in graph.nodes \X graph.nodes : {p[1], p[2]} \in graph.edges} IN
  \A a \in S :
    LET piece == ReachFrom(a, graph.nodes, Joined) IN
    /\ a \in graph.nodes
    /\ Cardinality(piece \cap S) % 2 = 0 \/ piece \cap graph.boundary # {}

SolvableWhereItRuns ==
  Ids # {} /\ Solvable(cache, syndrome) =>
    \A i \in Ids :
      LET c == clusters[i] IN
      (c.level < MaxLevel \/ (c.level = MaxLevel /\ ~setting.force))
      /\ setting.schedule[c.level].diameter <= setting.schedule[c.level].buffer
        => Matchable(Subgraph(c), ToSet(c.members))
=============================================================================
