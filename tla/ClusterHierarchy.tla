-------------------------- MODULE ClusterHierarchy ---------------------------
(***************************************************************************)
(* build_growing_only_processing_cluster_hierarchy (lockstep_scheduler.cc) *)
(* and, for each of its levels, GrowingOnlyClusterer::run                  *)
(* (growing_only_clusterer.cc).  A level finds components of the residual  *)
(* by one of several paths and accepts those that may stop; what no level  *)
(* accepts ends in a terminal root.                                        *)
(*                                                                         *)
(* A union-find tree is the set of members it connects.  Detectors stand   *)
(* for their indices among the sorted active detectors.                    *)
(***************************************************************************)
EXTENDS ClusterGeometry, Sequences

CONSTANTS
  Schedules,     \* sequences of bounds [diameter, buffer, cap, certified], one per level
  Forcing,       \* values of force_cluster_at_max_level
  Modes,         \* what the environment asks for: a subset of AllModes
  SparseLists    \* may a list of radius neighbours be left empty where the buffer covers
                 \* the graph (graphs without a table of all pairs)

\* default; the forced level computes exact metadata; an empty terminal root is kept; no sparse
\* frontier; the reference table of pairs.
AllModes == {"default", "exact", "keep", "pairs", "table"}

ASSUME HierarchyAssumption ==
  /\ Modes \subseteq AllModes
  /\ Forcing \subseteq BOOLEAN
  /\ SparseLists \in BOOLEAN

\* Bounds are below the infinite distance, and buffers do not shrink from level to level
\* (validate_processing_cluster_stopping_lemma_bounds, by which a diameter is also less than half
\* of its buffer, and the formula with lambda > 1).
ASSUME ScheduleAssumption ==
  \A s \in Schedules :
    /\ s \in Seq([diameter : Nat, buffer : Nat, cap : Nat, certified : BOOLEAN])
    /\ s # <<>>
    /\ \A l \in 1 .. Len(s) : s[l].diameter < Inf /\ s[l].buffer < Inf
    /\ \A k, l \in 1 .. Len(s) : k <= l => s[k].buffer <= s[l].buffer

VARIABLES
  setting,       \* [schedule, force, mode]
  cache,         \* ProcessingClusterGraphCache
  syndrome,      \* the active detectors of the shot
  level,         \* the level to run or running
  residual,      \* active detectors in no cluster
  hierarchy,     \* the clusters of the levels: [level, members]
  terminal,      \* the root that takes what is left: NoRoot or [level, members]
  phase,         \* what the builder is at
  comps,         \* components of the level: [members, ready, width]
  reach, owner,  \* the frontier's distances and owners per node
  frontier,      \* frontier_queue: <<distance, node, source>>
  collisions     \* collision_queue or the sorted events: <<distance, a, b>>

vars == <<setting, cache, syndrome, level, residual, hierarchy, terminal, phase, comps, reach,
          owner, frontier, collisions>>

given  == <<setting, cache, syndrome>>
growth == <<reach, owner, frontier, collisions>>
built  == <<level, residual, hierarchy, terminal>>

Nobody == -1
NoRoot == [level |-> 0, members |-> {Nobody}]

MaxLevel == Len(setting.schedule)
Bounds   == setting.schedule[level]
Forced   == setting.force /\ level = MaxLevel

-----------------------------------------------------------------------------
\* What the cache says of the graph.

MinEdge == Min({Inf} \cup Range(cache.edge))

CoversAll(buffer) ==
  /\ cache.allPairs
  /\ Range(cache.dist) = Finite(cache.dist)
  /\ buffer >= Max(Finite(cache.dist))

CoversEach(buffer) == cache.upper < Inf /\ buffer >= cache.upper

\* Radius neighbours exist up to the first level whose bounds cover the graph.
RadiusLevels ==
  LET Covered(l) ==
        LET b == setting.schedule[l] IN
          /\ CoversAll(b.buffer) \/ CoversEach(b.buffer)
          /\ CoversAll(b.diameter) \/ CoversEach(b.diameter)
      covered == {l \in 1 .. MaxLevel : Covered(l)}
  IN IF covered = {} THEN MaxLevel ELSE Min(covered)

RadiusListed == cache.radius /\ level <= RadiusLevels

\* The list of a level.  From the table of all pairs, a pair is listed from the first level that
\* contains it on.  Without the table, the list is left empty when the buffer covers the graph.
RadiusNear(a, b) ==
  IF cache.allPairs
  THEN cache.dist[a, b] < Inf /\ \E l \in 1 .. level : cache.dist[a, b] <= setting.schedule[l].buffer
  ELSE cache.dist[a, b] <= Bounds.buffer /\ ~CoversEach(Bounds.buffer)

-----------------------------------------------------------------------------
Init ==
  /\ setting \in [schedule : Schedules, force : Forcing, mode : Modes]
  /\ cache \in UNION {GraphCaches(g) : g \in Graphs}
  /\ SparseLists \/ cache.allPairs \/ ~cache.radius
       \/ \A l \in 1 .. MaxLevel : ~CoversEach(setting.schedule[l].buffer)
  /\ syndrome \in SUBSET Nodes
  /\ level = 1
  /\ residual = syndrome
  /\ hierarchy = {}
  /\ terminal = NoRoot
  /\ phase = "start"
  /\ comps = {}
  /\ reach = [v \in Nodes |-> Inf] /\ owner = [v \in Nodes |-> Nobody]
  /\ frontier = {} /\ collisions = {}

\* try_build_direct_forced_component_roots_hierarchy applies: no lower level can accept.
OnlyForcedLevelAccepts ==
  /\ setting.mode \notin {"exact", "keep"}
  /\ setting.force
  /\ residual # {}
  /\ \A l \in 1 .. MaxLevel - 1 :
       /\ setting.schedule[l].buffer < MinEdge
       /\ Min(Range(cache.near)) > setting.schedule[l].diameter

DirectRoots ==
  /\ phase = "start" /\ OnlyForcedLevelAccepts
  /\ LET groups == IF setting.schedule[MaxLevel].certified
                   THEN InteriorComponents(cache.id, residual) ELSE {residual}
     IN hierarchy' = {[level |-> MaxLevel, members |-> S] : S \in groups}
  /\ level' = MaxLevel + 1
  /\ residual' = {}
  /\ phase' = "done"
  /\ UNCHANGED <<given, terminal, comps, growth>>

Start ==
  /\ phase = "start" /\ ~OnlyForcedLevelAccepts
  /\ phase' = "level"
  /\ UNCHANGED <<given, built, comps, growth>>

-----------------------------------------------------------------------------
\* GrowingOnlyClusterer::run tries its paths in this order.

Running == phase = "level" /\ residual # {} /\ level <= MaxLevel

\* run_forced_max_level_single_root_certificate_fallback
FallsBack == Forced /\ ~Bounds.certified

\* run_forced_max_level_direct_component_lookup_path
ForcedLookup == Forced /\ setting.mode # "exact"

\* try_run_no_union_singleton_fast_path
NoUnions ==
  \/ Bounds.buffer < MinEdge
  \/ /\ RadiusListed
     /\ \A a, b \in residual : a # b => ~RadiusNear(a, b)

Sparse == setting.mode \notin {"pairs", "table"}

\* run_precomputed_component_lookup_path
Lookup ==
  Sparse /\ (CoversAll(Bounds.buffer) \/ CoversEach(Bounds.buffer) \/ Forced \/ RadiusListed)

Component(S, ready, width) == [members |-> S, ready |-> ready, width |-> width]

\* Each set of a division becomes a component with its exact diameter.
Divide(division) == {Component(S, 0, Diameter(cache.dist, S)) : S \in division}

\* Mutant: what is forced is divided as on a level that is not.
WholeOrThreshold ==
  IF FallsBack \/ CoversAll(Bounds.buffer) THEN {residual}
  ELSE ThresholdComponents(cache.dist, residual, Bounds.buffer)

WholeOrInterior ==
  IF FallsBack \/ CoversAll(Bounds.buffer) THEN {residual} ELSE InteriorComponents(cache.id, residual)

RunForced ==
  /\ Running
  /\ FallsBack \/ ForcedLookup
  /\ comps' = Divide(WholeOrInterior)
  /\ phase' = "close"
  /\ UNCHANGED <<given, built, growth>>

RunSingletons ==
  /\ Running /\ ~FallsBack /\ ~ForcedLookup
  /\ NoUnions
  /\ comps' = Divide({{a} : a \in residual})
  /\ phase' = "close"
  /\ UNCHANGED <<given, built, growth>>

BeginLookup ==
  /\ Running /\ ~FallsBack /\ ~ForcedLookup /\ ~NoUnions
  /\ Lookup
  /\ comps' = {}
  /\ phase' = "lookup"
  /\ UNCHANGED <<given, built, growth>>

\* The detectors not yet visited; a component is collected from the first of them.
Unvisited == residual \ UNION {c.members : c \in comps}

\* What belongs to a: everything, its component of the graph, or what a stack of radius
\* neighbours leads to.
Collected(a) ==
  IF CoversAll(Bounds.buffer) THEN Unvisited
  ELSE IF CoversEach(Bounds.buffer) \/ Forced THEN {b \in Unvisited : cache.id[b] = cache.id[a]}
  ELSE ReachFrom(a, Unvisited, {p \in Unvisited \X Unvisited : RadiusNear(p[1], p[2])})

LookupComponent ==
  /\ phase = "lookup"
  /\ \E a \in Unvisited :
       /\ \A b \in Unvisited : a <= b
       /\ comps' = comps \cup Divide({Collected(a)})
  /\ UNCHANGED <<given, built, phase, growth>>

EndLookup ==
  /\ phase = "lookup" /\ Unvisited = {}
  /\ phase' = "close"
  /\ UNCHANGED <<given, built, comps, growth>>

Singletons == {Component({a}, 0, 0) : a \in residual}

BeginGrowth ==
  /\ Running /\ ~FallsBack /\ ~ForcedLookup /\ ~NoUnions /\ ~Lookup
  /\ Sparse
  /\ comps' = Singletons
  /\ owner' = [v \in Nodes |-> IF v \in residual THEN v ELSE Nobody]
  /\ reach' = [v \in Nodes |-> IF v \in residual THEN 0 ELSE Inf]
  /\ frontier' = {<<0, a, a>> : a \in residual}
  /\ collisions' = {}
  /\ phase' = "grow"
  /\ UNCHANGED <<given, built>>

\* use_reference_active_pair_table_path
Table == setting.mode = "table" /\ cache.allPairs

\* run_active_pair_table_component_path: the components first, then a spanning tree of each.
RunTable ==
  /\ Running /\ ~FallsBack /\ ~ForcedLookup /\ ~NoUnions
  /\ Table
  /\ comps' = {Component(S, Bottleneck(cache.dist, S) \div 2, Diameter(cache.dist, S)) :
                 S \in ThresholdComponents(cache.dist, residual, Bounds.buffer)}
  /\ phase' = "close"
  /\ UNCHANGED <<given, built, growth>>

\* generate_pair_collision_events
BeginPairs ==
  /\ Running /\ ~FallsBack /\ ~ForcedLookup /\ ~NoUnions
  /\ ~Sparse /\ ~Table
  /\ comps' = Singletons
  /\ collisions' = {<<cache.dist[p], p[1], p[2]>> :
                      p \in {q \in residual \X residual : q[1] < q[2] /\ cache.dist[q] < Inf}}
  /\ phase' = "pairs"
  /\ UNCHANGED <<given, built, reach, owner, frontier>>

-----------------------------------------------------------------------------
\* run_sparse_frontier_streaming_unions: one turn of its loop, or one collision taken before it.

Before(x, y) ==
  \/ x[1] < y[1]
  \/ x[1] = y[1] /\ x[2] < y[2]
  \/ x[1] = y[1] /\ x[2] = y[2] /\ x[3] <= y[3]

First(x, queue) == \A y \in queue : Before(x, y)

ComponentOf(a) == CHOOSE c \in comps : a \in c.members

\* unite
Unite(c, d, distance, width) ==
  (comps \ {c, d}) \cup
    {Component(c.members \cup d.members,
               Max({c.ready, d.ready, distance \div 2}),
               Max({c.width, d.width, width}))}

\* Mutant: collisions wait until the frontier is spread.
CollisionReadyLate == collisions # {} /\ frontier = {}

\* The first collision is no further than the first entry of the frontier.
CollisionReady == \E e \in collisions : \A f \in frontier : e[1] <= f[1]

TakeCollision ==
  /\ phase = "grow" /\ CollisionReady
  /\ \E e \in collisions :
       /\ First(e, collisions)
       /\ collisions' = collisions \ {e}
       /\ LET c == ComponentOf(e[2])
              d == ComponentOf(e[3])
          IN comps' = IF c = d THEN comps ELSE Unite(c, d, e[1], e[1])
  /\ UNCHANGED <<given, built, phase, reach, owner, frontier>>

Neighbors(v) == {u \in Nodes : {u, v} \in DOMAIN cache.edge}

\* Mutant: the sources are left in the order in which they met.
WitnessUnsorted(d, v, source, u) == <<d + cache.edge[{u, v}] + reach[u], source, owner[u]>>

\* The collision seen from v, reached from source at distance d, with the neighbour u.
Witness(d, v, source, u) ==
  <<d + cache.edge[{u, v}] + reach[u], Min({source, owner[u]}), Max({source, owner[u]})>>

\* Mutant: an equal step of the owner itself counts as better.
ImprovesOnTies(step, source, u) ==
  /\ step <= Bounds.buffer
  /\ \/ owner[u] = Nobody
     \/ step < reach[u]
     \/ step = reach[u] /\ source <= owner[u]

\* A step of source to u is within the buffer and better than what is known of u.
Improves(step, source, u) ==
  /\ step <= Bounds.buffer
  /\ \/ owner[u] = Nobody
     \/ step < reach[u]
     \/ step = reach[u] /\ source < owner[u]

Stale(e) == owner[e[2]] # e[3] \/ reach[e[2]] # e[1]

Spread(d, v, source) ==
  LET met == {u \in Neighbors(v) : owner[u] \notin {Nobody, source}}
      Step(u) == d + cache.edge[{u, v}]
      taken == {u \in Neighbors(v) : Improves(Step(u), source, u)}
  IN /\ collisions' = collisions \cup
          {w \in {Witness(d, v, source, u) : u \in met} : w[1] <= Bounds.buffer}
     /\ reach' = [u \in Nodes |-> IF u \in taken THEN Step(u) ELSE reach[u]]
     /\ owner' = [u \in Nodes |-> IF u \in taken THEN source ELSE owner[u]]
     /\ frontier' = (frontier \ {<<d, v, source>>}) \cup {<<Step(u), u, source>> : u \in taken}

TakeFrontier ==
  /\ phase = "grow" /\ ~CollisionReady
  /\ \E e \in frontier :
       /\ First(e, frontier)
       /\ IF Stale(e)
          THEN frontier' = frontier \ {e} /\ UNCHANGED <<reach, owner, collisions>>
          ELSE Spread(e[1], e[2], e[3])
  /\ UNCHANGED <<given, built, phase, comps>>

\* compute_exact_component_pair_metadata replaces what the unions noted.
EndGrowth ==
  /\ phase = "grow" /\ frontier = {} /\ collisions = {}
  /\ comps' = {Component(c.members, c.ready, Diameter(cache.dist, c.members)) : c \in comps}
  /\ phase' = "close"
  /\ UNCHANGED <<given, built, growth>>

\* The loop over the sorted events of all pairs in run.
TakePair ==
  /\ phase = "pairs"
  /\ \E e \in collisions :
       /\ First(e, collisions)
       /\ collisions' = collisions \ {e}
       /\ LET c == ComponentOf(e[2])
              d == ComponentOf(e[3])
          IN comps' = IF c = d
                      THEN (comps \ {c}) \cup {Component(c.members, c.ready, Max({c.width, e[1]}))}
                      ELSE IF e[1] <= Bounds.buffer THEN Unite(c, d, e[1], e[1]) ELSE comps
  /\ UNCHANGED <<given, built, phase, reach, owner, frontier>>

EndPairs ==
  /\ phase = "pairs" /\ collisions = {}
  /\ phase' = "close"
  /\ UNCHANGED <<given, built, comps, growth>>

-----------------------------------------------------------------------------
\* Mutant: one detector near the boundary is enough.
ParityMayStopSomewhere(S) ==
  Cardinality(S) % 2 = 0 \/ Min({cache.near[a] : a \in S}) <= Bounds.diameter

\* parity_can_stop_locally
ParityMayStop(S) ==
  Cardinality(S) % 2 = 0 \/ Max({cache.near[a] : a \in S}) <= Bounds.diameter

\* evaluate_final_components and the acceptance of the other paths
Accepts(c) ==
  \/ Forced
  \/ /\ Bounds.cap = 0 \/ Cardinality(c.members) <= Bounds.cap
     /\ c.width <= Bounds.diameter
     /\ ParityMayStop(c.members)

\* Mutant: the residual of the level before is kept.
CloseLevelKeeping ==
  /\ phase = "close"
  /\ LET accepted == {c \in comps : Accepts(c)} IN
       hierarchy' = hierarchy \cup {[level |-> level, members |-> c.members] : c \in accepted}
  /\ level' = level + 1
  /\ comps' = {}
  /\ phase' = "level"
  /\ UNCHANGED <<given, residual, terminal, growth>>

\* emit_accepted_cluster, collect_residual and the builder's turn of its loop
CloseLevel ==
  /\ phase = "close"
  /\ LET accepted == {c \in comps : Accepts(c)} IN
       /\ hierarchy' = hierarchy \cup {[level |-> level, members |-> c.members] : c \in accepted}
       /\ residual' = UNION {c.members : c \in comps \ accepted}
  /\ level' = level + 1
  /\ comps' = {}
  /\ phase' = "level"
  /\ UNCHANGED <<given, terminal, growth>>

\* Roots: every cluster if nothing is left, else one that takes the rest and follows all levels.
Finish ==
  /\ phase = "level" /\ (residual = {} \/ level > MaxLevel)
  /\ terminal' = IF hierarchy = {} THEN [level |-> 0, members |-> residual]
                 ELSE IF residual = {} /\ setting.mode # "keep" THEN NoRoot
                 ELSE [level |-> Max({c.level : c \in hierarchy}) + 1, members |-> residual]
  /\ phase' = "done"
  /\ UNCHANGED <<given, level, residual, hierarchy, comps, growth>>

Next ==
  \/ DirectRoots \/ Start
  \/ RunForced \/ RunSingletons
  \/ BeginLookup \/ LookupComponent \/ EndLookup
  \/ BeginGrowth \/ TakeCollision \/ TakeFrontier \/ EndGrowth
  \/ RunTable \/ BeginPairs \/ TakePair \/ EndPairs
  \/ CloseLevel \/ Finish

\* The builder is one thread that runs to the end.
Spec == Init /\ [][Next]_vars /\ WF_vars(Next)

-----------------------------------------------------------------------------
Phases == {"start", "level", "lookup", "grow", "pairs", "close", "done"}

Level == [level : Nat, members : SUBSET Nodes]

\* Types of the state of hierarchy building.
TypeOK ==
  /\ syndrome \subseteq Nodes /\ residual \subseteq Nodes
  /\ level \in 1 .. MaxLevel + 1
  /\ hierarchy \subseteq Level
  /\ terminal \in Level \cup {NoRoot}
  /\ phase \in Phases
  /\ comps \subseteq [members : SUBSET Nodes, ready : Nat, width : Nat]
  /\ reach \in [Nodes -> 0 .. Inf]
  /\ owner \in [Nodes -> Nodes \cup {Nobody}]
  /\ frontier \subseteq (0 .. Inf) \X Nodes \X Nodes
  /\ collisions \subseteq {e \in (0 .. Inf) \X Nodes \X Nodes : e[2] < e[3]}

Disjoint(sets) == \A S, T \in sets : S # T => S \cap T = {}

\* Every active detector is in exactly one place: in one cluster or still in the residual
\* (collect_residual, emit_accepted_cluster), and the components of a level that is being run
\* divide the residual.  A detector lost or counted twice here is decoded wrongly later.
Conserved ==
  /\ residual \cup UNION {c.members : c \in hierarchy} = syndrome
  /\ \A c \in hierarchy : c.members \cap residual = {}
  /\ \A c, d \in hierarchy : c # d => c.members \cap d.members = {}
  /\ \A c, d \in comps : c # d => c.members \cap d.members = {}
  /\ UNION {c.members : c \in comps} \subseteq residual
  /\ phase \in {"grow", "pairs", "close"} => residual \subseteq UNION {c.members : c \in comps}
  /\ phase = "done" =>
       IF terminal = NoRoot THEN residual = {} ELSE terminal.members = residual

\* The frontier unites in the order of distance: when no collision is due
\* (process_ready_collisions), detectors connected by steps shorter than the frontier are
\* already in one component, although their collision was seen only where two regions met.
\* And no component is connected only by something longer than the buffer.  For the frontier as
\* for all pairs, a component is ready at the time of the longest edge of its minimum spanning
\* tree, and its width is its exact diameter in the end.
UnitesInOrder ==
  /\ phase = "grow" =>
       /\ frontier # {} /\ ~CollisionReady =>
            \A a, b \in residual :
              (\A f \in frontier : cache.dist[a, b] < f[1]) => ComponentOf(a) = ComponentOf(b)
       /\ \A c \in comps : Bottleneck(cache.dist, c.members) <= Bounds.buffer
  /\ phase \in {"grow", "pairs"} =>
       \A c \in comps : c.ready = Bottleneck(cache.dist, c.members) \div 2
  /\ phase = "close" => \A c \in comps : c.width = Diameter(cache.dist, c.members)

\* What lets a cluster stop alone: no detector of its own or a later level is within the buffer
\* of its level (the premise of the stopping lemma, whichever path found the components).
AcceptedAreIsolated ==
  \A c \in hierarchy :
    (c.level < MaxLevel \/ ~setting.force) =>
      \A rest \in {d.members : d \in {e \in hierarchy \ {c} : e.level >= c.level}} \cup {residual} :
        \A a \in c.members, b \in rest :
          cache.dist[a, b] > setting.schedule[c.level].buffer

\* A syndrome that has a perfect matching is divided into clusters that have one each, and what
\* is left has one, so that no cluster's decoding fails for want of a partner
\* (parity_can_stop_locally, and the components of the graph that a forced level keeps).
ClustersAreSolvable ==
  Solvable(cache, syndrome) /\ setting.mode # "exact" =>
    /\ \A c \in hierarchy : Solvable(cache, c.members)
    /\ Solvable(cache, residual)

Rule == INSTANCE LevelClustering WITH clusters <- hierarchy

\* Every path of the clusterer decides as the rule of its level says.
KeepsLevelRule == Rule!RuleSpec

\* The hierarchy of a shot is completed (frontier_queue is refilled while it is drained).
HierarchyCompletes == <>(phase = "done")
=============================================================================
