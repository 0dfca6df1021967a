# A verification of parallel sparse blossom

This directory holds TLA+ models of the decoder in `src/`, the TLC runs that check them and the
TLAPS proofs about them. Paths below are relative to the repository root; `parallel/`, `tracker/`,
`flooder/`, `search/`, `matcher/` and `driver/` are directories of `src/pymatching/sparse_blossom/`.

## 1. The system

A *shot* is a set of active detectors (detection events). The program finds a minimum-weight
perfect matching of them on a weighted graph with a modified sparse-blossom algorithm, in parallel:

1. *Processing clusters* (`parallel/growing_only_clusterer.cc`, `parallel/processing_cluster.cc`)
   partition the active detectors into clusters arranged in levels.
2. The *parentless level pipeline* (`run_parentless_level_pipeline`, `parallel/lockstep_scheduler.cc`)
   runs the clusters level by level. A cluster borrows a full-graph MWPM state from the
   *state pool* (`parallel/cluster_subgraph.cc`), imports the *stopped states* that the lower levels
   exported (`parallel/mwpm_stopped_state.cc`), is advanced until its flooder has no events left,
   exports the part of its state that its events touched, and returns the MWPM dirty. Background
   threads reset dirty states.
3. If every cluster is a root of the only level, the clusters run concurrently on the *level worker
   pool* (`ParentlessLevelWorkerPool`).
4. The results are added up (`aggregate_parentless_pipeline_roots`).

An older *lockstep scheduler* (same file) advances parents and children together in algorithmic
time and merges a stopped child into its running parent; it runs on hierarchies with parents, which
`build_processing_cluster_hierarchy` builds from a *schedule* of diameters and buffers
(`make_processing_cluster_*`, `parallel/processing_cluster.cc`). The library's own entry point takes
this path, the benchmark the parentless one.

Inside an MWPM, the *flooder* (`flooder/graph_flooder.cc`) grows, freezes and shrinks regions. It is
driven by *look events* in a radix heap (`tracker/radix_heap_queue.h`); every node and region has a
*tracker* (`tracker/queued_event_tracker.h`) for the look it wants. The *matcher*
(`matcher/mwpm.cc`) turns collisions into alternating trees, blossoms and matches. The *driver*
(`driver/mwpm_decoding.cc`) feeds detection events in, runs the time line to its end and extracts
weight and observables. For the edges of the answer, or for more observables than a mask has bits,
the *search flooder* (`search/search_flooder.cc`) finds a shortest path for each match. If edges are
correlated, a second pass decodes again with the weights that the edges of the first answer imply.
Both graphs are made from the *user graph* (`driver/user_graph.cc`).

| component | state it keeps | operations | interacts by | hard because of |
|---|---|---|---|---|
| state pool | slots' states, ready and dirty queues, reset threads | prewarm, grow, acquire, release, reset, wait until ready | mutex, two condition variables | interleaving, lost wake-ups, a bounded resource |
| level worker pool | task queue, stop flag, remaining counters in callers' frames | parallel_for, worker_loop, destroy, replace | mutexes, condition variables, references into a frame | lifetimes, exceptions, shutdown |
| level pipeline | pending imports, initialised flags, stopped states, results and their supersession | acquire, import, advance, export or extract, release, aggregate | the pool; stopped states between clusters | order of levels, failure half-way, exactly-once accounting |
| stopped states | source detectors, regions, nodes by id | export, filter, import, reschedule | copies between MWPMs | dangling ids, overwritten ownership |
| cluster hierarchy | residual detectors, components, frontier, clusters | find components by one of several paths, accept, close a level | called once per shot; reads the graph cache | paths that must agree, order of unions, ties, stale entries and caches |
| schedules and threshold hierarchy | levels and their bounds; residual, clusters, regions, parents, roots | make a schedule, find and accept components, complete a root, assign parents, expand regions | called once per shot; the lockstep scheduler relies on it | rounding, the order of levels and of expansions, odd rests |
| lockstep scheduler | execution state of each cluster, checkpoints | step a time slice, stop, import, resume, restore, restart, drain | stopped states, snapshots | replay order, time, an extraction that comes too soon |
| event tracker and heap | buckets, clock, wishes | want, cancel, dequeue, clear, advance the clock | called by flooder and importer | stale events, reuse of memory, wrap-around |
| flooder | nodes, regions, shells, radii, queued looks | look at a node or a region, grow, freeze, shrink, shatter, reschedule | calls of the matcher | caches of what blossoms wrap, simultaneous events |
| matcher | alternating trees, matches | one handler per kind of event, shatter and extract | calls of the flooder | recursion, blossoms in blossoms, pointers both ways |
| search flooder | reached nodes, predecessors, distances, queued looks | search from both ends, trace the path back, reset | called for each match, or by a caller who asks for a path | when two searches meet, from which end it is found |
| user graph | edges, boundary nodes, implied weights | merge an edge, convert to both graphs, reweight, undo | called before decoding, and around a second pass | negative weights, parallel edges, edges reweighted twice |
| driver, benchmark | phases of a run | prewarm, warm-up, measure, catch | calls the decoder | phases in the wrong order |

What makes each correct:

* **state pool** - a slot is in one place; a borrower gets a state that was reset; no thread sleeps
  while what it waits for is there; every acquisition and the wait for ready states end.
* **level worker pool** - each body runs once; the call returns after all of them, with exactly one
  of their exceptions; nothing refers to its frame afterwards; destruction ends.
* **level pipeline** - each active detector is counted once in the aggregated result; a cluster runs
  on top of everything below it; states are returned when their level ends; a shot ends.
* **event tracker and heap** - each wanted look happens once, at its time and in order.
* **cluster hierarchy** - clusters and residual partition the active detectors; a cluster that stops
  before the last level has nothing within its buffer and can be matched; every path takes out the same clusters.
* **schedules** - each level keeps to its share of phi, so that what it stops needs not run again.
* **threshold hierarchy** - each detector in one cluster under one root, clusters apart, regions nested.
* **lockstep scheduler** - no detector is lost or counted twice, whatever is restarted; a decode ends.
* **flooder, matcher, driver** - the radii are a feasible dual solution, trees alternate, no event is
  missed, the answer is a lightest explanation, and the MWPM is as new afterwards.
* **search flooder, user graph** - the path is a lightest one, from the one end to the other; weight,
  observables and edges are those of one lightest explanation; no weight of a second pass is left.
* **stopped states** - a child that is imported into the MWPM of its parent goes on as if both had
  been one; nothing that is imported refers to what is not.


## 2. Modules

| module | models | kind |
|---|---|---|
| `ResourcePool` | what a borrower of MWPM states may rely on | abstract |
| `StatePool` | slots, queues, condition variables, reset threads, callers | detailed, refines `ResourcePool` |
| `StatePool_proofs` | the inductive invariant of `StatePool` and the refinement | proofs |
| `ForkJoin` | one `parallel_for` as its caller sees it | abstract |
| `LevelWorkerPool` | callers, workers, queue, stop, replacement | detailed, refines `ForkJoin` |
| `LevelWorkerPool_proofs` | the inductive invariant of `LevelWorkerPool` and the refinement | proofs |
| `LevelPipeline` | the pipeline of one thread over a pool as in `ResourcePool` | detailed |
| `LevelPipeline_proofs` | what a cluster runs on top of, and that each detector is counted once | proofs |
| `LookSchedule` | what the flooder is promised | abstract |
| `FloodEvents` | trackers, radix heap, cyclic times | detailed, refines `LookSchedule` |
| `FloodEvents_proofs` | the inductive invariant of `FloodEvents` and the refinement | proofs |
| `MatchingGraph` | user graph, matching graph, search graph, reweighting | functions on a graph |
| `SearchFlooder` | the search for a path and what is traced back from it | functions on a search flooder |
| `GraphFlooder` | regions, radii, shells, blossoms; every handler of the flooder | functions on an MWPM |
| `Mwpm` | alternating trees; every handler of the matcher, extraction, reset | functions on an MWPM |
| `StoppedState` | export, filter, import, rescheduling | functions on an MWPM |
| `MinimumWeightCorrection` | what a decoder answers | abstract |
| `SparseBlossom` | an MWPM and its search flooder answering one call after the other, alone or with a child | detailed, refines `MinimumWeightCorrection` |
| `ClusterGeometry` | distances, component ids and bounds of the graph cache, as functions of a graph | operators |
| `ClusterGeometry_proofs` | that the distances are shortest and a metric, that components divide a set | lemmas |
| `LevelClustering` | what the levels of a hierarchy take out | abstract |
| `ClusterHierarchy` | the parentless hierarchy builder and the paths of the clusterer | detailed, refines `LevelClustering` |
| `ClusterHierarchy_proofs` | conservation of detectors, types, the rule of the levels, isolation of what is accepted, solvable clusters, the order of unions | proofs |
| `StoppingSchedule` | the policies that make a schedule, level by level | detailed |
| `ThresholdHierarchy` | the builder with parents, regions and roots over such a schedule | detailed, composes `StoppingSchedule` |
| `ThresholdHierarchy_proofs` | the inductive invariant of `ThresholdHierarchy`, clusters apart, one owner, perfect matchings where clusters run, nested regions, what schedules promise | proofs |
| `LockstepScheduler` | every mode that merges children into parents | detailed |
| `LockstepScheduler_proofs` | the inductive invariant of `LockstepScheduler`, no detector lost, none counted twice | proofs |
| `MC...` | constants, hierarchies and graphs for TLC | |

### StatePool and ResourcePool

One action is one critical section of the runtime mutex or the work between two of them. A
condition variable is the set of threads that wait on it; `notify_one` lets one of them go,
`SpuriousWake` lets any go. `slotState`, `ready`, `dirty`, `size`, `configured` are the fields of
`PersistentFullGraphWorkerState`; `clean` records whether the slot's MWPM is as after `reset()`.
The clients run the tasks of a shot, the caller goes through prewarm, warm-up shot, the wait
for ready states (`Settle`) and measured shots. `PrewarmOptional` lets the caller
forget the prewarm; then one thread at a time uses the pool (`MayBegin`), because growth reallocates vectors
that others would read without the lock.

`ResourcePool` has one owner per state - absent, free, a borrower, dirty - and whether it is
pristine. `KeepsPromise` maps queues, threads and flags to owners.

### LevelWorkerPool and ForkJoin

`Enqueue`, `NotifyAll`, `WaitDone`, `Finish` are the steps of `parallel_for`; `Pop`, `Sleep`,
`Body`, `Catch`, `CountDown` those of a worker; `Destroy` and `NotifyStop` those of the destructor,
`Replace` the change of the thread count. A closure refers to a call; the call's
frame is alive until it returns. A body may throw. `ImplementsForkJoin` maps it to `ForkJoin`,
where bodies run in any order and `Join` waits for all and rethrows one exception.

### LevelPipeline

A shot picks a hierarchy: level and own detectors of each cluster, and which cluster (if any)
runs on the user graph's own MWPM. `Acquire`, `Initialize`, `Import` are the turns of the import
loop, `BeginLevel`, `Advance`, `ExportOrExtract`, `FinishLevel` the run loop, `Throw` the exception
that the benchmark catches, `Recycle` the reset threads. The state of the matching is abstracted to
the source detectors it accounts for: which inherited ones a cluster touches is a choice.
`PartialTouch` says whether it may touch a part of an inherited state.

### FloodEvents and LookSchedule

`buckets`, `clock`, `tracker` are `bit_buckets`, `cur_time` and the trackers. Times in events and
trackers are cyclic with `Width` bits, the clock is not. The caller's geometry is abstracted: it may
want any object at any time from now to `Ahead`. `ResetNode` and `ReuseRegion` clear a
tracker while events that point to its object are in the heap. `AdvanceClock` is the importer's
change of the clock.

### GraphFlooder, Mwpm, StoppedState and SparseBlossom

`GraphFlooder` and `Mwpm` are functional: an MWPM is one record `m`, each function of the code is an
operator from `m` to `m`, and each step of `SparseBlossom` is one look of the flooder with
everything the matcher does about it (`ProcessEvent`). That is what the code does: a handler runs
to its end before the next event is taken.

| record field | in the code |
|---|---|
| `graph` | `MatchingGraph`: neighbours in their order, the boundary, sums of negative weights and observables |
| `node[n]` | `DetectorNode`: region, top region, source, distance, wrapped radius, observables; `look` is what its tracker wants |
| `region[r]` | `GraphFillRegion`: radius (value and slope at a time), shell area, blossom parent, top and children, match, tree; `shrink` is what its tracker wants |
| `tree[t]` | `AltTreeNode`: inner and outer region, inner-to-outer edge, parent and child edges |
| `time` | the queue's clock |

Pointers are ids, arenas are functions that grow and lose entries. The heap under the trackers is in
`FloodEvents`; here a tracker is the time it wants, and looks that are due at the same time come in
any order (in the code the order depends on the buckets). `StartHierarchy` begins a decode in which
an isolated cluster is first run in an MWPM of its own (`ChildLook`) and then exported, filtered and
imported (`ImportChild`), as the two schedulers do.

`SearchFlooder` is built in the same way over a record `s`, with a step per look (`SearchLook`,
`PathLook`). A call is in a phase: the time line; `Finish` extracts weight and observables;
`ExtractMatches`, `StartSearch`, `SearchLook` and `FinishPaths` are `decode_detection_events_to_edges`
(goal "edges") and `extract_paths_from_match_edges` (goal "weight", if there are too many observables
for a mask: `wide`). `StartSecondPass` reweights both graphs for the edges found and starts the time
line again; whoever ends the second pass undoes it. What the caller wanted does not influence the
time line, so it is chosen at its end. `AskPath` is `get_nodes_on_shortest_path_from_source`.

`ToMatchingGraph` and `ToSearchGraph` translate a user graph as the code does: parallel edges are
merged by the smallest weight, edges to nodes of the boundary become one edge to the boundary, negative
weights are turned around and remembered, by the one graph as flipped detectors and a sum, by the other
as a list of edges. `ProblemAssumption` names what the result relies on. Weights are even, as
`iter_discretized_edges` makes them, so that all times are integers. Of parallel edges none is negative (two
negative ones would both be used by a lightest explanation, and only one is kept). A rule is about an
edge that is there, is no loop and is not negative, and does not name nodes of the boundary.

`MinimumWeightCorrection` knows nothing of all this: a question is a set of detection events; the
answer is "none" if no set of edges explains it, and otherwise a lightest set - its edges, or its
weight and observables; if edges are correlated, lightest under the weights that a first
lightest set implies. A question may also be two ends, the answer then being the nodes of a lightest
path. Both the answer and that there is one (under `Fairness`) are refined.

### LockstepScheduler

One action is one import, the marking that follows it, one cluster's part of a time slice, or the
final sum. `r[c]` is a cluster's execution state together with its MWPM, which is abstracted
to the detectors it accounts for (`sources`), the nodes regions of it own (`owned`), whether trees are left
and the next event's time. `Stepped` is one look of the flooder: while there are trees, regions may take nodes and leave
others and trees may vanish; without trees only looks that frozen regions have left (`set_region_frozen`) are taken.
In both cases the next look may be at the same time, as `do_look_at_node_event` queues the node again before each
collision, or at any later one, or there may be none. Times start at zero, where edges without weight are met.
`DecodeRoots`, `DecodeSingle` and the rest may also end with an exception, which the caller gets (`Escape`) unless the fallback
to the full graph is allowed and finds a matching (`FallBack`).
An import clashes when both own the same nodes. Then the parent is taken back, to its latest
checkpoint (`Restored`) or to its own detectors at time zero (`Restarted`), and the siblings it has to
import again (`Replayed`) are imported together with the child in the same step, as the code does in one
call. A clash that remains throws; the decode falls back to the global decoder or fails.

### StoppingSchedule and ThresholdHierarchy

`StoppingSchedule` is the loop of each `make_processing_cluster_*` function, a level per step; the
long doubles are exact fractions, so that what is checked is the arithmetic and not its rounding.
`ThresholdHierarchy` lets it make a schedule and builds the hierarchy with it: `CloseLevel` finds
components (by the table of distances, by search, or by interior component ids), accepts and gives each
its region; `CompleteRoot`, `ForceFinalRoot`, `AddFinalRoot` and `Fail` are the ways to end, `AssignParents`
picks the first cluster above whose region meets, `ExpandRegions` is
`expand_parent_influence_to_cover_direct_children`. A vector is a sequence because the code scans it as if sorted.

### ClusterGeometry, LevelClustering and ClusterHierarchy

`ClusterHierarchy` is `build_growing_only_processing_cluster_hierarchy` and, for each level,
`GrowingOnlyClusterer::run`. One action is one path that finds all components of a level at once
(`RunForced`, `RunSingletons`, `RunTable`), one turn of the loop of a path that finds them step by
step (`LookupComponent`; `TakeCollision` and `TakeFrontier` of the sparse frontier; `TakePair` of
the sorted events), the beginning or end of such a loop, the end of a level (`CloseLevel`) or of the
builder (`DirectRoots`, `Finish`). The guards are the order in which `run` tries its paths.

| state | in the code |
|---|---|
| `setting` | `ProcessingClusterConfig` (bounds, caps, forcing) and the environment variables that choose a path (`mode`) |
| `cache` | `ProcessingClusterGraphCache`, with or without the table of all pairs and the radius neighbours |
| `level`, `residual`, `hierarchy`, `terminal` | the locals of the builder and its result; `terminal` is the root that takes the rest |
| `comps` | the union-find forest with its metadata: members, ready time, largest distance |
| `reach`, `owner`, `frontier`, `collisions` | `distances`, `owner`, `frontier_queue`, `collision_queue` |

A union-find tree is the set of its members; Dijkstra's algorithm is the distance it returns. Both
queues are sets with the order of the code's comparison. `SparseLists` lets the graph be one whose
list of radius neighbours is left empty because the buffer covers the graph (finding 3); without it
such graphs are excluded. The rule in `LevelClustering` knows neither paths nor caches: the
components of what is left within the buffer, those that are small, narrow and even or near the
boundary are taken out, and a forced level takes out everything. `KeepsLevelRule` says that every
path does that; levels that take nothing may be passed in one step.

## 3. Runs

| run | what it checks | bounds |
|---|---|---|
| `state_pool` | types, ownership, no lost wake-up, clean hand-out, refinement of `ResourcePool`, a prewarmed pool serves every shot and the wait for ready states ends | 3 clients, 2 reset threads, 2 slots, shots of 3 tasks, with and without the prewarm: more borrowers than slots, several threads on each condition variable |
| `state_pool_forgotten` | *violation*: finding 1 | 1 client, 2 slots, 2 tasks |
| `level_worker_pool` | types, exact counter, refinement of `ForkJoin`, calls and destructors end | 3 workers, loops of 2 and 4 iterations (fewer and more than workers), throwing bodies, replacement |
| `level_pipeline` | types, counted once, inherits all below, shots end | 7 hierarchies of up to 4 clusters and 4 levels over 5 detectors, 4 slots, 1 exception |
| `level_pipeline_overlap` | *violation*: finding 2 | 3 slots, partial touches |
| `flood_events` | types, nothing forgotten, refinement of `LookSchedule` | 1 node, 1 region, 3-bit times, clock to 10 (it wraps), 3 events: superseded, duplicate and live events of two objects meet |
| `cluster_hierarchy` | types, conservation, unions in order, solvable clusters, refinement of `LevelClustering`, the builder ends | 5 graphs of 4 detectors (line, line numbered out of order, ring with a weightless edge and no boundary, star, two components), every syndrome, 6 schedules of 2 or 3 levels with and without caps and certificates, forced or not, 5 modes: every path runs, with ties, inactive nodes between sources and odd rests |
| `cluster_hierarchy_sparse` | *violation*: finding 3 | as above, default mode |
| `threshold_hierarchy` | types, schedules keep their inequality and budget, one root owns all, accepted clusters are apart, regions nest, clusters are solvable | 6 graphs of 5 detectors, every cache and syndrome, given schedules and one made by each policy (candidates, least, final, sequence): components, touching territories, odd rests, early and forced roots, several roots |
| `lockstep` | types, no detector lost, none counted twice, a decode ends | stars, tall stars, empty roots, a forest and a single cluster, up to 3 clusters, times 0 and 1 and none, all four modes, with and without checkpoints and fallback: looks repeated at one time, looks that outlive the trees, clashes before and after the other child was imported |
| `lockstep_nested` | *violation*: finding 4 | a chain of 3 clusters |
| `sparse_blossom` | types, dual feasibility, fresh caches, alternating trees, no event missed, clean between calls, refinement of `MinimumWeightCorrection` | 9 graphs of 5 to 7 detectors, every set of detection events, child or not, every order of simultaneous looks: blossoms in blossoms, implosions, shattering, the boundary, negative edges and loops, boundary nodes, parallel edges, sets without a matching; paths of up to five edges that cross each other; second passes with an edge that is reweighted twice |

Bounds that grow without limit in the code are cut in guards: the clock of the heap (`MaxClock`), the
events in it (`MaxPending`), the exceptions of a run (`MaxThrows`), the time of a lockstep decode
(`MaxTime`). Distances are below `Inf` and `Never`; distances of schedules are clamped at `MaxDistance`, as
the code clamps them at the largest integer. `asks` says what the caller of a graph asks for.

`CHECK_DEADLOCK FALSE` appears where the system really stops: a pool (the caller stops after its shots,
or waits for ever), the pipeline (an aborted shot leaks its states and a
pool without states left stops the program, which `ShotEnds`, not deadlock, is about), both hierarchy builders
(they return; `HierarchyCompletes` says that the first one gets there) and a lockstep decode (`DecodeEnds`).

**Fairness** is weak throughout. `StatePool`: each step of a client and of a reset thread, and
`Settle` in its phase: the operating system runs every thread that can run. `LevelWorkerPool`:
each worker, and the caller while it waits. `LevelPipeline`: the pipeline's one thread, and the
reset thread's `Recycle` of each slot. `ClusterHierarchy`, `LockstepScheduler`: one thread that waits for nobody, so
`WF(Next)`. `LockstepScheduler` assumes one thing more, `FinitelyManyLooks`: if clusters are stepped for ever, then again
and again a step leaves its cluster with no look at the same time. The model of an MWPM has no regions and could look
at the same node for ever. The flooder does not: each look ends a wish, and a new one at the same time comes only with a
collision that changes the trees. The run `sparse_blossom` checks on its graphs that `Decode` comes to an end. What `DecodeEnds` adds is
the scheduler's part: imports, restarts, checkpoints and resumed parents do not make work for ever. `SparseBlossom`: also one thread, `WF(Decode)`; whether a caller asks again is up to it. `Decode` is
enabled exactly while there is a question, so `Fairness` says so without `ENABLED`, which would be
costly to evaluate. Nothing is assumed of spurious
wake-ups, of exceptions or of a caller's choice to begin another shot. `FloodEvents` and
`ThresholdHierarchy` state no liveness: the first goes on as its caller chooses, the second has loops over levels only.

**Symmetry** (of slots) is used in `level_pipeline_overlap` only, which checks an invariant.

## 4. Proofs

`StatePool_proofs` proves for every number of clients, reset threads, slots and tasks, from
`PoolAssumption`:

* `Invariance`: `IInv` holds always. `Ownership` alone is not inductive: that a popped slot is not
  queued twice needs that the queues have no duplicates and hold exactly the slots marked so,
  and that the slot of each thread that is between two critical sections is held by no other.
  `IInv` joins the types, "ready and dirty queues are injective and hold exactly the ready
  (or dirty) slots", "who is where holds what", and "reset slots are clean". There is one lemma
  per action; `AppendQueue`, `PopQueue`, `QueuedInSet` state what queues need.
* `TypesHold`, `OwnershipHolds`: consequences.
* `HandoutIsClean`: from the part of `IInv` that says ready slots are clean.
* `PoolKeepsPromise`: each action maps to a step of `ResourcePool` or a stutter; `OwnerFacts` and
  `OwnerChanges` say who owns what before and after.

The second part of the module proves `NoWakeupIsLost`. Both queues are notified after the mutex is released and one
condition variable has two kinds of waiters, so the number of threads that will still notify or look must cover the
length of the queue. That is not inductive alone. `WInv` adds that no slot is added while a client waits
(a client waits only when the pool has its configured size), and that the caller's settle wait,
which could take a client's notify, happens only while there are no clients at work. Each action then moves each
side of the comparison by at most one, which `OneMoreOrLess` counts.

`LevelWorkerPool_proofs` proves for every number of workers and iterations, from `LoopAssumption`:

* `PoolInvariance`: that the counter is exact does not say *which* iterations are left. `IInv` adds that a
  queued index is queued once, is held by nobody and has not run (`QueueIsFresh`), that a worker's index is its own
  (`HoldersAreThere`), that every index of the call has run, is queued or is held (`NoneIsSkipped`), and that one
  exception is kept as soon as a body has thrown and been caught (`ExceptionIsKept`).
* `PoolTypes`, `CounterIsExact`: consequences. The second says that no closure is left when the frame is gone.
* `PoolIsForkJoin`: `Enqueue` maps to `Fork`, `Body` to a body's step, the caller's `Finish` to `Join`, the rest to stutters.

`LevelPipeline_proofs` proves for all hierarchies, detectors and slots, from `HierarchyAssumption`:

* `PipelineInvariance`: levels end in order (`EndsByLevel`), a cluster has imported or has still to import
  everything below it (`ImportsByLevel`), and what is extracted and not superseded divides the own
  detectors of the clusters that have ended (`ContributionsDivide`). The last needs the other two: what a cluster overlaps is
  superseded only if it has been imported.
* `PipelineTypes`, `RunsOnTop`: consequences, without a further condition.
* `CountsEachOnce`: under `~PartialTouch`, i.e. if an inherited state is touched as a whole or not at all, and by one
  cluster of a level at most. The code does not enforce this; run `level_pipeline_overlap` shows that the theorem fails
  without it (finding 2).

`ClusterHierarchy_proofs` proves for all graphs, schedules, modes and syndromes, from
`GeometryAssumption`:

* `HierarchyInvariance`: the clusters and the residual divide the syndrome (`Divided`), and the
  components divide the residual once they are complete (`Components`). That alone is not
  inductive: a union needs the components of both ends of a collision to exist, so `Grown` adds that
  the sources of the frontier, the owners of nodes and the ends of collisions are active; and `Ended`
  that there is no root before the end. `ThresholdDivides` (being connected within a bound is
  symmetric and transitive), `InteriorDivides`, `UniteParts` and `RenotedParts` carry the steps.
* `ConservationHolds`: the property `Conserved` of the run.

and, also from `ScheduleAssumption` (bounds are below the distance that means "unreachable" and buffers do not shrink, as
`validate_processing_cluster_stopping_lemma_bounds` demands), `LengthAssumption` (neither two ways through the graph nor a way and a boundary edge add up to
that distance) and `~SparseLists` (finding 3 is what happens otherwise):

* `TypesHold`: the distances of frontier and collisions are below `Inf` because each is at most a sum of the buffer,
  an edge and another buffer. The lemmas on `Witness` and `Spread` are shared with the next theorem.
* `LevelRuleHolds`: `ClusterHierarchy` implements `LevelClustering`. All paths end in components; what must be shown is that
  they are the *same* components, those within the buffer, with their exact widths. `Ruled` says what each phase knows:
  `LookingUp` (what was collected is a component of the residual, and nothing is near what is not visited), `Pairing` (an event is taken only
  after every nearer one, so the pairs already taken are connected or beyond the buffer; widths are the longest
  pair inside), `Flooding` and `Closing`. `Flooding` is the hard one. A collision is never shorter than a way between its
  ends; every node within the buffer of a source is reached, or some entry of the frontier is on a shortest way to it; and
  when two regions touch, their collision is noted or they are connected (`Joined`). When frontier and collisions
  are empty, walk along a shortest way between two detectors within the buffer: the owner changes at some steps, and at each of
  them two regions met on a way that is not longer than the way itself (`FloodReaches`, `FloodMeets`). So the ends are connected.
* `UnitedInOrder`. What `Flooding` says of the buffer is stated for every distance that lies behind the frontier (`Known`, `Joined`, and so
  `FloodReaches` and `FloodMeets`): when no collision is due, detectors closer than the frontier are in one component (`CloserAreTogether`).
  A component is ready at half its bottleneck, the longest edge of its minimum spanning tree. The code takes half the distance of the
  latest union for it. `BottleneckUnited` proves that this is the same when the two components are united at the distance
  of their closest members and neither needed more. So `Ordered` keeps, beside `ready`, that no component needed more than the
  buffer or than anything that still waits among collisions, frontier or pairs; `TakeCollisionOrders` and `TakePairOrders` show that
  what is taken is the closest between its components, whatever the order of ties, and `TakeFrontierOrders` that what the frontier finds lies no closer than where it stands.
* `AcceptedStayIsolated`: what a level accepts is a component within its buffer, so everything left is farther; later clusters are
  made of what is left. Run `cluster_hierarchy_sparse` shows that it fails with `SparseLists`.
* `ClustersStaySolvable`: near the boundary is a whole component of the graph or none of it (`NearTogether`). In one that is, everything can be
  matched. In one that is not, a level that is not forced accepts even components only, which are disjoint and do not
  leave the component of the graph, so that what they leave is even if the whole was (`EvenRest`). A forced level keeps the
  components of the graph together, or everything; `LooksUpForced` says that no other path runs there. It uses
  that diameters are below `Inf`, which follows from the same inequality of the stopping lemma.

`FloodEvents_proofs` proves for all objects, any width of the times and any clock, from `EventAssumption`: times
have at least two bits and nobody wants anything later than `Ahead`, which is less than half a cycle. That is what
the comparison of cyclic times needs.

* `InvariantHolds`: that what is wanted has an event is not inductive, because an event is found only if it is
  in the bucket where the heap looks for it. `IInv` says that the unwrapped time of every event is ahead of the
  clock by less than half a cycle, that each event is in the bucket its time and the clock ask for, that a queued
  tracker has its event in the heap, and that the tracker is queued no later than it wants.
* `TypesHold`, `NothingIsForgotten`: consequences.
* `ScheduleIsKept`: the lowest filled bucket has the soonest events; when the clock moves to one, the events of its
  bucket fall into lower buckets and all others stay. So `Process` maps to a `Look`, a stale event (`Discard`, `Defer`) and
  the importer's `AdvanceClock` to a `Wait`, `Reschedule` to `Want` or `Withdraw`, the resets to `Withdraw`, `Restart` to `Rewind`.

`ClusterGeometry_proofs` has the facts both hierarchies rest on, for every finite graph without negative weights.
`Within` reaches the shortest distances after as many rounds as there are nodes, less one (each round settles a node
that is nearest among the rest), and so the table is a metric where it is finite: `ShortestSelf`,
`ShortestSymmetric`, `ShortestTriangle`, `DistancesAreShortest`. `ReachDivides` says that what is reached by a
symmetric relation divides a set. `PartsSolvable` is the parity that acceptance rests on: parts that are each inside one
component of the graph, and even or near the boundary, have perfect matchings, and taking them out leaves a set that has
one if the whole has (a component without a boundary keeps an even rest). `WayInside` says that two nodes of a graph are joined
inside any set that contains all nodes no farther than the distance between them. It also has the two forms of induction that are used (`SetInduction`, `Upwards`).

`ThresholdHierarchy_proofs` proves for all graphs, policies, schedules, syndromes and settings, from
`GeometryAssumption`, `PolicyAssumption` (fractions have positive denominators, given bounds are clamped already, budgets
are positive; and what the makers throw for or sort before they begin: candidates are positive and ascend, `processing_cluster.cc:2071`, the
first diameter is positive, and `0 < floor < phi2 < 1` and `0 < decay < 1` hold for a sequence, `processing_cluster.cc:2724`) and `BoundsAssumption` (a bound is less than the distance that means "unreachable"):

* `AcceptedApart`. The code has four ways to find the components of a level, and `ComponentsAre` proves that each gives
  lists that divide the residual and are farther than the buffer from each other. If the buffer covers all distances
  there is one component (`ThresholdLonely` covers the table of all pairs). Over radius neighbours, the stack of the walk
  contains everything seen and not yet left, so that a component is closed under the neighbours' relation
  (`VisitWalks`, `VisitedIs`, `CollectGathers`). For the flooder, take two detectors within the buffer and a shortest
  way between them: territories change along it, and by induction along the way any two that follow each other meet
  on a way no longer than the buffer (`FloodJoins`). What is accepted at a level is then apart from all that is left, and later clusters are made of that.
* `InvariantHolds`: `Owned` (the members of clusters and the residual divide the syndrome), `Ascending` (ids grow with levels; a
  cluster that covers the graph is last and above all others), `Bounded`, `Linked` (parents after and above their children,
  roots without), `Shaped`, `Prepared`, and for the schedule in the making `Scheduled`: phi stays a fraction above zero
  and each buffer exceeds its diameter, so that the next threshold can be computed.
* `TypesHold`, `OneRootOwns`: consequences. The second needs `Ascending`: the parent of a cluster is found by its level only,
  and that it comes later is what lets the scheduler start from the front.
* `SolvableWhereTheyRun`. `Matched` adds to the invariant that the schedule's diameters are there (`DiametersGiven`), that a level which is
  not the last leaves what can be matched if the shot can (`LeftSolvable`), and `Housing`: each cluster in question
  is decoded in the whole graph (`Whole`), or in a subgraph with every node within the buffer of a member, its members no
  farther from each other, and, if they are odd, no farther from the boundary (`Close`). The property itself is not
  inductive: that a cluster can be matched depends on what earlier levels left. What stops at a level is no wider than the
  level's diameter (`StopsNear`, `NarrowIs`) or, where the buffer covers the graph, is all that is left (`AcceptedHoused`);
  expanding regions only adds nodes (`CoveredIs`); `HousedMatches` goes from `Housing` to a matching by the ways above. The hypothesis
  "diameter no longer than the buffer" is the property's own: a given schedule may break it.
* `RegionsAreNested`: a region is expanded before it is added to the parent's because ids ascend; `CoveredIs` is the induction
  over the pass, with "the clusters up to k are in their parents" and "nothing but regions changes". It needs neither
  sorted regions nor that the parent was chosen because the regions met.
* `ScheduleKeepsPromise`. The arithmetic comes first: the greatest common divisor divides both (`GcdDivides`), so a fraction in
  lowest terms has the value of the one it comes from (`FractionValue`, `SubtractValue`), the operators keep the order (`SubtractOrders`,
  `AddOrders`, `MultiplyOrders`), and the portion that is computed in steps exceeds all below its floor (`PortionAbove`). A buffer beyond the
  threshold of a budget then consumes no more than the budget (`WithinBudget`); for a sequence, whose budget is what phi has above the envelope,
  phi stays above it (`SubtractSwaps`). `Promising` is inductive: each level `Promises` what its check and the property
  ask, phi included, which depends on the levels below only (`PrefixPromises`), and no candidate that is left is below the last
  diameter. A sequence never runs out, because the envelope falls strictly and stays above zero
  (`TargetsFall`, `SequenceGoesOn`). All this is exact arithmetic; the long doubles of the code also round.

`LockstepScheduler_proofs` proves from `ShotsAssumption`, for any number of clusters, levels and detectors, any times, and every
outcome a step of a cluster can have:

* `TypesHold`, for all hierarchies: `Shaped` adds to the types that a cluster to step is running, that only what runs, or was
  drained, has trees, and that a root without detectors that takes results never grows anything.
* `NoDetectorIsLost` and `EveryDetectorCountsOnce`, for hierarchies of two generations (`TwoGenerations`). `Held` says what each
  cluster accounts for: a child for its own detectors until it is imported, a root for its own and those of the children imported
  so far, and never for more than is below it; a root that has its result has no child left to import. This is
  not inductive with checkpoints. A parent taken back to a checkpoint gets again only the children that stopped after
  it and no later than the child in whose favour it goes back; so no child may have stopped *later* than that one. `Balanced` therefore
  adds the order of time: a child runs at or after the present, one that has stopped has done so now, what was
  imported stopped earlier (`ChildrenInOrder`, `ImportsInOrder`); and a root with children to come is not ahead of time and
  its last checkpoint is what it is (`UpToDate`). A root that is restarted from time zero gets all of them again.
* The hypothesis has two parts. Children have no children: with three generations the second is false, as run `lockstep_nested`
  shows (finding 4). In the parentless mode a broadcast gives the states of a level to every level above; `Broadcastable` asks that either all
  clusters are roots with detectors, or that there is a single root, which has detectors or takes results from one level only.
  Otherwise the same states reach an answer twice: TLC shows it for a root without detectors above two levels, whose second
  level inherits the first, and hands both to the root as results. Finding 2 has the same cause. The run `lockstep` stays within the hypothesis.

What is **only model-checked**: the whole of `SparseBlossom`, and all liveness. `Mwpm`, `GraphFlooder` and `SearchFlooder` are recursive where the code is (blossoms in
blossoms, trees, paths), and modules that reach a RECURSIVE operator are out of the prover's reach, as are liveness
under fairness and `ENABLED`. Recursive *functions* are not: `NatInductiveDef`, `FiniteNatInductiveDef` and
`WFInductiveDef` unfold them, and an induction is about a set of numbers instead of a predicate; so `Within`,
`Visited`, `PhiAbove`, `gcd` and the like could be reasoned about.

## 5. Findings

1. `cluster_subgraph.cc:613` - a pool that was not prewarmed freezes at one slot without
   reset threads; the second acquisition waits for ever. (Run `state_pool_forgotten`.)
2. `lockstep_scheduler.cc:2294` - two clusters of one level that touch the same inherited stopped
   state both extract it, and it is counted twice. (`level_pipeline_overlap`)
3. `processing_cluster.cc:3018` - for a graph without a table of all pairs the list of radius neighbours is left empty
   where the buffer covers the graph; the singleton path, which runs first, takes the empty list for
   "no two detectors are near" and lets each detector near the boundary stop alone.
   (`cluster_hierarchy_sparse`)
4. `lockstep_scheduler.cc:940` - a root is extracted once no *direct* child is to be imported. In a
   chain of three clusters the middle one may have been imported while the lowest still runs, and what
   the root inherits from that later is missing from its answer, which the comment at 917-921 rules out.
   (`lockstep_nested`)

Two more places are noted as hazards in `PROJECT.json`, and no property covers them: the import into a level acquires one state per cluster before
any of them runs (`lockstep_scheduler.cc:2523`, a hang if there are fewer slots: the run `level_pipeline` has enough of them, and with one slot
TLC finds a shot that never ends), and a parent's clock is moved while
its heap holds events (`lockstep_scheduler.cc:1521`; `FloodEvents` models the guarded move of the import only). The replay of siblings after a
checkpoint (`lockstep_scheduler.cc:1306`) is out of reach of hierarchies of two generations, where going back to a checkpoint
changes nothing and the clash remains (`RestoreIsVain`); what the run and the theorems exercise is the replay after a restart.

## 6. Not modelled

* Probabilities and reading: how error models become edges, the merge strategies other than the
  smallest weight, discretisation of weights, noise, the random generator and the stim shim; command
  lines, CSV, statistics, traces, scripts, plots and the case generator.
* Adaptive bounds (`growing_only_clusterer.cc` from line 1767): off by default and in all scripts; the rules for
  which shot gets which bounds are about running time.
* Of the schedules: long double rounding and its tolerance (they are fractions here), the hill climbing of the
  optimizer (a choice of allocations here), the formula for default bounds, and code that nothing calls: linear
  and lemma-bound schedules, the root-direct builder, the filter to a buffer, the cache of active distances.
* Of the lockstep scheduler: weights across a parent and a child that run at the same time
  (regions are owners of nodes there; in `SparseBlossom` the child runs to its end first, isolated as the
  certificate says), the rebuild of a heap whose events are out of date, the all-root fast path and event counts.
* Renumbering between a subgraph and the full graph. Stopped states are exchanged by full ids here.
* Callers with several graphs, a graph edited between two parallel decodes, indices out of range.

## 7. Plan

Done: the state pool with proofs; the level worker pool; the level pipeline; event tracker and heap; the
cluster hierarchy with a proof of conservation; flooder, matcher, stopped states, driver, search, both graphs;
the lockstep scheduler; schedules and the threshold hierarchy.

Proved: the state pool and its wake-ups, the worker pool, the pipeline, event tracker and heap, distances and
components, both cluster hierarchies with the schedules of bounds, the lockstep scheduler: every invariant and refinement
that a run checks, but for those of `SparseBlossom`.

Left, in this order: a child with a child of its own in `SparseBlossom`, for the
filter of what was inherited; weights in the lockstep scheduler; the adaptive bounds.
