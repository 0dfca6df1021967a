---------------------------- MODULE LevelPipeline ----------------------------
(***************************************************************************)
(* run_parentless_level_pipeline of parallel/lockstep_scheduler.cc, the    *)
(* production path: the clusters of a shot run level by level on one       *)
(* thread.  A cluster borrows a full-graph MWPM state when it first needs  *)
(* one, inherits the stopped states of every lower level, is advanced to   *)
(* completion, exports the part of its state its events touched, extracts  *)
(* its contribution to the shot's result and returns the state.  At the    *)
(* end the contributions that no later cluster superseded are added up.    *)
(*                                                                         *)
(* The states come from ResourcePool, which StatePool implements.  A       *)
(* matching is seen only through the active detectors it accounts for.     *)
(***************************************************************************)
EXTENDS Naturals, FiniteSets

CONSTANTS
    Detectors,      \* active detectors of a shot
    Clusters,       \* cluster ids
    Hierarchies,    \* the cluster hierarchies a shot may have
    Slots,          \* the pool's MWPM states
    MaxThrows,      \* bound: shots that end with an exception
    PartialTouch,   \* may a cluster touch a part of an inherited state?
    Absent, Free, Dirty,    \* ResourcePool's owners that are no borrower
    Leaked          \* the borrower of a state whose shot was aborted

\* A hierarchy gives each cluster a level (ids grow with the level) and its own
\* active detectors, and says which cluster, if any, runs on UserGraph's own
\* MWPM instead of a pooled one.
ASSUME HierarchyAssumption ==
    /\ IsFiniteSet(Detectors) /\ IsFiniteSet(Slots) /\ IsFiniteSet(Clusters)
    /\ Clusters \subseteq Nat /\ Clusters # {}
    /\ MaxThrows \in Nat /\ PartialTouch \in BOOLEAN
    /\ {Absent, Free, Dirty, Leaked} \cap Clusters = {}
    /\ Cardinality({Absent, Free, Dirty, Leaked}) = 4
    /\ \A g \in Hierarchies :
         /\ g.level \in [Clusters -> Nat]
         /\ g.own \in [Clusters -> (SUBSET Detectors) \ {{}}]
         /\ g.shared \subseteq Clusters
         /\ \A c, d \in Clusters :
              /\ c # d => g.own[c] \cap g.own[d] = {}
              /\ c < d => g.level[c] =< g.level[d]

VARIABLES
    h,              \* the shot's hierarchy
    pc,             \* idle, import, run, export, done
    level,          \* the level being imported into or run
    toRun,          \* clusters of the level still to be run
    pending,        \* pending_import_sources_by_target
    imported,       \* imported_source_cluster_ids_by_target
    initialized,    \* cluster_mwpm_initialized
    touched,        \* touched_active_detector_sources of the running cluster
    stopped,        \* sources in each cluster's exported stopped state
    extracted,      \* sources each cluster's result was extracted for
    superseded,     \* direct_result_superseded
    state,          \* cluster_execution_states
    owner,          \* ResourcePool: who has each MWPM state
    pristine,       \* ResourcePool: is it as after reset()?
    throws          \* shots aborted so far

importVars == <<pending, imported, initialized>>
resultVars == <<touched, stopped, extracted, superseded, state>>
slotVars == <<owner, pristine>>
vars == <<h, pc, level, toRun, importVars, resultVars, slotVars, throws>>

Pool == INSTANCE ResourcePool WITH
    Resources <- Slots, Borrowers <- Clusters \cup {Leaked}

-----------------------------------------------------------------------------
Level(l) == {c \in Clusters : h.level[c] = l}
IsTop(l) == \A c \in Clusters : h.level[c] =< l
Below(c) == {d \in Clusters : h.level[d] < h.level[c]}
\* parentless_all_upper_targets_for_child.
UpperTargets(c) == {d \in Clusters : h.level[d] > h.level[c]}
Holding == {c \in Clusters : \E s \in Slots : owner[s] = c}
\* The clusters the import loop or the run loop still has before it, and the
\* one it is at: both go through a level in id order.
AtHand == IF pc = "import" THEN {c \in Level(level) : pending[c] # {}} ELSE toRun
Current == CHOOSE c \in AtHand : \A d \in AtHand : c =< d

\* remap_source_detection_events_from_stopped_state of every import: full-graph
\* workers have identity id maps.
Inherited(c) == UNION {stopped[d] : d \in imported[c]}

Empty == [c \in Clusters |-> {}]

Init ==
    /\ h \in Hierarchies
    /\ pc = "idle" /\ level = 0 /\ toRun = {}
    /\ pending = Empty /\ imported = Empty /\ initialized = {}
    /\ touched = {} /\ stopped = Empty /\ extracted = Empty
    /\ superseded = {} /\ state = [c \in Clusters |-> "running"]
    /\ owner = [s \in Slots |-> Free] /\ pristine = [s \in Slots |-> TRUE]
    /\ throws = 0

-----------------------------------------------------------------------------
(* The pipeline.                                                           *)

\* lockstep_hierarchical_decode on the next shot: fresh tables, any hierarchy.
StartShot ==
    /\ pc \in {"idle", "done"}
    /\ h' \in Hierarchies
    /\ pc' = "import" /\ level' = 0 /\ toRun' = {}
    /\ pending' = Empty /\ imported' = Empty /\ initialized' = {}
    /\ touched' = {} /\ stopped' = Empty /\ extracted' = Empty
    /\ superseded' = {} /\ state' = [c \in Clusters |-> "running"]
    /\ UNCHANGED <<slotVars, throws>>

\* parentless_pipeline_ensure_cluster_initialized, called for the cluster at
\* hand by both loops.  Without a state it first borrows a clean one, and waits
\* while the pool has none ...
Acquire ==
    /\ pc \in {"import", "run"} /\ AtHand # {}
    /\ Current \notin initialized \cup Holding \cup h.shared
    /\ \E s \in Slots : Pool!Lend(Current, s)
    /\ UNCHANGED <<h, pc, level, toRun, importVars, resultVars, throws>>

\* ... and then creates its own detection events in it.
Initialize ==
    /\ pc \in {"import", "run"} /\ AtHand # {}
    /\ Current \notin initialized
    /\ IF Current \in h.shared THEN UNCHANGED slotVars
       ELSE \E s \in Slots : Pool!Use(Current, s)
    /\ initialized' = initialized \cup {Current}
    /\ UNCHANGED <<h, pc, level, toRun, pending, imported, resultVars, throws>>

\* parentless_pipeline_import_sources_into_target: all clusters of the level
\* import, before the first of them runs.
Import ==
    /\ pc = "import" /\ AtHand # {}
    /\ Current \in initialized
    /\ imported' = [imported EXCEPT ![Current] = @ \cup pending[Current]]
    /\ pending' = [pending EXCEPT ![Current] = {}]
    /\ state' = [state EXCEPT ![Current] = "running"]
    /\ UNCHANGED <<h, pc, level, toRun, initialized, touched, stopped, extracted,
                   superseded, slotVars, throws>>

\* The level's runnable clusters are those nobody has imported yet.
BeginLevel ==
    /\ pc = "import" /\ AtHand = {}
    /\ pc' = "run"
    /\ toRun' = {c \in Level(level) : state[c] # "imported"}
    /\ UNCHANGED <<h, level, importVars, resultVars, slotVars, throws>>

\* What an advance may touch: every own detector (its region grows until an
\* event matches it) and sources of inherited states.  If the clusters are as
\* independent as the hierarchy means them to be, an inherited state is touched
\* as a whole or not at all, and by one cluster of a level at most.
MayTouch(c) ==
    {t \in SUBSET Inherited(c) :
        PartialTouch \/
        /\ \A d \in imported[c] : stopped[d] \cap t = {} \/ stopped[d] \subseteq t
        /\ \A d \in Level(level) : extracted[d] \cap t = {}}

\* advance_initialized_mwpm_until_completion_counting_after.
Advance ==
    /\ pc = "run" /\ toRun # {}
    /\ Current \in initialized
    /\ \E t \in MayTouch(Current) : touched' = h.own[Current] \cup t
    /\ pc' = "export"
    /\ UNCHANGED <<h, level, toRun, importVars, stopped, extracted, superseded,
                   state, slotVars, throws>>

\* parentless_pipeline_observable_extraction_sources: an inherited state that
\* was touched is taken over whole.
TakenOver(c) == {d \in imported[c] : stopped[d] \cap touched # {}}
ExtractionSources(c) ==
    h.own[c] \cup touched \cup UNION {stopped[d] : d \in TakenOver(c)}

\* Mutant: an exporting cluster keeps its MWPM state.
ReleaseIfHeldByRoot(c) ==
    IF c \in Holding /\ UpperTargets(c) = {} THEN \E s \in Slots : Pool!Return(c, s)
    ELSE UNCHANGED slotVars

\* parentless_pipeline_release_cluster_mwpm_if_needed.
ReleaseIfHeld(c) ==
    IF c \in Holding THEN \E s \in Slots : Pool!Return(c, s)
    ELSE UNCHANGED slotVars

\* Mutant: the ids of the clusters taken over are exported among the sources.
ExportClusterIds ==
    /\ pc = "export"
    /\ superseded' = superseded \cup TakenOver(Current)
    /\ extracted' = [extracted EXCEPT ![Current] = ExtractionSources(Current)]
    /\ stopped' = IF UpperTargets(Current) = {} THEN stopped
                  ELSE [stopped EXCEPT ![Current] = touched \cup TakenOver(Current)]
    /\ state' = [state EXCEPT ![Current] = "stopped"]
    /\ ReleaseIfHeld(Current)
    /\ toRun' = toRun \ {Current}
    /\ touched' = {}
    /\ pc' = "run"
    /\ UNCHANGED <<h, level, importVars, throws>>

\* Mutant: a state that is taken over is not marked as superseded.
ExportKeepingStale ==
    /\ pc = "export"
    /\ extracted' = [extracted EXCEPT ![Current] = ExtractionSources(Current)]
    /\ stopped' = IF UpperTargets(Current) = {} THEN stopped
                  ELSE [stopped EXCEPT ![Current] = touched]
    /\ state' = [state EXCEPT ![Current] = "stopped"]
    /\ ReleaseIfHeld(Current)
    /\ toRun' = toRun \ {Current}
    /\ touched' = {}
    /\ pc' = "run"
    /\ UNCHANGED <<h, level, importVars, superseded, throws>>

\* parentless_pipeline_export_or_extract_stopped_cluster: only clusters with
\* upper targets export, and what they export is what they touched.
ExportOrExtract ==
    /\ pc = "export"
    /\ superseded' = superseded \cup TakenOver(Current)
    /\ extracted' = [extracted EXCEPT ![Current] = ExtractionSources(Current)]
    /\ stopped' = IF UpperTargets(Current) = {} THEN stopped
                  ELSE [stopped EXCEPT ![Current] = touched]
    /\ state' = [state EXCEPT ![Current] = "stopped"]
    /\ ReleaseIfHeld(Current)
    /\ toRun' = toRun \ {Current}
    /\ touched' = {}
    /\ pc' = "run"
    /\ UNCHANGED <<h, level, importVars, throws>>

\* Mutant: only the next level is to inherit a finished cluster.
FinishLevelForNext ==
    /\ pc = "run" /\ toRun = {}
    /\ LET done == {c \in Level(level) : state[c] = "stopped" /\ UpperTargets(c) # {}}
       IN /\ pending' = [d \in Clusters |->
                           IF d \in Level(level + 1) THEN pending[d] \cup done
                           ELSE pending[d]]
          /\ state' = [c \in Clusters |->
                         IF c \in done THEN "imported" ELSE state[c]]
    /\ IF IsTop(level) THEN pc' = "done" /\ UNCHANGED level
                       ELSE pc' = "import" /\ level' = level + 1
    /\ UNCHANGED <<h, toRun, imported, initialized, touched, stopped, extracted,
                   superseded, slotVars, throws>>

\* parentless_pipeline_queue_finished_level_imports, then the next level or,
\* after the last, aggregate_parentless_pipeline_roots.
FinishLevel ==
    /\ pc = "run" /\ toRun = {}
    /\ LET done == {c \in Level(level) : state[c] = "stopped" /\ UpperTargets(c) # {}}
       IN /\ pending' = [d \in Clusters |->
                           pending[d] \cup {c \in done : d \in UpperTargets(c)}]
          /\ state' = [c \in Clusters |->
                         IF c \in done THEN "imported" ELSE state[c]]
    /\ IF IsTop(level) THEN pc' = "done" /\ UNCHANGED level
                       ELSE pc' = "import" /\ level' = level + 1
    /\ UNCHANGED <<h, toRun, imported, initialized, touched, stopped, extracted,
                   superseded, slotVars, throws>>

\* An import, an advance or an export throws (no perfect matching, a node that
\* cannot be mapped).  The caller counts a failed shot and goes on; the states
\* the level's clusters hold are never released.
Throw ==
    /\ throws < MaxThrows
    /\ pc \in {"import", "run", "export"} /\ AtHand # {}
    /\ Current \in initialized
    /\ throws' = throws + 1
    /\ pc' = "idle"
    /\ owner' = [s \in Slots |-> IF owner[s] \in Clusters THEN Leaked ELSE owner[s]]
    /\ toRun' = {} /\ touched' = {}
    /\ UNCHANGED <<h, level, importVars, stopped, extracted, superseded, state,
                   pristine>>

\* The reset threads of the pool.
Recycle(s) ==
    /\ IF pristine[s] THEN Pool!Offer(s) ELSE Pool!Clean(s)
    /\ UNCHANGED <<h, pc, level, toRun, importVars, resultVars, throws>>

PipelineStep ==
    \/ Acquire \/ Initialize \/ Import \/ BeginLevel
    \/ Advance \/ ExportOrExtract \/ FinishLevel

Next ==
    \/ StartShot \/ PipelineStep \/ Throw
    \/ \E s \in Slots : Recycle(s)

\* The decoding thread and the reset threads run; exceptions need not happen.
Fairness == WF_vars(PipelineStep) /\ \A s \in Slots : WF_vars(Recycle(s))

Spec == Init /\ [][Next]_vars /\ Fairness

-----------------------------------------------------------------------------
(* Properties.                                                             *)

\* The types of the pipeline's tables.
TypeOK ==
    /\ h \in Hierarchies /\ level \in Nat /\ toRun \subseteq Clusters
    /\ pc \in {"idle", "import", "run", "export", "done"}
    /\ pending \in [Clusters -> SUBSET Clusters]
    /\ imported \in [Clusters -> SUBSET Clusters]
    /\ initialized \subseteq Clusters /\ superseded \subseteq Clusters
    /\ touched \subseteq Detectors
    /\ stopped \in [Clusters -> SUBSET Detectors]
    /\ extracted \in [Clusters -> SUBSET Detectors]
    /\ state \in [Clusters -> {"running", "stopped", "imported"}]
    /\ owner \in [Slots -> Clusters \cup {Leaked, Free, Dirty}]
    /\ pristine \in [Slots -> BOOLEAN]
    /\ throws \in 0..MaxThrows

AllOwn == UNION {h.own[c] : c \in Clusters}
CountedBy(d) == {c \in Clusters \ superseded : d \in extracted[c]}

\* "Aggregate each cluster's own active-detector contribution exactly once":
\* when the shot's result is added up, every active detector is accounted for
\* by exactly one contribution, although clusters of several levels may have
\* re-extracted the states they inherited.
AggregatedExactlyOnce ==
    pc = "done" => \A d \in AllOwn : \E c \in Clusters : CountedBy(d) = {c}

\* A cluster is advanced only on top of everything below it: all lower levels
\* have finished, and all their stopped states have been imported.
InheritsEverythingBelow ==
    pc = "export" => imported[Current] = Below(Current)

\* Every shot that was started ends, with its result or with an exception.
ShotEnds == pc = "import" ~> pc \in {"idle", "done"}
=============================================================================
