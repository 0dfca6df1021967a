-------------------------- MODULE LockstepScheduler --------------------------
(***************************************************************************)
(* The scheduler of lockstep_hierarchical_decode (lockstep_scheduler.cc)   *)
(* that the parallel decoder mode runs: every cluster of the hierarchy has *)
(* an MWPM of its own, all are advanced together from event time to event  *)
(* time, a cluster that is quiescent is exported and imported into its     *)
(* parent, and the roots' results are added up.                            *)
(*                                                                         *)
(* An MWPM is seen through the active detectors whose regions it holds,    *)
(* the detectors' nodes its regions own, whether an alternating tree is    *)
(* live, its clock and the time of its next valid event; what an event     *)
(* does to these is left open.  A result counts each detector's            *)
(* contribution.                                                           *)
(***************************************************************************)
EXTENDS Naturals, Sequences, FiniteSets, FiniteSetsExt, SequencesExt

CONSTANTS
    Detectors,      \* the active detectors of a shot
    Shots,          \* hierarchies and configurations a decode may get
    MaxTime,        \* bound: the latest event time
    None            \* NO_PROCESSING_CLUSTER_PARENT

Modes == {"root_global", "event_time", "level_batched", "parentless"}
Times == 0..MaxTime
Never == MaxTime + 1        \* no valid event

\* A hierarchy gives each cluster a level, a parent above it and its own active
\* detectors; reach is the detectors' nodes its regions may spread to.
ASSUME ShotsAssumption ==
    /\ IsFiniteSet(Detectors) /\ MaxTime \in Nat /\ None \notin Nat
    /\ \A s \in Shots :
         LET I == DOMAIN s.level IN
         /\ I # {} /\ I \subseteq Nat /\ IsFiniteSet(I)
         /\ s.level \in [I -> Nat] /\ s.parent \in [I -> I \cup {None}]
         /\ s.own \in [I -> SUBSET Detectors] /\ s.reach \in [I -> SUBSET Detectors]
         /\ UNION {s.own[c] : c \in I} = Detectors
         /\ \A c, d \in I : c # d => s.own[c] \cap s.own[d] = {}
         /\ \A c \in I : s.parent[c] # None => s.level[s.parent[c]] > s.level[c]
         /\ \A c \in I : s.own[c] = {} => s.parent[c] = None
         /\ s.mode \in Modes
         /\ s.checkpoints \in BOOLEAN /\ s.fallback \in BOOLEAN

VARIABLES
    shot,           \* the hierarchy and the LockstepSchedulerConfig
    pc,             \* begin, stable, step, done
    r,              \* LockstepDecodeResult: what is known of each cluster
    time,           \* next_global_time
    toStep,         \* cluster_ids_to_step that are still to be stepped
    cursor,         \* how far the import loop has gone through the clusters
    outcome,        \* none, answered, fallback, threw
    answer          \* root_aggregate_result

vars == <<shot, pc, r, time, toStep, cursor, outcome, answer>>

-----------------------------------------------------------------------------
(* The hierarchy.                                                          *)

Ids == DOMAIN shot.level
Root(c) == shot.parent[c] = None
Roots == {c \in Ids : Root(c)}
Children(c) == {d \in Ids : shot.parent[d] = c}
MaxLevel == Max({shot.level[c] : c \in Ids})
\* cluster_is_empty_terminal_root.
EmptyTerminalRoot(c) == Root(c) /\ shot.own[c] = {}
\* The clusters on the way from c to its root: the least set with c and the parent
\* of whatever is in it.
Up(c) ==
    LET closed(X) == c \in X /\ \A d \in X : Root(d) \/ shot.parent[d] \in X
    IN {u \in Ids : \A X \in SUBSET Ids : closed(X) => u \in X}

\* f, but for what g says.
Override(f, g) == [c \in DOMAIN f |-> IF c \in DOMAIN g THEN g[c] ELSE f[c]]

NoCount == [d \in Detectors |-> 0]
CountOf(S) == [d \in Detectors |-> IF d \in S THEN 1 ELSE 0]
Plus(a, b) == [d \in Detectors |-> a[d] + b[d]]
\* The sum of what the clusters of S count, by counting.
SumOf(count, S) ==
    [d \in Detectors |-> Cardinality(UNION {{c} \X (1..count[c][d]) : c \in S})]

-----------------------------------------------------------------------------
(* The MWPM of a cluster.                                                  *)

\* initialize_mwpm_for_detection_events: a tree for each own detector.
Fresh(c) ==
    {[sources |-> shot.own[c], owned |-> shot.own[c], tree |-> shot.own[c] # {},
      next |-> n, clock |-> 0] :
        n \in IF shot.own[c] = {} THEN {Never} ELSE 0..Never}

Idle(w) == w.next = Never
\* is_quiescent_without_shatter.
Quiescent(w) == Idle(w) /\ ~w.tree

\* One look of the flooder, taken at its time.  While there are trees, regions may
\* take further nodes and leave others, but not those of their sources, and trees
\* may vanish.  Without one nothing grows or meets: the looks that frozen regions
\* have left are taken one by one.  The next look may be at the same time again.
Event(w, O, tree, n) ==
    [w EXCEPT !.owned = O, !.tree = tree, !.next = n, !.clock = w.next]
OwnedNext(c, w) ==
    IF w.tree
    THEN {(w.owned \cap w.sources) \cup X :
              X \in SUBSET ((w.owned \cup shot.reach[c]) \ w.sources)}
    ELSE {w.owned}
Stepped(c, w) ==
    {Event(w, O, tree, n) :
        O \in OwnedNext(c, w), tree \in {t \in BOOLEAN : t => w.tree},
        n \in w.next..Never}

\* import_stopped_state_into_cluster_subgraph for the stopped states S.  The
\* clock moves only if the heap is empty; a heap with superseded entries only
\* is taken to be empty.
Inherit(w, S) ==
    [w EXCEPT !.sources = @ \cup UNION {s.sources : s \in S},
              !.owned = @ \cup UNION {s.owned : s \in S},
              !.clock = IF Idle(w) THEN Max({@} \cup {s.time : s \in S}) ELSE @]

\* reschedule_imported_detector_nodes: growing regions may meet the imported
\* ones sooner or later than what was scheduled; frozen ones meet nothing, and
\* looks at the imported nodes are dropped.
Rescheduled(w) ==
    {[w EXCEPT !.next = n] :
        n \in {w.next} \cup {m \in w.clock..Never : w.tree \/ m >= w.next}}

\* validate_stopped_state_import_does_not_overwrite_detector_ownership, for a
\* number of imports one after the other.
Clash(w, S) ==
    \/ \E s \in S : w.owned \cap s.owned # {}
    \/ \E s, t \in S : s # t /\ s.owned \cap t.owned # {}

\* Extraction shatters the regions it goes through and resets their nodes.
Spent(w) == [w EXCEPT !.sources = {}, !.owned = {}]

-----------------------------------------------------------------------------
(* What happens to a cluster.                                              *)

\* Mutant: a child that has stopped is taken for imported.
HasRunningChild(res, c) == \E d \in Children(c) : res[d].state = "running"
HasUnimportedChild(res, c) == \E d \in Children(c) : res[d].state # "imported"

\* extract_compact_result_from_current_mwpm_state for the extraction events.
Counted(k) == CountOf(k.extraction \cap k.w.sources)
Extracted(k) == [k EXCEPT !.direct = Counted(k), !.hasDirect = TRUE, !.w = Spent(k.w)]

\* export_mwpm_stopped_state; the parentless import gets only what was reached
\* from the cluster's own detectors.
Export(c, w) ==
    LET kept == IF shot.mode = "parentless" THEN w.sources \cap shot.own[c] ELSE w.sources
    IN [time |-> w.clock, sources |-> kept,
        owned |-> IF kept = {} THEN {} ELSE w.owned]

\* maybe_mark_cluster_stopped.
Marked(res, c) ==
    LET k == res[c]
        exported == /\ k.state = "quiescent"
                    /\ IF Root(c) THEN k.hasDirect ELSE k.hasState
        stopped == [k EXCEPT !.state = "quiescent", !.hasState = TRUE]
    IN CASE exported -> k
         [] ~exported /\ Quiescent(k.w) /\ ~Root(c) ->
              [stopped EXCEPT !.provisional = TRUE, !.stopped = Export(c, k.w)]
         [] ~exported /\ Quiescent(k.w) /\ Root(c) ->
              LET root == [stopped EXCEPT !.provisional = FALSE]
              IN IF k.hasDirect \/ HasUnimportedChild(res, c) THEN root ELSE Extracted(root)
         [] ~exported /\ Idle(k.w) /\ k.w.tree ->
              [k EXCEPT !.state = "drained", !.everDrained = TRUE]
         [] OTHER -> k

\* capture_overlap_history_snapshot_for_cluster.
Captured(res, c) ==
    LET k == res[c]
        entry == [time |-> k.w.clock, w |-> k.w, extraction |-> k.extraction]
        again == k.history # <<>> /\ Last(k.history).time = entry.time
    IN IF ~shot.checkpoints \/ ~HasUnimportedChild(res, c) THEN k
       ELSE [k EXCEPT !.history = Append(IF again THEN Front(@) ELSE @, entry)]

\* Mutant: the import leaves the mark to a later pass.
CaptureOnly(res, c) == [res EXCEPT ![c] = Captured(res, c)]
MarkAndCapture(res, c) ==
    LET marked == [res EXCEPT ![c] = Marked(res, c)]
    IN [marked EXCEPT ![c] = Captured(marked, c)]

\* A parent that had stopped runs again after an import.
Resumed(k) ==
    CASE k.state = "quiescent" -> [k EXCEPT !.state = "running", !.hasState = FALSE]
      [] k.state = "drained" -> [k EXCEPT !.state = "running"]
      [] OTHER -> k

\* Mutant: an imported child goes on waiting.
LeftWaiting(res, K) ==
    Override(res, [c \in K |-> [res[c] EXCEPT !.provisional = FALSE]])
\* The children K, whose states are imported into the cluster by whoever calls.
Left(res, K) ==
    Override(res, [c \in K |-> [res[c] EXCEPT !.state = "imported", !.provisional = FALSE]])

SourcesOf(res, K) == UNION {res[c].stopped.sources : c \in K}
\* Import of the stopped states of K into p, whose record is k by now and whose
\* MWPM is w afterwards.
WithImports(res, p, k, K, w) ==
    [res EXCEPT ![p] =
        Resumed([k EXCEPT
            !.w = w, !.extraction = @ \cup SourcesOf(res, K)])]

StatesOf(K) == {r[c].stopped : c \in K}

-----------------------------------------------------------------------------
Blank(c) ==
    [state |-> "running", hasState |-> FALSE, provisional |-> FALSE,
     everDrained |-> FALSE, hasDirect |-> FALSE, direct |-> NoCount,
     extraction |-> shot.own[c], history |-> <<>>,
     stopped |-> [time |-> 0, sources |-> {}, owned |-> {}],
     w |-> [sources |-> {}, owned |-> {}, tree |-> FALSE, next |-> Never, clock |-> 0]]

Init ==
    /\ shot \in Shots
    /\ pc = "begin"
    /\ r = [c \in Ids |-> Blank(c)]
    /\ time = 0 /\ toStep = {} /\ cursor = 0
    /\ outcome = "none" /\ answer = NoCount

Answer(count) ==
    /\ pc' = "done" /\ outcome' = "answered" /\ answer' = count
    /\ UNCHANGED <<shot, r, time, toStep, cursor>>

\* An exception gets to the caller.
Escape ==
    /\ pc' = "done" /\ outcome' = "threw" /\ answer' = NoCount
    /\ UNCHANGED <<shot, r, time, toStep, cursor>>

\* decode_full_graph, which allow_global_fallback has after an invalid_argument.
FallBack ==
    /\ shot.fallback
    /\ pc' = "done" /\ outcome' = "fallback" /\ answer' = CountOf(Detectors)
    /\ UNCHANGED <<shot, r, time, toStep, cursor>>

\* An invalid_argument.  The full graph may have no perfect matching either.
Throw == FallBack \/ Escape

\* enable_root_global_decode_fast_path: each root is decoded on the full graph
\* for the detectors of the clusters below it; a single root for all of them.  If
\* one has no perfect matching, nobody catches the exception.
DecodeRoots ==
    /\ pc = "begin" /\ shot.mode = "root_global"
    /\ LET below(c) == UNION {shot.own[d] : d \in {e \in Ids : c \in Up(e)}}
       IN \/ Answer(SumOf([c \in Roots |->
                           CountOf(IF Roots = {c} THEN Detectors ELSE below(c))], Roots))
          \/ Escape

\* A hierarchy of one cluster is decoded directly; a tree left over throws.
DecodeSingle ==
    /\ pc = "begin" /\ shot.mode # "root_global" /\ Cardinality(Ids) = 1
    /\ \/ Answer(CountOf(Detectors))
       \/ Throw

\* The initial setup: every cluster gets its own detectors, is marked if it has
\* nothing to do, and its first checkpoint is taken.
Setup ==
    /\ pc = "begin" /\ shot.mode # "root_global" /\ Cardinality(Ids) > 1
    /\ \E n \in [Ids -> 0..Never] :
         /\ \A c \in Ids : shot.own[c] = {} => n[c] = Never
         /\ LET worker(c) == CHOOSE w \in Fresh(c) : w.next = n[c]
                set == [c \in Ids |-> [r[c] EXCEPT !.w = worker(c)]]
                marked == [c \in Ids |-> Marked(set, c)]
            IN r' = [c \in Ids |-> Captured(marked, c)]
    /\ pc' = "stable"
    /\ UNCHANGED <<shot, time, toStep, cursor, outcome, answer>>

-----------------------------------------------------------------------------
(* mark_stopped_running_clusters_and_import_until_stable.                  *)

Waiting == {c \in Ids : r[c].state = "quiescent"}

\* The pass over the running clusters that have no event finds none: whatever
\* changes a cluster marks it as well (NothingToMark in TypeOK).
NothingToMark == \A c \in Ids : r[c].state = "running" => ~Idle(r[c].w)

\* import_newly_stopped_children_into_parents_at_time goes through the clusters
\* by id, again and again until none is left to import.
ToImport == {c \in Waiting : ~Root(c)}
NextToImport ==
    Min(IF \E c \in ToImport : c >= cursor
        THEN {c \in ToImport : c >= cursor} ELSE ToImport)

\* restart_parent_from_time_zero...: its own detectors again, at time 0.  The
\* extended result is forgotten, the compact one that short results are kept in
\* is not.
Restarted(p) ==
    {[r[p] EXCEPT !.state = "running", !.hasState = FALSE, !.provisional = FALSE,
                  !.history = <<>>, !.extraction = shot.own[p], !.w = w] : w \in Fresh(p)}

\* latest_overlap_snapshot_at_or_before, the last one of those at that time.
SnapshotsBefore(p, t) == {i \in DOMAIN r[p].history : r[p].history[i].time =< t}
LatestSnapshot(p, t) ==
    CHOOSE i \in SnapshotsBefore(p, t) :
        \A j \in SnapshotsBefore(p, t) :
            \/ r[p].history[j].time < r[p].history[i].time
            \/ r[p].history[j].time = r[p].history[i].time /\ j =< i

\* restore_parent_from_child_overlap_checkpoint; without a snapshot it throws.
Restored(p, t) ==
    IF SnapshotsBefore(p, t) = {} THEN {}
    ELSE LET e == r[p].history[LatestSnapshot(p, t)]
         IN {[r[p] EXCEPT !.w = e.w, !.extraction = e.extraction]}

\* Mutant: a parent that is taken back forgets what it had imported.
ReplayedNone(p, c, t) == {}
\* The imported siblings that are replayed: those that stopped up to t, and
\* after the snapshot if there is one.
Replayed(p, c, t) ==
    {d \in Children(p) \ {c} :
        /\ r[d].state = "imported" /\ r[d].hasState
        /\ r[d].stopped.time =< t
        /\ shot.checkpoints =>
             r[d].stopped.time > r[p].history[LatestSnapshot(p, t)].time}

\* A parent whose regions do not own any of the child's nodes has its clock moved
\* on; it is taken back first if they do.
Unclashed(p, c) == [r[p] EXCEPT !.w.clock = Max({@, r[c].stopped.time})]
Base(p, c) ==
    LET t == r[c].stopped.time
    IN IF ~Clash(r[p].w, {r[c].stopped}) THEN {Unclashed(p, c)}
       ELSE IF shot.checkpoints THEN Restored(p, t) ELSE Restarted(p)
\* The children whose states are imported then.
Again(p, c) ==
    {c} \cup IF Clash(r[p].w, {r[c].stopped}) THEN Replayed(p, c, r[c].stopped.time) ELSE {}

\* The next child is imported.  It throws if taking the parent back did not help.
ImportChild ==
    /\ pc = "stable" /\ shot.mode = "event_time" /\ ToImport # {}
    /\ \E c \in {NextToImport} :
       LET p == shot.parent[c]
           K == Again(p, c)
       IN \/ /\ Base(p, c) = {} \/ \E k \in Base(p, c) : Clash(k.w, StatesOf(K))
             /\ Throw
          \/ \E k \in Base(p, c) :
               /\ ~Clash(k.w, StatesOf(K))
               /\ \E w \in Rescheduled(Inherit(k.w, StatesOf(K))) :
                    r' = MarkAndCapture(Left(WithImports(r, p, k, K, w), {c}), p)
               /\ cursor' = c + 1
               /\ UNCHANGED <<shot, pc, time, toStep, outcome, answer>>

\* level_is_ready_for_batched_child_import, ..._parentless_broadcast_import: no
\* cluster of the level runs and some wait.
AtLevel(l) ==
    {c \in Ids : shot.level[c] = l /\ (shot.mode = "parentless" \/ ~Root(c))}
Ready(l) ==
    /\ \A c \in AtLevel(l) : r[c].state \in {"quiescent", "imported"}
    /\ \E c \in AtLevel(l) : r[c].state = "quiescent"
\* The lowest level that is ready.
ReadyLevels ==
    {l \in {shot.level[c] : c \in Ids} \ {MaxLevel} :
        Ready(l) /\ \A k \in 0..l-1 : ~Ready(k)}

\* terminal_import_children_into_empty_root, for the roots P: the results of the
\* children are made once and taken as they are.
TerminallyImported(res, P, K) ==
    LET result == [c \in K |-> IF res[c].hasDirect THEN res[c] ELSE Extracted(res[c])]
        sum == SumOf([c \in K |-> result[c].direct], K)
        root(p) == [res[p] EXCEPT !.direct = Plus(@, sum), !.hasDirect = TRUE,
                                  !.state = "quiescent", !.hasState = TRUE,
                                  !.provisional = FALSE]
    IN Override(Left(Override(res, result), K), [p \in P |-> root(p)])

\* import_ready_level_batched_children_into_parents: the lowest level that is
\* ready, parent by parent.
ImportLevel ==
    /\ pc = "stable" /\ shot.mode = "level_batched" /\ ReadyLevels # {}
    /\ \E l \in ReadyLevels :
       \E p \in {Min({shot.parent[c] : c \in AtLevel(l) \cap Waiting})} :
       \E K \in {AtLevel(l) \cap Waiting \cap Children(p)} :
          \/ /\ EmptyTerminalRoot(p)
             /\ r' = TerminallyImported(r, {p}, K)
             /\ UNCHANGED <<shot, pc, time, toStep, cursor, outcome, answer>>
          \/ /\ ~EmptyTerminalRoot(p) /\ Clash(r[p].w, StatesOf(K))
             /\ Throw
          \/ /\ ~EmptyTerminalRoot(p) /\ ~Clash(r[p].w, StatesOf(K))
             /\ \E w \in Rescheduled(Inherit(r[p].w, StatesOf(K))) :
                  r' = MarkAndCapture(Left(WithImports(r, p, r[p], K, w), K), p)
             /\ UNCHANGED <<shot, pc, time, toStep, cursor, outcome, answer>>

\* parentless_broadcast_targets_for_level.
Targets(l) ==
    LET above == {c \in Ids : shot.level[c] > l}
        nonEmpty == {c \in above : shot.own[c] # {}}
    IN IF nonEmpty # {} THEN nonEmpty ELSE above

\* import_ready_level_parentless_broadcast: every target gets every child of
\* the level, overwriting what it has; only then are the children imported.
BroadcastLevel ==
    /\ pc = "stable" /\ shot.mode = "parentless" /\ ReadyLevels # {}
    /\ \E l \in ReadyLevels :
       \E K \in {AtLevel(l) \cap Waiting}, empty \in {{t \in Targets(l) : EmptyTerminalRoot(t)}} :
       LET full == Targets(l) \ empty
           some == \E c \in K : r[c].stopped.sources # {}
           taken == [t \in full |-> Inherit(r[t].w, StatesOf(K))]
       IN \E n \in [full -> 0..Never] :
            /\ \A t \in full : [taken[t] EXCEPT !.next = n[t]] \in Rescheduled(taken[t])
            /\ LET worker(t) == [taken[t] EXCEPT !.next = n[t]]
                   with(t) == MarkAndCapture(WithImports(r, t, r[t], K, worker(t)), t)[t]
                   got == IF some THEN Override(r, [t \in full |-> with(t)]) ELSE r
               IN r' = IF empty = {} THEN Left(got, K)
                       ELSE TerminallyImported(got, empty, K)
    /\ UNCHANGED <<shot, pc, time, toStep, cursor, outcome, answer>>

Stable ==
    /\ shot.mode = "event_time" => ToImport = {}
    /\ shot.mode # "event_time" => ReadyLevels = {}

-----------------------------------------------------------------------------
(* The main loop.                                                          *)

Runnable == {c \in Ids : r[c].state = "running" /\ ~Idle(r[c].w)}

\* The clusters with an event at the current global time, or else, by
\* scan_clusters_at_next_global_time, at the next one.
BeginSlice ==
    /\ pc = "stable" /\ Stable /\ Runnable # {}
    /\ LET now == {c \in Runnable : r[c].w.next = time}
           next == Min({r[c].w.next : c \in Runnable})
       IN IF now # {} THEN toStep' = now /\ UNCHANGED time
          ELSE /\ time' = next
               /\ toStep' = {c \in Runnable : r[c].w.next = next}
    /\ pc' = "step"
    /\ UNCHANGED <<shot, r, cursor, outcome, answer>>

\* step_cluster_through_time_slice, between two checkpoints.  The clusters of a
\* slice may be stepped by several threads, but none sees another.
StepCluster ==
    /\ pc = "step"
    /\ \E c \in {Min(toStep)} :
       LET before == [r EXCEPT ![c] = Captured(r, c)]
       IN /\ \E w \in Stepped(c, r[c].w) :
               r' = MarkAndCapture([before EXCEPT ![c].w = w], c)
          /\ toStep' = toStep \ {c}
    /\ pc' = IF toStep' = {} THEN "stable" ELSE "step"
    /\ cursor' = 0
    /\ UNCHANGED <<shot, time, outcome, answer>>

\* The final checks and the sum over the roots.
Aggregate ==
    /\ pc = "stable" /\ Stable /\ Runnable = {}
    /\ LET unfinished ==
             \/ \E c \in Ids : r[c].everDrained \/ r[c].provisional
             \/ \E c \in Ids : ~Root(c) /\ r[c].state # "imported"
             \/ \E c \in Roots : ~r[c].hasState
           count(c) == IF r[c].hasDirect THEN r[c].direct ELSE Counted(r[c])
       IN \/ unfinished /\ Throw
          \/ ~unfinished /\ Answer(SumOf([c \in Roots |-> count(c)], Roots))

Next ==
    \/ DecodeRoots \/ DecodeSingle \/ Setup
    \/ ImportChild \/ ImportLevel \/ BroadcastLevel
    \/ BeginSlice \/ StepCluster \/ Aggregate

\* A step that leaves a cluster with a later event or none.
MovesOn == StepCluster /\ \A c \in toStep \ toStep' : r'[c].w.next > time

\* What is taken on trust of an MWPM by itself: at one time there is only so much for
\* it to do, so that clusters which are stepped again and again move on.  It can
\* be done at every step (next is open to Never), so this is SF_vars(MovesOn).
FinitelyManyLooks == []<>(pc = "step") => []<><<MovesOn>>_vars

\* One thread runs all this and nothing blocks.
Spec == Init /\ [][Next]_vars /\ WF_vars(Next) /\ FinitelyManyLooks

-----------------------------------------------------------------------------
(* Properties.                                                             *)

Count == [Detectors -> Nat]
Worker ==
    [sources : SUBSET Detectors, owned : SUBSET Detectors, tree : BOOLEAN,
     next : 0..Never, clock : Times]
Cluster ==
    [state : {"running", "quiescent", "drained", "imported"}, hasState : BOOLEAN,
     provisional : BOOLEAN, everDrained : BOOLEAN, hasDirect : BOOLEAN, direct : Count,
     extraction : SUBSET Detectors, w : Worker,
     stopped : [time : Times, sources : SUBSET Detectors, owned : SUBSET Detectors],
     history : Seq([time : Times, w : Worker, extraction : SUBSET Detectors])]

\* The shape of the state; only what is running can have trees.
TypeOK ==
    /\ shot \in Shots
    /\ pc \in {"begin", "stable", "step", "done"}
    /\ r \in [Ids -> Cluster]
    /\ time \in Times /\ toStep \subseteq Ids /\ cursor \in Nat
    /\ outcome \in {"none", "answered", "fallback", "threw"}
    /\ answer \in Count
    /\ toStep # {} <=> pc = "step"
    /\ pc = "stable" => NothingToMark
    /\ \A c \in Ids : r[c].w.tree => r[c].state \in {"running", "drained", "imported"}

\* What a cluster would contribute if it were a root.
Holds(c) ==
    IF r[c].hasDirect THEN {d \in Detectors : r[c].direct[d] > 0}
    ELSE r[c].extraction \cap r[c].w.sources

\* At every moment each active detector is accounted for by a root or by a cluster
\* that has not been imported away, however often parents are resumed, restarted from
\* time zero or taken back to a checkpoint.
NothingLost ==
    pc \in {"stable", "step"} =>
        \A d \in Detectors : \E c \in Ids :
            (Root(c) \/ r[c].state # "imported") /\ d \in Holds(c)

\* An answer that is not the fallback's counts each active detector once.
CountsEveryDetectorOnce == outcome = "answered" => answer = CountOf(Detectors)

\* A decode ends if each MWPM by itself has finitely many looks at one time:
\* restarts and resumed parents do not go on for ever, and no cluster waits for
\* one that waits for it.
DecodeEnds == <>(pc = "done")
=============================================================================
