--------------------------- MODULE LevelClustering ---------------------------
(***************************************************************************)
(* What the levels of a cluster hierarchy promise: level by level, the     *)
(* components of what is left are found and those that may stop are taken  *)
(* out.  Levels that take nothing out may pass unseen.                     *)
(***************************************************************************)
EXTENDS ClusterGeometry, Sequences

VARIABLES
  setting,    \* [schedule, force, mode]: the configuration
  cache,      \* the preprocessed graph
  level,      \* the next level
  residual,   \* active detectors in no cluster yet
  clusters    \* the clusters accepted so far: [level, members]

rule == <<setting, cache, level, residual, clusters>>

MaxLevel == Len(setting.schedule)

Forced(l) == setting.force /\ l = MaxLevel

\* Into what a level may divide the residual: a forced level may keep a component of the graph
\* together, and keeps everything unless its bounds are certified.
Divisions(l) ==
  LET b == setting.schedule[l]
      threshold == ThresholdComponents(cache.dist, residual, b.buffer)
      interior  == InteriorComponents(cache.id, residual)
  IN IF ~Forced(l) THEN {threshold}
     ELSE IF ~b.certified THEN {{residual}}
     ELSE {threshold, interior}

\* A component may stop if it is small and narrow and its parity lets it end at the boundary.
MayStop(l, C) ==
  LET b == setting.schedule[l] IN
    \/ Forced(l)
    \/ /\ b.cap = 0 \/ Cardinality(C) <= b.cap
       /\ Diameter(cache.dist, C) <= b.diameter
       /\ Cardinality(C) % 2 = 0 \/ \A a \in C : cache.near[a] <= b.diameter

Passes(l) == \E division \in Divisions(l) : \A C \in division : ~MayStop(l, C)

CloseLevels(l) ==
  /\ level <= l /\ l <= MaxLevel
  /\ residual # {}
  /\ \A k \in level .. l - 1 : Passes(k)
  /\ \E division \in Divisions(l) :
       LET out == {C \in division : MayStop(l, C)} IN
         /\ clusters' = clusters \cup {[level |-> l, members |-> C] : C \in out}
         /\ residual' = residual \ UNION out
  /\ level' = l + 1
  /\ UNCHANGED <<setting, cache>>

RuleInit == level = 1 /\ clusters = {}

RuleNext == \E l \in 1 .. MaxLevel : CloseLevels(l)

RuleSpec == RuleInit /\ [][RuleNext]_rule
=============================================================================
