------------------------- MODULE LevelPipeline_proofs -------------------------
(***************************************************************************)
(* Proofs about LevelPipeline, for any hierarchies, clusters, detectors    *)
(* and MWPM states: its types, that a cluster runs on top of everything    *)
(* below it and, when inherited states are touched as a whole or not at    *)
(* all, that the shot's result counts every active detector exactly once.  *)
(***************************************************************************)
EXTENDS LevelPipeline, FiniteSetTheorems, TLAPS

-----------------------------------------------------------------------------
(* The inductive invariant.  Exactly-once at the end needs, on the way,    *)
(* that the contributions so far divide the detectors of the clusters that *)
(* have ended; and that a cluster supersedes all it overlaps with needs    *)
(* that everything below it has ended and has been imported.               *)

Ended(c) == state[c] # "running"

\* Levels end one after the other, and a level's clusters one by one.
EndsByLevel ==
    pc # "idle" =>
      /\ toRun \subseteq Level(level)
      /\ \A c \in Clusters :
           /\ Ended(c) <=> \/ h.level[c] < level
                           \/ h.level[c] = level /\ pc # "import" /\ c \notin toRun
           /\ h.level[c] >= level /\ pc # "done" => state[c] # "imported"
      /\ pc = "export" => toRun # {}
      /\ pc = "done" => IsTop(level) /\ toRun = {}

ImportsByLevel ==
    pc \in {"import", "run", "export"} =>
      \A c \in Clusters : h.level[c] >= level =>
        /\ pending[c] \cup imported[c] = {d \in Clusters : h.level[d] < level}
        /\ pc # "import" /\ h.level[c] = level => pending[c] = {}

TouchedOnTop ==
    pc = "export" => \E t \in MayTouch(Current) : touched = h.own[Current] \cup t

ContributionsDivide ==
    pc # "idle" =>
      /\ \A c \in Clusters :
           /\ ~ Ended(c) => c \notin superseded /\ extracted[c] = {}
           /\ stopped[c] = IF UpperTargets(c) = {} THEN {} ELSE extracted[c]
           /\ \A x \in extracted[c] : \E d \in Clusters : Ended(d) /\ x \in h.own[d]
           /\ Ended(c) => \A x \in h.own[c] :
                            \E d \in Clusters \ superseded : x \in extracted[d]
      /\ \A c, d \in Clusters \ superseded :
           c # d => extracted[c] \cap extracted[d] = {}

IInv ==
    /\ TypeOK
    /\ EndsByLevel
    /\ ImportsByLevel
    /\ TouchedOnTop
    /\ ~ PartialTouch => ContributionsDivide

-----------------------------------------------------------------------------
(* Facts about the constants and the choice of the next cluster.           *)

\* What a hierarchy gives.
LEMMA HierarchyParts ==
    ASSUME NEW g \in Hierarchies
    PROVE  /\ \A c \in Clusters : g.level[c] \in Nat /\ g.own[c] \in SUBSET Detectors
           /\ \A c, d \in Clusters : c # d => g.own[c] \cap g.own[d] = {}
BY HierarchyAssumption

\* A set of clusters that is not empty has a first one.
LEMMA FirstCluster ==
    ASSUME NEW S \in SUBSET Clusters, S # {}
    PROVE  \E c \in S : \A d \in S : c =< d
<1> DEFINE Before(c) == {d \in S : d < c}
           T == {Before(c) : c \in S}
<1>1. S \subseteq Nat /\ IsFiniteSet(S)
  BY HierarchyAssumption, FS_Subset
<1>2. IsWellFoundedOn(StrictSubsetOrdering(S), SUBSET S)
  BY <1>1, FS_StrictSubsetOrderingWellFounded, FS_FiniteSubsetsOfFinite
<1>3. T \subseteq SUBSET S /\ T # {}
  OBVIOUS
<1>4. PICK B \in T : \A A \in T : <<A, B>> \notin StrictSubsetOrdering(S)
  BY ONLY <1>2, <1>3, WFMin
<1>5. PICK c \in S : B = Before(c)
  OBVIOUS
<1>6. ASSUME NEW d \in S, d < c PROVE FALSE
  <2>1. Before(d) \subseteq Before(c) /\ d \in Before(c) /\ d \notin Before(d)
    <3>1. c \in Nat /\ d \in Nat BY <1>1
    <3>2. ASSUME NEW e \in Before(d) PROVE e \in Before(c)
      <4>1. e \in S /\ e < d /\ e \in Nat BY <1>1
      <4> QED BY <4>1, <3>1, <1>6
    <3>3. d \in Before(c) BY <1>6
    <3>4. d \notin Before(d) BY <3>1
    <3> QED BY <3>2, <3>3, <3>4
  <2>2. <<Before(d), Before(c)>> \in StrictSubsetOrdering(S)
    BY <2>1, <1>3 DEF StrictSubsetOrdering
  <2> QED BY <2>2, <1>4, <1>5
<1> QED BY <1>1, <1>6

\* The cluster the loops are at is one of those they have before them.
LEMMA CurrentIsAtHand ==
    ASSUME TypeOK, AtHand # {}
    PROVE  Current \in AtHand /\ Current \in Clusters
<1>1. AtHand \in SUBSET Clusters BY DEF TypeOK, AtHand, Level
<1>2. \E c \in AtHand : \A d \in AtHand : c =< d BY <1>1, FirstCluster
<1>3. Current = CHOOSE c \in AtHand : \A d \in AtHand : c =< d
  BY DEF Current
<1>4. Current \in AtHand BY <1>2, <1>3
<1> QED BY <1>1, <1>4

-----------------------------------------------------------------------------
(* Every step keeps it.                                                    *)

\* A shot starts with empty tables.
LEMMA FreshShot ==
    ASSUME NEW g \in Hierarchies,
           h = g, pc = "import", level = 0, toRun = {}, pending = Empty,
           imported = Empty, touched = {}, stopped = Empty, extracted = Empty,
           superseded = {}, state = [c \in Clusters |-> "running"]
    PROVE  EndsByLevel /\ ImportsByLevel /\ TouchedOnTop /\ ContributionsDivide
<1>1. \A c \in Clusters : h.level[c] \in Nat BY HierarchyParts
<1>2. EndsByLevel BY <1>1 DEF EndsByLevel, Ended
<1>3. ImportsByLevel BY <1>1 DEF ImportsByLevel, Empty
<1>4. TouchedOnTop BY DEF TouchedOnTop
<1>5. ContributionsDivide BY DEF ContributionsDivide, Ended, Empty
<1> QED BY <1>2, <1>3, <1>4, <1>5

\* At first there is no shot.
LEMMA InitEstablishes == Init => IInv
<1> SUFFICES ASSUME Init PROVE IInv OBVIOUS
<1>1. TypeOK
  BY HierarchyAssumption DEF Init, TypeOK, Empty
<1> QED BY <1>1 DEF Init, IInv, EndsByLevel, ImportsByLevel, TouchedOnTop,
                    ContributionsDivide

\* The next shot forgets the last one, however that ended.
LEMMA StartShotKeeps == ASSUME IInv, StartShot PROVE IInv'
<1> USE DEF StartShot, slotVars
<1>1. TypeOK' BY DEF IInv, TypeOK, Empty
<1>2. PICK g \in Hierarchies : h' = g OBVIOUS
<1>3. \A c \in Clusters : h'.level[c] \in Nat BY <1>2, HierarchyParts
<1>4. EndsByLevel' BY <1>3 DEF EndsByLevel, Ended
<1>5. ImportsByLevel' BY <1>3 DEF ImportsByLevel, Empty
<1>6. TouchedOnTop' BY DEF TouchedOnTop
<1>7. ContributionsDivide' BY DEF ContributionsDivide, Ended, Empty
<1> QED BY <1>1, <1>4, <1>5, <1>6, <1>7 DEF IInv

\* Who has the MWPM states and what is initialized is not in the invariant.
LEMMA SlotStepKeeps ==
    ASSUME IInv, TypeOK',
           UNCHANGED <<h, pc, level, toRun, pending, imported, resultVars>>
    PROVE  IInv'
<1> USE DEF IInv, resultVars
<1>1. EndsByLevel' BY DEF EndsByLevel, Ended, Level, IsTop
<1>2. ImportsByLevel' BY DEF ImportsByLevel
<1>3. UNCHANGED <<Current, Inherited(Current)>>
  BY DEF Current, AtHand, Level, Inherited
<1>4. TouchedOnTop'
  BY <1>3 DEF TouchedOnTop, MayTouch, Current, AtHand, Level, Inherited
<1>5. ~ PartialTouch => ContributionsDivide'
  BY DEF ContributionsDivide, Ended, UpperTargets
<1> QED BY <1>1, <1>2, <1>4, <1>5

\* A cluster borrows a state.
LEMMA AcquireKeeps == ASSUME IInv, Acquire PROVE IInv'
<1> USE DEF Acquire, importVars
<1>1. Current \in Clusters BY CurrentIsAtHand DEF IInv
<1>2. TypeOK' BY <1>1 DEF IInv, TypeOK, Pool!Lend, resultVars
<1> QED BY <1>2, SlotStepKeeps

\* A cluster is initialized.
LEMMA InitializeKeeps == ASSUME IInv, Initialize PROVE IInv'
<1> USE DEF Initialize
<1>1. Current \in Clusters BY CurrentIsAtHand DEF IInv
<1>2. owner' \in [Slots -> Clusters \cup {Leaked, Free, Dirty}]
      /\ pristine' \in [Slots -> BOOLEAN]
  BY DEF IInv, TypeOK, Pool!Use, slotVars
<1>3. TypeOK' BY <1>1, <1>2 DEF IInv, TypeOK, resultVars
<1> QED BY <1>3, SlotStepKeeps

\* A reset thread cleans a state or puts it back.
LEMMA RecycleKeeps == ASSUME IInv, NEW s \in Slots, Recycle(s) PROVE IInv'
<1> USE DEF Recycle, importVars
<1>1. owner' \in [Slots -> Clusters \cup {Leaked, Free, Dirty}]
      /\ pristine' \in [Slots -> BOOLEAN]
  BY DEF IInv, TypeOK, Pool!Offer, Pool!Clean
<1>2. TypeOK' BY <1>1 DEF IInv, TypeOK, resultVars
<1> QED BY <1>2, SlotStepKeeps

\* An aborted shot leaves nothing the next one relies on.
LEMMA ThrowKeeps == ASSUME IInv, Throw PROVE IInv'
<1>1. TypeOK'
  <2>1. owner' \in [Slots -> Clusters \cup {Leaked, Free, Dirty}]
    BY DEF IInv, TypeOK, Throw
  <2>2. throws' \in 0..MaxThrows
    BY HierarchyAssumption DEF IInv, TypeOK, Throw
  <2> QED BY <2>1, <2>2 DEF IInv, TypeOK, Throw, importVars
<1>2. pc' = "idle" BY DEF Throw
<1> QED BY <1>1, <1>2 DEF IInv, EndsByLevel, ImportsByLevel, TouchedOnTop,
                          ContributionsDivide

\* An import moves a cluster's pending sources to its imported ones.
LEMMA ImportKeeps == ASSUME IInv, Import PROVE IInv'
<1> USE DEF Import, slotVars
<1>1. Current \in Clusters /\ Current \in Level(level)
  BY CurrentIsAtHand DEF IInv, AtHand
<1>2. TypeOK' BY <1>1 DEF IInv, TypeOK
<1>3. h.level[Current] = level BY <1>1 DEF Level
<1>4. state[Current] = "running"
  BY <1>1, <1>3, HierarchyParts DEF IInv, EndsByLevel, Ended, TypeOK
<1>5. state' = state BY <1>4 DEF IInv, TypeOK
<1>6. EndsByLevel' BY <1>5 DEF IInv, EndsByLevel, Ended, Level, IsTop
<1>7. \A c \in Clusters : pending'[c] \cup imported'[c] = pending[c] \cup imported[c]
  BY <1>1 DEF IInv, TypeOK
<1>8. ImportsByLevel' BY <1>7 DEF IInv, ImportsByLevel
<1>9. TouchedOnTop' BY DEF TouchedOnTop
<1>10. ~ PartialTouch => ContributionsDivide'
  BY <1>5 DEF IInv, ContributionsDivide, Ended, UpperTargets
<1> QED BY <1>2, <1>6, <1>8, <1>9, <1>10 DEF IInv

\* When a level starts to run, its imports are done and it is to run whole.
LEMMA BeginLevelKeeps == ASSUME IInv, BeginLevel PROVE IInv'
<1> USE DEF BeginLevel, importVars, resultVars, slotVars
<1>1. TypeOK' BY DEF IInv, TypeOK, Level
<1>2. \A c \in Clusters : h.level[c] \in Nat /\ level \in Nat
  BY HierarchyParts DEF IInv, TypeOK
<1>3. \A c \in Clusters : h.level[c] = level => ~ Ended(c) /\ c \in toRun'
  BY <1>2 DEF IInv, EndsByLevel, Ended, Level
<1>4. EndsByLevel'
  BY <1>2, <1>3 DEF IInv, EndsByLevel, Ended, Level
<1>5. \A c \in Clusters : h.level[c] = level => pending[c] = {}
  BY DEF AtHand, Level
<1>6. ImportsByLevel' BY <1>5 DEF IInv, ImportsByLevel
<1>7. TouchedOnTop' BY DEF TouchedOnTop
<1>8. ~ PartialTouch => ContributionsDivide'
  BY DEF IInv, ContributionsDivide, Ended, UpperTargets
<1> QED BY <1>1, <1>4, <1>6, <1>7, <1>8 DEF IInv

\* What an advance touches is its own or inherited.
LEMMA AdvanceKeeps == ASSUME IInv, Advance PROVE IInv'
<1> USE DEF Advance, importVars, slotVars
<1>1. Current \in Clusters
  <2>1. AtHand # {} BY DEF AtHand
  <2> QED BY <2>1, CurrentIsAtHand DEF IInv
<1>2. PICK t \in MayTouch(Current) : touched' = h.own[Current] \cup t OBVIOUS
<1>3. Current' = Current /\ MayTouch(Current)' = MayTouch(Current)
  BY DEF Current, AtHand, Level, MayTouch, Inherited
<1>4. TypeOK'
  <2>1. h.own[Current] \subseteq Detectors BY <1>1, HierarchyParts DEF IInv, TypeOK
  <2>2. \A d \in imported[Current] : stopped[d] \subseteq Detectors
    BY <1>1 DEF IInv, TypeOK
  <2>3. t \subseteq Detectors BY <2>2 DEF MayTouch, Inherited
  <2> QED BY <1>2, <2>1, <2>3 DEF IInv, TypeOK
<1>5. EndsByLevel' BY DEF IInv, EndsByLevel, Ended, Level, IsTop
<1>6. ImportsByLevel' BY DEF IInv, ImportsByLevel
<1>7. TouchedOnTop' BY <1>2, <1>3 DEF TouchedOnTop
<1>8. ~ PartialTouch => ContributionsDivide'
  BY DEF IInv, ContributionsDivide, Ended, UpperTargets
<1> QED BY <1>4, <1>5, <1>6, <1>7, <1>8 DEF IInv

\* What ends a cluster leaves the tables of the others alone.
LEMMA ExportMoves ==
    ASSUME IInv, ExportOrExtract
    PROVE  /\ Current \in Clusters /\ Current \in toRun /\ h.level[Current] = level
           /\ state[Current] = "running" /\ state'[Current] = "stopped"
           /\ \A c \in Clusters \ {Current} :
                /\ state'[c] = state[c] /\ extracted'[c] = extracted[c]
                /\ stopped'[c] = stopped[c]
           /\ extracted'[Current] = ExtractionSources(Current)
           /\ stopped'[Current] = IF UpperTargets(Current) = {} THEN stopped[Current]
                                  ELSE touched
<1> USE DEF ExportOrExtract
<1>1. Current \in toRun /\ Current \in Clusters
  <2>1. AtHand = toRun BY DEF AtHand
  <2>2. AtHand # {} BY <2>1 DEF IInv, EndsByLevel
  <2> QED BY <2>1, <2>2, CurrentIsAtHand DEF IInv
<1>2. h.level[Current] = level BY <1>1 DEF IInv, EndsByLevel, Level
<1>3. ~ Ended(Current)
  BY <1>1, <1>2, HierarchyParts DEF IInv, EndsByLevel, TypeOK
<1> QED BY <1>1, <1>2, <1>3 DEF IInv, TypeOK, Ended

\* An export ends its cluster, with everything below it imported.
LEMMA ExportKeepsControl ==
    ASSUME IInv, ExportOrExtract
    PROVE  TypeOK' /\ EndsByLevel' /\ ImportsByLevel' /\ TouchedOnTop'
<1> USE DEF ExportOrExtract, importVars
<1> USE ExportMoves
<1>1. TypeOK'
  <2>1. \A c \in Clusters : h.own[c] \subseteq Detectors
    BY HierarchyParts DEF IInv, TypeOK
  <2>2. ExtractionSources(Current) \subseteq Detectors
    BY <2>1 DEF IInv, TypeOK, ExtractionSources, TakenOver
  <2>3. extracted' \in [Clusters -> SUBSET Detectors]
    BY <2>2 DEF IInv, TypeOK
  <2>4. stopped' \in [Clusters -> SUBSET Detectors]
    BY DEF IInv, TypeOK
  <2>5. superseded' \subseteq Clusters
    BY DEF IInv, TypeOK, TakenOver
  <2>6. owner' \in [Slots -> Clusters \cup {Leaked, Free, Dirty}]
        /\ pristine' \in [Slots -> BOOLEAN]
    BY DEF IInv, TypeOK, ReleaseIfHeld, Pool!Return, slotVars
  <2>7. state' \in [Clusters -> {"running", "stopped", "imported"}]
    BY DEF IInv, TypeOK
  <2>8. /\ h' \in Hierarchies /\ level' \in Nat /\ toRun' \subseteq Clusters
        /\ pc' = "run" /\ touched' = {} /\ throws' \in 0..MaxThrows
        /\ initialized' \subseteq Clusters
        /\ pending' \in [Clusters -> SUBSET Clusters]
        /\ imported' \in [Clusters -> SUBSET Clusters]
    BY DEF IInv, TypeOK
  <2> QED BY ONLY <2>3, <2>4, <2>5, <2>6, <2>7, <2>8 DEF TypeOK
<1>2. EndsByLevel'
  <2>1. toRun' \subseteq Level(level) /\ h' = h /\ level' = level /\ pc' = "run"
    BY DEF IInv, EndsByLevel
  <2>2. ASSUME NEW c \in Clusters
        PROVE  /\ Ended(c)' <=> \/ h.level[c] < level
                                \/ h.level[c] = level /\ c \notin toRun'
               /\ h.level[c] >= level => state'[c] # "imported"
    <3>1. CASE c = Current
      <4>1. c \notin toRun' /\ state'[c] = "stopped" /\ h.level[c] = level BY <3>1
      <4> QED BY <4>1 DEF Ended
    <3>2. CASE c # Current
      <4>1. state'[c] = state[c] /\ (c \in toRun' <=> c \in toRun) BY <3>2
      <4> QED BY <4>1 DEF IInv, EndsByLevel, Ended
    <3> QED BY <3>1, <3>2
  <2>3. toRun' \subseteq Level(level)' BY <2>1 DEF Level
  <2> QED BY <2>1, <2>2, <2>3 DEF EndsByLevel
<1>3. ImportsByLevel' BY DEF IInv, ImportsByLevel
<1>4. TouchedOnTop' BY DEF TouchedOnTop
<1> QED BY <1>1, <1>2, <1>3, <1>4

\* If inherited states are touched whole or not at all, what a cluster extracts
\* is its own detectors and some whole contributions, all of them superseded.
LEMMA ExportTakesWhole ==
    ASSUME IInv, ExportOrExtract, ~ PartialTouch
    PROVE  /\ imported[Current] = {d \in Clusters : h.level[d] < level}
           /\ ExtractionSources(Current) = touched
           /\ h.own[Current] \subseteq touched
           /\ \A x \in touched \ h.own[Current] :
                \E d \in imported[Current] : x \in stopped[d]
           /\ \A d \in imported[Current] :
                \/ d \in TakenOver(Current) /\ stopped[d] \subseteq touched
                \/ d \notin TakenOver(Current) /\ stopped[d] \cap touched = {}
           /\ \A d \in Level(level) : extracted[d] \cap touched = {}
<1> USE ExportMoves
<1>1. imported[Current] = {d \in Clusters : h.level[d] < level}
  <2>1. level \in Nat BY DEF IInv, TypeOK
  <2> QED BY <2>1 DEF IInv, ImportsByLevel, ExportOrExtract
<1>2. PICK t \in MayTouch(Current) : touched = h.own[Current] \cup t
  BY DEF IInv, TouchedOnTop, ExportOrExtract
<1>3. /\ \A d \in imported[Current] : stopped[d] \cap t = {} \/ stopped[d] \subseteq t
      /\ \A d \in Level(level) : extracted[d] \cap t = {}
      /\ \A x \in t : \E d \in imported[Current] : x \in stopped[d]
  BY DEF MayTouch, Inherited
<1>4. ContributionsDivide /\ pc # "idle"
  BY DEF IInv, ExportOrExtract
<1>5. \A d \in Clusters : extracted[d] \cap h.own[Current] = {}
  <2> SUFFICES ASSUME NEW d \in Clusters, NEW x \in extracted[d], x \in h.own[Current]
               PROVE  FALSE
    OBVIOUS
  <2>1. PICK e \in Clusters : Ended(e) /\ x \in h.own[e]
    BY <1>4 DEF ContributionsDivide
  <2>2. e # Current BY <2>1 DEF Ended
  <2> QED BY <2>1, <2>2, HierarchyParts DEF IInv, TypeOK
<1>6. \A d \in Clusters : stopped[d] \subseteq extracted[d]
  BY <1>4 DEF ContributionsDivide
<1>7. \A d \in imported[Current] :
        \/ d \in TakenOver(Current) /\ stopped[d] \subseteq touched
        \/ d \notin TakenOver(Current) /\ stopped[d] \cap touched = {}
  <2> SUFFICES ASSUME NEW d \in imported[Current]
               PROVE  \/ d \in TakenOver(Current) /\ stopped[d] \subseteq touched
                      \/ d \notin TakenOver(Current) /\ stopped[d] \cap touched = {}
    OBVIOUS
  <2>1. d \in Clusters BY <1>1
  <2>2. stopped[d] \cap h.own[Current] = {} BY <2>1, <1>5, <1>6
  <2>3. CASE stopped[d] \cap t = {} BY <2>2, <2>3, <1>2 DEF TakenOver
  <2>4. CASE stopped[d] \subseteq t /\ stopped[d] \cap t # {}
    BY <2>4, <1>2 DEF TakenOver
  <2> QED BY <2>3, <2>4, <1>3
<1>8. ExtractionSources(Current) = touched
  <2>1. \A d \in TakenOver(Current) : stopped[d] \subseteq touched
    BY <1>7 DEF TakenOver
  <2> QED BY <2>1, <1>2 DEF ExtractionSources
<1>9. \A d \in Level(level) : extracted[d] \cap touched = {}
  BY <1>2, <1>3, <1>5 DEF Level
<1> QED BY <1>1, <1>2, <1>3, <1>7, <1>8, <1>9

\* So the contributions still divide what the ended clusters own.
LEMMA ExportDivides ==
    ASSUME IInv, ExportOrExtract, ~ PartialTouch
    PROVE  ContributionsDivide'
<1> USE ExportMoves, ExportTakesWhole
<1>0. PICK c0 \in Clusters : c0 = Current OBVIOUS
<1>1. /\ c0 \in Clusters /\ h.level[c0] = level /\ ~ Ended(c0) /\ Ended(c0)'
      /\ \A c \in Clusters \ {c0} :
           /\ Ended(c)' <=> Ended(c)
           /\ extracted'[c] = extracted[c] /\ stopped'[c] = stopped[c]
      /\ extracted'[c0] = touched
      /\ stopped'[c0] = IF UpperTargets(c0) = {} THEN stopped[c0] ELSE touched
      /\ h' = h
  BY <1>0 DEF Ended, ExportOrExtract
<1>2. /\ superseded' = superseded \cup TakenOver(c0)
      /\ TakenOver(c0) \subseteq imported[c0]
      /\ imported[c0] = {d \in Clusters : h.level[d] < level}
      /\ h.own[c0] \subseteq touched
      /\ \A x \in touched \ h.own[c0] : \E d \in imported[c0] : x \in stopped[d]
      /\ \A d \in imported[c0] :
           \/ d \in TakenOver(c0) /\ stopped[d] \subseteq touched
           \/ d \notin TakenOver(c0) /\ stopped[d] \cap touched = {}
      /\ \A d \in Level(level) : extracted[d] \cap touched = {}
  BY <1>0 DEF TakenOver, ExportOrExtract
<1>3. /\ \A c \in Clusters : h.level[c] \in Nat /\ level \in Nat
      /\ EndsByLevel /\ pc = "export" /\ ContributionsDivide
  BY HierarchyParts DEF IInv, TypeOK, ExportOrExtract
<1>4. \A d \in imported[c0] : d \in Clusters /\ d # c0 /\ Ended(d) /\ stopped[d] = extracted[d]
  <2> SUFFICES ASSUME NEW d \in imported[c0]
               PROVE  d \in Clusters /\ d # c0 /\ Ended(d) /\ stopped[d] = extracted[d]
    OBVIOUS
  <2>1. d \in Clusters /\ h.level[d] < level /\ d # c0 BY <1>1, <1>2, <1>3
  <2>2. Ended(d) BY <2>1, <1>3 DEF EndsByLevel
  <2>3. c0 \in UpperTargets(d) BY <2>1, <1>1 DEF UpperTargets
  <2> QED BY <2>1, <2>2, <2>3, <1>3 DEF ContributionsDivide
<1>5. c0 \notin superseded' /\ c0 \notin superseded
  BY <1>1, <1>2, <1>3, <1>4 DEF ContributionsDivide
<1>6. ASSUME NEW c \in Clusters \ superseded', c # c0
      PROVE  extracted[c] \cap touched = {}
  <2>1. CASE h.level[c] < level
    BY <2>1, <1>2, <1>4, <1>6
  <2>2. CASE h.level[c] = level
    BY <2>2, <1>2, <1>6 DEF Level
  <2>3. CASE h.level[c] > level
    <3>1. ~ Ended(c) BY <2>3, <1>3 DEF EndsByLevel
    <3> QED BY <3>1, <1>3 DEF ContributionsDivide
  <2> QED BY <2>1, <2>2, <2>3, <1>3
<1>7. ASSUME NEW c \in Clusters
      PROVE  ~ Ended(c)' => c \notin superseded' /\ extracted'[c] = {}
  BY <1>1, <1>2, <1>3, <1>4 DEF ContributionsDivide
<1>8. ASSUME NEW c \in Clusters
      PROVE  stopped'[c] = IF UpperTargets(c) = {} THEN {} ELSE extracted'[c]
  BY <1>1, <1>3 DEF ContributionsDivide
<1>9. ASSUME NEW c \in Clusters, NEW x \in extracted'[c]
      PROVE  \E d \in Clusters : Ended(d)' /\ x \in h.own[d]
  <2>1. CASE c # c0
    <3>1. \E d \in Clusters : Ended(d) /\ x \in h.own[d]
      BY <2>1, <1>1, <1>3, <1>9 DEF ContributionsDivide
    <3> QED BY <3>1, <1>1
  <2>2. CASE c = c0 /\ x \in h.own[c0] BY <2>2, <1>1
  <2>3. CASE c = c0 /\ x \notin h.own[c0]
    <3>1. PICK d \in imported[c0] : x \in stopped[d] BY <2>3, <1>1, <1>2, <1>9
    <3>2. d \in Clusters /\ x \in extracted[d] BY <3>1, <1>4
    <3>3. \E e \in Clusters : Ended(e) /\ x \in h.own[e]
      BY <3>2, <1>3 DEF ContributionsDivide
    <3> QED BY <3>3, <1>1
  <2> QED BY <2>1, <2>2, <2>3
<1>10. ASSUME NEW c \in Clusters, Ended(c)', NEW x \in h.own[c]
       PROVE  \E d \in Clusters \ superseded' : x \in extracted'[d]
  <2>1. CASE c = c0 BY <2>1, <1>1, <1>2, <1>5, <1>10
  <2>2. CASE c # c0
    <3>1. Ended(c) BY <2>2, <1>1, <1>10
    <3>2. PICK d \in Clusters \ superseded : x \in extracted[d]
      BY <3>1, <1>3, <1>10 DEF ContributionsDivide
    <3>3. CASE d \in TakenOver(c0)
      <4>1. extracted[d] \subseteq touched BY <3>3, <1>2, <1>4
      <4> QED BY <4>1, <3>2, <1>1, <1>5
    <3>4. CASE d = c0
      BY <3>4, <3>2, <1>1, <1>3 DEF ContributionsDivide
    <3>5. CASE d \notin TakenOver(c0) /\ d # c0
      BY <3>5, <3>2, <1>1, <1>2
    <3> QED BY <3>3, <3>4, <3>5
  <2> QED BY <2>1, <2>2
<1>11. ASSUME NEW c \in Clusters \ superseded', NEW d \in Clusters \ superseded', c # d
       PROVE  extracted'[c] \cap extracted'[d] = {}
  <2>1. CASE c = c0 BY <2>1, <1>1, <1>6, <1>11
  <2>2. CASE d = c0 BY <2>2, <1>1, <1>6, <1>11
  <2>3. CASE c # c0 /\ d # c0
    BY <2>3, <1>1, <1>2, <1>3, <1>11 DEF ContributionsDivide
  <2> QED BY <2>1, <2>2, <2>3
<1>12. \A c \in Clusters : UpperTargets(c)' = UpperTargets(c) BY <1>1 DEF UpperTargets
<1> QED BY <1>1, <1>7, <1>8, <1>9, <1>10, <1>11, <1>12 DEF ContributionsDivide

\* A cluster ends.
LEMMA ExportKeeps == ASSUME IInv, ExportOrExtract PROVE IInv'
BY ExportKeepsControl, ExportDivides DEF IInv

\* A level that has run is imported by all clusters above it.
LEMMA FinishLevelKeeps == ASSUME IInv, FinishLevel PROVE IInv'
<1> DEFINE done == {c \in Level(level) : state[c] = "stopped" /\ UpperTargets(c) # {}}
<1> USE DEF FinishLevel, slotVars
<1>1. /\ \A c \in Clusters : h.level[c] \in Nat
      /\ level \in Nat /\ toRun = {} /\ h' = h /\ pc = "run" /\ toRun' = toRun
      /\ state' = [c \in Clusters |-> IF c \in done THEN "imported" ELSE state[c]]
      /\ pending' = [d \in Clusters |-> pending[d] \cup {c \in done : d \in UpperTargets(c)}]
      /\ imported' = imported
  BY HierarchyParts DEF IInv, TypeOK
<1>2. \/ IsTop(level) /\ pc' = "done" /\ level' = level
      \/ pc' = "import" /\ level' = level + 1
  OBVIOUS
<1>3. TypeOK'
  <2>1. state' \in [Clusters -> {"running", "stopped", "imported"}]
    BY <1>1 DEF IInv, TypeOK
  <2>2. pending' \in [Clusters -> SUBSET Clusters]
    BY <1>1 DEF IInv, TypeOK, Level
  <2>3. pc' \in {"import", "done"} /\ level' \in Nat
    BY <1>1, <1>2
  <2> QED BY <2>1, <2>2, <2>3 DEF IInv, TypeOK
<1>4. \A c \in Clusters : /\ Ended(c)' <=> Ended(c)
                          /\ c \notin done => state'[c] = state[c]
                          /\ UpperTargets(c)' = UpperTargets(c)
  BY <1>1 DEF Ended, UpperTargets
<1>5. \A c \in Clusters : Ended(c) <=> h.level[c] =< level
  BY <1>1 DEF IInv, EndsByLevel
<1>6. EndsByLevel'
  <2>1. CASE IsTop(level) /\ pc' = "done" /\ level' = level
    <3>1. \A c \in Clusters : Ended(c)' /\ h.level[c] =< level
      BY <2>1, <1>4, <1>5 DEF IsTop
    <3>2. IsTop(level)' BY <2>1, <1>1 DEF IsTop
    <3> QED BY <2>1, <3>1, <3>2, <1>1 DEF EndsByLevel
  <2>2. CASE pc' = "import" /\ level' = level + 1
    <3>1. \A c \in Clusters : h.level[c] >= level + 1 => state'[c] # "imported"
      <4> SUFFICES ASSUME NEW c \in Clusters, h.level[c] >= level + 1
                   PROVE  state'[c] = "running"
        OBVIOUS
      <4>1. ~ Ended(c) BY <1>1, <1>5
      <4> QED BY <4>1, <1>4 DEF Ended
    <3>2. \A c \in Clusters : Ended(c)' <=> h.level[c] < level + 1
      BY <1>1, <1>4, <1>5
    <3> QED BY <2>2, <3>1, <3>2, <1>1 DEF EndsByLevel
  <2> QED BY <2>1, <2>2, <1>2
<1>7. ImportsByLevel'
  <2> SUFFICES ASSUME pc' = "import", level' = level + 1,
                      NEW c \in Clusters, h.level[c] >= level + 1
               PROVE  pending'[c] \cup imported[c] = {d \in Clusters : h.level[d] < level + 1}
    BY <1>1, <1>2 DEF ImportsByLevel
  <2>1. pending[c] \cup imported[c] = {d \in Clusters : h.level[d] < level}
    BY <1>1 DEF IInv, ImportsByLevel
  <2>2. \A d \in Level(level) : c \in UpperTargets(d) /\ d \in done
    <3> SUFFICES ASSUME NEW d \in Level(level)
                 PROVE  c \in UpperTargets(d) /\ state[d] = "stopped"
      OBVIOUS
    <3>1. d \in Clusters /\ h.level[d] = level BY DEF Level
    <3>2. c \in UpperTargets(d) BY <1>1, <3>1 DEF UpperTargets
    <3>3. state[d] # "running" BY <3>1, <1>1, <1>5 DEF Ended
    <3>4. state[d] # "imported" BY <3>1, <1>1 DEF IInv, EndsByLevel
    <3> QED BY <3>1, <3>2, <3>3, <3>4 DEF IInv, TypeOK
  <2>3. pending'[c] = pending[c] \cup Level(level)
    BY <1>1, <2>2
  <2>4. {d \in Clusters : h.level[d] < level + 1}
          = {d \in Clusters : h.level[d] < level} \cup Level(level)
    BY <1>1 DEF Level
  <2> QED BY <2>1, <2>3, <2>4
<1>8. TouchedOnTop' BY <1>2 DEF TouchedOnTop
<1>9. ~ PartialTouch => ContributionsDivide'
  BY <1>1, <1>4 DEF IInv, ContributionsDivide
<1> QED BY <1>3, <1>6, <1>7, <1>8, <1>9 DEF IInv

\* A step that changes nothing keeps it too.
LEMMA StutterKeeps == ASSUME IInv, UNCHANGED vars PROVE IInv'
<1> USE DEF vars, importVars, resultVars, slotVars
<1>1. TypeOK' BY DEF IInv, TypeOK
<1> QED BY <1>1, SlotStepKeeps

-----------------------------------------------------------------------------
(* The theorems.                                                           *)

\* Every step of the pipeline or of the pool keeps the invariant.
LEMMA NextKeeps == ASSUME IInv, [Next]_vars PROVE IInv'
BY StartShotKeeps, AcquireKeeps, InitializeKeeps, ImportKeeps, BeginLevelKeeps,
   AdvanceKeeps, ExportKeeps, FinishLevelKeeps, ThrowKeeps, RecycleKeeps, StutterKeeps
   DEF Next, PipelineStep

\* The inductive invariant holds in every reachable state, for any hierarchies.
THEOREM PipelineInvariance == Spec => []IInv
<1>1. Init => IInv BY InitEstablishes
<1>2. IInv /\ [Next]_vars => IInv' BY NextKeeps
<1> QED BY <1>1, <1>2, PTL DEF Spec

\* The tables of the pipeline have their types.
THEOREM PipelineTypes == Spec => []TypeOK
<1>1. IInv => TypeOK BY DEF IInv
<1> QED BY <1>1, PipelineInvariance, PTL

\* A cluster has been run only on top of all the clusters of lower levels.
THEOREM RunsOnTop == Spec => []InheritsEverythingBelow
<1>1. IInv => InheritsEverythingBelow
  <2> SUFFICES ASSUME IInv, pc = "export" PROVE imported[Current] = Below(Current)
    BY DEF InheritsEverythingBelow
  <2>1. Current \in toRun /\ Current \in Clusters
    <3>1. AtHand = toRun BY DEF AtHand
    <3>2. AtHand # {} BY <3>1 DEF IInv, EndsByLevel
    <3> QED BY <3>1, <3>2, CurrentIsAtHand DEF IInv
  <2>2. h.level[Current] = level /\ level \in Nat
    BY <2>1 DEF IInv, EndsByLevel, Level, TypeOK
  <2> QED BY <2>1, <2>2 DEF IInv, ImportsByLevel, Below
<1> QED BY <1>1, PipelineInvariance, PTL

\* When inherited states are touched whole or not at all, and by one cluster of
\* a level at most, the result of a shot counts each active detector once.
THEOREM CountsEachOnce == ~ PartialTouch => (Spec => []AggregatedExactlyOnce)
<1> SUFFICES ASSUME ~ PartialTouch PROVE Spec => []AggregatedExactlyOnce
  OBVIOUS
<1>1. IInv => AggregatedExactlyOnce
  <2> SUFFICES ASSUME IInv, pc = "done", NEW x \in AllOwn
               PROVE  \E c \in Clusters : CountedBy(x) = {c}
    BY DEF AggregatedExactlyOnce
  <2>1. PICK d \in Clusters : x \in h.own[d] BY DEF AllOwn
  <2>2. Ended(d)
    <3>1. h.level[d] \in Nat /\ level \in Nat BY HierarchyParts DEF IInv, TypeOK
    <3> QED BY <3>1 DEF IInv, EndsByLevel, IsTop
  <2>3. ContributionsDivide /\ pc # "idle" BY DEF IInv
  <2>4. PICK c \in Clusters \ superseded : x \in extracted[c]
    BY <2>1, <2>2, <2>3 DEF ContributionsDivide
  <2>5. \A e \in Clusters \ superseded : x \in extracted[e] => e = c
    BY <2>3, <2>4 DEF ContributionsDivide
  <2> QED BY <2>4, <2>5 DEF CountedBy
<1> QED BY <1>1, PipelineInvariance, PTL
=============================================================================
