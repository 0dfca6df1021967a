----------------------- MODULE ClusterHierarchy_proofs ------------------------
(***************************************************************************)
(* Proofs about ClusterHierarchy, for any graphs, schedules, modes and     *)
(* syndromes: no detector is lost or counted twice while the hierarchy is  *)
(* built; every path of the clusterer finds the components that the rule   *)
(* of its level asks for, and unites them in the order of their distance;  *)
(* what is accepted is far from everything else.                           *)
(***************************************************************************)
EXTENDS ClusterHierarchy, ClusterGeometry_proofs

-----------------------------------------------------------------------------
(* Components whose members are disjoint.                                  *)

\* The components in cs are disjoint parts of S.
Parts(cs, S) ==
  /\ \A c \in cs : c.members \subseteq S
  /\ \A c, d \in cs : c # d => c.members \cap d.members = {}

Covers(cs, S) == \A a \in S : \E c \in cs : a \in c.members

\* One component for each set of a division.
Represents(cs, division) ==
  /\ \A c \in cs : c.members \in division
  /\ \A A \in division : \E c \in cs : c.members = A
  /\ \A c, d \in cs : c.members = d.members => c = d

\* The components that represent a division are disjoint and complete.
LEMMA DivisionParts ==
    ASSUME NEW S, NEW division, Divides(division, S), NEW cs, Represents(cs, division)
    PROVE  Parts(cs, S) /\ Covers(cs, S)
BY DEF Divides, Represents, Parts, Covers

\* The components of Divide, of the beginning of a growth and of the reference table.
LEMMA DivideRepresents ==
    ASSUME NEW division
    PROVE  Represents(Divide(division), division)
<1> DEFINE Made(A) == Component(A, 0, Diameter(cache.dist, A))
<1>1. \A A \in division : Made(A).members = A
  BY DEF Component
<1>2. Divide(division) = {Made(A) : A \in division}
  BY DEF Divide
<1> HIDE DEF Made
<1> QED BY <1>1, <1>2 DEF Represents

\* run begins with one component per active detector.
LEMMA SingletonsRepresent == Represents(Singletons, {{a} : a \in residual})
<1> DEFINE Made(a) == Component({a}, 0, 0)
<1>1. \A a \in residual : Made(a).members = {a}
  BY DEF Component
<1>2. Singletons = {Made(a) : a \in residual}
  BY DEF Singletons
<1>3. \A a, b \in residual : {a} = {b} => a = b
  OBVIOUS
<1> HIDE DEF Made
<1>4. \A c, d \in Singletons : c.members = d.members => c = d
  <2> SUFFICES ASSUME NEW a \in residual, NEW b \in residual, Made(a).members = Made(b).members
               PROVE  Made(a) = Made(b)
    BY <1>2
  <2> QED BY <1>1, <1>3
<1>5. \A c \in Singletons : c.members \in {{a} : a \in residual}
  BY <1>1, <1>2
<1>6. \A A \in {{a} : a \in residual} : \E c \in Singletons : c.members = A
  BY <1>1, <1>2
<1> QED BY <1>4, <1>5, <1>6 DEF Represents

\* The components of the reference table represent the threshold components.
LEMMA TableRepresents ==
    ASSUME NEW division
    PROVE  Represents({Component(A, Bottleneck(cache.dist, A) \div 2, Diameter(cache.dist, A)) :
                         A \in division}, division)
<1> DEFINE Made(A) == Component(A, Bottleneck(cache.dist, A) \div 2, Diameter(cache.dist, A))
<1>1. \A A \in division : Made(A).members = A
  BY DEF Component
<1> HIDE DEF Made
<1>2. Represents({Made(A) : A \in division}, division)
  BY <1>1 DEF Represents
<1> QED BY <1>2 DEF Made

\* Uniting two components keeps the parts disjoint and covers the same.
LEMMA UniteParts ==
    ASSUME NEW S, Parts(comps, S), NEW c \in comps, NEW d \in comps,
           NEW distance, NEW width
    PROVE  /\ Parts(Unite(c, d, distance, width), S)
           /\ Covers(comps, S) => Covers(Unite(c, d, distance, width), S)
<1> DEFINE new == Component(c.members \cup d.members,
                            Max({c.ready, d.ready, distance \div 2}),
                            Max({c.width, d.width, width}))
<1>1. new.members = c.members \cup d.members
  BY DEF Component
<1>2. Unite(c, d, distance, width) = (comps \ {c, d}) \cup {new}
  BY DEF Unite
<1> HIDE DEF new
<1>3. Parts((comps \ {c, d}) \cup {new}, S)
  BY <1>1 DEF Parts
<1>4. Covers(comps, S) => Covers((comps \ {c, d}) \cup {new}, S)
  BY <1>1 DEF Covers
<1> QED BY <1>2, <1>3, <1>4

\* Changing the metadata of components keeps the parts.
LEMMA RenotedParts ==
    ASSUME NEW S, Parts(comps, S), NEW cs,
           \A e \in cs : \E c \in comps : e.members = c.members,
           \A c \in comps : \E e \in cs : e.members = c.members,
           \A e, f \in cs : e # f =>
             \E c, d \in comps : c # d /\ e.members = c.members /\ f.members = d.members
    PROVE  Parts(cs, S) /\ (Covers(comps, S) => Covers(cs, S))
<1>1. \A e \in cs : e.members \subseteq S
  BY DEF Parts
<1>2. ASSUME NEW e \in cs, NEW f \in cs, e # f PROVE e.members \cap f.members = {}
  <2>1. PICK c \in comps, d \in comps :
          c # d /\ e.members = c.members /\ f.members = d.members
    BY <1>2
  <2> QED BY <2>1 DEF Parts
<1>3. Covers(comps, S) => Covers(cs, S)
  BY DEF Covers
<1> QED BY <1>1, <1>2, <1>3 DEF Parts

-----------------------------------------------------------------------------
(* The inductive invariant.                                                *)

\* The clusters accepted so far and the residual divide the syndrome.
Divided ==
  /\ residual \subseteq syndrome
  /\ \A c \in hierarchy : c.members \subseteq syndrome /\ c.members \cap residual = {}
  /\ \A a \in syndrome : a \in residual \/ \E c \in hierarchy : a \in c.members
  /\ \A c, d \in hierarchy : c # d => c.members \cap d.members = {}

\* The components divide the residual from the moment they are complete.
Components ==
  /\ Parts(comps, residual)
  /\ phase \in {"grow", "pairs", "close"} => Covers(comps, residual)
  /\ phase \in {"start", "level", "done"} => comps = {}

\* Collisions, and what leads to them, are about active detectors: unite finds their components.
Ends == \A e \in collisions : e[2] \in residual /\ e[3] \in residual

Grown ==
  /\ phase = "grow" => Ends /\ owner \in [Nodes -> residual \cup {Nobody}]
                      /\ \A e \in frontier : e[3] \in residual
  /\ phase = "pairs" => Ends

\* There is one root for the rest, at the end.
Ended ==
  /\ phase = "start" => hierarchy = {}
  /\ phase # "done" => terminal = NoRoot
  /\ phase = "done" => IF terminal = NoRoot THEN residual = {} ELSE terminal.members = residual

IInv ==
  /\ syndrome \subseteq Nodes
  /\ Divided
  /\ Components
  /\ Grown
  /\ Ended

\* Before the builder begins, everything is in the residual.
LEMMA InitIInv == Init => IInv
BY DEF Init, IInv, Divided, Components, Parts, Grown, Ended

\* The invariant implies the property that the runs check.
LEMMA IInvConserves == IInv => Conserved
<1> SUFFICES ASSUME IInv PROVE Conserved
  OBVIOUS
<1>1. residual \cup UNION {c.members : c \in hierarchy} = syndrome
  BY DEF IInv, Divided
<1>2. /\ \A c \in hierarchy : c.members \cap residual = {}
      /\ \A c, d \in hierarchy : c # d => c.members \cap d.members = {}
  BY DEF IInv, Divided
<1>3. /\ \A c, d \in comps : c # d => c.members \cap d.members = {}
      /\ UNION {c.members : c \in comps} \subseteq residual
  BY DEF IInv, Components, Parts
<1>4. phase \in {"grow", "pairs", "close"} => residual \subseteq UNION {c.members : c \in comps}
  BY DEF IInv, Components, Covers
<1>5. phase = "done" => IF terminal = NoRoot THEN residual = {} ELSE terminal.members = residual
  BY DEF IInv, Ended
<1> QED BY <1>1, <1>2, <1>3, <1>4, <1>5 DEF Conserved

-----------------------------------------------------------------------------
(* Every step keeps the invariant.                                         *)

\* A step of a level changes neither the clusters nor the residual.
LEMMA WithinLevel ==
    ASSUME IInv, UNCHANGED <<given, built>>, phase \notin {"start", "done"},
           phase' \notin {"start", "done"}
    PROVE  (syndrome \subseteq Nodes)' /\ Divided' /\ Ended'
BY DEF IInv, Divided, Ended, given, built

\* What a path finds at once divides the residual.
LEMMA FoundAtOnce ==
    ASSUME IInv, UNCHANGED <<given, built>>, phase = "level", phase' = "close",
           NEW division, Divides(division, residual), Represents(comps', division)
    PROVE  IInv'
<1>1. (syndrome \subseteq Nodes)' /\ Divided' /\ Ended'
  BY WithinLevel
<1>2. residual' = residual
  BY DEF built
<1>3. Components'
  BY <1>2, DivisionParts DEF Components, Parts, Covers
<1>4. Grown'
  BY DEF Grown
<1> QED BY <1>1, <1>3, <1>4 DEF IInv

\* The direct roots take the whole residual, group by group.
LEMMA DirectRootsKeeps == IInv /\ DirectRoots => IInv'
<1> SUFFICES ASSUME IInv, DirectRoots PROVE IInv'
  OBVIOUS
<1> DEFINE groups == IF setting.schedule[MaxLevel].certified
                     THEN InteriorComponents(cache.id, residual) ELSE {residual}
           Root(S) == [level |-> MaxLevel, members |-> S]
<1>1. Divides(groups, residual)
  BY InteriorDivides, SimplyDivides
<1>2. /\ hierarchy' = {Root(S) : S \in groups}
      /\ residual' = {} /\ phase = "start" /\ phase' = "done"
      /\ UNCHANGED <<syndrome, terminal, comps>>
  BY DEF DirectRoots, given
<1>3. \A S : Root(S).members = S
  OBVIOUS
<1> HIDE DEF groups, Root
<1>4. hierarchy = {} /\ residual = syndrome /\ terminal = NoRoot /\ comps = {}
  BY <1>2 DEF IInv, Divided, Ended, Components
<1>5. Divided'
  BY <1>1, <1>2, <1>3, <1>4 DEF Divided, Divides
<1>6. Components'
  BY <1>2, <1>4 DEF Components, Parts
<1>7. Grown'
  BY <1>2 DEF Grown
<1>8. Ended'
  BY <1>2, <1>4 DEF Ended, NoRoot
<1> QED BY <1>2, <1>5, <1>6, <1>7, <1>8 DEF IInv

\* To begin with the levels changes nothing.
LEMMA StartKeeps == IInv /\ Start => IInv'
BY DEF IInv, Start, Divided, Components, Parts, Grown, Ended, given, built

\* A forced level divides the residual by components of the graph or not at all.
LEMMA RunForcedKeeps == IInv /\ RunForced => IInv'
<1> SUFFICES ASSUME IInv, RunForced PROVE IInv'
  OBVIOUS
<1>1. Divides(WholeOrInterior, residual)
  BY InteriorDivides, SimplyDivides DEF WholeOrInterior
<1>2. Represents(comps', WholeOrInterior)
  BY DivideRepresents DEF RunForced
<1> QED BY <1>1, <1>2, FoundAtOnce DEF RunForced, Running

\* The singleton path divides the residual into its detectors.
LEMMA RunSingletonsKeeps == IInv /\ RunSingletons => IInv'
<1> SUFFICES ASSUME IInv, RunSingletons PROVE IInv'
  OBVIOUS
<1>1. Divides({{a} : a \in residual}, residual)
  BY SimplyDivides
<1>2. Represents(comps', {{a} : a \in residual})
  BY DivideRepresents DEF RunSingletons
<1> QED BY <1>1, <1>2, FoundAtOnce DEF RunSingletons, Running

\* The reference table divides the residual into threshold components.
LEMMA RunTableKeeps == IInv /\ RunTable => IInv'
<1> SUFFICES ASSUME IInv, RunTable PROVE IInv'
  OBVIOUS
<1> DEFINE division == ThresholdComponents(cache.dist, residual, Bounds.buffer)
<1>1. Divides(division, residual)
  BY ThresholdDivides, GeometryAssumption DEF IInv, Divided
<1>2. Represents(comps', division)
  BY TableRepresents DEF RunTable
<1> QED BY <1>1, <1>2, FoundAtOnce DEF RunTable, Running

\* A look-up begins with no component.
LEMMA BeginLookupKeeps == IInv /\ BeginLookup => IInv'
<1> SUFFICES ASSUME IInv, BeginLookup PROVE IInv'
  OBVIOUS
<1>1. /\ phase = "level" /\ phase' = "lookup" /\ comps' = {}
      /\ UNCHANGED <<given, built>>
  BY DEF BeginLookup, Running
<1>2. (syndrome \subseteq Nodes)' /\ Divided' /\ Ended'
  BY <1>1, WithinLevel
<1>3. Components' /\ Grown'
  BY <1>1 DEF Components, Parts, Grown
<1> QED BY <1>2, <1>3 DEF IInv

\* A component is collected from detectors that no other component has.
LEMMA LookupComponentKeeps == IInv /\ LookupComponent => IInv'
<1> SUFFICES ASSUME IInv, LookupComponent PROVE IInv'
  OBVIOUS
<1>1. PICK a \in Unvisited : comps' = comps \cup Divide({Collected(a)})
  BY DEF LookupComponent
<1>2. phase = "lookup" /\ UNCHANGED <<given, built, phase>>
  BY DEF LookupComponent
<1>3. (syndrome \subseteq Nodes)' /\ Divided' /\ Ended'
  BY <1>2, WithinLevel
<1>4. Collected(a) \subseteq Unvisited
  BY DEF Collected, ReachFrom
<1>5. Unvisited \subseteq residual /\ \A c \in comps : c.members \cap Unvisited = {}
  BY DEF Unvisited
<1> DEFINE new == Component(Collected(a), 0, Diameter(cache.dist, Collected(a)))
<1>6. Divide({Collected(a)}) = {new} /\ new.members = Collected(a)
  BY DEF Divide, Component
<1>7. residual' = residual
  BY <1>2 DEF built
<1>8. Parts(comps, residual)
  BY DEF IInv, Components
<1> HIDE DEF new
<1>9. Parts(comps', residual)
  <2>1. comps' = comps \cup {new}
    BY <1>1, <1>6
  <2>2. new.members \subseteq residual /\ \A c \in comps : c.members \cap new.members = {}
    BY <1>4, <1>5, <1>6
  <2> QED BY <1>8, <2>1, <2>2 DEF Parts
<1>10. Components'
  BY <1>2, <1>7, <1>9 DEF Components, Parts
<1>11. Grown'
  BY <1>2 DEF Grown
<1> QED BY <1>3, <1>10, <1>11 DEF IInv

\* The look-up ends when every detector was visited.
LEMMA EndLookupKeeps == IInv /\ EndLookup => IInv'
<1> SUFFICES ASSUME IInv, EndLookup PROVE IInv'
  OBVIOUS
<1>1. /\ phase = "lookup" /\ phase' = "close" /\ Unvisited = {}
      /\ UNCHANGED <<given, built, comps>>
  BY DEF EndLookup
<1>2. (syndrome \subseteq Nodes)' /\ Divided' /\ Ended'
  BY <1>1, WithinLevel
<1>3. Covers(comps, residual)
  BY <1>1 DEF Unvisited, Covers
<1>4. Components'
  BY <1>1, <1>3 DEF IInv, Components, Parts, Covers, built
<1>5. Grown'
  BY <1>1 DEF Grown
<1> QED BY <1>2, <1>4, <1>5 DEF IInv

\* The singletons are disjoint and complete.
LEMMA SingletonsCover == Parts(Singletons, residual) /\ Covers(Singletons, residual)
<1>1. Divides({{a} : a \in residual}, residual)
  BY SimplyDivides
<1> QED BY <1>1, SingletonsRepresent, DivisionParts

\* The frontier begins at the active detectors.
LEMMA BeginGrowthKeeps == IInv /\ BeginGrowth => IInv'
<1> SUFFICES ASSUME IInv, BeginGrowth PROVE IInv'
  OBVIOUS
<1>1. /\ phase = "level" /\ phase' = "grow" /\ comps' = Singletons
      /\ UNCHANGED <<given, built>>
  BY DEF BeginGrowth, Running
<1>2. (syndrome \subseteq Nodes)' /\ Divided' /\ Ended'
  BY <1>1, WithinLevel
<1>3. residual' = residual
  BY <1>1 DEF built
<1>4. Components'
  BY <1>1, <1>3, SingletonsCover DEF Components, Parts, Covers
<1>5. Grown'
  <2>1. collisions' = {} /\ frontier' = {<<0, a, a>> : a \in residual}
    BY DEF BeginGrowth
  <2>2. owner' = [v \in Nodes |-> IF v \in residual THEN v ELSE Nobody]
    BY DEF BeginGrowth
  <2> QED BY <1>1, <1>3, <2>1, <2>2 DEF Grown, Ends
<1> QED BY <1>2, <1>4, <1>5 DEF IInv

\* The events are pairs of active detectors.
LEMMA BeginPairsKeeps == IInv /\ BeginPairs => IInv'
<1> SUFFICES ASSUME IInv, BeginPairs PROVE IInv'
  OBVIOUS
<1>1. /\ phase = "level" /\ phase' = "pairs" /\ comps' = Singletons
      /\ UNCHANGED <<given, built>>
  BY DEF BeginPairs, Running
<1>2. (syndrome \subseteq Nodes)' /\ Divided' /\ Ended'
  BY <1>1, WithinLevel
<1>3. residual' = residual
  BY <1>1 DEF built
<1>4. Components'
  BY <1>1, <1>3, SingletonsCover DEF Components, Parts, Covers
<1>5. \A e \in collisions' : e[2] \in residual /\ e[3] \in residual
  BY DEF BeginPairs
<1>6. Grown'
  BY <1>1, <1>3, <1>5 DEF Grown, Ends
<1> QED BY <1>2, <1>4, <1>6 DEF IInv

\* find finds the one component of an active detector.
LEMMA FindsComponent ==
    ASSUME NEW S, Covers(comps, S), NEW a \in S
    PROVE  ComponentOf(a) \in comps
BY DEF Covers, ComponentOf

\* What one collision does to the components, whichever loop takes it.
LEMMA TakenParts ==
    ASSUME IInv, Covers(comps, residual), NEW e \in collisions, Ends,
           comps' = comps
           \/ comps' = Unite(ComponentOf(e[2]), ComponentOf(e[3]), e[1], e[1])
    PROVE  Parts(comps', residual) /\ Covers(comps', residual)
<1>1. ComponentOf(e[2]) \in comps /\ ComponentOf(e[3]) \in comps
  BY FindsComponent DEF Ends
<1>2. Parts(comps, residual)
  BY DEF IInv, Components
<1> QED BY <1>1, <1>2, UniteParts

\* A collision unites two components or nothing.
LEMMA TakeCollisionKeeps == IInv /\ TakeCollision => IInv'
<1> SUFFICES ASSUME IInv, TakeCollision PROVE IInv'
  OBVIOUS
<1>1. /\ phase = "grow" /\ UNCHANGED <<given, built, phase>>
      /\ UNCHANGED <<owner, frontier>>
  BY DEF TakeCollision
<1>2. PICK e \in collisions :
        /\ collisions' = collisions \ {e}
        /\ comps' = IF ComponentOf(e[2]) = ComponentOf(e[3]) THEN comps
                    ELSE Unite(ComponentOf(e[2]), ComponentOf(e[3]), e[1], e[1])
  BY DEF TakeCollision
<1>3. (syndrome \subseteq Nodes)' /\ Divided' /\ Ended'
  BY <1>1, WithinLevel
<1>4. residual' = residual
  BY <1>1 DEF built
<1>5. Covers(comps, residual) /\ Ends
  BY <1>1 DEF IInv, Components, Grown
<1>6. Parts(comps', residual) /\ Covers(comps', residual)
  BY <1>2, <1>5, TakenParts
<1>7. Components'
  BY <1>1, <1>4, <1>6 DEF Components, Parts, Covers
<1>8. Grown'
  BY <1>1, <1>2, <1>4 DEF IInv, Grown, Ends
<1> QED BY <1>3, <1>7, <1>8 DEF IInv

\* The last pair leaves the components as they are.
LEMMA EndPairsKeeps == IInv /\ EndPairs => IInv'
<1> SUFFICES ASSUME IInv, EndPairs PROVE IInv'
  OBVIOUS
<1>1. /\ phase = "pairs" /\ phase' = "close"
      /\ UNCHANGED <<given, built, comps>>
  BY DEF EndPairs
<1>2. (syndrome \subseteq Nodes)' /\ Divided' /\ Ended'
  BY <1>1, WithinLevel
<1>3. Components' /\ Grown'
  BY <1>1 DEF IInv, Components, Parts, Covers, Grown, built
<1> QED BY <1>2, <1>3 DEF IInv

\* The exact metadata does not move a detector.
LEMMA EndGrowthKeeps == IInv /\ EndGrowth => IInv'
<1> SUFFICES ASSUME IInv, EndGrowth PROVE IInv'
  OBVIOUS
<1> DEFINE Exact(c) == Component(c.members, c.ready, Diameter(cache.dist, c.members))
<1>1. /\ phase = "grow" /\ phase' = "close" /\ UNCHANGED <<given, built>>
      /\ comps' = {Exact(c) : c \in comps}
  BY DEF EndGrowth
<1>2. (syndrome \subseteq Nodes)' /\ Divided' /\ Ended'
  BY <1>1, WithinLevel
<1>3. residual' = residual
  BY <1>1 DEF built
<1>4. \A c : Exact(c).members = c.members
  BY DEF Component
<1> HIDE DEF Exact
<1>5. Parts(comps, residual) /\ Covers(comps, residual)
  BY <1>1 DEF IInv, Components
<1>6. Parts(comps', residual) /\ Covers(comps', residual)
  <2>1. /\ \A e \in comps' : \E c \in comps : e.members = c.members
        /\ \A c \in comps : \E e \in comps' : e.members = c.members
        /\ \A e, f \in comps' : e # f =>
             \E c, d \in comps : c # d /\ e.members = c.members /\ f.members = d.members
    BY <1>1, <1>4
  <2> QED BY <1>5, <2>1, RenotedParts
<1>7. Components' /\ Grown'
  BY <1>1, <1>3, <1>6 DEF Components, Parts, Covers, Grown
<1> QED BY <1>2, <1>7 DEF IInv

\* A pair inside a component changes what is noted of it, one between two within the buffer
\* unites them.
LEMMA TakePairKeeps == IInv /\ TakePair => IInv'
<1> SUFFICES ASSUME IInv, TakePair PROVE IInv'
  OBVIOUS
<1>1. phase = "pairs" /\ UNCHANGED <<given, built, phase>>
  BY DEF TakePair
<1> DEFINE Noted(c, e) == Component(c.members, c.ready, Max({c.width, e[1]}))
<1>2. PICK e \in collisions :
        /\ collisions' = collisions \ {e}
        /\ \/ comps' = (comps \ {ComponentOf(e[2])}) \cup {Noted(ComponentOf(e[2]), e)}
           \/ comps' = Unite(ComponentOf(e[2]), ComponentOf(e[3]), e[1], e[1])
           \/ comps' = comps
  BY DEF TakePair
<1>3. (syndrome \subseteq Nodes)' /\ Divided' /\ Ended'
  BY <1>1, WithinLevel
<1>4. residual' = residual
  BY <1>1 DEF built
<1>5. Parts(comps, residual) /\ Covers(comps, residual) /\ Ends
  BY <1>1 DEF IInv, Components, Grown
<1>6. Parts(comps', residual) /\ Covers(comps', residual)
  <2>1. CASE comps' = (comps \ {ComponentOf(e[2])}) \cup {Noted(ComponentOf(e[2]), e)}
    <3> DEFINE c == ComponentOf(e[2])
               n == Noted(c, e)
    <3>1. c \in comps
      BY <1>5, FindsComponent DEF Ends
    <3>2. n.members = c.members
      BY DEF Component
    <3>3. comps' = (comps \ {c}) \cup {n}
      BY <2>1
    <3> HIDE DEF c, n
    <3>4. Parts(comps', residual)
      BY <1>5, <3>1, <3>2, <3>3 DEF Parts
    <3>5. Covers(comps', residual)
      BY <1>5, <3>1, <3>2, <3>3 DEF Covers
    <3> QED BY <3>4, <3>5
  <2>2. CASE \/ comps' = Unite(ComponentOf(e[2]), ComponentOf(e[3]), e[1], e[1])
             \/ comps' = comps
    BY <1>5, <2>2, TakenParts
  <2> QED BY <1>2, <2>1, <2>2
<1>7. Components'
  BY <1>1, <1>4, <1>6 DEF Components, Parts, Covers
<1>8. Grown'
  BY <1>1, <1>2, <1>4 DEF IInv, Grown, Ends
<1> QED BY <1>3, <1>7, <1>8 DEF IInv

\* The least and the greatest of two numbers is one of them.
LEMMA OneOfTwo ==
    ASSUME NEW a \in Nat, NEW b \in Nat
    PROVE  Min({a, b}) \in {a, b} /\ Max({a, b}) \in {a, b}
<1>1. a <= b \/ b <= a
  OBVIOUS
<1>2. (\E x \in {a, b} : \A y \in {a, b} : x <= y) /\ (\E x \in {a, b} : \A y \in {a, b} : x >= y)
  BY <1>1
<1> QED BY <1>2 DEF Min, Max

\* Regions spread from active detectors only, and where two meet both sources are active.
LEMMA SpreadEnds ==
    ASSUME residual \subseteq Nat, Ends, owner \in [Nodes -> residual \cup {Nobody}],
           \A e \in frontier : e[3] \in residual,
           NEW d, NEW v, NEW source \in residual, Spread(d, v, source)
    PROVE  /\ \A e \in collisions' : e[2] \in residual /\ e[3] \in residual
           /\ owner' \in [Nodes -> residual \cup {Nobody}]
           /\ \A e \in frontier' : e[3] \in residual
<1> DEFINE met == {u \in Neighbors(v) : owner[u] \notin {Nobody, source}}
<1>1. \A u \in met : owner[u] \in residual
  BY DEF Neighbors
<1>2. ASSUME NEW u \in met
      PROVE  Witness(d, v, source, u)[2] \in residual /\ Witness(d, v, source, u)[3] \in residual
  <2>1. source \in Nat /\ owner[u] \in Nat
    BY <1>1
  <2>2. Min({source, owner[u]}) \in residual /\ Max({source, owner[u]}) \in residual
    BY <1>1, <2>1, OneOfTwo
  <2> QED BY <2>2 DEF Witness
<1>3. \A e \in collisions' : e[2] \in residual /\ e[3] \in residual
  <2>1. \A e \in collisions' : e \in collisions \/ \E u \in met : e = Witness(d, v, source, u)
    BY DEF Spread
  <2> QED BY <1>2, <2>1 DEF Ends
<1>4. owner' \in [Nodes -> residual \cup {Nobody}]
  BY DEF Spread
<1>5. \A e \in frontier' : e[3] \in residual
  <2> DEFINE Entry(u) == <<d + cache.edge[{u, v}], u, source>>
             taken == {u \in Neighbors(v) : Improves(d + cache.edge[{u, v}], source, u)}
  <2>1. frontier' = (frontier \ {<<d, v, source>>}) \cup {Entry(u) : u \in taken}
    BY DEF Spread
  <2>2. \A u : Entry(u)[3] = source
    OBVIOUS
  <2> HIDE DEF Entry, taken
  <2> QED BY <2>1, <2>2
<1> QED BY <1>3, <1>4, <1>5

\* The frontier moves regions and collisions, not components.
LEMMA TakeFrontierKeeps == IInv /\ TakeFrontier => IInv'
<1> SUFFICES ASSUME IInv, TakeFrontier PROVE IInv'
  OBVIOUS
<1>1. phase = "grow" /\ UNCHANGED <<given, built, phase, comps>>
  BY DEF TakeFrontier
<1>2. PICK e \in frontier :
        \/ frontier' = frontier \ {e} /\ UNCHANGED <<owner, collisions>>
        \/ Spread(e[1], e[2], e[3])
  BY DEF TakeFrontier
<1>3. (syndrome \subseteq Nodes)' /\ Divided' /\ Ended'
  BY <1>1, WithinLevel
<1>4. residual' = residual
  BY <1>1 DEF built
<1>5. Components'
  BY <1>1, <1>4 DEF IInv, Components, Parts, Covers
<1>6. /\ Ends /\ owner \in [Nodes -> residual \cup {Nobody}]
      /\ \A f \in frontier : f[3] \in residual
  BY <1>1 DEF IInv, Grown
<1>7. /\ \A f \in collisions' : f[2] \in residual /\ f[3] \in residual
      /\ owner' \in [Nodes -> residual \cup {Nobody}]
      /\ \A f \in frontier' : f[3] \in residual
  <2>1. CASE frontier' = frontier \ {e} /\ UNCHANGED <<owner, collisions>>
    BY <1>6, <2>1 DEF Ends
  <2>2. CASE Spread(e[1], e[2], e[3])
    <3>1. residual \subseteq Nat
      BY GeometryAssumption DEF IInv, Divided
    <3> QED BY <1>6, <2>2, <3>1, SpreadEnds
  <2> QED BY <1>2, <2>1, <2>2
<1>8. Grown'
  BY <1>1, <1>4, <1>7 DEF Grown, Ends, Nobody
<1> QED BY <1>3, <1>5, <1>8 DEF IInv

\* What is accepted leaves the residual and becomes clusters; the rest stays.
LEMMA CloseLevelKeeps == IInv /\ CloseLevel => IInv'
<1> SUFFICES ASSUME IInv, CloseLevel PROVE IInv'
  OBVIOUS
<1> DEFINE accepted == {c \in comps : Accepts(c)}
           Cluster(c) == [level |-> level, members |-> c.members]
<1>1. /\ phase = "close" /\ phase' = "level" /\ comps' = {}
      /\ UNCHANGED <<syndrome, terminal>>
      /\ hierarchy' = hierarchy \cup {Cluster(c) : c \in accepted}
      /\ residual' = UNION {c.members : c \in comps \ accepted}
  BY DEF CloseLevel, given
<1>2. accepted \subseteq comps
  OBVIOUS
<1>3. \A c : Cluster(c).members = c.members
  OBVIOUS
<1>4. \A c, d : c.members = d.members => Cluster(c) = Cluster(d)
  OBVIOUS
<1> HIDE DEF accepted, Cluster
<1>5. Parts(comps, residual) /\ Covers(comps, residual)
  BY <1>1 DEF IInv, Components
<1>6. \A a : a \in residual' <=> \E c \in comps \ accepted : a \in c.members
  BY <1>1
<1>7. residual' \subseteq residual
  BY <1>5, <1>6 DEF Parts
<1>8. Divided
  BY DEF IInv
<1>9. Divided'
  <2>1. residual' \subseteq syndrome'
    BY <1>1, <1>7, <1>8 DEF Divided
  <2>2. ASSUME NEW c \in hierarchy'
        PROVE  c.members \subseteq syndrome' /\ c.members \cap residual' = {}
    <3>1. CASE c \in hierarchy
      BY <1>1, <1>7, <1>8, <3>1 DEF Divided
    <3>2. CASE \E e \in accepted : c = Cluster(e)
      <4>1. PICK e \in accepted : c.members = e.members
        BY <1>3, <3>2
      <4>2. e.members \subseteq residual
        BY <1>2, <1>5 DEF Parts
      <4>3. \A f \in comps \ accepted : e.members \cap f.members = {}
        BY <1>2, <1>5 DEF Parts
      <4> QED BY <1>1, <1>6, <1>8, <4>1, <4>2, <4>3 DEF Divided
    <3> QED BY <1>1, <3>1, <3>2
  <2>3. ASSUME NEW a \in syndrome' PROVE a \in residual' \/ \E c \in hierarchy' : a \in c.members
    <3>1. CASE a \in residual
      <4>1. PICK e \in comps : a \in e.members
        BY <1>5, <3>1 DEF Covers
      <4> QED BY <1>1, <1>3, <1>6, <4>1
    <3>2. CASE a \notin residual
      BY <1>1, <1>8, <3>2 DEF Divided
    <3> QED BY <3>1, <3>2
  <2>4. ASSUME NEW c \in hierarchy', NEW d \in hierarchy', c # d
        PROVE  c.members \cap d.members = {}
    <3>1. \A x \in hierarchy' : x \in hierarchy \/ \E e \in accepted : x = Cluster(e)
      BY <1>1
    <3>2. \A x \in hierarchy, e \in accepted : x.members \cap Cluster(e).members = {}
      BY <1>2, <1>3, <1>5, <1>8 DEF Divided, Parts
    <3>3. \A e, f \in accepted : Cluster(e) # Cluster(f)
                                => Cluster(e).members \cap Cluster(f).members = {}
      BY <1>2, <1>3, <1>4, <1>5 DEF Parts
    <3>4. \A x, y \in hierarchy : x # y => x.members \cap y.members = {}
      BY <1>8 DEF Divided
    <3> QED BY <2>4, <3>1, <3>2, <3>3, <3>4
  <2> QED BY <2>1, <2>2, <2>3, <2>4 DEF Divided
<1>10. Components' /\ Grown'
  BY <1>1 DEF Components, Parts, Grown
<1>11. Ended'
  BY <1>1 DEF IInv, Ended, NoRoot
<1>12. (syndrome \subseteq Nodes)'
  BY <1>1 DEF IInv
<1> QED BY <1>9, <1>10, <1>11, <1>12 DEF IInv

\* The root takes exactly what is left; the empty root is not mistaken for none.
LEMMA FinishKeeps == IInv /\ Finish => IInv'
<1> SUFFICES ASSUME IInv, Finish PROVE IInv'
  OBVIOUS
<1>1. /\ phase = "level" /\ phase' = "done"
      /\ UNCHANGED <<syndrome, residual, hierarchy, comps>>
      /\ \/ \E l : terminal' = [level |-> l, members |-> residual]
         \/ residual = {} /\ terminal' = NoRoot
  BY DEF Finish, given
<1>2. Nobody \notin residual
  BY GeometryAssumption DEF IInv, Divided, Nobody
<1>3. IF terminal' = NoRoot THEN residual = {} ELSE terminal'.members = residual
  <2>1. CASE residual = {} /\ terminal' = NoRoot
    BY <2>1
  <2>2. ASSUME NEW l, terminal' = [level |-> l, members |-> residual]
        PROVE  terminal' # NoRoot /\ terminal'.members = residual
    <3>1. terminal'.members = residual /\ NoRoot.members = {Nobody}
      BY <2>2 DEF NoRoot
    <3> QED BY <1>2, <3>1
  <2> QED BY <1>1, <2>1, <2>2
<1>4. Divided' /\ Components'
  BY <1>1 DEF IInv, Divided, Components, Parts
<1>5. Grown' /\ Ended'
  BY <1>1, <1>3 DEF Grown, Ended, NoRoot
<1> QED BY <1>1, <1>4, <1>5 DEF IInv

\* A stutter changes nothing that the invariant is about.
LEMMA StutterKeeps == IInv /\ UNCHANGED vars => IInv'
BY DEF IInv, Divided, Components, Parts, Covers, Grown, Ends, Ended, vars

\* No step of the builder breaks the invariant.
LEMMA NextKeeps == IInv /\ [Next]_vars => IInv'
BY DirectRootsKeeps, StartKeeps, RunForcedKeeps, RunSingletonsKeeps, BeginLookupKeeps,
   LookupComponentKeeps, EndLookupKeeps, BeginGrowthKeeps, TakeCollisionKeeps,
   TakeFrontierKeeps, EndGrowthKeeps, RunTableKeeps, BeginPairsKeeps, TakePairKeeps,
   EndPairsKeeps, CloseLevelKeeps, FinishKeeps, StutterKeeps DEF Next

-----------------------------------------------------------------------------
\* The inductive invariant of the builder (lockstep_scheduler.cc) and of every path of the
\* clusterer (growing_only_clusterer.cc) always holds.
THEOREM HierarchyInvariance == Spec => []IInv
BY InitIInv, NextKeeps, PTL DEF Spec

\* Every active detector is in exactly one cluster or in what is left (collect_residual and
\* emit_accepted_cluster), for all graphs, schedules, modes and syndromes.
THEOREM ConservationHolds == Spec => []Conserved
BY HierarchyInvariance, IInvConserves, PTL

-----------------------------------------------------------------------------
(* The rule of a level.                                                    *)

Threshold(l) == ThresholdComponents(cache.dist, residual, setting.schedule[l].buffer)
Interior     == InteriorComponents(cache.id, residual)

ForcedAt(l) == setting.force /\ l = MaxLevel

\* LevelClustering counts and measures as this module does.
LEMMA RuleDivisions ==
    ASSUME NEW l
    PROVE  Rule!Divisions(l) =
             IF ~ForcedAt(l) THEN {Threshold(l)}
             ELSE IF ~setting.schedule[l].certified THEN {{residual}}
             ELSE {Threshold(l), Interior}
<1>1. Rule!ThresholdComponents(cache.dist, residual, setting.schedule[l].buffer) = Threshold(l)
  BY DEF Rule!ThresholdComponents, ThresholdComponents, Threshold, Rule!ReachFrom, ReachFrom,
         Rule!Links, Links, Rule!Apart, Apart
<1>2. Rule!InteriorComponents(cache.id, residual) = Interior
  BY DEF Rule!InteriorComponents, InteriorComponents, Interior
<1>3. Rule!Forced(l) <=> ForcedAt(l)
  BY DEF Rule!Forced, ForcedAt, Rule!MaxLevel, MaxLevel
<1> QED BY <1>1, <1>2, <1>3 DEF Rule!Divisions

LEMMA RuleMayStop ==
    ASSUME NEW l, NEW C
    PROVE  Rule!MayStop(l, C) <=>
             \/ ForcedAt(l)
             \/ /\ setting.schedule[l].cap = 0 \/ Cardinality(C) <= setting.schedule[l].cap
                /\ Diameter(cache.dist, C) <= setting.schedule[l].diameter
                /\ \/ Cardinality(C) % 2 = 0
                   \/ \A a \in C : cache.near[a] <= setting.schedule[l].diameter
<1>1. Rule!Diameter(cache.dist, C) = Diameter(cache.dist, C)
  BY DEF Rule!Diameter, Diameter, Rule!Max, Max
<1>2. Rule!Forced(l) <=> ForcedAt(l)
  BY DEF Rule!Forced, ForcedAt, Rule!MaxLevel, MaxLevel
<1>3. Rule!MayStop(l, C) <=>
        \/ Rule!Forced(l)
        \/ /\ setting.schedule[l].cap = 0 \/ Cardinality(C) <= setting.schedule[l].cap
           /\ Rule!Diameter(cache.dist, C) <= setting.schedule[l].diameter
           /\ \/ Cardinality(C) % 2 = 0
              \/ \A a \in C : cache.near[a] <= setting.schedule[l].diameter
  <2>1. Rule!Cardinality(C) = Cardinality(C) BY DEF Rule!Cardinality, Cardinality
  <2> QED BY Zenon, <2>1 DEF Rule!MayStop
<1> QED BY Zenon, <1>1, <1>2, <1>3

-----------------------------------------------------------------------------
(* The graph and the bounds that are given.                                *)

\* Caches are made from graphs, and no list of radius neighbours is left empty.
Valid ==
  /\ \E g \in Graphs : cache \in GraphCaches(g)
  /\ setting \in [schedule : Schedules, force : BOOLEAN, mode : AllModes]
  /\ \/ cache.allPairs
     \/ ~cache.radius
     \/ \A l \in 1 .. MaxLevel : ~CoversEach(setting.schedule[l].buffer)

\* The graph behind the cache.
LEMMA CacheGraph ==
    ASSUME Valid, Nodes # {}
    PROVE  \E g \in Graphs :
             /\ IsGraph(g) /\ Short(g)
             /\ cache.edge = g.edge /\ cache.dist = Distances(g)
             /\ \A a, b \in Nodes : cache.dist[<<a, b>>] = Shortest(g, a, b)
             /\ cache.near = NearestBoundary(g, cache.dist)
             /\ cache.id = ComponentIds(cache.dist)
             /\ IF cache.allPairs THEN cache.upper = Max(Finite(cache.dist))
                ELSE cache.upper \in LandmarkBounds(cache.dist) \cup {Inf}
<1>1. PICK g \in Graphs : cache \in GraphCaches(g) BY DEF Valid
<1>2. IsGraph(g) /\ Short(g) BY GeometryAssumption, LengthAssumption
<1>3. \A a, b \in Nodes : Distances(g)[<<a, b>>] = Shortest(g, a, b) BY <1>2, DistancesAreShortest
<1>4. /\ cache.edge = g.edge /\ cache.dist = Distances(g)
      /\ cache.near = NearestBoundary(g, cache.dist)
      /\ cache.id = ComponentIds(cache.dist)
      /\ IF cache.allPairs THEN cache.upper = Max(Finite(cache.dist))
         ELSE cache.upper \in LandmarkBounds(cache.dist) \cup {Inf}
  <2> DEFINE Cache(upper, allPairs, radius) ==
               [dist |-> Distances(g), near |-> NearestBoundary(g, Distances(g)),
                id |-> ComponentIds(Distances(g)), edge |-> g.edge, boundary |-> g.boundary,
                upper |-> upper, allPairs |-> allPairs, radius |-> radius]
  <2>1. \/ \E radius \in BOOLEAN : cache = Cache(Max(Finite(Distances(g))), TRUE, radius)
        \/ \E upper \in LandmarkBounds(Distances(g)) \cup {Inf}, radius \in BOOLEAN :
             cache = Cache(upper, FALSE, radius)
    BY <1>1 DEF GraphCaches
  <2> QED BY <2>1
<1> QED BY <1>2, <1>3, <1>4

\* What the cache says of distances.
LEMMA CacheIs ==
    ASSUME Valid, Nodes # {}
    PROVE  /\ Metric(cache.dist) /\ cache.id = ComponentIds(cache.dist)
           /\ cache.near \in [Nodes -> 0 .. Inf]
           /\ \A e \in DOMAIN cache.edge : cache.edge[e] \in Nat
           /\ IF cache.allPairs THEN cache.upper = Max(Finite(cache.dist))
              ELSE cache.upper \in LandmarkBounds(cache.dist) \cup {Inf}
<1>1. PICK g \in Graphs :
        /\ IsGraph(g) /\ Short(g)
        /\ cache.edge = g.edge /\ cache.dist = Distances(g)
        /\ cache.near = NearestBoundary(g, cache.dist)
        /\ cache.id = ComponentIds(cache.dist)
        /\ IF cache.allPairs THEN cache.upper = Max(Finite(cache.dist))
           ELSE cache.upper \in LandmarkBounds(cache.dist) \cup {Inf}
  BY CacheGraph
<1>2. Metric(cache.dist) BY <1>1, DistancesAreMetric
<1>3. \A e \in DOMAIN cache.edge : cache.edge[e] \in Nat BY <1>1 DEF IsGraph
<1>4. cache.near \in [Nodes -> 0 .. Inf]
  <2> DEFINE To(v) == {Inf} \cup {Plus(cache.dist[v, u], g.boundary[u]) : u \in DOMAIN g.boundary}
  <2>1. cache.near = [v \in Nodes |-> Min(To(v))] BY <1>1 DEF NearestBoundary
  <2>2. ASSUME NEW v \in Nodes PROVE Min(To(v)) \in 0 .. Inf
    <3>1. \A u \in DOMAIN g.boundary : Plus(cache.dist[<<v, u>>], g.boundary[u]) \in Nat
      <4> SUFFICES ASSUME NEW u \in DOMAIN g.boundary
                   PROVE  Plus(cache.dist[<<v, u>>], g.boundary[u]) \in Nat
        OBVIOUS
      <4>1. u \in Nodes /\ g.boundary[u] \in Nat BY <1>1 DEF IsGraph
      <4>2. cache.dist[<<v, u>>] \in 0 .. Inf BY <1>2, <4>1 DEF Metric, Tables
      <4>3. cache.dist[<<v, u>>] \in Nat BY <4>2
      <4> QED BY <4>1, <4>3, PlusIs, GeometryAssumption
    <3>2. To(v) \in SUBSET Nat /\ Inf \in To(v) BY <3>1, GeometryAssumption
    <3> HIDE DEF To
    <3>3. Min(To(v)) \in To(v) /\ \A y \in To(v) : Min(To(v)) <= y BY <3>2, LeastNatural
    <3> QED BY <3>2, <3>3
  <2> HIDE DEF To
  <2> QED BY <2>1, <2>2
<1> QED BY <1>1, <1>2, <1>3, <1>4

\* The bounds of the levels.
LEMMA BoundsAre ==
    ASSUME Valid
    PROVE  /\ MaxLevel \in Nat \ {0} /\ 0 < Inf /\ Inf \in Nat
           /\ \A l \in 1 .. MaxLevel :
                /\ setting.schedule[l].buffer \in Nat /\ setting.schedule[l].buffer < Inf
                /\ setting.schedule[l].diameter \in Nat /\ setting.schedule[l].diameter < Inf
                /\ setting.schedule[l].cap \in Nat
                /\ setting.schedule[l].certified \in BOOLEAN
           /\ \A k, l \in 1 .. MaxLevel :
                k <= l => setting.schedule[k].buffer <= setting.schedule[l].buffer
<1>1. PICK s \in Schedules : s = setting.schedule BY DEF Valid
<1>2. s \in Seq([diameter : Nat, buffer : Nat, cap : Nat, certified : BOOLEAN]) /\ s # <<>>
  BY ScheduleAssumption
<1>3. MaxLevel = Len(s) /\ Len(s) \in Nat \ {0} BY <1>1, <1>2 DEF MaxLevel
<1>4. \A l \in 1 .. MaxLevel :
        s[l] \in [diameter : Nat, buffer : Nat, cap : Nat, certified : BOOLEAN]
  <2>1. PICK R : R = [diameter : Nat, buffer : Nat, cap : Nat, certified : BOOLEAN] OBVIOUS
  <2>2. s \in Seq(R) BY <1>2, <2>1
  <2>3. \A l \in 1 .. Len(s) : s[l] \in R BY <2>2
  <2> QED BY <1>3, <2>1, <2>3
<1>5. /\ \A l \in 1 .. MaxLevel : s[l].diameter < Inf /\ s[l].buffer < Inf
      /\ \A k, l \in 1 .. MaxLevel : k <= l => s[k].buffer <= s[l].buffer
  BY <1>3, ScheduleAssumption
<1>6. \A l \in 1 .. MaxLevel : s[l].buffer \in Nat /\ s[l].diameter \in Nat /\ s[l].cap \in Nat
                                 /\ s[l].certified \in BOOLEAN
  BY <1>4
<1>7. 0 < Inf /\ Inf \in Nat
  <2>1. 1 \in 1 .. MaxLevel BY <1>3
  <2>2. PICK b \in Nat : b = s[1].buffer /\ b < Inf BY <1>5, <1>6, <2>1
  <2> QED BY <2>2, GeometryAssumption
<1> QED BY <1>1, <1>3, <1>5, <1>6, <1>7

\* Distances between detectors.
LEMMA DistancesAre ==
    ASSUME Valid, NEW a \in Nodes, NEW b \in Nodes
    PROVE  /\ cache.dist[<<a, b>>] \in 0 .. Inf /\ cache.dist[<<a, b>>] \in Nat
           /\ cache.dist[<<a, a>>] = 0
           /\ cache.dist[<<a, b>>] = cache.dist[<<b, a>>]
           /\ \A c \in Nodes : cache.dist[<<a, c>>] <= cache.dist[<<a, b>>] + cache.dist[<<b, c>>]
<1>1. Metric(cache.dist) BY CacheIs
<1>2. cache.dist[<<a, b>>] \in 0 .. Inf BY <1>1 DEF Metric, Tables
<1>3. cache.dist[<<a, b>>] \in Nat BY <1>2
<1> QED BY <1>1, <1>2, <1>3 DEF Metric

\* What is linked on a level.
LEMMA LinkedIs ==
    ASSUME Valid, residual \subseteq Nodes, NEW buffer
    PROVE  \A a, b \in residual :
             <<a, b>> \in Links(cache.dist, residual, buffer) <=> cache.dist[<<a, b>>] <= buffer
<1>1. residual \in SUBSET Nat BY GeometryAssumption
<1>2. \A a, b \in residual : cache.dist[<<a, b>>] = cache.dist[<<b, a>>] BY DistancesAre
<1> QED BY <1>1, <1>2, LinksAre

\* A buffer that covers all distances.
LEMMA CoversAllIs ==
    ASSUME Valid, NEW buffer \in Nat, CoversAll(buffer), NEW a \in Nodes, NEW b \in Nodes
    PROVE  cache.dist[<<a, b>>] <= buffer
<1>1. cache.dist \in Tables BY CacheIs DEF Metric
<1>2. PICK dist \in Tables : dist = cache.dist BY <1>1
<1>3. dist[<<a, b>>] \in Range(dist) BY <1>2 DEF Tables, Range
<1>4. Finite(dist) \in SUBSET (0 .. Inf)
  <2>1. \A p \in Nodes \X Nodes : dist[p] \in 0 .. Inf BY <1>2 DEF Tables
  <2>2. Range(dist) = {dist[p] : p \in Nodes \X Nodes} BY <1>2 DEF Tables, Range
  <2>3. Range(dist) \in SUBSET (0 .. Inf) BY <2>1, <2>2
  <2> QED BY <2>3 DEF Finite
<1>5. dist[<<a, b>>] \in Finite(dist) BY <1>2, <1>3 DEF CoversAll
<1>6. Max(Finite(dist)) \in Nat /\ dist[<<a, b>>] <= Max(Finite(dist))
  BY <1>4, <1>5, GreatestNatural, GeometryAssumption
<1>7. dist[<<a, b>>] \in Nat BY <1>2, DistancesAre
<1> QED BY <1>2, <1>6, <1>7 DEF CoversAll

\* A buffer that covers the components of the graph.
LEMMA CoversEachIs ==
    ASSUME Valid, NEW buffer \in Nat, CoversEach(buffer), NEW a \in Nodes, NEW b \in Nodes,
           cache.dist[<<a, b>>] < Inf
    PROVE  cache.dist[<<a, b>>] <= buffer
<1>1. Metric(cache.dist) /\ 0 < Inf BY CacheIs, BoundsAre
<1>2. PICK dist \in Tables : dist = cache.dist BY <1>1 DEF Metric
<1>3. dist[<<a, b>>] \in Nat BY <1>2, DistancesAre
<1>4. CASE cache.allPairs
  <2>1. cache.upper = Max(Finite(dist)) BY <1>2, <1>4, CacheIs
  <2>2. \A p \in Nodes \X Nodes : dist[p] \in 0 .. Inf BY <1>2 DEF Tables
  <2>3. Range(dist) = {dist[p] : p \in Nodes \X Nodes} BY <1>2 DEF Tables, Range
  <2>4. Finite(dist) \in SUBSET (0 .. Inf) /\ dist[<<a, b>>] \in Finite(dist)
    BY <1>2, <2>2, <2>3 DEF Finite
  <2>5. Max(Finite(dist)) \in Nat /\ dist[<<a, b>>] <= Max(Finite(dist))
    BY <2>4, GreatestNatural, GeometryAssumption
  <2> QED BY <1>2, <1>3, <2>1, <2>5 DEF CoversEach
<1>5. CASE ~cache.allPairs
  <2>1. cache.upper \in LandmarkBounds(cache.dist)
    <3>1. cache.upper # Inf BY GeometryAssumption DEF CoversEach
    <3> QED BY <1>5, <3>1, CacheIs
  <2>2. cache.dist[<<a, b>>] <= cache.upper BY <1>1, <2>1, LandmarksBound
  <2>3. PICK u : u = cache.upper OBVIOUS
  <2>4. u \in Nat
    <3> SUFFICES ASSUME TRUE PROVE cache.upper \in Nat BY <2>3
    <3> QED BY <1>1, <2>1, LandmarksAre
  <2> QED BY <1>2, <1>3, <2>2, <2>3, <2>4 DEF CoversEach
<1> QED BY <1>4, <1>5

\* A buffer below every edge.
LEMMA MinEdgeIs ==
    ASSUME Valid, NEW buffer \in Nat, buffer < MinEdge, NEW a \in Nodes, NEW b \in Nodes, a # b
    PROVE  ~ (cache.dist[<<a, b>>] <= buffer)
<1>1. PICK g \in Graphs : /\ IsGraph(g) /\ cache.edge = g.edge
                          /\ cache.dist[<<a, b>>] = Shortest(g, a, b)
  BY CacheGraph
<1> DEFINE S == {Inf} \cup Range(cache.edge)
<1>2. \A e \in DOMAIN g.edge : g.edge[e] \in Nat /\ g.edge[e] \in S BY <1>1 DEF IsGraph, Range
<1>3. S \in SUBSET Nat BY <1>1, GeometryAssumption DEF IsGraph, Range
<1>4. MinEdge = Min(S) /\ Inf \in S BY DEF MinEdge
<1> HIDE DEF S
<1>5. MinEdge \in Nat /\ \A y \in S : MinEdge <= y BY <1>3, <1>4, LeastNatural
<1>6. MinEdge <= Shortest(g, a, b) BY <1>1, <1>2, <1>4, <1>5, FarApart
<1>7. cache.dist[<<a, b>>] \in Nat BY DistancesAre
<1> QED BY <1>1, <1>5, <1>6, <1>7

\* The lists of radius neighbours say who is within the buffer of the level.
LEMMA RadiusNearIs ==
    ASSUME Valid, level \in 1 .. MaxLevel, RadiusListed, NEW a \in Nodes, NEW b \in Nodes
    PROVE  RadiusNear(a, b) <=> cache.dist[<<a, b>>] <= Bounds.buffer
<1>1. /\ Bounds.buffer \in Nat /\ Bounds.buffer < Inf
      /\ \A l \in 1 .. level : /\ setting.schedule[l].buffer \in Nat
                               /\ setting.schedule[l].buffer <= Bounds.buffer
  BY BoundsAre DEF Bounds
<1>2. cache.dist[<<a, b>>] \in Nat /\ Inf \in Nat BY DistancesAre, BoundsAre
<1>3. CASE cache.allPairs
  <2>1. RadiusNear(a, b) <=> /\ cache.dist[<<a, b>>] < Inf
                             /\ \E l \in 1 .. level : cache.dist[<<a, b>>] <= setting.schedule[l].buffer
    BY <1>3 DEF RadiusNear
  <2>2. level \in 1 .. level OBVIOUS
  <2> QED BY <1>1, <1>2, <2>1, <2>2 DEF Bounds
<1>4. CASE ~cache.allPairs
  <2>1. ~CoversEach(Bounds.buffer) BY <1>4 DEF Valid, RadiusListed, Bounds
  <2> QED BY <1>4, <2>1 DEF RadiusNear
<1> QED BY <1>3, <1>4

-----------------------------------------------------------------------------
(* Types.                                                                  *)

\* What is noted of components is a number.
Noted == [members : SUBSET Nodes, ready : Nat, width : Nat]

\* The diameter of a set is the greatest distance in it.
LEMMA DiameterIs ==
    ASSUME Valid, NEW S \in SUBSET Nodes
    PROVE  /\ Diameter(cache.dist, S) \in Nat
           /\ \A a, b \in S : cache.dist[<<a, b>>] <= Diameter(cache.dist, S)
           /\ \/ Diameter(cache.dist, S) = 0
              \/ \E a, b \in S : Diameter(cache.dist, S) = cache.dist[<<a, b>>]
<1> DEFINE T == {0} \cup {cache.dist[p] : p \in S \X S}
<1>1. \A a, b \in S : cache.dist[<<a, b>>] \in 0 .. Inf
  BY DistancesAre
<1>3. \A a, b \in S : cache.dist[<<a, b>>] \in T
  OBVIOUS
<1>5. \A x \in T : x = 0 \/ \E a, b \in S : x = cache.dist[<<a, b>>]
  OBVIOUS
<1>4. Diameter(cache.dist, S) = Max(T)
  BY DEF Diameter
<1>0. 0 \in T
  OBVIOUS
<1> HIDE DEF T
<1>2. T \in SUBSET (0 .. Inf) /\ 0 \in T
  <2>1. 0 \in 0 .. Inf
    BY GeometryAssumption
  <2>2. \A x \in T : x \in 0 .. Inf
    BY <1>1, <1>5, <2>1
  <2> QED BY <1>0, <2>2
<1>8. Max(T) \in T /\ Max(T) \in Nat /\ \A y \in T : y <= Max(T)
  BY <1>2, GreatestNatural, GeometryAssumption
<1> QED BY <1>3, <1>4, <1>5, <1>8

\* Some bound connects a set that is not empty.
LEMMA BottleneckIs ==
    ASSUME Valid, NEW S \in SUBSET Nodes, S # {}
    PROVE  Bottleneck(cache.dist, S) \in Nat
<1> DEFINE T == {0} \cup {cache.dist[p] : p \in S \X S}
           B == {b \in T : ReachFrom(Min(S), S, Links(cache.dist, S, b)) = S}
<1>1. \A a, b \in S : cache.dist[<<a, b>>] \in 0 .. Inf /\ cache.dist[<<a, b>>] = cache.dist[<<b, a>>]
  BY DistancesAre
<1>3. \A a, b \in S : cache.dist[<<a, b>>] \in T
  OBVIOUS
<1>0. 0 \in T /\ \A x \in T : x = 0 \/ \E a, b \in S : x = cache.dist[<<a, b>>]
  OBVIOUS
<1>4. Bottleneck(cache.dist, S) = Min(B)
  BY DEF Bottleneck
<1> HIDE DEF T
<1>2. T \in SUBSET (0 .. Inf) /\ T # {}
  <2>1. 0 \in 0 .. Inf
    BY GeometryAssumption
  <2>2. \A x \in T : x \in 0 .. Inf
    BY <1>0, <1>1, <2>1
  <2> QED BY <1>0, <2>2
<1>5. PICK m \in T : m = Max(T) /\ \A y \in T : y <= m
  BY <1>2, GreatestNatural, GeometryAssumption
<1>6. S \in SUBSET Nat
  BY GeometryAssumption
<1>7. Min(S) \in S
  BY <1>6, LeastNatural
<1>8. \A a, b \in S : <<a, b>> \in Links(cache.dist, S, m)
  BY <1>1, <1>3, <1>5, <1>6, LinksAre
<1>9. ReachFrom(Min(S), S, Links(cache.dist, S, m)) = S
  <2> DEFINE R == Links(cache.dist, S, m)
  <2>1. Min(S) \in ReachFrom(Min(S), S, R) /\ ReachFrom(Min(S), S, R) \subseteq S
    BY <1>7 DEF ReachFrom
  <2> HIDE DEF R
  <2>2. \A b \in S : <<Min(S), b>> \in R
    BY <1>7, <1>8 DEF R
  <2>3. \A b \in S : b \in ReachFrom(Min(S), S, R)
    BY <2>1, <2>2, ReachNext
  <2>4. ReachFrom(Min(S), S, R) = S
    BY <2>1, <2>3
  <2> QED BY <2>4 DEF R
<1>10. m \in B
  BY <1>9
<1>13. B \in SUBSET Nat
  <2>1. T \in SUBSET Nat
    BY <1>2
  <2> QED BY <2>1
<1> HIDE DEF B
<1> QED BY <1>4, <1>10, <1>13, LeastNatural

\* The components that a path makes at once.
LEMMA DivideNoted ==
    ASSUME Valid, NEW division \in SUBSET (SUBSET Nodes)
    PROVE  Divide(division) \subseteq Noted
<1>1. \A S \in division : Diameter(cache.dist, S) \in Nat
  BY DiameterIs
<1> QED BY <1>1 DEF Divide, Component, Noted

\* United components.
LEMMA UniteNoted ==
    ASSUME comps \subseteq Noted, NEW c \in comps, NEW d \in comps, NEW x \in Nat, NEW y \in Nat
    PROVE  Unite(c, d, x, y) \subseteq Noted
<1>1. c \in Noted /\ d \in Noted
  OBVIOUS
<1>2. \A i, j, k \in Nat : Max({i, j, k}) \in Nat
  <2> SUFFICES ASSUME NEW i \in Nat, NEW j \in Nat, NEW k \in Nat PROVE Max({i, j, k}) \in Nat
    OBVIOUS
  <2>1. {i, j, k} \in SUBSET (0 .. i + j + k) /\ i + j + k \in Nat /\ {i, j, k} # {}
    OBVIOUS
  <2> QED BY <2>1, GreatestNatural
<1>3. x \div 2 \in Nat
  OBVIOUS
<1>4. /\ c.members \cup d.members \in SUBSET Nodes
      /\ Max({c.ready, d.ready, x \div 2}) \in Nat /\ Max({c.width, d.width, y}) \in Nat
  BY <1>1, <1>2, <1>3 DEF Noted
<1> QED BY <1>4 DEF Unite, Component, Noted

\* Where the builder is, and the levels of the clusters.
Levelled ==
  /\ level \in 1 .. MaxLevel + 1
  /\ phase = "start" => level = 1
  /\ phase \in {"lookup", "grow", "pairs", "close"} => level <= MaxLevel /\ residual # {}
  /\ \A c \in hierarchy : c.level \in 1 .. MaxLevel
  /\ hierarchy \subseteq Level

\* The types of what the frontier and the events of a level keep.
Growing ==
  /\ reach \in [Nodes -> 0 .. Inf]
  /\ owner \in [Nodes -> Nodes \cup {Nobody}]
  /\ frontier \subseteq (0 .. Inf) \X Nodes \X Nodes
  /\ collisions \subseteq {e \in (0 .. Inf) \X Nodes \X Nodes : e[2] < e[3]}

Typed ==
  /\ Valid
  /\ Levelled
  /\ Growing
  /\ comps \subseteq Noted
  /\ terminal \in Level \cup {NoRoot}
  /\ phase \in Phases

\* That is the type invariant of the runs.
LEMMA TypedIsTypeOK == IInv /\ Typed => TypeOK
BY DEF IInv, Divided, Typed, Levelled, Growing, Noted, TypeOK

LEMMA InitTyped == ~SparseLists /\ Init => Typed
<1> SUFFICES ASSUME ~SparseLists, Init PROVE Typed
  OBVIOUS
<1>1. Valid
  <2>1. setting \in [schedule : Schedules, force : Forcing, mode : Modes]
    BY DEF Init
  <2>2. \E g \in Graphs : cache \in GraphCaches(g)
    BY DEF Init
  <2>3. \/ cache.allPairs
        \/ ~cache.radius
        \/ \A l \in 1 .. MaxLevel : ~CoversEach(setting.schedule[l].buffer)
    BY DEF Init
  <2> QED BY <2>1, <2>2, <2>3, HierarchyAssumption DEF Valid
<1>2. Levelled
  <2>1. level = 1 /\ phase = "start" /\ hierarchy = {}
    BY DEF Init
  <2>2. MaxLevel \in Nat
    BY <1>1, BoundsAre
  <2>3. level \in 1 .. MaxLevel + 1
    BY <2>1, <2>2
  <2> QED BY <2>1, <2>3 DEF Levelled
<1>3. Growing
  BY GeometryAssumption DEF Init, Growing
<1> QED BY <1>1, <1>2, <1>3 DEF Init, Typed, Phases

\* What is given stays given.
LEMMA ValidStays == Valid /\ UNCHANGED given => Valid'
BY DEF Valid, given, MaxLevel, CoversEach

\* A step of a level that finds components changes neither the clusters nor the level.
LEMMA LevelStep ==
    ASSUME IInv, Typed, UNCHANGED <<given, built>>, phase \notin {"start", "done"},
           phase = "level" => Running,
           phase' \in {"lookup", "grow", "pairs", "close"}, Growing', (comps \subseteq Noted)'
    PROVE  Typed'
<1>1. Valid' /\ MaxLevel' = MaxLevel
  BY ValidStays DEF Typed, given, MaxLevel
<1>2. phase # "level" => phase \in {"lookup", "grow", "pairs", "close"}
  BY DEF Typed, Phases
<1>3. level <= MaxLevel /\ residual # {}
  BY <1>2 DEF Typed, Levelled, Running
<1>4. Levelled'
  BY <1>1, <1>3 DEF Typed, Levelled, built
<1>5. (terminal \in Level \cup {NoRoot})'
  BY DEF Typed, built, Level, NoRoot
<1> QED BY <1>1, <1>4, <1>5 DEF Typed, Phases

\* The frontier and the events stay as they are.
LEMMA GrowthStays == Growing /\ UNCHANGED growth => Growing'
BY DEF Growing, growth

\* A set of a division is a set of nodes.
LEMMA DividesNodes ==
    ASSUME IInv, NEW division, Divides(division, residual)
    PROVE  division \in SUBSET (SUBSET Nodes) /\ residual \subseteq Nodes
BY DEF IInv, Divided, Divides

\* What a path finds at once is noted with numbers.
LEMMA FoundTyped ==
    ASSUME IInv, Typed, Running, UNCHANGED <<given, built, growth>>, phase' \in {"lookup", "close"},
           NEW division, Divides(division, residual), comps' = Divide(division) \/ comps' = {}
    PROVE  Typed'
<1>1. Growing'
  BY GrowthStays DEF Typed
<1>2. (comps \subseteq Noted)'
  BY DividesNodes, DivideNoted DEF Typed, Noted
<1> QED BY <1>1, <1>2, LevelStep DEF Running

LEMMA RunForcedTyped == IInv /\ Typed /\ RunForced => Typed'
<1> SUFFICES ASSUME IInv, Typed, RunForced PROVE Typed'
  OBVIOUS
<1>1. Divides(WholeOrInterior, residual)
  BY InteriorDivides, SimplyDivides DEF WholeOrInterior
<1> QED BY <1>1, FoundTyped DEF RunForced, Running

LEMMA RunSingletonsTyped == IInv /\ Typed /\ RunSingletons => Typed'
<1> SUFFICES ASSUME IInv, Typed, RunSingletons PROVE Typed'
  OBVIOUS
<1>1. Divides({{a} : a \in residual}, residual)
  BY SimplyDivides
<1> QED BY <1>1, FoundTyped DEF RunSingletons, Running

LEMMA BeginLookupTyped == IInv /\ Typed /\ BeginLookup => Typed'
<1> SUFFICES ASSUME IInv, Typed, BeginLookup PROVE Typed'
  OBVIOUS
<1>1. Divides({residual}, residual)
  BY SimplyDivides
<1> QED BY <1>1, FoundTyped DEF BeginLookup, Running

LEMMA RunTableTyped == IInv /\ Typed /\ RunTable => Typed'
<1> SUFFICES ASSUME IInv, Typed, RunTable PROVE Typed'
  OBVIOUS
<1> DEFINE division == ThresholdComponents(cache.dist, residual, Bounds.buffer)
           Made(S) == Component(S, Bottleneck(cache.dist, S) \div 2, Diameter(cache.dist, S))
<1>1. residual \subseteq Nodes
  BY DEF IInv, Divided
<1>2. Divides(division, residual) /\ {} \notin division
  BY <1>1, ThresholdDivides, ThresholdNotEmpty, GeometryAssumption
<1>3. comps' = {Made(S) : S \in division}
  BY DEF RunTable
<1> HIDE DEF division
<1>4. \A S \in division : Made(S) \in Noted
  <2> SUFFICES ASSUME NEW S \in division PROVE Made(S) \in Noted
    OBVIOUS
  <2>1. S \in SUBSET Nodes /\ S # {}
    BY <1>2, DividesNodes
  <2>2. PICK x \in Nat, y \in Nat :
          x = Bottleneck(cache.dist, S) /\ y = Diameter(cache.dist, S)
    BY <2>1, BottleneckIs, DiameterIs DEF Typed
  <2>3. x \div 2 \in Nat
    OBVIOUS
  <2> QED BY <2>1, <2>2, <2>3 DEF Component, Noted
<1> HIDE DEF Made
<1>5. (comps \subseteq Noted)'
  BY <1>3, <1>4 DEF Noted
<1>6. Growing'
  BY GrowthStays DEF RunTable, Typed
<1> QED BY <1>5, <1>6, LevelStep DEF RunTable, Running

LEMMA LookupComponentTyped == IInv /\ Typed /\ LookupComponent => Typed'
<1> SUFFICES ASSUME IInv, Typed, LookupComponent PROVE Typed'
  OBVIOUS
<1>1. PICK a \in Unvisited : comps' = comps \cup Divide({Collected(a)})
  BY DEF LookupComponent
<1>2. Collected(a) \in SUBSET Nodes
  BY DEF Collected, ReachFrom, Unvisited, IInv, Divided
<1>3. Divide({Collected(a)}) \subseteq Noted
  BY <1>2, DivideNoted DEF Typed
<1>4. (comps \subseteq Noted)'
  BY <1>1, <1>3 DEF Typed, Noted
<1>5. Growing'
  BY GrowthStays DEF LookupComponent, Typed
<1> QED BY <1>4, <1>5, LevelStep DEF LookupComponent

LEMMA EndLookupTyped == IInv /\ Typed /\ EndLookup => Typed'
<1> SUFFICES ASSUME IInv, Typed, EndLookup PROVE Typed'
  OBVIOUS
<1>1. Growing' /\ (comps \subseteq Noted)'
  BY GrowthStays DEF EndLookup, Typed, Noted
<1> QED BY <1>1, LevelStep DEF EndLookup

\* A component of one detector.
LEMMA SingletonsNoted == residual \subseteq Nodes => Singletons \subseteq Noted
BY DEF Singletons, Component, Noted

LEMMA BeginGrowthTyped == IInv /\ Typed /\ BeginGrowth => Typed'
<1> SUFFICES ASSUME IInv, Typed, BeginGrowth PROVE Typed'
  OBVIOUS
<1>1. residual \subseteq Nodes /\ 0 \in 0 .. Inf /\ Inf \in 0 .. Inf
  BY GeometryAssumption DEF IInv, Divided
<1>2. (comps \subseteq Noted)'
  BY <1>1, SingletonsNoted DEF BeginGrowth, Noted
<1>3. Growing'
  <2>1. reach' \in [Nodes -> 0 .. Inf] /\ owner' \in [Nodes -> Nodes \cup {Nobody}]
    BY <1>1 DEF BeginGrowth
  <2>2. frontier' \subseteq (0 .. Inf) \X Nodes \X Nodes /\ collisions' = {}
    BY <1>1 DEF BeginGrowth
  <2> QED BY <2>1, <2>2 DEF Growing
<1> QED BY <1>2, <1>3, LevelStep DEF BeginGrowth, Running

LEMMA BeginPairsTyped == IInv /\ Typed /\ BeginPairs => Typed'
<1> SUFFICES ASSUME IInv, Typed, BeginPairs PROVE Typed'
  OBVIOUS
<1>1. residual \subseteq Nodes
  BY DEF IInv, Divided
<1>2. (comps \subseteq Noted)'
  BY <1>1, SingletonsNoted DEF BeginPairs, Noted
<1>3. Growing'
  <2>1. ASSUME NEW e \in collisions'
        PROVE  e \in (0 .. Inf) \X Nodes \X Nodes /\ e[2] < e[3]
    <3>1. PICK p \in residual \X residual : p[1] < p[2] /\ e = <<cache.dist[p], p[1], p[2]>>
      BY DEF BeginPairs
    <3>2. PICK a \in residual, b \in residual : p = <<a, b>>
      OBVIOUS
    <3>3. cache.dist[<<a, b>>] \in 0 .. Inf
      BY <1>1, DistancesAre DEF Typed
    <3> QED BY <1>1, <3>1, <3>2, <3>3
  <2> QED BY <2>1 DEF BeginPairs, Growing, Typed
<1> QED BY <1>2, <1>3, LevelStep DEF BeginPairs, Running

\* A collision leaves, and components are united with its distance.
LEMMA TakenTyped ==
    ASSUME IInv, Typed, phase \in {"grow", "pairs"}, phase' = phase,
           UNCHANGED <<given, built, reach, owner, frontier>>,
           NEW e \in collisions, collisions' = collisions \ {e},
           \/ comps' = comps
           \/ comps' = Unite(ComponentOf(e[2]), ComponentOf(e[3]), e[1], e[1])
           \/ /\ phase = "pairs"
              /\ \E c \in comps, x \in Nat :
                   comps' = (comps \ {c}) \cup {Component(c.members, c.ready, x)}
    PROVE  Typed'
<1>1. Growing'
  BY DEF Typed, Growing
<1>2. e[1] \in Nat
  BY DEF Typed, Growing
<1>3. (comps \subseteq Noted)'
  <2>1. comps \subseteq Noted
    BY DEF Typed
  <2>2. CASE comps' = Unite(ComponentOf(e[2]), ComponentOf(e[3]), e[1], e[1])
    <3>1. ComponentOf(e[2]) \in comps /\ ComponentOf(e[3]) \in comps
      BY FindsComponent DEF IInv, Grown, Ends, Components
    <3> QED BY <1>2, <2>1, <2>2, <3>1, UniteNoted DEF Noted
  <2>3. CASE \E c \in comps, x \in Nat :
               comps' = (comps \ {c}) \cup {Component(c.members, c.ready, x)}
    BY <2>1, <2>3 DEF Component, Noted
  <2> QED BY <2>1, <2>2, <2>3 DEF Noted
<1> QED BY <1>1, <1>3, LevelStep

LEMMA TakeCollisionTyped == IInv /\ Typed /\ TakeCollision => Typed'
<1> SUFFICES ASSUME IInv, Typed, TakeCollision PROVE Typed'
  OBVIOUS
<1>1. PICK e \in collisions :
        /\ collisions' = collisions \ {e}
        /\ \/ comps' = comps
           \/ comps' = Unite(ComponentOf(e[2]), ComponentOf(e[3]), e[1], e[1])
  BY DEF TakeCollision
<1>2. /\ phase = "grow" /\ phase' = phase
      /\ UNCHANGED <<given, built, reach, owner, frontier>>
  BY DEF TakeCollision
<1> QED BY <1>1, <1>2, TakenTyped

\* A pair inside a component widens it; its width stays a number.
LEMMA TakePairTyped == IInv /\ Typed /\ TakePair => Typed'
<1> SUFFICES ASSUME IInv, Typed, TakePair PROVE Typed'
  OBVIOUS
<1>1. PICK e \in collisions :
        /\ collisions' = collisions \ {e}
        /\ \/ comps' = (comps \ {ComponentOf(e[2])}) \cup
                         {Component(ComponentOf(e[2]).members, ComponentOf(e[2]).ready,
                                    Max({ComponentOf(e[2]).width, e[1]}))}
           \/ comps' = Unite(ComponentOf(e[2]), ComponentOf(e[3]), e[1], e[1])
           \/ comps' = comps
  BY DEF TakePair
<1>2. /\ phase = "pairs" /\ phase' = phase
      /\ UNCHANGED <<given, built, reach, owner, frontier>>
  BY DEF TakePair
<1>3. ComponentOf(e[2]) \in comps
  BY <1>2, FindsComponent DEF IInv, Grown, Ends, Components
<1>4. Max({ComponentOf(e[2]).width, e[1]}) \in Nat
  <2>1. ComponentOf(e[2]).width \in Nat /\ e[1] \in Nat
    BY <1>3 DEF Typed, Growing, Noted
  <2> QED BY <2>1, OneOfTwo
<1> QED BY <1>1, <1>2, <1>3, <1>4, TakenTyped

LEMMA EndPairsTyped == IInv /\ Typed /\ EndPairs => Typed'
<1> SUFFICES ASSUME IInv, Typed, EndPairs PROVE Typed'
  OBVIOUS
<1>1. Growing' /\ (comps \subseteq Noted)'
  BY GrowthStays DEF EndPairs, Typed, Noted
<1> QED BY <1>1, LevelStep DEF EndPairs

LEMMA EndGrowthTyped == IInv /\ Typed /\ EndGrowth => Typed'
<1> SUFFICES ASSUME IInv, Typed, EndGrowth PROVE Typed'
  OBVIOUS
<1> DEFINE Exact(c) == Component(c.members, c.ready, Diameter(cache.dist, c.members))
<1>1. comps' = {Exact(c) : c \in comps}
  BY DEF EndGrowth
<1>2. \A c \in comps : Exact(c) \in Noted
  <2> SUFFICES ASSUME NEW c \in comps PROVE Exact(c) \in Noted
    OBVIOUS
  <2>1. c \in Noted
    BY DEF Typed
  <2>2. Diameter(cache.dist, c.members) \in Nat
    BY <2>1, DiameterIs DEF Typed, Noted
  <2> QED BY <2>1, <2>2 DEF Component, Noted
<1> HIDE DEF Exact
<1>3. (comps \subseteq Noted)'
  BY <1>1, <1>2 DEF Noted
<1>4. Growing'
  BY GrowthStays DEF EndGrowth, Typed
<1> QED BY <1>3, <1>4, LevelStep DEF EndGrowth

LEMMA DirectRootsTyped == IInv /\ Typed /\ DirectRoots => Typed'
<1> SUFFICES ASSUME IInv, Typed, DirectRoots PROVE Typed'
  OBVIOUS
<1> DEFINE Root(S) == [level |-> MaxLevel, members |-> S]
<1>1. PICK groups : /\ Divides(groups, residual)
                    /\ hierarchy' = {Root(S) : S \in groups}
  BY InteriorDivides, SimplyDivides DEF DirectRoots
<1>2. /\ level' = MaxLevel + 1 /\ phase' = "done"
      /\ UNCHANGED <<given, terminal, comps, growth>>
  BY DEF DirectRoots
<1>3. Valid' /\ Growing' /\ MaxLevel' = MaxLevel
  BY <1>2, ValidStays, GrowthStays DEF Typed, given, MaxLevel
<1>4. MaxLevel \in Nat \ {0}
  BY BoundsAre DEF Typed
<1>5. \A S \in groups : Root(S) \in Level /\ Root(S).level \in 1 .. MaxLevel
  BY <1>1, <1>4, DividesNodes DEF Level
<1> HIDE DEF Root
<1>6. hierarchy' \subseteq Level /\ \A c \in hierarchy' : c.level \in 1 .. MaxLevel'
  BY <1>1, <1>3, <1>5
<1>7. level' \in 1 .. MaxLevel' + 1
  BY <1>2, <1>3, <1>4
<1>8. Levelled'
  BY <1>2, <1>6, <1>7 DEF Levelled, Level
<1> QED BY <1>2, <1>3, <1>8 DEF Typed, Phases, Noted, Level, NoRoot

LEMMA StartTyped == IInv /\ Typed /\ Start => Typed'
<1> SUFFICES ASSUME IInv, Typed, Start PROVE Typed'
  OBVIOUS
<1>1. phase' = "level" /\ UNCHANGED <<given, built, comps, growth>>
  BY DEF Start
<1>2. Valid' /\ Growing' /\ MaxLevel' = MaxLevel
  BY <1>1, ValidStays, GrowthStays DEF Typed, given, MaxLevel
<1>3. Levelled'
  BY <1>1, <1>2 DEF Typed, Levelled, built, Level
<1> QED BY <1>1, <1>2, <1>3 DEF Typed, Phases, Noted, Level, NoRoot, built

\* A region takes nodes within the buffer only, and meets others within the buffer only.
LEMMA SpreadTyped ==
    ASSUME IInv, Typed, phase = "grow",
           NEW d \in 0 .. Inf, NEW v \in Nodes, NEW source \in Nodes, Spread(d, v, source)
    PROVE  Growing'
<1> DEFINE met == {u \in Neighbors(v) : owner[u] \notin {Nobody, source}}
           Step(u) == d + cache.edge[{u, v}]
           taken == {u \in Neighbors(v) : Improves(Step(u), source, u)}
<1>1. /\ collisions' = collisions \cup
           {w \in {Witness(d, v, source, u) : u \in met} : w[1] <= Bounds.buffer}
      /\ reach' = [u \in Nodes |-> IF u \in taken THEN Step(u) ELSE reach[u]]
      /\ owner' = [u \in Nodes |-> IF u \in taken THEN source ELSE owner[u]]
      /\ frontier' = (frontier \ {<<d, v, source>>}) \cup {<<Step(u), u, source>> : u \in taken}
  BY DEF Spread
<1>2. Bounds.buffer \in Nat /\ Bounds.buffer < Inf
  BY BoundsAre DEF Typed, Levelled, Bounds
<1>3. \A u \in Neighbors(v) : u \in Nodes /\ cache.edge[{u, v}] \in Nat
  BY CacheIs DEF Neighbors, Typed
<1>4. \A u \in taken : u \in Nodes /\ Step(u) \in 0 .. Inf
  <2> SUFFICES ASSUME NEW u \in taken PROVE u \in Nodes /\ Step(u) \in 0 .. Inf
    OBVIOUS
  <2>1. Step(u) <= Bounds.buffer
    BY DEF Improves
  <2>2. Step(u) \in Nat
    BY <1>3, GeometryAssumption
  <2> QED BY <1>2, <1>3, <2>1, <2>2, GeometryAssumption
<1>5. ASSUME NEW u \in met, Witness(d, v, source, u)[1] <= Bounds.buffer
      PROVE  /\ Witness(d, v, source, u) \in (0 .. Inf) \X Nodes \X Nodes
             /\ Witness(d, v, source, u)[2] < Witness(d, v, source, u)[3]
  <2>1. u \in Nodes /\ owner[u] \in Nodes /\ owner[u] # source /\ source \in Nat /\ owner[u] \in Nat
    BY <1>3, GeometryAssumption DEF Typed, Growing
  <2>2. /\ Min({source, owner[u]}) \in Nodes /\ Max({source, owner[u]}) \in Nodes
        /\ Min({source, owner[u]}) < Max({source, owner[u]})
    <3>1. {source, owner[u]} \in SUBSET Nat
      BY <2>1
    <3>2. \E x, y \in {source, owner[u]} : x < y
      BY <2>1
    <3>3. /\ Min({source, owner[u]}) \in {source, owner[u]}
          /\ Max({source, owner[u]}) \in {source, owner[u]}
      BY <2>1, OneOfTwo
    <3>4. \A y \in {source, owner[u]} : Min({source, owner[u]}) <= y
      BY <3>1, LeastNatural
    <3>5. \A y \in {source, owner[u]} : y <= Max({source, owner[u]})
      <4>1. {source, owner[u]} \in SUBSET (0 .. source + owner[u]) /\ source + owner[u] \in Nat
        BY <2>1
      <4> QED BY <4>1, GreatestNatural
    <3> QED BY <2>1, <3>2, <3>3, <3>4, <3>5
  <2>3. d + cache.edge[{u, v}] + reach[u] \in Nat
    <3>1. reach[u] \in 0 .. Inf /\ cache.edge[{u, v}] \in Nat
      BY <1>3, <2>1 DEF Typed, Growing
    <3> QED BY <3>1, GeometryAssumption
  <2>4. d + cache.edge[{u, v}] + reach[u] <= Bounds.buffer
    BY <1>5 DEF Witness
  <2>5. d + cache.edge[{u, v}] + reach[u] \in 0 .. Inf
    BY <1>2, <2>3, <2>4, GeometryAssumption
  <2> QED BY <2>2, <2>5 DEF Witness
<1> DEFINE W(u) == Witness(d, v, source, u)
           E(u) == <<Step(u), u, source>>
<1>6. \A u \in taken : E(u) \in (0 .. Inf) \X Nodes \X Nodes
  BY <1>4
<1>7. collisions' \subseteq {e \in (0 .. Inf) \X Nodes \X Nodes : e[2] < e[3]}
  <2>1. \A u \in met : W(u)[1] <= Bounds.buffer =>
           W(u) \in (0 .. Inf) \X Nodes \X Nodes /\ W(u)[2] < W(u)[3]
    BY <1>5
  <2>2. collisions' = collisions \cup {w \in {W(u) : u \in met} : w[1] <= Bounds.buffer}
    BY <1>1
  <2> HIDE DEF W, met
  <2> QED BY <2>1, <2>2 DEF Typed, Growing
<1>8. reach' \in [Nodes -> 0 .. Inf] /\ owner' \in [Nodes -> Nodes \cup {Nobody}]
  <2> HIDE DEF taken
  <2> QED BY <1>1, <1>4 DEF Typed, Growing
<1>9. frontier' \subseteq (0 .. Inf) \X Nodes \X Nodes
  <2>1. frontier' = (frontier \ {<<d, v, source>>}) \cup {E(u) : u \in taken}
    BY <1>1
  <2> HIDE DEF taken, E
  <2> QED BY <1>6, <2>1 DEF Typed, Growing
<1> QED BY <1>7, <1>8, <1>9 DEF Growing

LEMMA TakeFrontierTyped == IInv /\ Typed /\ TakeFrontier => Typed'
<1> SUFFICES ASSUME IInv, Typed, TakeFrontier PROVE Typed'
  OBVIOUS
<1>1. phase = "grow" /\ UNCHANGED <<given, built, phase, comps>>
  BY DEF TakeFrontier
<1>2. PICK e \in frontier :
        \/ frontier' = frontier \ {e} /\ UNCHANGED <<reach, owner, collisions>>
        \/ Spread(e[1], e[2], e[3])
  BY DEF TakeFrontier
<1>3. e[1] \in 0 .. Inf /\ e[2] \in Nodes /\ e[3] \in Nodes
  BY DEF Typed, Growing
<1>4. Growing'
  <2>1. CASE frontier' = frontier \ {e} /\ UNCHANGED <<reach, owner, collisions>>
    BY <2>1 DEF Typed, Growing
  <2> QED BY <1>1, <1>2, <1>3, <2>1, SpreadTyped
<1>5. (comps \subseteq Noted)'
  BY <1>1 DEF Typed, Noted
<1> QED BY <1>1, <1>4, <1>5, LevelStep

LEMMA CloseLevelTyped == IInv /\ Typed /\ CloseLevel => Typed'
<1> SUFFICES ASSUME IInv, Typed, CloseLevel PROVE Typed'
  OBVIOUS
<1> DEFINE Cluster(c) == [level |-> level, members |-> c.members]
<1>1. /\ phase = "close" /\ phase' = "level" /\ level' = level + 1 /\ comps' = {}
      /\ UNCHANGED <<given, terminal, growth>>
      /\ \E accepted \in SUBSET comps :
           hierarchy' = hierarchy \cup {Cluster(c) : c \in accepted}
  BY DEF CloseLevel
<1>2. Valid' /\ Growing' /\ MaxLevel' = MaxLevel
  BY <1>1, ValidStays, GrowthStays DEF Typed, given, MaxLevel
<1>3. MaxLevel \in Nat \ {0} /\ level \in 1 .. MaxLevel
  BY <1>1, BoundsAre DEF Typed, Levelled
<1>4. \A c \in comps : Cluster(c) \in Level /\ Cluster(c).level \in 1 .. MaxLevel
  BY <1>3 DEF Typed, Noted, Level
<1> HIDE DEF Cluster
<1>5. hierarchy' \subseteq Level /\ \A c \in hierarchy' : c.level \in 1 .. MaxLevel'
  BY <1>1, <1>2, <1>4 DEF Typed, Levelled
<1>6. level' \in 1 .. MaxLevel' + 1
  BY <1>1, <1>2, <1>3
<1>7. Levelled'
  BY <1>1, <1>5, <1>6 DEF Levelled, Level
<1> QED BY <1>1, <1>2, <1>7 DEF Typed, Phases, Noted, Level, NoRoot

LEMMA FinishTyped == IInv /\ Typed /\ Finish => Typed'
<1> SUFFICES ASSUME IInv, Typed, Finish PROVE Typed'
  OBVIOUS
<1> DEFINE levels == {c.level : c \in hierarchy}
<1>1. /\ phase' = "done" /\ UNCHANGED <<given, level, residual, hierarchy, comps, growth>>
      /\ \/ terminal' = [level |-> 0, members |-> residual]
         \/ terminal' = NoRoot
         \/ hierarchy # {} /\ terminal' = [level |-> Max(levels) + 1, members |-> residual]
  BY DEF Finish
<1>2. Valid' /\ Growing' /\ MaxLevel' = MaxLevel
  BY <1>1, ValidStays, GrowthStays DEF Typed, given, MaxLevel
<1>3. levels \in SUBSET (0 .. MaxLevel) /\ MaxLevel \in Nat
  BY BoundsAre DEF Typed, Levelled
<1>4. hierarchy # {} => levels # {}
  OBVIOUS
<1> HIDE DEF levels
<1>5. hierarchy # {} => Max(levels) \in Nat
  BY <1>3, <1>4, GreatestNatural
<1>6. residual \subseteq Nodes
  BY DEF IInv, Divided
<1>7. terminal' \in Level \cup {NoRoot}
  BY <1>1, <1>5, <1>6 DEF Level
<1>8. Levelled'
  BY <1>1, <1>2 DEF Typed, Levelled, Level
<1> QED BY <1>1, <1>2, <1>7, <1>8 DEF Typed, Phases, Noted, Level, NoRoot

LEMMA StutterTyped == Typed /\ UNCHANGED vars => Typed'
<1> SUFFICES ASSUME Typed, UNCHANGED vars PROVE Typed'
  OBVIOUS
<1>1. UNCHANGED <<given, built, growth, comps, phase>>
  BY DEF vars, given, built, growth
<1>2. Valid' /\ Growing' /\ MaxLevel' = MaxLevel
  BY <1>1, ValidStays, GrowthStays DEF Typed, given, MaxLevel
<1>3. Levelled'
  BY <1>1, <1>2 DEF Typed, Levelled, built, Level
<1> QED BY <1>1, <1>2, <1>3 DEF Typed, Phases, Noted, Level, NoRoot, built

LEMMA NextTyped == IInv /\ Typed /\ [Next]_vars => Typed'
BY DirectRootsTyped, StartTyped, RunForcedTyped, RunSingletonsTyped, BeginLookupTyped,
   LookupComponentTyped, EndLookupTyped, BeginGrowthTyped, TakeCollisionTyped,
   TakeFrontierTyped, EndGrowthTyped, RunTableTyped, BeginPairsTyped, TakePairTyped,
   EndPairsTyped, CloseLevelTyped, FinishTyped, StutterTyped DEF Next

\* The state of the builder has its types, whatever the graphs, the schedules and the syndrome:
\* distances of the frontier never leave the buffer, which is below the infinite distance.
THEOREM TypesHold == ASSUME ~SparseLists PROVE Spec => [](IInv /\ Typed /\ TypeOK)
<1>1. Init => IInv /\ Typed
  BY InitIInv, InitTyped
<1>2. IInv /\ Typed /\ [Next]_vars => (IInv /\ Typed)'
  BY NextKeeps, NextTyped
<1>3. IInv /\ Typed => TypeOK
  BY TypedIsTypeOK
<1> QED BY <1>1, <1>2, <1>3, PTL DEF Spec

-----------------------------------------------------------------------------
(* What a level finds.                                                     *)

\* A level is being run.
AtLevel == Valid /\ level \in 1 .. MaxLevel /\ residual # {} /\ residual \subseteq Nodes

LEMMA RunsAtLevel ==
    ASSUME IInv, Typed, Running \/ phase \in {"lookup", "grow", "pairs", "close"}
    PROVE  AtLevel
BY BoundsAre DEF IInv, Divided, Typed, Levelled, Running, AtLevel

\* The divisions that the rule of the level allows.
LEMMA LevelDivisions ==
    /\ ~FallsBack => Threshold(level) \in Rule!Divisions(level)
    /\ FallsBack => {residual} \in Rule!Divisions(level)
    /\ Forced /\ ~FallsBack => Interior \in Rule!Divisions(level)
<1>1. Forced <=> ForcedAt(level)
  BY DEF Forced, ForcedAt
<1>2. FallsBack <=> Forced /\ ~setting.schedule[level].certified
  BY DEF FallsBack, Bounds
<1> QED BY <1>1, <1>2, RuleDivisions

\* Who is linked on the level that is being run.
Linked == Links(cache.dist, residual, Bounds.buffer)

LEMMA ThresholdIs ==
    /\ Threshold(level) = ThresholdComponents(cache.dist, residual, Bounds.buffer)
    /\ Threshold(level) = {ReachFrom(a, residual, Linked) : a \in residual}
BY DEF Threshold, ThresholdComponents, Linked, Bounds

LEMMA LinkedAre ==
    ASSUME AtLevel
    PROVE  /\ \A a, b \in residual : <<a, b>> \in Linked <=> cache.dist[<<a, b>>] <= Bounds.buffer
           /\ \A a, b \in residual : <<a, b>> \in Linked => <<b, a>> \in Linked
<1>1. \A a, b \in residual : <<a, b>> \in Linked <=> cache.dist[<<a, b>>] <= Bounds.buffer
  BY LinkedIs DEF Linked, AtLevel
<1>2. \A a, b \in residual : cache.dist[<<a, b>>] = cache.dist[<<b, a>>]
  BY DistancesAre DEF AtLevel
<1> QED BY <1>1, <1>2

\* A buffer that covers all distances leaves everything together.
LEMMA AllTogether ==
    ASSUME AtLevel, CoversAll(Bounds.buffer)
    PROVE  Threshold(level) = {residual}
<1>1. Bounds.buffer \in Nat
  BY BoundsAre DEF AtLevel, Bounds
<1>2. \A a, b \in residual : <<a, b>> \in Links(cache.dist, residual, Bounds.buffer)
  BY <1>1, CoversAllIs, LinkedAre DEF AtLevel, Linked
<1> QED BY <1>2, ThresholdWhole, ThresholdIs DEF AtLevel

\* A buffer that covers the components of the graph keeps them together.
LEMMA EachTogether ==
    ASSUME AtLevel, CoversEach(Bounds.buffer)
    PROVE  Threshold(level) = Interior
<1>1. Bounds.buffer \in Nat /\ Bounds.buffer < Inf /\ 0 < Inf /\ Inf \in Nat
  BY BoundsAre DEF AtLevel, Bounds
<1>2. ASSUME NEW a \in residual, NEW b \in residual
      PROVE  <<a, b>> \in Links(cache.dist, residual, Bounds.buffer) <=> cache.id[a] = cache.id[b]
  <2>1. a \in Nodes /\ b \in Nodes /\ Valid
    BY DEF AtLevel
  <2>2. cache.id[a] = cache.id[b] <=> cache.dist[<<a, b>>] < Inf
    BY <1>1, <2>1, CacheIs, SameComponent
  <2>3. cache.dist[<<a, b>>] \in Nat
    BY <2>1, DistancesAre
  <2>4. cache.dist[<<a, b>>] < Inf <=> cache.dist[<<a, b>>] <= Bounds.buffer
    BY <1>1, <2>1, <2>3, CoversEachIs
  <2> QED BY <2>2, <2>4, LinkedAre DEF Linked
<1>3. PICK id : id = cache.id
  OBVIOUS
<1>4. \A a, b \in residual :
        <<a, b>> \in Links(cache.dist, residual, Bounds.buffer) <=> id[a] = id[b]
  BY <1>2, <1>3
<1>5. ThresholdComponents(cache.dist, residual, Bounds.buffer) = InteriorComponents(id, residual)
  BY <1>4, ThresholdInterior
<1> QED BY <1>3, <1>5, ThresholdIs DEF Interior

\* Where there is nothing to unite, every detector is alone.
LEMMA NoneTogether ==
    ASSUME AtLevel, NoUnions
    PROVE  Threshold(level) = {{a} : a \in residual}
<1>1. Bounds.buffer \in Nat
  BY BoundsAre DEF AtLevel, Bounds
<1>2. ASSUME NEW a \in residual, NEW b \in residual, a # b
      PROVE  <<a, b>> \notin Links(cache.dist, residual, Bounds.buffer)
  <2>1. a \in Nodes /\ b \in Nodes /\ Valid /\ level \in 1 .. MaxLevel
    BY DEF AtLevel
  <2>2. ~ (cache.dist[<<a, b>>] <= Bounds.buffer)
    <3>1. CASE Bounds.buffer < MinEdge
      BY <1>1, <1>2, <2>1, <3>1, MinEdgeIs
    <3>2. CASE RadiusListed /\ \A x, y \in residual : x # y => ~RadiusNear(x, y)
      BY <1>2, <2>1, <3>2, RadiusNearIs
    <3> QED BY <3>1, <3>2 DEF NoUnions
  <2> QED BY <2>2, LinkedAre DEF Linked
<1> QED BY <1>2, ThresholdSingle, ThresholdIs

\* The sets of the components.
Sets(cs) == {c.members : c \in cs}

Exact == \A c \in comps : c.width = Diameter(cache.dist, c.members)

\* When a level closes, its components are those of its rule, and their width is exact.
Closing == Sets(comps) \in Rule!Divisions(level) /\ Exact

LEMMA DivideSets ==
    ASSUME NEW division
    PROVE  /\ Sets(Divide(division)) = division
           /\ \A c \in Divide(division) : c.width = Diameter(cache.dist, c.members)
<1> DEFINE Made(A) == Component(A, 0, Diameter(cache.dist, A))
<1>1. \A A \in division : Made(A).members = A /\ Made(A).width = Diameter(cache.dist, A)
  BY DEF Component
<1>2. Divide(division) = {Made(A) : A \in division}
  BY DEF Divide
<1> HIDE DEF Made
<1> QED BY <1>1, <1>2 DEF Sets

\* A step inside a level leaves what the level is about.
LEMMA SameLevel ==
    ASSUME UNCHANGED <<given, built>>
    PROVE  /\ cache' = cache /\ setting' = setting /\ level' = level /\ residual' = residual
           /\ hierarchy' = hierarchy /\ Bounds' = Bounds /\ MaxLevel' = MaxLevel
           /\ Linked' = Linked /\ Threshold(level)' = Threshold(level) /\ Interior' = Interior
           /\ (FallsBack <=> FallsBack') /\ (Forced <=> Forced')
           /\ Rule!Divisions(level)' = Rule!Divisions(level)
<1>1. /\ cache' = cache /\ setting' = setting /\ level' = level /\ residual' = residual
      /\ hierarchy' = hierarchy
  BY DEF given, built
<1>2. Bounds' = Bounds /\ MaxLevel' = MaxLevel
  BY <1>1 DEF Bounds, MaxLevel
<1>3. Linked' = Linked /\ Interior' = Interior /\ (Forced <=> Forced')
  BY <1>1, <1>2 DEF Linked, Interior, Forced
<1>4. Threshold(level)' = Threshold(level)
  BY <1>1 DEF Threshold
<1>5. FallsBack <=> FallsBack'
  BY <1>2, <1>3 DEF FallsBack
<1>6. Rule!Divisions(level)' = Rule!Divisions(level)
  BY <1>1 DEF Rule!Divisions, Rule!Forced, Rule!MaxLevel
<1> QED BY <1>1, <1>2, <1>3, <1>4, <1>5, <1>6

\* What a path finds at once.
LEMMA ClosesWith ==
    ASSUME UNCHANGED <<given, built>>,
           NEW division \in Rule!Divisions(level), comps' = Divide(division)
    PROVE  Closing'
<1>1. Sets(comps') = division /\ \A c \in comps' : c.width = Diameter(cache.dist, c.members)
  BY DivideSets
<1>2. Sets(comps)' = Sets(comps')
  BY DEF Sets
<1>3. Rule!Divisions(level)' = Rule!Divisions(level) /\ cache' = cache
  BY SameLevel
<1> QED BY <1>1, <1>2, <1>3 DEF Closing, Exact

LEMMA RunForcedCloses == IInv /\ Typed /\ RunForced => Closing'
<1> SUFFICES ASSUME IInv, Typed, RunForced PROVE Closing'
  OBVIOUS
<1>1. UNCHANGED <<given, built>> /\ comps' = Divide(WholeOrInterior) /\ Running
  BY DEF RunForced
<1>2. AtLevel
  BY <1>1, RunsAtLevel
<1>3. WholeOrInterior \in Rule!Divisions(level)
  <2>1. CASE FallsBack
    BY <2>1, LevelDivisions DEF WholeOrInterior
  <2>2. CASE ~FallsBack /\ CoversAll(Bounds.buffer)
    BY <1>2, <2>2, LevelDivisions, AllTogether DEF WholeOrInterior
  <2>3. CASE ~FallsBack /\ ~CoversAll(Bounds.buffer)
    BY <2>3, LevelDivisions DEF WholeOrInterior, RunForced, ForcedLookup, Interior
  <2> QED BY <2>1, <2>2, <2>3
<1> QED BY <1>1, <1>3, ClosesWith

LEMMA RunSingletonsCloses == IInv /\ Typed /\ RunSingletons => Closing'
<1> SUFFICES ASSUME IInv, Typed, RunSingletons PROVE Closing'
  OBVIOUS
<1>1. /\ UNCHANGED <<given, built>> /\ comps' = Divide({{a} : a \in residual}) /\ Running
      /\ NoUnions /\ ~FallsBack
  BY DEF RunSingletons
<1>2. {{a} : a \in residual} \in Rule!Divisions(level)
  BY <1>1, RunsAtLevel, NoneTogether, LevelDivisions
<1> QED BY <1>1, <1>2, ClosesWith

LEMMA RunTableCloses == IInv /\ Typed /\ RunTable => Closing'
<1> SUFFICES ASSUME IInv, Typed, RunTable PROVE Closing'
  OBVIOUS
<1> DEFINE Made(A) == Component(A, Bottleneck(cache.dist, A) \div 2, Diameter(cache.dist, A))
<1>1. UNCHANGED <<given, built>> /\ ~FallsBack
  BY DEF RunTable
<1>2. comps' = {Made(A) : A \in Threshold(level)}
  BY ThresholdIs DEF RunTable
<1>3. \A A \in Threshold(level) : Made(A).members = A /\ Made(A).width = Diameter(cache.dist, A)
  BY DEF Component
<1> HIDE DEF Made
<1>4. /\ Sets(comps') = Threshold(level)
      /\ \A c \in comps' : c.width = Diameter(cache.dist, c.members)
  BY <1>2, <1>3 DEF Sets
<1>5. Sets(comps)' = Sets(comps')
  BY DEF Sets
<1>6. Rule!Divisions(level)' = Rule!Divisions(level) /\ cache' = cache
  BY <1>1, SameLevel
<1> QED BY <1>1, <1>4, <1>5, <1>6, LevelDivisions DEF Closing, Exact

-----------------------------------------------------------------------------
(* Components that are looked up one by one.                               *)

\* What the lookup collects, component by component.
LookedUp ==
  IF CoversAll(Bounds.buffer) THEN {residual}
  ELSE IF CoversEach(Bounds.buffer) \/ Forced THEN Interior
  ELSE Threshold(level)

LookingUp == ~FallsBack /\ Lookup /\ Sets(comps) \subseteq LookedUp /\ Exact

LEMMA LookedUpIsRule ==
    ASSUME AtLevel, ~FallsBack
    PROVE  /\ LookedUp \in Rule!Divisions(level)
           /\ Divides(LookedUp, residual) /\ {} \notin LookedUp
<1>1. residual \in SUBSET Nat
  BY GeometryAssumption DEF AtLevel
<1>2. CASE CoversAll(Bounds.buffer)
  <2>1. LookedUp = {residual}
    BY <1>2 DEF LookedUp
  <2>2. residual # {}
    BY DEF AtLevel
  <2> QED BY <1>2, <2>1, <2>2, AllTogether, LevelDivisions, SimplyDivides
<1>3. CASE ~CoversAll(Bounds.buffer) /\ (CoversEach(Bounds.buffer) \/ Forced)
  <2>1. LookedUp = Interior
    BY <1>3 DEF LookedUp
  <2>2. Interior \in Rule!Divisions(level)
    BY <1>3, EachTogether, LevelDivisions
  <2>3. Divides(Interior, residual)
    BY InteriorDivides DEF Interior
  <2>4. {} \notin Interior
    BY DEF Interior, InteriorComponents
  <2> QED BY <2>1, <2>2, <2>3, <2>4
<1>4. CASE ~CoversAll(Bounds.buffer) /\ ~CoversEach(Bounds.buffer) /\ ~Forced
  <2>1. LookedUp = Threshold(level)
    BY <1>4 DEF LookedUp
  <2> QED BY <1>1, <2>1, LevelDivisions, ThresholdDivides, ThresholdNotEmpty DEF Threshold
<1> QED BY <1>2, <1>3, <1>4

\* What is collected from a detector is a whole component.
LEMMA CollectedIs ==
    ASSUME AtLevel, LookingUp, NEW a \in Unvisited
    PROVE  Collected(a) \in LookedUp
<1>1. /\ Unvisited \in SUBSET residual /\ a \in residual
      /\ \A b \in residual : b \in Unvisited <=> \A c \in comps : b \notin c.members
      /\ \A c \in comps : c.members \in LookedUp
  BY DEF Unvisited, LookingUp, Sets
<1>2. CASE CoversAll(Bounds.buffer)
  <2>1. LookedUp = {residual} /\ Collected(a) = Unvisited
    BY <1>2 DEF LookedUp, Collected
  <2>2. Unvisited = residual
    BY <1>1, <2>1
  <2> QED BY <2>1, <2>2
<1>3. CASE ~CoversAll(Bounds.buffer) /\ (CoversEach(Bounds.buffer) \/ Forced)
  <2>1. LookedUp = Interior /\ Collected(a) = {b \in Unvisited : cache.id[b] = cache.id[a]}
    BY <1>3 DEF LookedUp, Collected
  <2>2. ASSUME NEW b \in residual, cache.id[b] = cache.id[a] PROVE b \in Unvisited
    <3> SUFFICES ASSUME NEW c \in comps, b \in c.members PROVE FALSE
      BY <1>1
    <3>1. PICK z \in residual : c.members = {x \in residual : cache.id[x] = cache.id[z]}
      BY <1>1, <2>1 DEF Interior, InteriorComponents
    <3>2. a \in c.members
      BY <1>1, <2>2, <3>1
    <3> QED BY <1>1, <3>2
  <2>3. Collected(a) = {b \in residual : cache.id[b] = cache.id[a]}
    BY <1>1, <2>1, <2>2
  <2> QED BY <1>1, <2>1, <2>3 DEF Interior, InteriorComponents
<1>4. CASE ~CoversAll(Bounds.buffer) /\ ~CoversEach(Bounds.buffer) /\ ~Forced
  <2> DEFINE Q == {p \in Unvisited \X Unvisited : RadiusNear(p[1], p[2])}
  <2>1. LookedUp = Threshold(level) /\ Collected(a) = ReachFrom(a, Unvisited, Q)
    BY <1>4 DEF LookedUp, Collected
  <2>2. RadiusListed
    BY <1>4 DEF LookingUp, Lookup
  <2>3. \A x, y \in Unvisited : <<x, y>> \in Q <=> <<x, y>> \in Linked
    <3> SUFFICES ASSUME NEW x \in Unvisited, NEW y \in Unvisited
                 PROVE  <<x, y>> \in Q <=> <<x, y>> \in Linked
      OBVIOUS
    <3>1. x \in residual /\ y \in residual /\ x \in Nodes /\ y \in Nodes /\ Valid
          /\ level \in 1 .. MaxLevel
      BY <1>1 DEF AtLevel
    <3>2. RadiusNear(x, y) <=> cache.dist[<<x, y>>] <= Bounds.buffer
      BY <2>2, <3>1, RadiusNearIs
    <3>3. <<x, y>> \in Linked <=> cache.dist[<<x, y>>] <= Bounds.buffer
      BY <3>1, LinkedAre
    <3>4. <<x, y>> \in Q <=> RadiusNear(x, y)
      OBVIOUS
    <3> QED BY <3>2, <3>3, <3>4
  <2>4. ASSUME NEW x \in Unvisited, NEW y \in residual, <<x, y>> \in Linked PROVE y \in Unvisited
    <3> SUFFICES ASSUME NEW c \in comps, y \in c.members PROVE FALSE
      BY <1>1
    <3>1. PICK z \in residual : c.members = ReachFrom(z, residual, Linked)
      BY <1>1, <2>1, ThresholdIs
    <3>2. <<y, x>> \in Linked
      BY <1>1, <2>4, LinkedAre
    <3>3. x \in c.members
      BY <1>1, <3>1, <3>2, ReachNext
    <3> QED BY <1>1, <3>3
  <2> HIDE DEF Q
  <2>5. ReachFrom(a, Unvisited, Q) = ReachFrom(a, residual, Linked)
    BY <1>1, <2>3, <2>4, ReachWithin
  <2> QED BY <1>1, <2>1, <2>5, ThresholdIs
<1> QED BY <1>2, <1>3, <1>4

LEMMA BeginLookupLooksUp == BeginLookup => LookingUp'
<1> SUFFICES ASSUME BeginLookup PROVE LookingUp'
  OBVIOUS
<1>1. UNCHANGED <<given, built>> /\ comps' = {} /\ ~FallsBack /\ Lookup
  BY DEF BeginLookup
<1>2. ~FallsBack' /\ Lookup'
  BY <1>1, SameLevel DEF Lookup, Sparse, CoversAll, CoversEach, RadiusListed, RadiusLevels
<1> QED BY <1>1, <1>2 DEF LookingUp, Sets, Exact

LEMMA LookupComponentLooksUp ==
    ASSUME IInv, Typed, LookingUp, LookupComponent
    PROVE  LookingUp'
<1>1. UNCHANGED <<given, built>> /\ phase = "lookup"
  BY DEF LookupComponent
<1>2. AtLevel
  BY <1>1, RunsAtLevel
<1>3. PICK a \in Unvisited : comps' = comps \cup Divide({Collected(a)})
  BY DEF LookupComponent
<1>4. ~FallsBack' /\ Lookup' /\ LookedUp' = LookedUp /\ cache' = cache
  BY <1>1, SameLevel
     DEF Lookup, Sparse, CoversAll, CoversEach, RadiusListed, RadiusLevels, LookedUp, LookingUp
<1>5. /\ Sets(Divide({Collected(a)})) = {Collected(a)}
      /\ \A c \in Divide({Collected(a)}) : c.width = Diameter(cache.dist, c.members)
  BY DivideSets
<1>6. Sets(comps)' \subseteq LookedUp
  BY <1>2, <1>3, <1>5, CollectedIs DEF Sets, LookingUp
<1>7. Exact'
  BY <1>3, <1>4, <1>5 DEF Exact, LookingUp
<1> QED BY <1>4, <1>6, <1>7 DEF LookingUp

LEMMA EndLookupCloses ==
    ASSUME IInv, Typed, LookingUp, EndLookup
    PROVE  Closing'
<1>1. UNCHANGED <<given, built, comps>> /\ phase = "lookup" /\ Unvisited = {}
  BY DEF EndLookup
<1>2. AtLevel
  BY <1>1, RunsAtLevel
<1>3. Sets(comps) \in SUBSET LookedUp /\ Exact
  BY DEF LookingUp
<1>4. \A a \in residual : \E A \in Sets(comps) : a \in A
  BY <1>1 DEF Unvisited, Sets
<1>5. Divides(LookedUp, residual) /\ {} \notin LookedUp /\ LookedUp \in Rule!Divisions(level)
  BY <1>2, LookedUpIsRule DEF LookingUp
<1>6. Sets(comps) = LookedUp
  BY <1>3, <1>4, <1>5, WholeDivision
<1>7. Sets(comps)' = Sets(comps) /\ Rule!Divisions(level)' = Rule!Divisions(level) /\ Exact'
  BY <1>1, <1>3, SameLevel DEF Sets, Exact
<1> QED BY <1>5, <1>6, <1>7 DEF Closing

-----------------------------------------------------------------------------
(* Components that are united.                                             *)

Together(a, b) == \E c \in comps : a \in c.members /\ b \in c.members

\* Members reach each other by steps that are within the buffer.
Sound(C) == C # {} /\ \A a, b \in C : b \in ReachFrom(a, residual, Linked)

Uniting == ~FallsBack /\ \A c \in comps : Sound(c.members)

\* Components are those of the rule once all that is linked is together.
LEMMA UnitedAreThreshold ==
    ASSUME Parts(comps, residual), Covers(comps, residual), Uniting,
           \A a, b \in residual : <<a, b>> \in Linked => Together(a, b)
    PROVE  Sets(comps) = Threshold(level)
<1>1. ASSUME NEW c \in comps, NEW a \in c.members
      PROVE  c.members = ReachFrom(a, residual, Linked)
  <2>1. c.members \subseteq residual /\ c.members \subseteq ReachFrom(a, residual, Linked)
    BY DEF Parts, Uniting, Sound
  <2>2. \A x \in c.members, y \in residual : <<x, y>> \in Linked => y \in c.members
    <3> SUFFICES ASSUME NEW x \in c.members, NEW y \in residual, <<x, y>> \in Linked
                 PROVE  y \in c.members
      OBVIOUS
    <3>1. PICK d \in comps : x \in d.members /\ y \in d.members
      BY <2>1 DEF Together
    <3> QED BY <3>1 DEF Parts
  <2>3. ReachFrom(a, residual, Linked) \subseteq c.members
    BY <2>1, <2>2 DEF ReachFrom
  <2> QED BY <2>1, <2>3
<1>2. \A c \in comps : \E a \in residual : a \in c.members
  BY DEF Parts, Uniting, Sound
<1>3. \A a \in residual : \E c \in comps : a \in c.members
  BY DEF Covers
<1>4. Threshold(level) = {ReachFrom(a, residual, Linked) : a \in residual}
  BY ThresholdIs
<1> QED BY <1>1, <1>2, <1>3, <1>4 DEF Sets

\* One detector is a sound component.
LEMMA SingletonsUnite ==
    ASSUME UNCHANGED <<given, built>>, ~FallsBack, comps' = Singletons
    PROVE  Uniting' /\ \A a, b : Together(a, b)' => a = b
<1> DEFINE Made(a) == Component({a}, 0, 0)
<1>1. \A a \in residual : Made(a).members = {a}
  BY DEF Component
<1>2. comps' = {Made(a) : a \in residual}
  BY DEF Singletons
<1> HIDE DEF Made
<1>3. \A a \in residual : a \in ReachFrom(a, residual, Linked)
  BY DEF ReachFrom
<1>4. ~FallsBack' /\ residual' = residual /\ Linked' = Linked
  BY SameLevel
<1>5. \A c \in comps' : c.members # {}
                     /\ \A a, b \in c.members : b \in ReachFrom(a, residual', Linked')
  BY <1>1, <1>2, <1>3, <1>4
<1>6. Uniting'
  BY <1>4, <1>5 DEF Uniting, Sound
<1>7. \A a, b : Together(a, b)' => a = b
  BY <1>1, <1>2 DEF Together
<1> QED BY <1>6, <1>7

\* Reaching and reaching on.
LEMMA ReachVia ==
    ASSUME NEW S, NEW R, NEW a \in S, NEW b \in ReachFrom(a, S, R), NEW c \in ReachFrom(b, S, R)
    PROVE  c \in ReachFrom(a, S, R)
BY ReachOn

\* Uniting two components whose detectors are linked.
LEMMA UniteKeepsSound ==
    ASSUME AtLevel, Uniting, Parts(comps, residual), Covers(comps, residual),
           UNCHANGED <<given, built>>,
           NEW x \in residual, NEW y \in residual, <<x, y>> \in Linked,
           NEW distance, NEW width,
           comps' = Unite(ComponentOf(x), ComponentOf(y), distance, width)
    PROVE  /\ Uniting'
           /\ Together(x, y)'
           /\ \A a, b : Together(a, b) => Together(a, b)'
<1> DEFINE c == ComponentOf(x)
           d == ComponentOf(y)
           new == Component(c.members \cup d.members,
                            Max({c.ready, d.ready, distance \div 2}),
                            Max({c.width, d.width, width}))
<1>1. c \in comps /\ d \in comps /\ x \in c.members /\ y \in d.members
  BY DEF Covers, ComponentOf
<1>2. new.members = c.members \cup d.members
  BY DEF Component
<1>3. comps' = (comps \ {c, d}) \cup {new}
  BY DEF Unite
<1> HIDE DEF c, d, new
<1>4. Linked' = Linked /\ residual' = residual /\ ~FallsBack'
  BY SameLevel DEF Uniting
<1>5. c.members \subseteq residual /\ d.members \subseteq residual
  BY <1>1 DEF Parts
<1>6. ASSUME NEW a \in c.members, NEW b \in d.members
      PROVE  b \in ReachFrom(a, residual, Linked) /\ a \in ReachFrom(b, residual, Linked)
  <2>1. x \in ReachFrom(a, residual, Linked) /\ b \in ReachFrom(y, residual, Linked)
    BY <1>1 DEF Uniting, Sound
  <2>2. y \in ReachFrom(a, residual, Linked)
    BY <2>1, ReachNext
  <2>3. b \in ReachFrom(a, residual, Linked)
    BY <1>5, <2>1, <2>2, ReachVia
  <2>4. a \in ReachFrom(b, residual, Linked)
    BY <1>5, <2>3, LinkedAre, ReachBack
  <2> QED BY <2>3, <2>4
<1>7. new.members # {} /\ \A a, b \in new.members : b \in ReachFrom(a, residual, Linked)
  <2>1. \A e \in {c, d} : \A a, b \in e.members : b \in ReachFrom(a, residual, Linked)
    BY <1>1 DEF Uniting, Sound
  <2> QED BY <1>1, <1>2, <1>6, <2>1
<1>8. \A e \in comps' : e.members # {}
                     /\ \A a, b \in e.members : b \in ReachFrom(a, residual', Linked')
  BY <1>3, <1>4, <1>7 DEF Uniting, Sound
<1>9. Uniting'
  BY <1>4, <1>8 DEF Uniting, Sound
<1>10. Together(x, y)' /\ \A a, b : Together(a, b) => Together(a, b)'
  BY <1>1, <1>2, <1>3 DEF Together
<1> QED BY <1>9, <1>10

-----------------------------------------------------------------------------
(* The table of pairs.                                                     *)

\* The pairs that are events, and those that have been taken.
Events == {e \in Nat \X residual \X residual :
             e[2] < e[3] /\ e[1] = cache.dist[<<e[2], e[3]>>] /\ e[1] < Inf}

Taken == Events \ collisions

\* Pairs are taken in the order of their distance; those within the buffer are together, and
\* the width of a component is the greatest distance of a pair in it that was taken.
Pairing ==
  /\ Uniting
  /\ collisions \subseteq Events
  /\ \A e \in Taken, f \in collisions : e[1] <= f[1]
  /\ \A e \in Taken : e[1] <= Bounds.buffer => Together(e[2], e[3])
  /\ \A c \in comps :
       /\ c.width \in Nat
       /\ c.width # 0 => \E a, b \in c.members : c.width = cache.dist[<<a, b>>]
       /\ \A e \in Taken : e[2] \in c.members /\ e[3] \in c.members => e[1] <= c.width

LEMMA BeginPairsPairs == IInv /\ Typed /\ BeginPairs => Pairing'
<1> SUFFICES ASSUME IInv, Typed, BeginPairs PROVE Pairing'
  OBVIOUS
<1>1. /\ UNCHANGED <<given, built>> /\ comps' = Singletons /\ ~FallsBack
      /\ collisions' = {<<cache.dist[p], p[1], p[2]>> :
                          p \in {q \in residual \X residual : q[1] < q[2] /\ cache.dist[q] < Inf}}
  BY DEF BeginPairs
<1>2. Uniting' /\ residual' = residual /\ cache' = cache
  BY <1>1, SingletonsUnite, SameLevel
<1>3. residual \subseteq Nodes /\ Valid
  BY DEF IInv, Divided, Typed
<1>4. Events' = Events
  BY <1>2 DEF Events
<1>5. collisions' = Events
  <2>1. ASSUME NEW e \in collisions' PROVE e \in Events
    <3>1. PICK p \in residual \X residual :
            p[1] < p[2] /\ cache.dist[p] < Inf /\ e = <<cache.dist[p], p[1], p[2]>>
      BY <1>1
    <3>2. PICK a \in residual, b \in residual : p = <<a, b>>
      OBVIOUS
    <3>3. cache.dist[<<a, b>>] \in Nat
      BY <1>3, DistancesAre
    <3> QED BY <3>1, <3>2, <3>3 DEF Events
  <2>2. ASSUME NEW e \in Events PROVE e \in collisions'
    <3>1. PICK d \in Nat, a \in residual, b \in residual :
            e = <<d, a, b>> /\ a < b /\ d = cache.dist[<<a, b>>] /\ d < Inf
      BY DEF Events
    <3>2. PICK p \in residual \X residual : p = <<a, b>>
      OBVIOUS
    <3>3. p[1] < p[2] /\ cache.dist[p] < Inf /\ e = <<cache.dist[p], p[1], p[2]>>
      BY <3>1, <3>2
    <3> QED BY <1>1, <3>3
  <2> QED BY <2>1, <2>2
<1>6. Taken' = {}
  BY <1>4, <1>5 DEF Taken
<1>7. \A c \in comps' : c.width = 0
  BY <1>1 DEF Singletons, Component
<1> QED BY <1>2, <1>4, <1>5, <1>6, <1>7 DEF Pairing

\* Where members reach each other within the buffer, all distances are finite.
LEMMA SoundIsConnected ==
    ASSUME AtLevel, NEW C \in SUBSET residual, Sound(C), NEW a \in C, NEW b \in C
    PROVE  cache.dist[<<a, b>>] < Inf
<1> DEFINE T == {x \in residual : cache.dist[<<a, x>>] < Inf}
<1>1. /\ Valid /\ residual \subseteq Nodes /\ Metric(cache.dist)
      /\ Bounds.buffer \in Nat /\ Bounds.buffer < Inf /\ 0 < Inf /\ Inf \in Nat
  BY BoundsAre, CacheIs DEF AtLevel, Bounds
<1>2. a \in T
  BY <1>1 DEF Metric
<1>3. ASSUME NEW x \in T, NEW y \in residual, <<x, y>> \in Linked PROVE y \in T
  <2>1. cache.dist[<<x, y>>] <= Bounds.buffer
    BY <1>3, LinkedAre
  <2>2. cache.dist[<<x, y>>] \in Nat
    BY <1>1, DistancesAre
  <2>3. cache.dist[<<x, y>>] < Inf
    BY <1>1, <2>1, <2>2
  <2> QED BY <1>1, <2>3, ConnectedOn
<1>4. b \in ReachFrom(a, residual, Linked)
  BY DEF Sound
<1> HIDE DEF T
<1>5. T \in SUBSET residual
  BY DEF T
<1>6. b \in T
  BY <1>2, <1>3, <1>4, <1>5 DEF ReachFrom
<1> QED BY <1>6 DEF T

\* The greater of two widths, and the greatest of three.
LEMMA GreaterOfTwo ==
    ASSUME NEW a \in Nat, NEW b \in Nat
    PROVE  Max({a, b}) \in {a, b} /\ a <= Max({a, b}) /\ b <= Max({a, b})
<1>1. {a, b} \in SUBSET (0 .. a + b) /\ a + b \in Nat
  OBVIOUS
<1> QED BY <1>1, GreatestNatural

LEMMA GreatestOfThree ==
    ASSUME NEW a \in Nat, NEW b \in Nat, NEW c \in Nat
    PROVE  /\ Max({a, b, c}) \in {a, b, c}
           /\ a <= Max({a, b, c}) /\ b <= Max({a, b, c}) /\ c <= Max({a, b, c})
<1>1. {a, b, c} \in SUBSET (0 .. a + b + c) /\ a + b + c \in Nat
  OBVIOUS
<1> QED BY <1>1, GreatestNatural

\* A pair is taken when no pair that is left is closer.
LEMMA TakePairPairs ==
    ASSUME IInv, Typed, Pairing, TakePair
    PROVE  Pairing'
<1>1. /\ phase = "pairs" /\ UNCHANGED <<given, built>>
  BY DEF TakePair
<1>2. PICK e \in collisions :
        /\ First(e, collisions)
        /\ collisions' = collisions \ {e}
        /\ comps' = IF ComponentOf(e[2]) = ComponentOf(e[3])
                    THEN (comps \ {ComponentOf(e[2])}) \cup
                           {Component(ComponentOf(e[2]).members, ComponentOf(e[2]).ready,
                                      Max({ComponentOf(e[2]).width, e[1]}))}
                    ELSE IF e[1] <= Bounds.buffer
                    THEN Unite(ComponentOf(e[2]), ComponentOf(e[3]), e[1], e[1]) ELSE comps
  BY DEF TakePair
<1> DEFINE c == ComponentOf(e[2])
           d == ComponentOf(e[3])
<1>3. AtLevel /\ Parts(comps, residual) /\ Covers(comps, residual)
  BY <1>1, RunsAtLevel DEF IInv, Components
<1>4. /\ e \in Events /\ e[2] \in residual /\ e[3] \in residual /\ e[1] \in Nat
      /\ e[1] = cache.dist[<<e[2], e[3]>>]
  BY DEF Pairing, Events
<1>5. /\ c \in comps /\ d \in comps /\ e[2] \in c.members /\ e[3] \in d.members
      /\ c.width \in Nat /\ d.width \in Nat
  BY <1>3, <1>4 DEF Covers, ComponentOf, Pairing
<1>6. /\ residual' = residual /\ cache' = cache /\ Bounds' = Bounds /\ Linked' = Linked
      /\ ~FallsBack' /\ Events' = Events
  BY <1>1, SameLevel DEF Pairing, Uniting, Events
<1>7. Taken' = Taken \cup {e}
  BY <1>2, <1>4, <1>6 DEF Taken
<1>8. \A f \in collisions : e[1] <= f[1]
  <2> SUFFICES ASSUME NEW f \in collisions PROVE e[1] <= f[1]
    OBVIOUS
  <2>1. Before(e, f) /\ f[1] \in Nat
    BY <1>2 DEF First, Pairing, Events
  <2> QED BY <1>4, <2>1 DEF Before
<1>9. \A f \in Taken : f[1] <= e[1] /\ f[1] \in Nat /\ f[2] \in residual /\ f[3] \in residual
  BY DEF Pairing, Taken, Events
<1>10. (collisions \subseteq Events)' /\ \A f \in Taken', h \in collisions' : f[1] <= h[1]
  <2>1. collisions' \subseteq Events'
    BY <1>2, <1>6 DEF Pairing
  <2>2. \A f \in Taken, h \in collisions : f[1] <= h[1]
    BY DEF Pairing
  <2> QED BY <1>2, <1>7, <1>8, <2>1, <2>2
<1>11. CASE c = d
  <2> DEFINE n == Component(c.members, c.ready, Max({c.width, e[1]}))
  <2>1. n.members = c.members /\ n.width = Max({c.width, e[1]})
    BY DEF Component
  <2>2. comps' = (comps \ {c}) \cup {n}
    BY <1>2, <1>11
  <2> HIDE DEF n, c, d
  <2>3. /\ n.width \in Nat /\ c.width <= n.width /\ e[1] <= n.width
        /\ n.width = c.width \/ n.width = e[1]
    BY <1>4, <1>5, <2>1, GreaterOfTwo
  <2>4. \A a, b : Together(a, b) <=> Together(a, b)'
    BY <1>5, <2>1, <2>2 DEF Together
  <2>5. Uniting'
    BY <1>5, <1>6, <2>1, <2>2 DEF Pairing, Uniting, Sound
  <2>6. \A f \in Taken' : f[1] <= Bounds'.buffer => Together(f[2], f[3])'
    <3>1. Together(e[2], e[3])
      BY <1>5, <1>11 DEF Together
    <3> QED BY <1>6, <1>7, <2>4, <3>1 DEF Pairing
  <2>7. ASSUME NEW h \in comps'
        PROVE  /\ h.width \in Nat
               /\ h.width # 0 => \E a, b \in h.members : h.width = cache'.dist[<<a, b>>]
               /\ \A f \in Taken' : f[2] \in h.members /\ f[3] \in h.members => f[1] <= h.width
    <3>1. CASE h = n
      <4>1. n.width # 0 => \E a, b \in n.members : n.width = cache.dist[<<a, b>>]
        BY <1>4, <1>5, <1>11, <2>1, <2>3 DEF Pairing
      <4>2. \A f \in Taken : f[2] \in n.members /\ f[3] \in n.members => f[1] <= n.width
        <5> SUFFICES ASSUME NEW f \in Taken, f[2] \in n.members, f[3] \in n.members
                     PROVE  f[1] <= n.width
          OBVIOUS
        <5> QED BY <1>4, <1>9, <2>3
      <4> QED BY <1>6, <1>7, <2>3, <3>1, <4>1, <4>2
    <3>2. CASE h \in comps /\ h # c
      <4>1. ~ (e[2] \in h.members)
        BY <1>3, <1>5, <3>2 DEF Parts
      <4> QED BY <1>6, <1>7, <3>2, <4>1 DEF Pairing
    <3> QED BY <2>2, <3>1, <3>2
  <2> QED BY <1>10, <2>5, <2>6, <2>7 DEF Pairing
<1>12. CASE c # d /\ e[1] <= Bounds.buffer
  <2> DEFINE n == Component(c.members \cup d.members, Max({c.ready, d.ready, e[1] \div 2}),
                            Max({c.width, d.width, e[1]}))
  <2>1. n.members = c.members \cup d.members /\ n.width = Max({c.width, d.width, e[1]})
    BY DEF Component
  <2>2. comps' = (comps \ {c, d}) \cup {n} /\ comps' = Unite(ComponentOf(e[2]), ComponentOf(e[3]), e[1], e[1])
    BY <1>2, <1>12 DEF Unite
  <2>3. <<e[2], e[3]>> \in Linked
    BY <1>3, <1>4, <1>12, LinkedAre
  <2>4. Uniting' /\ Together(e[2], e[3])' /\ \A a, b : Together(a, b) => Together(a, b)'
    BY <1>1, <1>3, <1>4, <2>2, <2>3, UniteKeepsSound DEF Pairing
  <2> HIDE DEF n, c, d
  <2>5. /\ n.width \in Nat /\ c.width <= n.width /\ d.width <= n.width /\ e[1] <= n.width
        /\ n.width = c.width \/ n.width = d.width \/ n.width = e[1]
    BY <1>4, <1>5, <2>1, GreatestOfThree
  <2>6. \A f \in Taken' : f[1] <= Bounds'.buffer => Together(f[2], f[3])'
    BY <1>6, <1>7, <2>4 DEF Pairing
  <2>7. ASSUME NEW h \in comps'
        PROVE  /\ h.width \in Nat
               /\ h.width # 0 => \E a, b \in h.members : h.width = cache'.dist[<<a, b>>]
               /\ \A f \in Taken' : f[2] \in h.members /\ f[3] \in h.members => f[1] <= h.width
    <3>1. CASE h = n
      <4>1. n.width # 0 => \E a, b \in n.members : n.width = cache.dist[<<a, b>>]
        BY <1>4, <1>5, <2>1, <2>5 DEF Pairing
      <4>2. \A f \in Taken : f[1] <= n.width
        <5> SUFFICES ASSUME NEW f \in Taken PROVE f[1] <= n.width
          OBVIOUS
        <5> QED BY <1>2, <1>4, <1>9, <2>5 DEF Pairing
      <4> QED BY <1>6, <1>7, <2>5, <3>1, <4>1, <4>2
    <3>2. CASE h \in comps /\ h # c /\ h # d
      <4>1. ~ (e[2] \in h.members)
        BY <1>3, <1>5, <3>2 DEF Parts
      <4> QED BY <1>6, <1>7, <3>2, <4>1 DEF Pairing
    <3> QED BY <2>2, <3>1, <3>2
  <2> QED BY <1>10, <2>4, <2>6, <2>7 DEF Pairing
<1>13. CASE c # d /\ ~ (e[1] <= Bounds.buffer)
  <2>1. comps' = comps
    BY <1>2, <1>13
  <2> HIDE DEF c, d
  <2>2. Uniting' /\ \A a, b : Together(a, b) <=> Together(a, b)'
    BY <1>6, <2>1 DEF Pairing, Uniting, Sound, Together
  <2>3. \A f \in Taken' : f[1] <= Bounds'.buffer => Together(f[2], f[3])'
    BY <1>6, <1>7, <1>13, <2>2 DEF Pairing
  <2>4. \A h \in comps : ~ (e[2] \in h.members /\ e[3] \in h.members)
    BY <1>3, <1>5, <1>13 DEF Parts
  <2>5. \A h \in comps' :
          /\ h.width \in Nat
          /\ h.width # 0 => \E a, b \in h.members : h.width = cache'.dist[<<a, b>>]
          /\ \A f \in Taken' : f[2] \in h.members /\ f[3] \in h.members => f[1] <= h.width
    BY <1>6, <1>7, <2>1, <2>4 DEF Pairing
  <2> QED BY <1>10, <2>2, <2>3, <2>5 DEF Pairing
<1> QED BY <1>11, <1>12, <1>13

LEMMA EndPairsCloses ==
    ASSUME IInv, Typed, Pairing, EndPairs
    PROVE  Closing'
<1>1. UNCHANGED <<given, built, comps>> /\ phase = "pairs" /\ collisions = {}
  BY DEF EndPairs
<1>2. AtLevel /\ Parts(comps, residual) /\ Covers(comps, residual) /\ residual \subseteq Nat
  BY <1>1, RunsAtLevel, GeometryAssumption DEF IInv, Components, AtLevel
<1>3. Taken = Events
  BY <1>1 DEF Taken
<1>4. \A a, b \in residual : /\ cache.dist[<<a, b>>] \in Nat
                             /\ cache.dist[<<a, b>>] = cache.dist[<<b, a>>]
                             /\ cache.dist[<<a, a>>] = 0
  BY <1>2, DistancesAre DEF AtLevel
<1>5. Bounds.buffer \in Nat /\ Bounds.buffer < Inf /\ Inf \in Nat
  BY <1>2, BoundsAre DEF AtLevel, Bounds
<1>6. \A a, b \in residual : a < b /\ cache.dist[<<a, b>>] < Inf => <<cache.dist[<<a, b>>], a, b>> \in Taken
  BY <1>3, <1>4 DEF Events
<1>7. ASSUME NEW a \in residual, NEW b \in residual, <<a, b>> \in Linked PROVE Together(a, b)
  <2>1. cache.dist[<<a, b>>] <= Bounds.buffer
    BY <1>2, <1>7, LinkedAre
  <2>2. cache.dist[<<a, b>>] < Inf /\ cache.dist[<<b, a>>] < Inf
    <3>1. PICK x \in Nat : x = cache.dist[<<a, b>>] /\ x = cache.dist[<<b, a>>]
      BY <1>4
    <3>2. x < Inf
      BY <1>5, <2>1, <3>1
    <3> QED BY <3>1, <3>2
  <2>3. CASE a < b
    <3>1. <<cache.dist[<<a, b>>], a, b>> \in Taken
      BY <1>6, <2>2, <2>3
    <3> QED BY <2>1, <3>1 DEF Pairing
  <2>4. CASE b < a
    <3>1. <<cache.dist[<<b, a>>], b, a>> \in Taken
      BY <1>6, <2>2, <2>4
    <3>2. cache.dist[<<b, a>>] <= Bounds.buffer
      BY <1>4, <2>1
    <3>3. Together(b, a)
      BY <3>1, <3>2 DEF Pairing
    <3> QED BY <3>3 DEF Together
  <2>5. CASE a = b
    BY <1>2, <2>5 DEF Together, Covers
  <2>6. a \in Nat /\ b \in Nat
    BY <1>2
  <2> QED BY <2>3, <2>4, <2>5, <2>6
<1>8. Sets(comps) = Threshold(level)
  BY <1>2, <1>7, UnitedAreThreshold DEF Pairing
<1>9. ASSUME NEW c \in comps PROVE c.width = Diameter(cache.dist, c.members)
  <2>1. c.members \in SUBSET Nodes /\ c.members \subseteq residual /\ Valid
    BY <1>2 DEF Parts, AtLevel
  <2>2. \A a, b \in c.members : cache.dist[<<a, b>>] < Inf
    BY <1>2, <2>1, SoundIsConnected DEF Pairing, Uniting
  <2>3. /\ c.width \in Nat
        /\ c.width # 0 => \E a, b \in c.members : c.width = cache.dist[<<a, b>>]
        /\ \A e \in Taken : e[2] \in c.members /\ e[3] \in c.members => e[1] <= c.width
    BY DEF Pairing
  <2>4. \A a, b \in c.members : cache.dist[<<a, b>>] <= c.width
    <3> SUFFICES ASSUME NEW a \in c.members, NEW b \in c.members
                 PROVE  cache.dist[<<a, b>>] <= c.width
      OBVIOUS
    <3>1. a \in residual /\ b \in residual /\ a \in Nat /\ b \in Nat
      BY <1>2, <2>1
    <3>2. CASE a < b
      <4>1. <<cache.dist[<<a, b>>], a, b>> \in Taken
        BY <1>6, <2>2, <3>1, <3>2
      <4> QED BY <2>3, <4>1
    <3>3. CASE b < a
      <4>1. <<cache.dist[<<b, a>>], b, a>> \in Taken
        BY <1>6, <2>2, <3>1, <3>3
      <4>2. cache.dist[<<b, a>>] <= c.width
        BY <2>3, <4>1
      <4> QED BY <1>4, <3>1, <4>2
    <3>4. CASE a = b
      BY <1>4, <2>3, <3>1, <3>4
    <3> QED BY <3>1, <3>2, <3>3, <3>4
  <2> DEFINE D == Diameter(cache.dist, c.members)
  <2>5. /\ D \in Nat
        /\ \A a, b \in c.members : cache.dist[<<a, b>>] <= D
        /\ D = 0 \/ \E a, b \in c.members : D = cache.dist[<<a, b>>]
    BY <2>1, DiameterIs
  <2> HIDE DEF D
  <2>6. D <= c.width
    <3>1. CASE D = 0
      BY <2>3, <3>1
    <3>2. CASE \E a, b \in c.members : D = cache.dist[<<a, b>>]
      BY <2>4, <3>2
    <3> QED BY <2>5, <3>1, <3>2
  <2>7. c.width <= D
    <3>1. CASE c.width = 0
      BY <2>5, <3>1
    <3>2. CASE \E a, b \in c.members : c.width = cache.dist[<<a, b>>]
      BY <2>5, <3>2
    <3> QED BY <2>3, <3>1, <3>2
  <2>8. PICK w \in Nat : w = c.width
    BY <2>3
  <2>9. w = D
    BY <2>5, <2>6, <2>7, <2>8
  <2> QED BY <2>8, <2>9 DEF D
<1>10. Sets(comps)' = Sets(comps) /\ Rule!Divisions(level)' = Rule!Divisions(level) /\ Exact'
  BY <1>1, <1>9, SameLevel DEF Sets, Exact
<1>11. Threshold(level) \in Rule!Divisions(level)
  BY LevelDivisions DEF Pairing, Uniting
<1> QED BY <1>8, <1>10, <1>11 DEF Closing

-----------------------------------------------------------------------------
(* The frontier.                                                           *)

\* Two detectors of which the clusterer knows that they belong together by distance t: they are
\* in one component, or a collision of them that is no further waits.
Known(t, a, b) ==
  \/ Together(a, b)
  \/ \E e \in collisions : e[1] <= t /\ ((e[2] = a /\ e[3] = b) \/ (e[2] = b /\ e[3] = a))

\* What will be together once the collisions that wait have been taken up to distance t.
Joined(t, a, b) ==
  \A T \in SUBSET residual :
    (a \in T /\ \A x \in T, y \in residual : Known(t, x, y) => y \in T) => b \in T

LEMMA JoinedIs ==
    ASSUME NEW t, NEW a \in residual, NEW b \in residual
    PROVE  /\ Joined(t, a, a)
           /\ Known(t, a, b) => Joined(t, a, b)
           /\ Joined(t, a, b) => Joined(t, b, a)
           /\ \A c : Joined(t, a, b) /\ Joined(t, b, c) => Joined(t, a, c)
<1>1. Joined(t, a, a) /\ (Known(t, a, b) => Joined(t, a, b))
  BY DEF Joined
<1>2. \A c : Joined(t, a, b) /\ Joined(t, b, c) => Joined(t, a, c)
  BY DEF Joined
<1>3. ASSUME Joined(t, a, b) PROVE Joined(t, b, a)
  <2> SUFFICES ASSUME NEW T \in SUBSET residual, b \in T, a \notin T,
                      \A x \in T, y \in residual : Known(t, x, y) => y \in T
               PROVE  FALSE
    BY DEF Joined
  <2>1. \A x, y : Known(t, x, y) => Known(t, y, x)
    BY DEF Known, Together
  <2>2. \A x \in residual \ T, y \in residual : Known(t, x, y) => y \in residual \ T
    BY <2>1
  <2>3. residual \ T \in SUBSET residual /\ a \in residual \ T
    OBVIOUS
  <2>4. b \in residual \ T
    BY <1>3, <2>2, <2>3 DEF Joined
  <2> QED BY <2>4
<1> QED BY <1>1, <1>2, <1>3

LEMMA JoinedStays ==
    ASSUME residual' = residual, \A t, x, y : Known(t, x, y) => Known(t, x, y)'
    PROVE  \A t, a, b : Joined(t, a, b) => Joined(t, a, b)'
<1> SUFFICES ASSUME NEW t, NEW a, NEW b, Joined(t, a, b), NEW T \in SUBSET residual, a \in T,
                    \A x \in T, y \in residual : Known(t, x, y)' => y \in T
             PROVE  b \in T
  BY DEF Joined
<1>1. \A x \in T, y \in residual : Known(t, x, y) => y \in T
  OBVIOUS
<1> QED BY <1>1 DEF Joined

\* What is joined by some distance is joined by any that is longer.
LEMMA JoinedLater ==
    ASSUME Growing, NEW t \in Nat, NEW u \in Nat, t <= u, NEW a, NEW b, Joined(t, a, b)
    PROVE  Joined(u, a, b)
<1>1. \A e \in collisions : e[1] \in Nat
  <2>1. \A e \in collisions : e[1] \in 0 .. Inf
    BY DEF Growing
  <2> QED BY <2>1, GeometryAssumption
<1>2. \A x, y : Known(t, x, y) => Known(u, x, y)
  BY <1>1 DEF Known
<1> QED BY <1>2 DEF Joined

\* A node that was reached and from which the frontier has gone on.
Passed(v) == owner[v] # Nobody /\ <<reach[v], v, owner[v]>> \notin frontier

\* A node is at most as far from its owner as is noted; an active detector is its own or has
\* met its owner; neighbours of a node that was passed are reached no later than over it, and
\* where two passed nodes are within the buffer, their owners belong together by the length of
\* the way over the two.
Flooding ==
  /\ Uniting
  /\ \A v \in Nodes : owner[v] # Nobody =>
       cache.dist[<<owner[v], v>>] <= reach[v] /\ reach[v] <= Bounds.buffer
  /\ \A a \in residual : owner[a] # Nobody /\ reach[a] = 0 /\ Joined(0, a, owner[a])
  /\ \A e \in collisions : cache.dist[<<e[2], e[3]>>] <= e[1] /\ e[1] <= Bounds.buffer
  /\ \A f \in frontier : f[1] <= Bounds.buffer
  /\ \A v \in Nodes : \A u \in Neighbors(v) : Passed(v) =>
       /\ reach[v] + cache.edge[{u, v}] <= Bounds.buffer =>
            owner[u] # Nobody /\ reach[u] <= reach[v] + cache.edge[{u, v}]
       /\ Passed(u) /\ reach[v] + cache.edge[{u, v}] + reach[u] <= Bounds.buffer =>
            Joined(reach[v] + cache.edge[{u, v}] + reach[u], owner[v], owner[u])

LEMMA BeginGrowthFloods == IInv /\ Typed /\ BeginGrowth => Flooding'
<1> SUFFICES ASSUME IInv, Typed, BeginGrowth PROVE Flooding'
  OBVIOUS
<1>1. /\ UNCHANGED <<given, built>> /\ ~FallsBack /\ comps' = Singletons /\ Running
      /\ owner' = [v \in Nodes |-> IF v \in residual THEN v ELSE Nobody]
      /\ reach' = [v \in Nodes |-> IF v \in residual THEN 0 ELSE Inf]
      /\ frontier' = {<<0, a, a>> : a \in residual}
      /\ collisions' = {}
  BY DEF BeginGrowth
<1>2. /\ Uniting' /\ residual' = residual /\ cache' = cache /\ Bounds' = Bounds
  BY <1>1, SingletonsUnite, SameLevel
<1>3. AtLevel /\ Bounds.buffer \in Nat
  BY <1>1, RunsAtLevel, BoundsAre DEF AtLevel, Bounds
<1>4. residual \subseteq Nodes /\ \A a \in residual : a # Nobody
  BY <1>3, GeometryAssumption DEF AtLevel, Nobody
<1>5. \A v \in Nodes : owner'[v] # Nobody => v \in residual /\ owner'[v] = v /\ reach'[v] = 0
  BY <1>1
<1>6. \A a \in residual : owner'[a] = a /\ reach'[a] = 0 /\ cache.dist[<<a, a>>] = 0
  BY <1>1, <1>3, <1>4, DistancesAre DEF AtLevel
<1>7. \A v \in Nodes : ~Passed(v)'
  <2> SUFFICES ASSUME NEW v \in Nodes, owner'[v] # Nobody
               PROVE  <<reach'[v], v, owner'[v]>> \in frontier'
    BY DEF Passed
  <2> QED BY <1>1, <1>5
<1>8. \A a \in residual : Joined(0, a, a)'
  BY <1>2 DEF Joined
<1>9. \A v \in Nodes : owner'[v] # Nobody =>
        cache'.dist[<<owner'[v], v>>] <= reach'[v] /\ reach'[v] <= Bounds'.buffer
  BY <1>2, <1>3, <1>5, <1>6
<1>10. \A a \in residual' : owner'[a] # Nobody /\ reach'[a] = 0 /\ Joined(0, a, owner[a])'
  <2> SUFFICES ASSUME NEW a \in residual
               PROVE  owner'[a] # Nobody /\ reach'[a] = 0 /\ Joined(0, a, owner[a])'
    BY <1>2
  <2>1. owner'[a] = a
    BY <1>6
  <2>2. Joined(0, a, owner[a])'
    BY <1>8, <2>1 DEF Joined
  <2> QED BY <1>4, <1>6, <2>1, <2>2
<1>11. \A f \in frontier' : f[1] <= Bounds'.buffer
  BY <1>1, <1>2, <1>3
<1> QED BY <1>1, <1>2, <1>7, <1>9, <1>10, <1>11 DEF Flooding

\* A collision that is taken puts its two components together.
LEMMA TakeCollisionFloods ==
    ASSUME IInv, Typed, Flooding, TakeCollision
    PROVE  Flooding'
<1>1. /\ phase = "grow" /\ UNCHANGED <<given, built, reach, owner, frontier>>
  BY DEF TakeCollision
<1>2. PICK e \in collisions :
        /\ collisions' = collisions \ {e}
        /\ comps' = IF ComponentOf(e[2]) = ComponentOf(e[3]) THEN comps
                    ELSE Unite(ComponentOf(e[2]), ComponentOf(e[3]), e[1], e[1])
  BY DEF TakeCollision
<1>3. AtLevel /\ Parts(comps, residual) /\ Covers(comps, residual)
  BY <1>1, RunsAtLevel DEF IInv, Components
<1>4. e[2] \in residual /\ e[3] \in residual /\ <<e[2], e[3]>> \in Linked
  <2>1. e[2] \in residual /\ e[3] \in residual
    BY <1>1 DEF IInv, Grown, Ends
  <2>2. PICK i \in Nat : i = e[1]
    <3>1. e[1] \in 0 .. Inf
      BY DEF Typed, Growing
    <3> QED BY <3>1, GeometryAssumption
  <2>3. Bounds.buffer \in Nat /\ cache.dist[<<e[2], e[3]>>] \in Nat
    BY <1>3, <2>1, BoundsAre, DistancesAre DEF AtLevel, Bounds
  <2>4. cache.dist[<<e[2], e[3]>>] <= i /\ i <= Bounds.buffer
    BY <2>2 DEF Flooding
  <2>5. cache.dist[<<e[2], e[3]>>] <= Bounds.buffer
    BY <2>3, <2>4
  <2> QED BY <1>3, <2>1, <2>5, LinkedAre
<1>5. /\ residual' = residual /\ cache' = cache /\ Bounds' = Bounds /\ Linked' = Linked
      /\ ~FallsBack'
  BY <1>1, SameLevel DEF Flooding, Uniting
<1>6. /\ Uniting' /\ Together(e[2], e[3])' /\ \A a, b : Together(a, b) => Together(a, b)'
  <2>1. CASE comps' = comps /\ ComponentOf(e[2]) = ComponentOf(e[3])
    <3>1. Together(e[2], e[3])
      BY <1>3, <1>4, <2>1 DEF Together, Covers, ComponentOf
    <3> QED BY <1>5, <2>1, <3>1 DEF Flooding, Uniting, Sound, Together
  <2>2. CASE comps' = Unite(ComponentOf(e[2]), ComponentOf(e[3]), e[1], e[1])
    BY <1>1, <1>3, <1>4, <2>2, UniteKeepsSound DEF Flooding
  <2> QED BY <1>2, <2>1, <2>2
<1>7. \A t, x, y : Known(t, x, y) => Known(t, x, y)'
  BY <1>2, <1>6 DEF Known, Together
<1>8. \A t, x, y : Joined(t, x, y) => Joined(t, x, y)'
  BY <1>5, <1>7, JoinedStays
<1>9. \A v : Passed(v) <=> Passed(v)'
  BY <1>1 DEF Passed
<1>10. \A v : Neighbors(v)' = Neighbors(v)
  BY <1>5 DEF Neighbors
<1>11. \A v \in Nodes : owner'[v] # Nobody =>
         cache'.dist[<<owner'[v], v>>] <= reach'[v] /\ reach'[v] <= Bounds'.buffer
  BY <1>1, <1>5 DEF Flooding
<1>12. \A a \in residual' : owner'[a] # Nobody /\ reach'[a] = 0 /\ Joined(0, a, owner[a])'
  <2> SUFFICES ASSUME NEW a \in residual
               PROVE  owner'[a] # Nobody /\ reach'[a] = 0 /\ Joined(0, a, owner[a])'
    BY <1>5
  <2>1. owner[a] # Nobody /\ reach[a] = 0 /\ Joined(0, a, owner[a])
    BY DEF Flooding
  <2>2. PICK o : o = owner[a]
    OBVIOUS
  <2>3. Joined(0, a, o)'
    BY <1>8, <2>1, <2>2
  <2> QED BY <1>1, <2>1, <2>2, <2>3
<1>13. /\ \A f \in collisions' : cache'.dist[<<f[2], f[3]>>] <= f[1] /\ f[1] <= Bounds'.buffer
       /\ \A f \in frontier' : f[1] <= Bounds'.buffer
  BY <1>1, <1>2, <1>5 DEF Flooding
<1>14. ASSUME NEW v \in Nodes, NEW u \in Neighbors(v), Passed(v)
       PROVE  /\ reach'[v] + cache'.edge[{u, v}] <= Bounds'.buffer =>
                   owner'[u] # Nobody /\ reach'[u] <= reach'[v] + cache'.edge[{u, v}]
              /\ Passed(u) /\ reach'[v] + cache'.edge[{u, v}] + reach'[u] <= Bounds'.buffer =>
                   Joined(reach[v] + cache.edge[{u, v}] + reach[u], owner[v], owner[u])'
  <2>1. PICK o, p, t : o = owner[v] /\ p = owner[u] /\ t = reach[v] + cache.edge[{u, v}] + reach[u]
    OBVIOUS
  <2>2. Joined(t, o, p) => Joined(t, o, p)'
    BY <1>8
  <2>3. /\ reach[v] + cache.edge[{u, v}] <= Bounds.buffer =>
             owner[u] # Nobody /\ reach[u] <= reach[v] + cache.edge[{u, v}]
        /\ Passed(u) /\ t <= Bounds.buffer => Joined(t, o, p)
    BY <1>14, <2>1 DEF Flooding
  <2>4. Joined(reach[v] + cache.edge[{u, v}] + reach[u], owner[v], owner[u])' <=> Joined(t, o, p)'
    BY <1>1, <1>5, <2>1
  <2> QED BY <1>1, <1>5, <2>1, <2>2, <2>3, <2>4
<1> QED BY <1>6, <1>9, <1>10, <1>11, <1>12, <1>13, <1>14 DEF Flooding

\* The distances of neighbours differ by their edge at most.
LEMMA EdgeExtends ==
    ASSUME Valid, NEW a \in Nodes, NEW v \in Nodes, NEW u \in Neighbors(v)
    PROVE  /\ u \in Nodes /\ v \in Neighbors(u) /\ cache.edge[{u, v}] = cache.edge[{v, u}]
           /\ cache.edge[{u, v}] \in Nat
           /\ cache.dist[<<a, u>>] <= cache.dist[<<a, v>>] + cache.edge[{u, v}]
<1>1. PICK g \in Graphs :
        /\ IsGraph(g) /\ cache.edge = g.edge
        /\ \A x, y \in Nodes : cache.dist[<<x, y>>] = Shortest(g, x, y)
  BY CacheGraph
<1>2. {u, v} = {v, u} /\ u \in Nodes /\ {u, v} \in DOMAIN g.edge
  BY <1>1 DEF Neighbors
<1>3. v \in Neighbors(u) /\ v \in Adjacent(g, u)
  BY <1>1, <1>2 DEF Neighbors, Adjacent
<1>4. Weight(g, v, u) = cache.edge[{u, v}] /\ cache.edge[{u, v}] \in Nat
  BY <1>1, <1>2 DEF Weight, IsGraph
<1>5. Shortest(g, a, u) <= Shortest(g, a, v) + Weight(g, v, u)
  <2>1. u \in Nodes /\ v \in Adjacent(g, u)
    BY <1>2, <1>3
  <2> QED BY <1>1, <2>1, ShortestExtends
<1> QED BY <1>1, <1>2, <1>3, <1>4, <1>5

\* The ends of a collision, in the order of their indices.
LEMMA OrderedPair ==
    ASSUME NEW a \in Nat, NEW b \in Nat
    PROVE  \/ Min({a, b}) = a /\ Max({a, b}) = b
           \/ Min({a, b}) = b /\ Max({a, b}) = a
<1>1. Max({a, b}) \in {a, b} /\ a <= Max({a, b}) /\ b <= Max({a, b})
  BY GreaterOfTwo
<1>2. Min({a, b}) \in {a, b} /\ \A y \in {a, b} : Min({a, b}) <= y
  <2>1. {a, b} \in SUBSET Nat
    OBVIOUS
  <2> QED BY <2>1, LeastNatural
<1> QED BY <1>1, <1>2

\* What one turn of the loop does: v, reached from s at distance d, takes the neighbours that
\* it improves.
Takes(v, s, d, taken) ==
  /\ v \notin taken
  /\ \A u \in taken :
       /\ reach'[u] = d + cache.edge[{u, v}] /\ owner'[u] = s
       /\ d + cache.edge[{u, v}] <= Bounds.buffer
       /\ \/ owner[u] = Nobody
          \/ d + cache.edge[{u, v}] < reach[u]
          \/ d + cache.edge[{u, v}] = reach[u] /\ s < owner[u]
  /\ \A u \in Nodes \ taken : reach'[u] = reach[u] /\ owner'[u] = owner[u]
  /\ \A u \in Neighbors(v) \ taken :
       d + cache.edge[{u, v}] <= Bounds.buffer =>
         owner[u] # Nobody /\ reach[u] <= d + cache.edge[{u, v}]
  /\ \A x \in Nodes : Passed(x)' => x \notin taken /\ (x = v \/ Passed(x))
  /\ \A f \in frontier' : f \in frontier \/ (d <= f[1] /\ f[1] <= Bounds.buffer)

LEMMA SpreadIs ==
    ASSUME IInv, Typed, Flooding, phase = "grow", UNCHANGED <<given, built, comps>>,
           NEW v \in Nodes, NEW s \in Nodes, NEW d \in 0 .. Inf,
           s = owner[v], d = reach[v], Spread(d, v, s)
    PROVE  \E taken \in SUBSET Neighbors(v) : Takes(v, s, d, taken)
<1> DEFINE Step(u) == d + cache.edge[{u, v}]
           taken == {u \in Neighbors(v) : Improves(Step(u), s, u)}
<1>1. /\ reach' = [u \in Nodes |-> IF u \in taken THEN Step(u) ELSE reach[u]]
      /\ owner' = [u \in Nodes |-> IF u \in taken THEN s ELSE owner[u]]
      /\ frontier' = (frontier \ {<<d, v, s>>}) \cup {<<Step(u), u, s>> : u \in taken}
  BY DEF Spread
<1>2. \A u \in Neighbors(v) : /\ u \in Nodes /\ cache.edge[{u, v}] \in Nat
                              /\ reach[u] \in Nat /\ Step(u) \in Nat
  <2> SUFFICES ASSUME NEW u \in Neighbors(v)
               PROVE  /\ u \in Nodes /\ cache.edge[{u, v}] \in Nat
                      /\ reach[u] \in Nat /\ Step(u) \in Nat
    OBVIOUS
  <2>1. u \in Nodes /\ cache.edge[{u, v}] \in Nat
    BY EdgeExtends DEF Typed
  <2>2. reach[u] \in 0 .. Inf
    BY <2>1 DEF Typed, Growing
  <2>3. reach[u] \in Nat /\ d \in Nat
    BY <2>2, GeometryAssumption
  <2> QED BY <2>1, <2>3
<1>3. s # Nobody /\ s \in Nat /\ d \in Nat /\ Bounds.buffer \in Nat
  <2>1. s # Nobody /\ s \in Nat /\ d \in Nat
    BY GeometryAssumption DEF Nobody
  <2>2. Valid /\ level \in 1 .. MaxLevel
    BY RunsAtLevel DEF AtLevel
  <2>3. Bounds.buffer \in Nat
    BY <2>2, BoundsAre DEF Bounds
  <2> QED BY <2>1, <2>3
<1>4. \A u \in Neighbors(v) :
        u \in taken <=> /\ Step(u) <= Bounds.buffer
                        /\ \/ owner[u] = Nobody
                           \/ Step(u) < reach[u]
                           \/ Step(u) = reach[u] /\ s < owner[u]
  BY DEF Improves
<1>5. v \notin taken
  <2> SUFFICES ASSUME v \in taken PROVE FALSE
    OBVIOUS
  <2>1. v \in Neighbors(v)
    OBVIOUS
  <2>2. Step(v) < d \/ (Step(v) = d /\ s < s)
    BY <1>3, <1>4, <2>1
  <2>3. PICK w \in Nat : w = cache.edge[{v, v}]
    BY <1>2, <2>1
  <2>4. d + w < d \/ (d + w = d /\ s < s)
    BY <2>2, <2>3
  <2> QED BY <1>3, <2>4
<1>6. \A u \in taken : reach'[u] = Step(u) /\ owner'[u] = s
  BY <1>1, <1>2
<1>7. \A u \in Nodes \ taken : reach'[u] = reach[u] /\ owner'[u] = owner[u]
  BY <1>1
<1>8. ASSUME NEW u \in Neighbors(v), u \notin taken, Step(u) <= Bounds.buffer
      PROVE  owner[u] # Nobody /\ reach[u] <= Step(u)
  <2>1. owner[u] # Nobody /\ ~ (Step(u) < reach[u])
    BY <1>4, <1>8
  <2>2. Step(u) \in Nat /\ reach[u] \in Nat
    BY <1>2
  <2> QED BY <2>1, <2>2
<1>9. ASSUME NEW x \in Nodes, Passed(x)' PROVE x \notin taken /\ (x = v \/ Passed(x))
  <2>1. owner'[x] # Nobody /\ <<reach'[x], x, owner'[x]>> \notin frontier'
    BY <1>9 DEF Passed
  <2>2. x \notin taken
    BY <1>1, <1>6, <2>1
  <2>3. CASE x # v
    <3>1. <<reach[x], x, owner[x]>> \notin frontier'
      BY <1>7, <2>1, <2>2
    <3>2. <<reach[x], x, owner[x]>> # <<d, v, s>>
      BY <2>3
    <3>3. <<reach[x], x, owner[x]>> \notin frontier
      BY <1>1, <3>1, <3>2
    <3> QED BY <1>7, <2>1, <2>2, <3>3 DEF Passed
  <2> QED BY <2>2, <2>3
<1>10. taken \in SUBSET Neighbors(v)
  OBVIOUS
<1>11. \A u \in taken : /\ Step(u) <= Bounds.buffer
                        /\ \/ owner[u] = Nobody
                           \/ Step(u) < reach[u]
                           \/ Step(u) = reach[u] /\ s < owner[u]
  BY <1>4
<1>12. \A f \in frontier' : f \in frontier \/ (d <= f[1] /\ f[1] <= Bounds.buffer)
  <2>1. ASSUME NEW u \in taken PROVE d <= Step(u) /\ Step(u) <= Bounds.buffer
    <3>1. PICK w \in Nat : w = cache.edge[{u, v}]
      BY <1>2
    <3>2. d <= d + w
      BY <1>3
    <3> QED BY <1>11, <3>1, <3>2
  <2> HIDE DEF taken, Step
  <2> QED BY <1>1, <2>1
<1> HIDE DEF taken
<1>13. Takes(v, s, d, taken)
  BY <1>5, <1>6, <1>7, <1>8, <1>9, <1>11, <1>12 DEF Takes
<1> QED BY <1>10, <1>13

\* Two regions that meet within the buffer are known to belong together.
LEMMA SpreadMeets ==
    ASSUME IInv, Typed, Flooding, phase = "grow", UNCHANGED <<given, built, comps>>,
           NEW v \in Nodes, NEW s \in Nodes, NEW d \in 0 .. Inf,
           s = owner[v], d = reach[v], Spread(d, v, s)
    PROVE  /\ \A t, x, y : Known(t, x, y) => Known(t, x, y)'
           /\ \A u \in Neighbors(v), o \in Nodes \ {s}, t \in Nat :
                /\ o = owner[u]
                /\ t = d + cache.edge[{u, v}] + reach[u] /\ t <= Bounds.buffer
                => Known(t, s, o)' /\ Known(t, o, s)'
           /\ \A e \in collisions' : /\ cache.dist[<<e[2], e[3]>>] <= e[1] /\ e[1] <= Bounds.buffer
                                     /\ e \in collisions \/ d <= e[1]
<1> DEFINE W(u) == Witness(d, v, s, u)
           met == {u \in Neighbors(v) : owner[u] \notin {Nobody, s}}
<1>1. collisions' = collisions \cup {w \in {W(u) : u \in met} : w[1] <= Bounds.buffer}
  BY DEF Spread
<1>2. comps' = comps
  OBVIOUS
<1>3. \A u \in Neighbors(v) : u \in Nodes /\ cache.edge[{u, v}] \in Nat /\ reach[u] \in Nat
  <2> SUFFICES ASSUME NEW u \in Neighbors(v)
               PROVE  u \in Nodes /\ cache.edge[{u, v}] \in Nat /\ reach[u] \in Nat
    OBVIOUS
  <2>1. u \in Nodes /\ cache.edge[{u, v}] \in Nat
    BY EdgeExtends DEF Typed
  <2>2. reach[u] \in 0 .. Inf
    BY <2>1 DEF Typed, Growing
  <2> QED BY <2>1, <2>2, GeometryAssumption
<1>4. ASSUME NEW u \in met
      PROVE  /\ W(u)[1] = d + cache.edge[{u, v}] + reach[u]
             /\ (W(u)[2] = s /\ W(u)[3] = owner[u]) \/ (W(u)[2] = owner[u] /\ W(u)[3] = s)
             /\ owner[u] \in Nodes
  <2>1. owner[u] \in Nodes /\ owner[u] \in Nat /\ s \in Nat
    BY <1>3, GeometryAssumption DEF Typed, Growing
  <2> QED BY <2>1, OrderedPair DEF Witness
<1>5. \A t, x, y : Known(t, x, y) => Known(t, x, y)'
  <2> HIDE DEF W, met
  <2> QED BY <1>1, <1>2 DEF Known, Together
<1>6. ASSUME NEW u \in Neighbors(v), NEW o \in Nodes \ {s}, NEW t \in Nat, o = owner[u],
             t = d + cache.edge[{u, v}] + reach[u], t <= Bounds.buffer
      PROVE  Known(t, s, o)' /\ Known(t, o, s)'
  <2>1. u \in met
    BY <1>6, GeometryAssumption DEF Nobody
  <2>2. W(u) \in collisions'
    <3>1. W(u)[1] <= Bounds.buffer
      BY <1>4, <1>6, <2>1
    <3> HIDE DEF W, met
    <3> QED BY <1>1, <2>1, <3>1
  <2>4. W(u)[1] <= t /\ ((W(u)[2] = s /\ W(u)[3] = o) \/ (W(u)[2] = o /\ W(u)[3] = s))
    BY <1>4, <1>6, <2>1
  <2>5. \E e \in collisions' : e[1] <= t /\ ((e[2] = s /\ e[3] = o) \/ (e[2] = o /\ e[3] = s))
    <3> HIDE DEF W
    <3> QED BY <2>2, <2>4
  <2> QED BY <2>5 DEF Known
<1>7. ASSUME NEW e \in collisions'
      PROVE  /\ cache.dist[<<e[2], e[3]>>] <= e[1] /\ e[1] <= Bounds.buffer
             /\ e \in collisions \/ d <= e[1]
  <2>1. CASE e \in collisions
    BY <2>1 DEF Flooding
  <2>2. CASE \E u \in met : e = W(u) /\ W(u)[1] <= Bounds.buffer
    <3>1. PICK u \in met : e = W(u) /\ W(u)[1] <= Bounds.buffer
      BY <2>2
    <3>2. PICK o \in Nodes : o = owner[u]
      BY <1>4
    <3>3. u \in Nodes /\ u \in Neighbors(v) /\ Valid
      BY <1>3 DEF Typed
    <3>4. /\ cache.dist[<<s, v>>] <= d /\ cache.dist[<<o, u>>] <= reach[u]
      <4>1. owner[v] # Nobody /\ owner[u] # Nobody
        BY <3>2, GeometryAssumption DEF Nobody
      <4> QED BY <3>2, <3>3, <4>1 DEF Flooding
    <3>5. cache.dist[<<s, u>>] <= cache.dist[<<s, v>>] + cache.edge[{u, v}]
      BY <3>3, EdgeExtends
    <3>6. cache.dist[<<s, o>>] <= cache.dist[<<s, u>>] + cache.dist[<<u, o>>]
      BY <3>3, DistancesAre
    <3>7. PICK i \in Nat, j \in Nat, k \in Nat, l \in Nat, w \in Nat, r \in Nat :
            /\ i = cache.dist[<<s, v>>] /\ j = cache.dist[<<s, u>>] /\ k = cache.dist[<<s, o>>]
            /\ l = cache.dist[<<o, u>>] /\ w = cache.edge[{u, v}] /\ r = reach[u]
      BY <1>3, <3>3, DistancesAre
    <3>8. cache.dist[<<u, o>>] = l
      BY <3>3, <3>7, DistancesAre
    <3>9. k <= j + l /\ j <= i + w /\ i <= d /\ l <= r
      BY <3>4, <3>5, <3>6, <3>7, <3>8
    <3>10. e[1] = d + w + r /\ e[1] <= Bounds.buffer
      BY <1>4, <3>1, <3>7
    <3>11. d \in Nat /\ Bounds.buffer \in Nat
      BY GeometryAssumption, RunsAtLevel, BoundsAre DEF AtLevel, Bounds
    <3>12. k <= e[1] /\ d <= e[1]
      BY <3>9, <3>10, <3>11
    <3>13. cache.dist[<<s, o>>] <= e[1] /\ cache.dist[<<o, s>>] <= e[1]
      BY <3>3, <3>7, <3>12, DistancesAre
    <3> QED BY <1>4, <3>1, <3>2, <3>10, <3>12, <3>13
  <2>3. e \in collisions \/ \E u \in met : e = W(u) /\ W(u)[1] <= Bounds.buffer
    <3> HIDE DEF W, met
    <3> QED BY <1>1
  <2> QED BY <2>1, <2>2, <2>3
<1>8. \A u \in Neighbors(v), o \in Nodes \ {s}, t \in Nat :
        /\ o = owner[u]
        /\ t = d + cache.edge[{u, v}] + reach[u] /\ t <= Bounds.buffer
        => Known(t, s, o)' /\ Known(t, o, s)'
  BY <1>6
<1> QED BY <1>5, <1>7, <1>8

\* A turn of the loop keeps what the frontier knows.
LEMMA SpreadFloods ==
    ASSUME IInv, Typed, Flooding, phase = "grow", UNCHANGED <<given, built, comps>>,
           NEW v \in Nodes, NEW s \in Nodes, NEW d \in 0 .. Inf,
           s = owner[v], d = reach[v], Spread(d, v, s)
    PROVE  Flooding'
<1>0. PICK taken \in SUBSET Neighbors(v) : Takes(v, s, d, taken)
  BY SpreadIs
<1>1. /\ v \notin taken
      /\ \A u \in taken :
           /\ reach'[u] = d + cache.edge[{u, v}] /\ owner'[u] = s
           /\ d + cache.edge[{u, v}] <= Bounds.buffer
           /\ \/ owner[u] = Nobody
              \/ d + cache.edge[{u, v}] < reach[u]
              \/ d + cache.edge[{u, v}] = reach[u] /\ s < owner[u]
      /\ \A u \in Nodes \ taken : reach'[u] = reach[u] /\ owner'[u] = owner[u]
      /\ \A u \in Neighbors(v) \ taken :
           d + cache.edge[{u, v}] <= Bounds.buffer =>
             owner[u] # Nobody /\ reach[u] <= d + cache.edge[{u, v}]
      /\ \A x \in Nodes : Passed(x)' => x \notin taken /\ (x = v \/ Passed(x))
      /\ \A f \in frontier' : f \in frontier \/ (d <= f[1] /\ f[1] <= Bounds.buffer)
  BY <1>0 DEF Takes
<1>2. /\ \A t, x, y : Known(t, x, y) => Known(t, x, y)'
      /\ \A u \in Neighbors(v), o \in Nodes \ {s}, t \in Nat :
           /\ o = owner[u]
           /\ t = d + cache.edge[{u, v}] + reach[u] /\ t <= Bounds.buffer
           => Known(t, s, o)' /\ Known(t, o, s)'
      /\ \A e \in collisions' : cache.dist[<<e[2], e[3]>>] <= e[1] /\ e[1] <= Bounds.buffer
  BY SpreadMeets
<1>3. /\ residual' = residual /\ cache' = cache /\ Bounds' = Bounds /\ Linked' = Linked
      /\ ~FallsBack' /\ comps' = comps
  BY SameLevel DEF Flooding, Uniting
<1>4. /\ Valid /\ residual \subseteq Nodes /\ Bounds.buffer \in Nat /\ d \in Nat
      /\ \A x \in Nodes : x # Nobody
  BY RunsAtLevel, BoundsAre, GeometryAssumption DEF AtLevel, Bounds, Nobody
<1>5. \A x \in Nodes : reach[x] \in Nat /\ owner[x] \in residual \cup {Nobody}
  <2>1. \A x \in Nodes : reach[x] \in 0 .. Inf
    BY DEF Typed, Growing
  <2> QED BY <2>1, GeometryAssumption DEF IInv, Grown
<1>6. \A x \in Nodes : \A u \in Neighbors(x) :
        /\ u \in Nodes /\ x \in Neighbors(u) /\ cache.edge[{u, x}] = cache.edge[{x, u}]
        /\ cache.edge[{u, x}] \in Nat
  BY <1>4, EdgeExtends
<1>7. \A t, x, y : Joined(t, x, y) => Joined(t, x, y)'
  BY <1>2, <1>3, JoinedStays
<1>8. ASSUME NEW t, NEW x \in residual, NEW y \in residual
      PROVE  /\ Joined(t, x, x)'
             /\ Known(t, x, y)' => Joined(t, x, y)'
             /\ \A z : Joined(t, x, y)' /\ Joined(t, y, z)' => Joined(t, x, z)'
  BY <1>3 DEF Joined
<1>9. \A x \in Nodes : owner[x] # Nobody => owner'[x] # Nobody /\ reach'[x] <= reach[x]
  <2> SUFFICES ASSUME NEW x \in Nodes, owner[x] # Nobody
               PROVE  owner'[x] # Nobody /\ reach'[x] <= reach[x]
    OBVIOUS
  <2>1. CASE x \in taken
    <3>1. PICK w \in Nat : w = cache.edge[{x, v}]
      BY <1>6, <2>1
    <3>2. reach'[x] = d + w /\ owner'[x] = s /\ (d + w < reach[x] \/ d + w = reach[x])
      BY <1>1, <2>1, <3>1
    <3> QED BY <1>4, <1>5, <3>2
  <2>2. CASE x \notin taken
    BY <1>1, <1>5, <2>2
  <2> QED BY <2>1, <2>2
<1>10. s \in residual /\ cache.dist[<<s, v>>] <= d
  BY <1>4, <1>5 DEF Flooding
<1>11. Uniting'
  BY <1>3 DEF Flooding, Uniting, Sound
<1>12. ASSUME NEW x \in Nodes, owner'[x] # Nobody
       PROVE  cache'.dist[<<owner'[x], x>>] <= reach'[x] /\ reach'[x] <= Bounds'.buffer
  <2>1. CASE x \in taken
    <3>1. PICK w \in Nat : w = cache.edge[{x, v}]
      BY <1>6, <2>1
    <3>2. cache.dist[<<s, x>>] <= cache.dist[<<s, v>>] + w
      BY <1>4, <2>1, <3>1, EdgeExtends
    <3>3. cache.dist[<<s, x>>] \in Nat /\ cache.dist[<<s, v>>] \in Nat
      BY <1>4, DistancesAre
    <3>4. cache.dist[<<s, x>>] <= d + w
      BY <1>4, <1>10, <3>2, <3>3
    <3> QED BY <1>1, <1>3, <2>1, <3>1, <3>4
  <2>2. CASE x \notin taken
    BY <1>1, <1>3, <1>12, <2>2 DEF Flooding
  <2> QED BY <2>1, <2>2
<1>13. ASSUME NEW a \in residual
       PROVE  owner'[a] # Nobody /\ reach'[a] = 0 /\ Joined(0, a, owner[a])'
  <2>1. owner[a] # Nobody /\ reach[a] = 0 /\ Joined(0, a, owner[a]) /\ a \in Nodes
    BY <1>4 DEF Flooding
  <2>2. PICK o \in residual : o = owner[a]
    BY <1>5, <2>1
  <2>3. Joined(0, a, o)'
    BY <1>7, <2>1, <2>2
  <2>4. CASE a \notin taken
    <3>1. owner'[a] = o /\ reach'[a] = 0
      BY <1>1, <2>1, <2>2, <2>4
    <3>2. Joined(0, a, owner[a])'
      BY <2>3, <3>1
    <3> QED BY <2>1, <2>2, <3>1, <3>2
  <2>5. CASE a \in taken
    <3>1. PICK w \in Nat : w = cache.edge[{a, v}]
      BY <1>6, <2>5
    <3>2. /\ reach'[a] = d + w /\ owner'[a] = s
          /\ d + w < 0 \/ (d + w = 0 /\ s < o)
      BY <1>1, <2>1, <2>2, <2>5, <3>1
    <3>3. d + w = 0 /\ s < o /\ s \in Nat
      <4>1. d \in Nat /\ s \in Nat
        BY <1>4, <1>10, GeometryAssumption
      <4> QED BY <3>2, <4>1
    <3>4. o # s
      <4>1. o \in Nat /\ s \in Nat
        BY <1>4, <1>10, GeometryAssumption
      <4> QED BY <3>3, <4>1
    <3>5. 0 = d + cache.edge[{a, v}] + reach[a] /\ 0 <= Bounds.buffer
      <4>1. 0 = d + w + 0 /\ 0 <= Bounds.buffer
        BY <1>4, <3>1, <3>3
      <4> QED BY <2>1, <3>1, <4>1
    <3>6. Known(0, o, s)'
      BY <1>2, <1>4, <2>2, <2>5, <3>4, <3>5
    <3>7. Joined(0, a, s)'
      BY <1>8, <1>10, <2>3, <3>6
    <3>8. Joined(0, a, owner[a])'
      BY <3>2, <3>7
    <3> QED BY <1>4, <3>2, <3>3, <3>8
  <2> QED BY <2>4, <2>5
<1>14. /\ \A e \in collisions' : cache'.dist[<<e[2], e[3]>>] <= e[1] /\ e[1] <= Bounds'.buffer
       /\ \A f \in frontier' : f[1] <= Bounds'.buffer
  BY <1>1, <1>2, <1>3 DEF Flooding
<1>15. ASSUME NEW x \in Nodes, NEW y \in Neighbors(x), Passed(x)',
              reach'[x] + cache'.edge[{y, x}] <= Bounds'.buffer
       PROVE  owner'[y] # Nobody /\ reach'[y] <= reach'[x] + cache'.edge[{y, x}]
  <2>1. x \notin taken /\ reach'[x] = reach[x] /\ y \in Nodes
    BY <1>1, <1>6, <1>15
  <2>2. PICK w \in Nat : w = cache.edge[{y, x}]
    BY <1>6
  <2>3. reach[x] + w <= Bounds.buffer
    BY <1>3, <1>15, <2>1, <2>2
  <2>4. CASE x = v
    <3>1. CASE y \in taken
      <4>1. reach'[y] = d + w /\ owner'[y] = s
        BY <1>1, <2>2, <2>4, <3>1
      <4> QED BY <1>3, <1>4, <2>1, <2>2, <2>4, <4>1
    <3>2. CASE y \notin taken
      <4>1. owner[y] # Nobody /\ reach[y] <= d + w
        BY <1>1, <2>2, <2>3, <2>4, <3>2
      <4>2. owner'[y] # Nobody /\ reach'[y] = reach[y]
        BY <1>1, <2>1, <3>2, <4>1
      <4> QED BY <1>3, <2>1, <2>2, <2>4, <4>1, <4>2
    <3> QED BY <3>1, <3>2
  <2>5. CASE x # v
    <3>1. Passed(x)
      BY <1>1, <1>15, <2>5
    <3>2. owner[y] # Nobody /\ reach[y] <= reach[x] + w
      BY <2>2, <2>3, <3>1 DEF Flooding
    <3>3. owner'[y] # Nobody /\ reach'[y] <= reach[y]
      BY <1>9, <2>1, <3>2
    <3>4. reach'[y] \in Nat
      <4>1. CASE y \in taken
        <5>1. PICK i \in Nat : i = cache.edge[{y, v}]
          BY <1>6, <4>1
        <5>2. reach'[y] = d + i
          BY <1>1, <4>1, <5>1
        <5>3. d + i \in Nat
          BY <1>4
        <5> QED BY <5>2, <5>3
      <4>2. CASE y \notin taken
        BY <1>1, <1>5, <2>1, <4>2
      <4> QED BY <4>1, <4>2
    <3>5. reach'[y] <= reach[x] + w
      <4>1. reach[x] \in Nat /\ reach[y] \in Nat
        BY <1>5, <2>1
      <4> QED BY <3>2, <3>3, <3>4, <4>1
    <3> QED BY <1>3, <2>1, <2>2, <3>3, <3>5
  <2> QED BY <2>4, <2>5
<1>16. ASSUME NEW x \in Nodes, NEW y \in Neighbors(x), Passed(x)', Passed(y)',
              reach'[x] + cache'.edge[{y, x}] + reach'[y] <= Bounds'.buffer
       PROVE  Joined(reach[x] + cache.edge[{y, x}] + reach[y], owner[x], owner[y])'
  <2>1. /\ x \notin taken /\ reach'[x] = reach[x] /\ owner'[x] = owner[x]
        /\ y \notin taken /\ reach'[y] = reach[y] /\ owner'[y] = owner[y]
        /\ x = v \/ Passed(x)
        /\ y = v \/ Passed(y)
    BY <1>1, <1>6, <1>16
  <2>2. owner[x] # Nobody /\ owner[y] # Nobody
    BY <1>16, <2>1 DEF Passed
  <2>3. PICK o \in residual, p \in residual : o = owner[x] /\ p = owner[y]
    BY <1>5, <1>6, <2>2
  <2>4. PICK t \in Nat : t = reach[x] + cache.edge[{y, x}] + reach[y] /\ t <= Bounds.buffer
    <3>1. PICK i \in Nat, w \in Nat, j \in Nat :
            i = reach[x] /\ w = cache.edge[{y, x}] /\ j = reach[y]
      BY <1>5, <1>6
    <3>2. i + w + j <= Bounds.buffer
      BY <1>3, <1>16, <2>1, <3>1
    <3> QED BY <3>1, <3>2
  <2>5. Joined(t, o, p)'
    <3>1. CASE x # v /\ y # v
      <4>1. Joined(t, o, p)
        BY <2>1, <2>3, <2>4, <3>1 DEF Flooding
      <4> QED BY <1>7, <4>1
    <3>2. CASE o = p
      BY <1>8, <3>2
    <3>3. CASE x = v /\ o # p
      <4>1. o = s /\ p \in Nodes \ {s}
        BY <1>4, <2>3, <3>3
      <4>2. Known(t, s, p)'
        BY <1>2, <2>3, <2>4, <3>3, <4>1
      <4> QED BY <1>8, <4>1, <4>2
    <3>4. CASE y = v /\ o # p
      <4>1. p = s /\ o \in Nodes \ {s} /\ x \in Neighbors(v)
        BY <1>4, <1>6, <2>3, <3>4
      <4>2. t = d + cache.edge[{x, v}] + reach[x]
        <5>1. PICK w \in Nat : w = cache.edge[{x, v}] /\ w = cache.edge[{v, x}]
          BY <1>6, <4>1
        <5>2. reach[x] \in Nat
          BY <1>5
        <5> QED BY <1>4, <2>4, <3>4, <5>1, <5>2
      <4>3. Known(t, o, s)'
        BY <1>2, <2>3, <2>4, <4>1, <4>2
      <4> QED BY <1>8, <4>1, <4>3
    <3> QED BY <3>1, <3>2, <3>3, <3>4
  <2>6. reach'[x] + cache'.edge[{y, x}] + reach'[y] = t
    BY <1>3, <2>1, <2>4
  <2> QED BY <2>1, <2>3, <2>5, <2>6
<1>17. \A x : Neighbors(x)' = Neighbors(x)
  BY <1>3 DEF Neighbors
<1>18. \A x \in Nodes : \A y \in Neighbors(x)' : Passed(x)' =>
         /\ reach'[x] + cache'.edge[{y, x}] <= Bounds'.buffer =>
              owner'[y] # Nobody /\ reach'[y] <= reach'[x] + cache'.edge[{y, x}]
         /\ Passed(y)' /\ reach'[x] + cache'.edge[{y, x}] + reach'[y] <= Bounds'.buffer =>
              Joined(reach[x] + cache.edge[{y, x}] + reach[y], owner[x], owner[y])'
  BY <1>15, <1>16, <1>17
<1>19. \A a \in residual' : owner'[a] # Nobody /\ reach'[a] = 0 /\ Joined(0, a, owner[a])'
  BY <1>3, <1>13
<1> QED BY <1>11, <1>12, <1>14, <1>18, <1>19 DEF Flooding

LEMMA TakeFrontierFloods ==
    ASSUME IInv, Typed, Flooding, TakeFrontier
    PROVE  Flooding'
<1>1. phase = "grow" /\ UNCHANGED <<given, built, comps>>
  BY DEF TakeFrontier
<1>2. PICK e \in frontier :
        IF Stale(e) THEN frontier' = frontier \ {e} /\ UNCHANGED <<reach, owner, collisions>>
        ELSE Spread(e[1], e[2], e[3])
  BY DEF TakeFrontier
<1>3. e[1] \in 0 .. Inf /\ e[2] \in Nodes /\ e[3] \in Nodes
  BY DEF Typed, Growing
<1>4. CASE ~Stale(e)
  <2>1. e[3] = owner[e[2]] /\ e[1] = reach[e[2]] /\ Spread(e[1], e[2], e[3])
    BY <1>2, <1>4 DEF Stale
  <2> QED BY <1>1, <1>3, <2>1, SpreadFloods
<1>5. CASE Stale(e)
  <2>1. frontier' = frontier \ {e} /\ UNCHANGED <<reach, owner, collisions>>
    BY <1>2, <1>5
  <2>2. \A x : Passed(x)' => Passed(x)
    BY <1>5, <2>1 DEF Passed, Stale
  <2>3. /\ residual' = residual /\ cache' = cache /\ Bounds' = Bounds /\ Linked' = Linked
        /\ ~FallsBack' /\ comps' = comps
    BY <1>1, SameLevel DEF Flooding, Uniting
  <2>4. \A t, x, y : Known(t, x, y)' <=> Known(t, x, y)
    BY <2>1, <2>3 DEF Known, Together
  <2>5. \A t, x, y : Joined(t, x, y) => Joined(t, x, y)'
    BY <2>3, <2>4, JoinedStays
  <2>6. \A x : Neighbors(x)' = Neighbors(x)
    BY <2>3 DEF Neighbors
  <2>7. Uniting'
    BY <2>3 DEF Flooding, Uniting, Sound
  <2>8. /\ \A v \in Nodes : owner'[v] # Nobody =>
             cache'.dist[<<owner'[v], v>>] <= reach'[v] /\ reach'[v] <= Bounds'.buffer
        /\ \A f \in collisions' : cache'.dist[<<f[2], f[3]>>] <= f[1] /\ f[1] <= Bounds'.buffer
        /\ \A f \in frontier' : f[1] <= Bounds'.buffer
    BY <2>1, <2>3 DEF Flooding
  <2>9. ASSUME NEW a \in residual
        PROVE  owner'[a] # Nobody /\ reach'[a] = 0 /\ Joined(0, a, owner[a])'
    <3>1. PICK o : o = owner[a]
      OBVIOUS
    <3>2. o # Nobody /\ reach[a] = 0 /\ Joined(0, a, o)
      BY <3>1 DEF Flooding
    <3>3. Joined(0, a, o)'
      BY <2>5, <3>2
    <3> QED BY <2>1, <3>1, <3>2, <3>3
  <2>10. ASSUME NEW v \in Nodes, NEW u \in Neighbors(v), Passed(v)
         PROVE  /\ reach'[v] + cache'.edge[{u, v}] <= Bounds'.buffer =>
                     owner'[u] # Nobody /\ reach'[u] <= reach'[v] + cache'.edge[{u, v}]
                /\ Passed(u) /\ reach'[v] + cache'.edge[{u, v}] + reach'[u] <= Bounds'.buffer =>
                     Joined(reach[v] + cache.edge[{u, v}] + reach[u], owner[v], owner[u])'
    <3>1. PICK o, p, t : /\ o = owner[v] /\ p = owner[u]
                         /\ t = reach[v] + cache.edge[{u, v}] + reach[u]
      OBVIOUS
    <3>2. Joined(t, o, p) => Joined(t, o, p)'
      BY <2>5
    <3>3. /\ reach[v] + cache.edge[{u, v}] <= Bounds.buffer =>
               owner[u] # Nobody /\ reach[u] <= reach[v] + cache.edge[{u, v}]
          /\ Passed(u) /\ t <= Bounds.buffer => Joined(t, o, p)
      BY <2>10, <3>1 DEF Flooding
    <3>4. Joined(reach[v] + cache.edge[{u, v}] + reach[u], owner[v], owner[u])' <=> Joined(t, o, p)'
      BY <2>1, <2>3, <3>1
    <3> QED BY <2>1, <2>3, <3>1, <3>2, <3>3, <3>4
  <2>11. \A v \in Nodes : \A u \in Neighbors(v)' : Passed(v)' =>
           /\ reach'[v] + cache'.edge[{u, v}] <= Bounds'.buffer =>
                owner'[u] # Nobody /\ reach'[u] <= reach'[v] + cache'.edge[{u, v}]
           /\ Passed(u)' /\ reach'[v] + cache'.edge[{u, v}] + reach'[u] <= Bounds'.buffer =>
                Joined(reach[v] + cache.edge[{u, v}] + reach[u], owner[v], owner[u])'
    BY <2>2, <2>6, <2>10
  <2>12. \A a \in residual' : owner'[a] # Nobody /\ reach'[a] = 0 /\ Joined(0, a, owner[a])'
    BY <2>3, <2>9
  <2> QED BY <2>7, <2>8, <2>11, <2>12 DEF Flooding
<1> QED BY <1>4, <1>5

\* Ways of one more edge.
LEMMA OneStepLonger ==
    ASSUME NEW g, IsGraph(g), NEW k \in Nat, NEW a \in Nodes, NEW v \in Nodes
    PROVE  \/ Ways(g)[k + 1][<<a, v>>] = Ways(g)[k][<<a, v>>]
           \/ \E m \in Adjacent(g, v) :
                /\ Weight(g, m, v) \in Nat
                /\ Ways(g)[k + 1][<<a, v>>] = Ways(g)[k][<<a, m>>] + Weight(g, m, v)
<1>1. PICK d : d = Ways(g)[k]
  OBVIOUS
<1>2. d \in Tables
  BY <1>1, WaysType
<1>3. /\ \A m \in Adjacent(g, v) : Weight(g, m, v) \in Nat
      /\ \/ Longer(g, d)[<<a, v>>] = d[<<a, v>>]
         \/ \E m \in Adjacent(g, v) : Longer(g, d)[<<a, v>>] = d[<<a, m>>] + Weight(g, m, v)
  BY <1>2, LongerIs
<1>4. Ways(g)[k + 1] = Longer(g, d)
  BY <1>1, WaysRecursion
<1> QED BY <1>1, <1>3, <1>4

\* The edges of the graph are those of the cache.
LEMMA AdjacentIs ==
    ASSUME NEW g, cache.edge = g.edge, NEW v \in Nodes, NEW m \in Adjacent(g, v)
    PROVE  m \in Nodes /\ v \in Neighbors(m) /\ cache.edge[{v, m}] = Weight(g, m, v)
<1>1. {m, v} = {v, m} /\ {m, v} \in DOMAIN g.edge /\ m \in Nodes
  BY DEF Adjacent
<1> QED BY <1>1 DEF Neighbors, Weight

\* Ways that are shorter than the frontier, or all within the buffer once it is empty, have been
\* gone.
LEMMA FloodReaches ==
    ASSUME IInv, Typed, Flooding, phase = "grow",
           NEW t \in Nat, t <= Bounds.buffer, \A f \in frontier : t < f[1],
           NEW g, IsGraph(g), cache.edge = g.edge, NEW a \in residual
    PROVE  \A k \in Nat, v \in Nodes :
             Ways(g)[k][<<a, v>>] <= t =>
               owner[v] # Nobody /\ reach[v] <= Ways(g)[k][<<a, v>>]
<1> DEFINE P(k) == \A v \in Nodes : Ways(g)[k][<<a, v>>] <= t =>
                     owner[v] # Nobody /\ reach[v] <= Ways(g)[k][<<a, v>>]
           K == {k \in Nat : P(k)}
<1>1. /\ Valid /\ a \in Nodes /\ Inf \in Nat
      /\ Bounds.buffer \in Nat /\ Bounds.buffer < Inf
  BY RunsAtLevel, BoundsAre DEF AtLevel, Bounds
<1>2. \A x \in Nodes : reach[x] \in Nat
  <2>1. \A x \in Nodes : reach[x] \in 0 .. Inf
    BY DEF Typed, Growing
  <2> QED BY <1>1, <2>1
<1>3. P(0)
  <2> SUFFICES ASSUME NEW v \in Nodes, Ways(g)[0][<<a, v>>] <= t
               PROVE  owner[v] # Nobody /\ reach[v] <= Ways(g)[0][<<a, v>>]
    OBVIOUS
  <2>1. Ways(g)[0] = NoWay
    BY WaysRecursion
  <2>2. Ways(g)[0][<<a, v>>] = IF a = v THEN 0 ELSE Inf
    BY <1>1, <2>1 DEF NoWay
  <2>3. a = v
    BY <1>1, <2>2
  <2> QED BY <2>2, <2>3 DEF Flooding
<1>4. ASSUME NEW k \in Nat, P(k) PROVE P(k + 1)
  <2> SUFFICES ASSUME NEW v \in Nodes, Ways(g)[k + 1][<<a, v>>] <= t
               PROVE  owner[v] # Nobody /\ reach[v] <= Ways(g)[k + 1][<<a, v>>]
    OBVIOUS
  <2>1. \/ Ways(g)[k + 1][<<a, v>>] = Ways(g)[k][<<a, v>>]
        \/ \E m \in Adjacent(g, v) :
             /\ Weight(g, m, v) \in Nat
             /\ Ways(g)[k + 1][<<a, v>>] = Ways(g)[k][<<a, m>>] + Weight(g, m, v)
    BY <1>1, OneStepLonger
  <2>2. CASE Ways(g)[k + 1][<<a, v>>] = Ways(g)[k][<<a, v>>]
    BY <1>4, <2>2
  <2>3. CASE \E m \in Adjacent(g, v) :
               /\ Weight(g, m, v) \in Nat
               /\ Ways(g)[k + 1][<<a, v>>] = Ways(g)[k][<<a, m>>] + Weight(g, m, v)
    <3>1. PICK m \in Adjacent(g, v) :
            /\ Weight(g, m, v) \in Nat
            /\ Ways(g)[k + 1][<<a, v>>] = Ways(g)[k][<<a, m>>] + Weight(g, m, v)
      BY <2>3
    <3>2. m \in Nodes /\ v \in Neighbors(m) /\ cache.edge[{v, m}] = Weight(g, m, v)
      BY AdjacentIs
    <3>3. PICK i \in Nat, w \in Nat : i = Ways(g)[k][<<a, m>>] /\ w = Weight(g, m, v)
      <4>1. Ways(g)[k] \in Tables
        BY WaysType
      <4>2. Ways(g)[k][<<a, m>>] \in 0 .. Inf
        BY <1>1, <3>2, <4>1 DEF Tables
      <4> QED BY <1>1, <3>1, <4>2
    <3>4. i + w <= t /\ i <= t
      BY <1>1, <3>1, <3>3
    <3>5. owner[m] # Nobody /\ reach[m] <= i
      BY <1>4, <3>2, <3>3, <3>4
    <3>6. Passed(m)
      <4>1. PICK r \in Nat : r = reach[m]
        BY <1>2, <3>2
      <4>2. ~ (t < r)
        BY <3>4, <3>5, <4>1
      <4> QED BY <3>5, <4>1, <4>2 DEF Passed
    <3>7. reach[m] + w <= Bounds.buffer
      BY <1>1, <1>2, <3>2, <3>4, <3>5
    <3>8. owner[v] # Nobody /\ reach[v] <= reach[m] + w
      BY <3>2, <3>3, <3>6, <3>7 DEF Flooding
    <3>9. reach[v] <= i + w
      BY <1>2, <3>2, <3>5, <3>8
    <3> QED BY <3>1, <3>3, <3>8, <3>9
  <2> QED BY <2>1, <2>2, <2>3
<1>5. Nat \subseteq K
  <2>1. 0 \in K /\ \A k \in Nat : k \in K => k + 1 \in K
    BY <1>3, <1>4
  <2> HIDE DEF K
  <2> QED BY <2>1, SetInduction
<1> QED BY <1>5

\* Along a shortest way that has been gone, the owners of the nodes belong together.
LEMMA FloodMeets ==
    ASSUME IInv, Typed, Flooding, phase = "grow",
           NEW t \in Nat, t <= Bounds.buffer, \A f \in frontier : t < f[1],
           NEW a \in residual, NEW b \in residual, cache.dist[<<a, b>>] <= t
    PROVE  Joined(t, a, b)
<1> DEFINE D(v, w) == cache.dist[<<v, w>>]
<1>1. /\ AtLevel /\ Valid /\ a \in Nodes /\ b \in Nodes /\ Inf \in Nat
      /\ Bounds.buffer \in Nat /\ Bounds.buffer < Inf
  BY RunsAtLevel, BoundsAre DEF AtLevel, Bounds
<1>2. PICK g \in Graphs : /\ IsGraph(g) /\ cache.edge = g.edge
                          /\ \A v, w \in Nodes : D(v, w) = Shortest(g, v, w)
  BY <1>1, CacheGraph
<1>3. \A v, w \in Nodes : D(v, w) \in Nat /\ D(v, v) = 0 /\ D(v, w) = D(w, v)
  BY <1>1, DistancesAre
<1>4. \A k \in Nat, v \in Nodes :
        /\ Ways(g)[k][<<a, v>>] \in Nat
        /\ Ways(g)[k][<<a, v>>] <= t =>
             owner[v] # Nobody /\ reach[v] <= Ways(g)[k][<<a, v>>]
  <2> SUFFICES ASSUME NEW k \in Nat, NEW v \in Nodes
               PROVE  /\ Ways(g)[k][<<a, v>>] \in Nat
                      /\ Ways(g)[k][<<a, v>>] <= t =>
                           owner[v] # Nobody /\ reach[v] <= Ways(g)[k][<<a, v>>]
    OBVIOUS
  <2>1. Ways(g)[k] \in Tables
    BY <1>2, WaysType
  <2>2. Ways(g)[k][<<a, v>>] \in 0 .. Inf
    BY <1>1, <2>1 DEF Tables
  <2> QED BY <1>1, <1>2, <2>2, FloodReaches
<1>5. \A v \in Nodes : D(b, v) <= t => owner[v] # Nobody /\ reach[v] <= D(b, v)
  <2> SUFFICES ASSUME NEW v \in Nodes, D(b, v) <= t
               PROVE  owner[v] # Nobody /\ reach[v] <= D(b, v)
    OBVIOUS
  <2>1. PICK k \in Nat : Shortest(g, b, v) = Ways(g)[k][<<b, v>>]
    BY <1>1, <1>2, ShortestIs
  <2>2. D(b, v) = Ways(g)[k][<<b, v>>]
    BY <1>1, <1>2, <2>1
  <2> QED BY <1>2, <2>2, FloodReaches
<1>6. \A v \in Nodes : owner[v] # Nobody => owner[v] \in residual
  BY DEF IInv, Grown
<1>7. \A x \in Nodes : reach[x] \in Nat
  <2>1. \A x \in Nodes : reach[x] \in 0 .. Inf
    BY DEF Typed, Growing
  <2> QED BY <1>1, <2>1
<1>14. \A x \in residual : owner[x] \in residual /\ Joined(t, x, owner[x])
  <2> SUFFICES ASSUME NEW x \in residual PROVE owner[x] \in residual /\ Joined(t, x, owner[x])
    OBVIOUS
  <2>1. PICK o : o = owner[x]
    OBVIOUS
  <2>2. o # Nobody /\ Joined(0, x, o) /\ x \in Nodes
    BY <1>1, <2>1 DEF Flooding, AtLevel
  <2>3. Joined(t, x, o)
    BY <2>2, JoinedLater DEF Typed
  <2> QED BY <1>6, <2>1, <2>2, <2>3
<1> DEFINE P(k) == \A v \in Nodes : Ways(g)[k][<<a, v>>] + D(v, b) <= t =>
                     Joined(t, a, owner[v])
           K == {k \in Nat : P(k)}
<1>8. P(0)
  <2> SUFFICES ASSUME NEW v \in Nodes, Ways(g)[0][<<a, v>>] + D(v, b) <= t
               PROVE  Joined(t, a, owner[v])
    OBVIOUS
  <2>1. Ways(g)[0] = NoWay
    BY WaysRecursion
  <2>2. Ways(g)[0][<<a, v>>] = IF a = v THEN 0 ELSE Inf
    BY <1>1, <2>1 DEF NoWay
  <2>3. D(v, b) \in Nat
    BY <1>1, <1>3
  <2>4. a = v
    BY <1>1, <2>2, <2>3
  <2>5. Joined(t, a, owner[a])
    BY <1>14
  <2> QED BY <2>4, <2>5
<1>9. ASSUME NEW k \in Nat, P(k) PROVE P(k + 1)
  <2> SUFFICES ASSUME NEW v \in Nodes, Ways(g)[k + 1][<<a, v>>] + D(v, b) <= t
               PROVE  Joined(t, a, owner[v])
    OBVIOUS
  <2>1. \/ Ways(g)[k + 1][<<a, v>>] = Ways(g)[k][<<a, v>>]
        \/ \E m \in Adjacent(g, v) :
             /\ Weight(g, m, v) \in Nat
             /\ Ways(g)[k + 1][<<a, v>>] = Ways(g)[k][<<a, m>>] + Weight(g, m, v)
    BY <1>1, <1>2, OneStepLonger
  <2>2. CASE Ways(g)[k + 1][<<a, v>>] = Ways(g)[k][<<a, v>>]
    BY <1>9, <2>2
  <2>3. CASE \E m \in Adjacent(g, v) :
               /\ Weight(g, m, v) \in Nat
               /\ Ways(g)[k + 1][<<a, v>>] = Ways(g)[k][<<a, m>>] + Weight(g, m, v)
    <3>1. PICK m \in Adjacent(g, v) :
            /\ Weight(g, m, v) \in Nat
            /\ Ways(g)[k + 1][<<a, v>>] = Ways(g)[k][<<a, m>>] + Weight(g, m, v)
      BY <2>3
    <3>2. m \in Nodes /\ v \in Neighbors(m) /\ cache.edge[{v, m}] = Weight(g, m, v)
      BY <1>2, AdjacentIs
    <3>3. PICK i \in Nat, w \in Nat, p \in Nat, q \in Nat :
            /\ i = Ways(g)[k][<<a, m>>] /\ w = Weight(g, m, v) /\ p = D(v, b) /\ q = D(m, b)
      BY <1>1, <1>3, <1>4, <3>1, <3>2
    <3>4. i + w + p <= t
      BY <3>1, <3>3
    <3>5. q <= w + p
      <4>1. m \in Neighbors(v) /\ cache.edge[{m, v}] = w
        BY <1>1, <3>2, <3>3, EdgeExtends
      <4>2. D(b, m) <= D(b, v) + cache.edge[{m, v}]
        BY <1>1, <4>1, EdgeExtends
      <4>3. D(b, m) = q /\ D(b, v) = p
        BY <1>1, <1>3, <3>2, <3>3
      <4> QED BY <4>1, <4>2, <4>3
    <3>6. i + q <= t /\ i <= t /\ p <= t
      BY <1>1, <3>4, <3>5
    <3>7. Joined(t, a, owner[m])
      BY <1>9, <3>2, <3>3, <3>6
    <3>8. owner[m] # Nobody /\ reach[m] <= i
      BY <1>4, <3>2, <3>3, <3>6
    <3>9. owner[v] # Nobody /\ reach[v] <= p
      <4>1. D(b, v) = p
        BY <1>1, <1>3, <3>3
      <4> QED BY <1>5, <3>6, <4>1
    <3>14. PICK r \in Nat, z \in Nat : r = reach[m] /\ z = reach[v]
      BY <1>7, <3>2
    <3>10. Passed(m) /\ Passed(v)
      <4>1. ~ (t < r) /\ ~ (t < z)
        BY <3>6, <3>8, <3>9, <3>14
      <4> QED BY <3>8, <3>9, <3>14, <4>1 DEF Passed
    <3>11. r + w + z <= t /\ r + w + z <= Bounds.buffer /\ r + w + z \in Nat
      BY <1>1, <3>4, <3>8, <3>9, <3>14
    <3>15. PICK o, n : o = owner[m] /\ n = owner[v]
      OBVIOUS
    <3>16. Joined(r + w + z, o, n)
      BY <3>2, <3>3, <3>10, <3>11, <3>14, <3>15 DEF Flooding
    <3>17. Joined(t, o, n)
      BY <3>11, <3>16, JoinedLater DEF Typed
    <3>12. Joined(t, owner[m], owner[v])
      BY <3>15, <3>17
    <3>13. owner[m] \in residual /\ owner[v] \in residual
      BY <1>6, <3>2, <3>8, <3>9
    <3> QED BY <3>7, <3>12, <3>13, JoinedIs
  <2> QED BY <2>1, <2>2, <2>3
<1>10. Nat \subseteq K
  <2>1. 0 \in K /\ \A k \in Nat : k \in K => k + 1 \in K
    BY <1>8, <1>9
  <2> HIDE DEF K
  <2> QED BY <2>1, SetInduction
<1>11. PICK k \in Nat : Shortest(g, a, b) = Ways(g)[k][<<a, b>>]
  BY <1>1, <1>2, ShortestIs
<1>12. Joined(t, a, owner[b])
  <2>1. Ways(g)[k][<<a, b>>] = D(a, b)
    BY <1>1, <1>2, <1>11
  <2>2. D(b, b) = 0 /\ D(a, b) \in Nat /\ D(a, b) <= t
    BY <1>1, <1>3
  <2>3. Ways(g)[k][<<a, b>>] + D(b, b) <= t
    BY <2>1, <2>2
  <2>4. P(k)
    BY <1>10
  <2> QED BY <1>1, <2>3, <2>4
<1>13. Joined(t, b, owner[b]) /\ owner[b] \in residual
  BY <1>14
<1> QED BY <1>12, <1>13, JoinedIs

LEMMA EndGrowthCloses ==
    ASSUME IInv, Typed, Flooding, EndGrowth
    PROVE  Closing'
<1> DEFINE Measured(c) == Component(c.members, c.ready, Diameter(cache.dist, c.members))
<1>1. /\ UNCHANGED <<given, built>> /\ phase = "grow" /\ frontier = {} /\ collisions = {}
      /\ comps' = {Measured(c) : c \in comps}
  BY DEF EndGrowth
<1>2. /\ Parts(comps, residual) /\ Covers(comps, residual)
  BY <1>1 DEF IInv, Components
<1>3. ASSUME NEW a \in residual, NEW b \in residual, <<a, b>> \in Linked PROVE Together(a, b)
  <2>0. Bounds.buffer \in Nat /\ cache.dist[<<a, b>>] <= Bounds.buffer
    BY <1>1, <1>3, RunsAtLevel, LinkedAre, BoundsAre DEF AtLevel, Bounds
  <2>1. Joined(Bounds.buffer, a, b)
    BY <1>1, <2>0, FloodMeets
  <2>2. PICK c \in comps : a \in c.members
    BY <1>2 DEF Covers
  <2>3. c.members \in SUBSET residual
    BY <1>2 DEF Parts
  <2>4. \A x \in c.members, y \in residual : Known(Bounds.buffer, x, y) => y \in c.members
    BY <1>1, <1>2 DEF Known, Together, Parts
  <2>5. b \in c.members
    BY <2>1, <2>2, <2>3, <2>4 DEF Joined
  <2> QED BY <2>2, <2>5 DEF Together
<1>4. Sets(comps) = Threshold(level)
  BY <1>2, <1>3, UnitedAreThreshold DEF Flooding
<1>5. \A c : /\ Measured(c).members = c.members
             /\ Measured(c).width = Diameter(cache.dist, c.members)
  BY DEF Component
<1> HIDE DEF Measured
<1>6. Sets(comps)' = Sets(comps)
  BY <1>1, <1>5 DEF Sets
<1>7. Rule!Divisions(level)' = Rule!Divisions(level) /\ cache' = cache
  BY <1>1, SameLevel
<1>8. Exact'
  BY <1>1, <1>5, <1>7 DEF Exact
<1>9. Threshold(level) \in Rule!Divisions(level)
  BY LevelDivisions DEF Flooding, Uniting
<1> QED BY <1>4, <1>6, <1>7, <1>8, <1>9 DEF Closing

-----------------------------------------------------------------------------
(* Every step of the builder is a step of the rule, or none.               *)

\* What each phase of a level has established.
Ruled ==
  /\ phase = "lookup" => LookingUp
  /\ phase = "pairs" => Pairing
  /\ phase = "grow" => Flooding
  /\ phase = "close" => Closing

\* The parity of a set may stop if it is even or all of it is near the boundary.
LEMMA ParityIs ==
    ASSUME Valid, level \in 1 .. MaxLevel, NEW S \in SUBSET Nodes
    PROVE  ParityMayStop(S) <=> \/ Cardinality(S) % 2 = 0
                                \/ \A a \in S : cache.near[a] <= Bounds.diameter
<1>1. CASE S = {}
  <2>1. Cardinality(S) = 0
    BY <1>1, FS_EmptySet
  <2>2. Cardinality(S) % 2 = 0
    BY <2>1
  <2> QED BY <2>2 DEF ParityMayStop
<1>2. CASE S # {}
  <2> DEFINE T == {cache.near[a] : a \in S}
  <2>1. Bounds.diameter \in Nat
    BY BoundsAre DEF Bounds
  <2>2. \A a \in S : cache.near[a] \in 0 .. Inf
    BY CacheIs
  <2>3. T \in SUBSET (0 .. Inf) /\ T # {} /\ \A a \in S : cache.near[a] \in T
    BY <1>2, <2>2
  <2>4. \A x \in T : \E a \in S : x = cache.near[a]
    OBVIOUS
  <2>5. ParityMayStop(S) <=> Cardinality(S) % 2 = 0 \/ Max(T) <= Bounds.diameter
    BY DEF ParityMayStop
  <2> HIDE DEF T
  <2>6. Max(T) \in T /\ Max(T) \in Nat /\ \A y \in T : y <= Max(T)
    BY <2>3, GreatestNatural, GeometryAssumption
  <2>7. Max(T) <= Bounds.diameter <=> \A a \in S : cache.near[a] <= Bounds.diameter
    <3>1. ASSUME Max(T) <= Bounds.diameter, NEW a \in S PROVE cache.near[a] <= Bounds.diameter
      <4>1. PICK x \in 0 .. Inf : x = cache.near[a]
        BY <2>2
      <4>2. x <= Max(T)
        BY <2>3, <2>6, <4>1
      <4> QED BY <2>1, <2>6, <3>1, <4>1, <4>2
    <3>2. ASSUME \A a \in S : cache.near[a] <= Bounds.diameter PROVE Max(T) <= Bounds.diameter
      BY <2>4, <2>6, <3>2
    <3> QED BY <3>1, <3>2
  <2> QED BY <2>5, <2>7
<1> QED BY <1>1, <1>2

\* A component of exact width is accepted as the rule says.
LEMMA AcceptsIs ==
    ASSUME Valid, level \in 1 .. MaxLevel, NEW c, c.members \in SUBSET Nodes,
           c.width = Diameter(cache.dist, c.members)
    PROVE  Accepts(c) <=> Rule!MayStop(level, c.members)
<1>1. Forced <=> ForcedAt(level)
  BY DEF Forced, ForcedAt
<1>2. Rule!MayStop(level, c.members) <=>
        \/ ForcedAt(level)
        \/ /\ Bounds.cap = 0 \/ Cardinality(c.members) <= Bounds.cap
           /\ Diameter(cache.dist, c.members) <= Bounds.diameter
           /\ \/ Cardinality(c.members) % 2 = 0
              \/ \A a \in c.members : cache.near[a] <= Bounds.diameter
  BY RuleMayStop DEF Bounds
<1>3. ParityMayStop(c.members) <=> \/ Cardinality(c.members) % 2 = 0
                                   \/ \A a \in c.members : cache.near[a] <= Bounds.diameter
  BY ParityIs
<1> QED BY Zenon, <1>1, <1>2, <1>3 DEF Accepts

\* What a level takes out.
TakenOut == {C \in Sets(comps) : Rule!MayStop(level, C)}

\* Closing a level takes out the components that may stop, and leaves the others.
LEMMA CloseLevelTakes ==
    ASSUME IInv, Typed, Closing, CloseLevel
    PROVE  /\ hierarchy' = hierarchy \cup {[level |-> level, members |-> C] : C \in TakenOut}
           /\ residual' = residual \ UNION TakenOut
<1> DEFINE accepted == {c \in comps : Accepts(c)}
           division == Sets(comps)
           out == {C \in division : Rule!MayStop(level, C)}
           Cluster(C) == [level |-> level, members |-> C]
<1>1. /\ phase = "close" /\ level' = level + 1 /\ UNCHANGED <<setting, cache>>
      /\ hierarchy' = hierarchy \cup {Cluster(c.members) : c \in accepted}
      /\ residual' = UNION {c.members : c \in comps \ accepted}
  BY DEF CloseLevel, given
<1>2. AtLevel /\ Parts(comps, residual) /\ Covers(comps, residual) /\ MaxLevel \in Nat
  BY <1>1, RunsAtLevel, BoundsAre DEF IInv, Components, AtLevel
<1>3. division \in Rule!Divisions(level) /\ Exact
  BY DEF Closing
<1>4. \A c \in comps : c.members \in division /\ (c \in accepted <=> c.members \in out)
  <2> SUFFICES ASSUME NEW c \in comps
               PROVE  c.members \in division /\ (c \in accepted <=> c.members \in out)
    OBVIOUS
  <2>1. c.members \in SUBSET Nodes /\ c.width = Diameter(cache.dist, c.members)
    BY <1>2, <1>3 DEF Parts, AtLevel, Exact
  <2>2. Accepts(c) <=> Rule!MayStop(level, c.members)
    BY <1>2, <2>1, AcceptsIs DEF AtLevel
  <2> QED BY <2>2 DEF Sets
<1>5. \A C \in division : \E c \in comps : C = c.members
  BY DEF Sets
<1>6. accepted \subseteq comps /\ out \subseteq division
  OBVIOUS
<1>7. out = TakenOut
  BY DEF TakenOut
<1> HIDE DEF accepted, out, division, Cluster
<1>8. hierarchy' = hierarchy \cup {Cluster(C) : C \in out}
  BY <1>1, <1>4, <1>5, <1>6
<1>9. residual' = residual \ UNION out
  <2>1. ASSUME NEW a \in residual' PROVE a \in residual \ UNION out
    <3>1. PICK c \in comps : c \notin accepted /\ a \in c.members
      BY <1>1, <2>1
    <3>2. ASSUME NEW C \in out, a \in C PROVE FALSE
      <4>1. PICK d \in comps : C = d.members
        BY <1>5, <1>6
      <4>2. d = c
        BY <1>2, <3>1, <3>2, <4>1 DEF Parts
      <4> QED BY <1>4, <3>1, <4>1, <4>2
    <3> QED BY <1>2, <3>1, <3>2 DEF Parts
  <2>2. ASSUME NEW a \in residual, a \notin UNION out PROVE a \in residual'
    <3>1. PICK c \in comps : a \in c.members
      BY <1>2 DEF Covers
    <3>2. c \notin accepted
      BY <1>4, <2>2, <3>1
    <3> QED BY <1>1, <3>1, <3>2
  <2> QED BY <2>1, <2>2
<1> QED BY <1>7, <1>8, <1>9 DEF Cluster

LEMMA CloseLevelObeys ==
    ASSUME IInv, Typed, Closing, CloseLevel
    PROVE  Rule!RuleNext
<1>1. phase = "close" /\ level' = level + 1 /\ UNCHANGED <<setting, cache>>
  BY DEF CloseLevel, given
<1>2. AtLevel /\ MaxLevel \in Nat
  BY <1>1, RunsAtLevel, BoundsAre DEF AtLevel
<1>3. Sets(comps) \in Rule!Divisions(level)
  BY DEF Closing
<1>10. \E D \in Rule!Divisions(level) :
         LET o == {C \in D : Rule!MayStop(level, C)} IN
           /\ hierarchy' = hierarchy \cup {[level |-> level, members |-> C] : C \in o}
           /\ residual' = residual \ UNION o
  BY <1>3, CloseLevelTakes DEF TakenOut
<1>11. PICK l \in 1 .. MaxLevel : l = level
  BY <1>2 DEF AtLevel
<1>12. Rule!MaxLevel = MaxLevel
  BY DEF Rule!MaxLevel, MaxLevel
<1>13. Rule!CloseLevels(l)
  <2>1. l <= Rule!MaxLevel /\ l .. l - 1 = {}
    BY <1>2, <1>11, <1>12
  <2>2. level <= l /\ residual # {}
    BY <1>2, <1>11 DEF AtLevel
  <2>3. \A k \in level .. l - 1 : Rule!Passes(k)
    BY <1>11, <2>1
  <2> QED BY <1>1, <1>10, <1>11, <2>1, <2>2, <2>3 DEF Rule!CloseLevels
<1> QED BY <1>11, <1>12, <1>13 DEF Rule!RuleNext

\* Where only the forced level accepts, the levels below pass: every detector is alone and far
\* from the boundary.
LEMMA LowerLevelsPass ==
    ASSUME IInv, Typed, phase = "start", OnlyForcedLevelAccepts, NEW k \in 1 .. MaxLevel - 1
    PROVE  Rule!Passes(k)
<1>1. /\ Valid /\ residual \subseteq Nodes /\ MaxLevel \in Nat /\ k \in 1 .. MaxLevel
      /\ setting.schedule[k].buffer \in Nat /\ setting.schedule[k].diameter \in Nat
      /\ setting.schedule[k].buffer < MinEdge
      /\ Min(Range(cache.near)) > setting.schedule[k].diameter
  <2>1. Valid /\ residual \subseteq Nodes /\ MaxLevel \in Nat
    BY BoundsAre DEF IInv, Divided, Typed
  <2>2. k \in 1 .. MaxLevel
    BY <2>1
  <2> QED BY <2>1, <2>2, BoundsAre DEF OnlyForcedLevelAccepts
<1>2. ~ForcedAt(k)
  BY <1>1 DEF ForcedAt
<1>3. Threshold(k) = {{a} : a \in residual}
  <2> DEFINE buffer == setting.schedule[k].buffer
  <2>1. \A a, b \in residual : a # b => <<a, b>> \notin Links(cache.dist, residual, buffer)
    BY <1>1, MinEdgeIs, LinkedIs
  <2>2. ThresholdComponents(cache.dist, residual, buffer) = {{a} : a \in residual}
    BY <2>1, ThresholdSingle
  <2> QED BY <2>2 DEF Threshold
<1>4. ASSUME NEW a \in residual PROVE ~Rule!MayStop(k, {a})
  <2>1. Cardinality({a}) = 1
    BY FS_Singleton
  <2>2. ~ (Cardinality({a}) % 2 = 0)
    BY <2>1
  <2>3. ~ (cache.near[a] <= setting.schedule[k].diameter)
    <3> DEFINE T == Range(cache.near)
    <3>1. \A x \in Nodes : cache.near[x] \in 0 .. Inf
      BY <1>1, CacheIs
    <3>2. T = {cache.near[x] : x \in Nodes}
      BY <1>1, CacheIs DEF Range
    <3>3. T \in SUBSET Nat /\ cache.near[a] \in T
      <4>1. \A x \in Nodes : cache.near[x] \in Nat
        <5>1. 0 .. Inf \subseteq Nat
          BY GeometryAssumption
        <5> QED BY <3>1, <5>1
      <4>2. T \in SUBSET Nat
        BY <3>2, <4>1
      <4> QED BY <1>1, <3>2, <4>2
    <3>4. Min(T) > setting.schedule[k].diameter
      BY <1>1
    <3> HIDE DEF T
    <3>5. Min(T) \in T /\ Min(T) <= cache.near[a]
      BY <3>3, LeastNatural
    <3>6. PICK x \in Nat, m \in Nat, d \in Nat :
            x = cache.near[a] /\ m = Min(T) /\ d = setting.schedule[k].diameter
      BY <1>1, <3>3, <3>5
    <3>7. m > d /\ m <= x
      BY <3>4, <3>5, <3>6
    <3>8. ~ (x <= d)
      BY <3>7
    <3> QED BY <3>6, <3>8
  <2>4. ~ \A x \in {a} : cache.near[x] <= setting.schedule[k].diameter
    BY <2>3
  <2> QED BY Zenon, <1>2, <2>2, <2>4, RuleMayStop
<1>5. Threshold(k) \in Rule!Divisions(k)
  BY <1>2, RuleDivisions
<1> QED BY <1>3, <1>4, <1>5 DEF Rule!Passes

LEMMA DirectRootsObeys ==
    ASSUME IInv, Typed, DirectRoots
    PROVE  Rule!RuleNext
<1> DEFINE groups == IF setting.schedule[MaxLevel].certified THEN Interior ELSE {residual}
           Cluster(C) == [level |-> MaxLevel, members |-> C]
<1>1. /\ phase = "start" /\ OnlyForcedLevelAccepts /\ level' = MaxLevel + 1
      /\ UNCHANGED <<setting, cache>> /\ residual' = {}
      /\ hierarchy' = {Cluster(C) : C \in groups}
  BY DEF DirectRoots, given, Interior
<1>2. ForcedAt(MaxLevel) /\ residual # {} /\ hierarchy = {} /\ level = 1 /\ MaxLevel \in Nat \ {0}
  BY <1>1, BoundsAre DEF OnlyForcedLevelAccepts, ForcedAt, IInv, Ended, Typed, Levelled
<1>3. groups \in Rule!Divisions(MaxLevel)
  BY <1>2, RuleDivisions
<1>4. \A C \in groups : Rule!MayStop(MaxLevel, C)
  BY <1>2, RuleMayStop
<1>5. Divides(groups, residual)
  BY InteriorDivides, SimplyDivides DEF Interior
<1> HIDE DEF groups
<1>6. {C \in groups : Rule!MayStop(MaxLevel, C)} = groups
  BY <1>4
<1>7. residual' = residual \ UNION groups
  BY <1>1, <1>5 DEF Divides
<1>8. hierarchy' = hierarchy \cup {[level |-> MaxLevel, members |-> C] : C \in groups}
  BY <1>1, <1>2
<1>9. \E D \in Rule!Divisions(MaxLevel) :
        LET o == {C \in D : Rule!MayStop(MaxLevel, C)} IN
          /\ hierarchy' = hierarchy \cup {[level |-> MaxLevel, members |-> C] : C \in o}
          /\ residual' = residual \ UNION o
  BY <1>3, <1>6, <1>7, <1>8
<1>10. \A k \in 1 .. MaxLevel - 1 : Rule!Passes(k)
  BY <1>1, LowerLevelsPass
<1>11. PICK l \in 1 .. MaxLevel : l = MaxLevel
  BY <1>2
<1>12. Rule!MaxLevel = MaxLevel
  BY DEF Rule!MaxLevel, MaxLevel
<1>13. Rule!CloseLevels(l)
  <2>1. level <= l /\ l <= Rule!MaxLevel
    BY <1>2, <1>11, <1>12
  <2>2. \A k \in level .. l - 1 : Rule!Passes(k)
    BY <1>2, <1>10, <1>11
  <2> QED BY <1>1, <1>2, <1>9, <1>11, <2>1, <2>2 DEF Rule!CloseLevels
<1> QED BY <1>11, <1>12, <1>13 DEF Rule!RuleNext

LEMMA NextObeys == IInv /\ Typed /\ Ruled /\ [Next]_vars => [Rule!RuleNext]_(Rule!rule)
<1> SUFFICES ASSUME IInv, Typed, Ruled, [Next]_vars PROVE [Rule!RuleNext]_(Rule!rule)
  OBVIOUS
<1>1. CASE DirectRoots
  BY <1>1, DirectRootsObeys
<1>2. CASE CloseLevel
  BY <1>2, CloseLevelObeys DEF Ruled, CloseLevel
<1>3. CASE UNCHANGED <<given, built>>
  BY <1>3 DEF Rule!rule, given, built
<1>4. CASE Finish
  BY <1>4 DEF Rule!rule, Finish, given
<1>5. CASE UNCHANGED vars
  BY <1>5 DEF Rule!rule, vars
<1> QED BY <1>1, <1>2, <1>3, <1>4, <1>5
   DEF Next, Start, RunForced, RunSingletons, BeginLookup, LookupComponent, EndLookup, BeginGrowth,
       TakeCollision, TakeFrontier, EndGrowth, RunTable, BeginPairs, TakePair, EndPairs

\* A stutter keeps what the phase has established.
LEMMA StutterRules == Ruled /\ UNCHANGED vars => Ruled'
<1> SUFFICES ASSUME Ruled, UNCHANGED vars PROVE Ruled'
  OBVIOUS
<1>1. UNCHANGED <<given, built, comps, phase, reach, owner, frontier, collisions>>
  BY DEF vars, given, built
<1>2. /\ cache' = cache /\ setting' = setting /\ level' = level /\ residual' = residual
      /\ Bounds' = Bounds /\ MaxLevel' = MaxLevel /\ Linked' = Linked
      /\ (FallsBack <=> FallsBack')
      /\ Rule!Divisions(level)' = Rule!Divisions(level)
  BY <1>1, SameLevel
<1>3. Uniting => Uniting'
  BY <1>1, <1>2 DEF Uniting, Sound
<1>4. \A a, b : Together(a, b)' <=> Together(a, b)
  BY <1>1 DEF Together
<1>5. LookingUp => LookingUp'
  <2>1. LookedUp' = LookedUp /\ (Lookup => Lookup')
    BY <1>1, <1>2, SameLevel
       DEF Lookup, Sparse, CoversAll, CoversEach, RadiusListed, RadiusLevels, LookedUp
  <2>2. Sets(comps)' = Sets(comps) /\ (Exact => Exact')
    BY <1>1, <1>2 DEF Sets, Exact
  <2> QED BY <1>2, <2>1, <2>2 DEF LookingUp
<1>6. Pairing => Pairing'
  <2>1. Events' = Events /\ Taken' = Taken
    BY <1>1, <1>2 DEF Events, Taken
  <2> QED BY <1>1, <1>2, <1>3, <1>4, <2>1 DEF Pairing
<1>7. Flooding => Flooding'
  <2> SUFFICES ASSUME Flooding PROVE Flooding'
    OBVIOUS
  <2>1. \A t, x, y : Known(t, x, y)' <=> Known(t, x, y)
    BY <1>1, <1>4 DEF Known
  <2>2. \A t, x, y : Joined(t, x, y) => Joined(t, x, y)'
    BY <1>2, <2>1, JoinedStays
  <2>3. \A x : Joined(0, x, owner[x]) => Joined(0, x, owner[x])'
    <3> SUFFICES ASSUME NEW x, Joined(0, x, owner[x]) PROVE Joined(0, x, owner[x])'
      OBVIOUS
    <3>1. PICK o : o = owner[x]
      OBVIOUS
    <3>2. Joined(0, x, o)'
      BY <2>2, <3>1
    <3> QED BY <1>1, <3>1, <3>2
  <2>4. \A x, y : LET way == reach[x] + cache.edge[{y, x}] + reach[y]
                  IN Joined(way, owner[x], owner[y]) => Joined(way, owner[x], owner[y])'
    <3> SUFFICES ASSUME NEW x, NEW y,
                        Joined(reach[x] + cache.edge[{y, x}] + reach[y], owner[x], owner[y])
                 PROVE  Joined(reach[x] + cache.edge[{y, x}] + reach[y], owner[x], owner[y])'
      OBVIOUS
    <3>1. PICK o, p, t : o = owner[x] /\ p = owner[y] /\ t = reach[x] + cache.edge[{y, x}] + reach[y]
      OBVIOUS
    <3>2. Joined(t, o, p)'
      BY <2>2, <3>1
    <3> QED BY <1>1, <1>2, <3>1, <3>2
  <2>5. \A x : (Passed(x)' <=> Passed(x)) /\ Neighbors(x)' = Neighbors(x)
    BY <1>1, <1>2 DEF Passed, Neighbors
  <2> QED BY <1>1, <1>2, <1>3, <2>3, <2>4, <2>5 DEF Flooding
<1>8. Closing => Closing'
  BY <1>1, <1>2 DEF Closing, Sets, Exact
<1> QED BY <1>1, <1>5, <1>6, <1>7, <1>8 DEF Ruled

LEMMA NextRules == IInv /\ Typed /\ Ruled /\ [Next]_vars => Ruled'
<1> SUFFICES ASSUME IInv, Typed, Ruled, [Next]_vars PROVE Ruled'
  OBVIOUS
<1>1. CASE DirectRoots \/ Start \/ CloseLevel \/ Finish
  BY <1>1 DEF DirectRoots, Start, CloseLevel, Finish, Ruled
<1>2. CASE RunForced \/ RunSingletons \/ RunTable
  <2>1. phase' = "close"
    BY <1>2 DEF RunForced, RunSingletons, RunTable
  <2> QED BY <1>2, <2>1, RunForcedCloses, RunSingletonsCloses, RunTableCloses DEF Ruled
<1>3. CASE BeginLookup \/ LookupComponent
  <2>1. phase' = "lookup" /\ (LookupComponent => phase = "lookup")
    BY <1>3 DEF BeginLookup, LookupComponent
  <2> QED BY <1>3, <2>1, BeginLookupLooksUp, LookupComponentLooksUp DEF Ruled
<1>4. CASE EndLookup
  <2>1. phase' = "close" /\ phase = "lookup"
    BY <1>4 DEF EndLookup
  <2> QED BY <1>4, <2>1, EndLookupCloses DEF Ruled
<1>5. CASE BeginGrowth \/ TakeCollision \/ TakeFrontier
  <2>1. phase' = "grow" /\ (TakeCollision \/ TakeFrontier => phase = "grow")
    BY <1>5 DEF BeginGrowth, TakeCollision, TakeFrontier
  <2> QED BY <1>5, <2>1, BeginGrowthFloods, TakeCollisionFloods, TakeFrontierFloods DEF Ruled
<1>6. CASE EndGrowth
  <2>1. phase' = "close" /\ phase = "grow"
    BY <1>6 DEF EndGrowth
  <2> QED BY <1>6, <2>1, EndGrowthCloses DEF Ruled
<1>7. CASE BeginPairs \/ TakePair
  <2>1. phase' = "pairs" /\ (TakePair => phase = "pairs")
    BY <1>7 DEF BeginPairs, TakePair
  <2> QED BY <1>7, <2>1, BeginPairsPairs, TakePairPairs DEF Ruled
<1>8. CASE EndPairs
  <2>1. phase' = "close" /\ phase = "pairs"
    BY <1>8 DEF EndPairs
  <2> QED BY <1>8, <2>1, EndPairsCloses DEF Ruled
<1>9. CASE UNCHANGED vars
  BY <1>9, StutterRules
<1> QED BY <1>1, <1>2, <1>3, <1>4, <1>5, <1>6, <1>7, <1>8, <1>9 DEF Next

\* Whichever path a level takes (forced fallback and lookup, singletons, lookup by components,
\* sparse frontier, all pairs, reference table), it divides the residual as the rule of the
\* level says and accepts what the rule accepts; the direct roots close all levels at once.
THEOREM LevelRuleHolds == ASSUME ~SparseLists PROVE Spec => KeepsLevelRule
<1>1. Init => IInv /\ Typed /\ Ruled
  BY InitIInv, InitTyped DEF Init, Ruled
<1>2. IInv /\ Typed /\ Ruled /\ [Next]_vars => (IInv /\ Typed /\ Ruled)'
  BY NextKeeps, NextTyped, NextRules
<1>3. Init => Rule!RuleInit
  BY DEF Init, Rule!RuleInit
<1> QED BY <1>1, <1>2, <1>3, NextObeys, PTL DEF Spec, KeepsLevelRule, Rule!RuleSpec

-----------------------------------------------------------------------------
(* Accepted clusters are isolated.                                         *)

\* A set that the threshold leaves alone is further than the buffer from the rest.
LEMMA ThresholdApart ==
    ASSUME AtLevel, NEW C \in Threshold(level), NEW a \in C, NEW b \in residual \ C
    PROVE  cache.dist[<<a, b>>] > Bounds.buffer
<1>1. PICK z \in residual : C = ReachFrom(z, residual, Linked)
  BY ThresholdIs
<1>2. a \in residual /\ b \in residual
  BY <1>1 DEF ReachFrom
<1>3. ~ (cache.dist[<<a, b>>] <= Bounds.buffer)
  <2> SUFFICES ASSUME cache.dist[<<a, b>>] <= Bounds.buffer PROVE FALSE
    OBVIOUS
  <2>1. <<a, b>> \in Linked
    BY <1>2, LinkedAre
  <2> QED BY <1>1, <1>2, <2>1, ReachNext
<1>4. cache.dist[<<a, b>>] \in Nat /\ Bounds.buffer \in Nat
  BY <1>2, DistancesAre, BoundsAre DEF AtLevel, Bounds
<1> QED BY <1>3, <1>4

\* A cluster that may be isolated is apart from what was left when it was accepted.
Isolated ==
  /\ \A c \in hierarchy : c.level < level
  /\ \A c \in hierarchy : c.level < MaxLevel \/ ~setting.force =>
       /\ \A a \in c.members, b \in residual :
            cache.dist[<<a, b>>] > setting.schedule[c.level].buffer
       /\ \A d \in hierarchy : d # c /\ d.level >= c.level =>
            \A a \in c.members, b \in d.members :
              cache.dist[<<a, b>>] > setting.schedule[c.level].buffer

LEMMA IsolatedAreIsolated == Isolated => AcceptedAreIsolated
<1> SUFFICES ASSUME Isolated, NEW c \in hierarchy, c.level < MaxLevel \/ ~setting.force,
                    NEW rest \in {d.members : d \in {e \in hierarchy \ {c} : e.level >= c.level}}
                                 \cup {residual},
                    NEW a \in c.members, NEW b \in rest
             PROVE  cache.dist[<<a, b>>] > setting.schedule[c.level].buffer
  BY Zenon DEF AcceptedAreIsolated
<1>1. CASE rest = residual
  BY <1>1 DEF Isolated
<1>2. CASE \E d \in hierarchy : d # c /\ d.level >= c.level /\ rest = d.members
  BY <1>2 DEF Isolated
<1> QED BY <1>1, <1>2

LEMMA CloseLevelIsolates ==
    ASSUME IInv, Typed, Closing, Isolated, CloseLevel
    PROVE  Isolated'
<1> DEFINE Cluster(c) == [level |-> level, members |-> c.members]
<1>1. PICK accepted \in SUBSET comps :
        /\ phase = "close" /\ level' = level + 1 /\ UNCHANGED <<setting, cache>>
        /\ hierarchy' = hierarchy \cup {Cluster(c) : c \in accepted}
        /\ residual' = UNION {c.members : c \in comps \ accepted}
  BY DEF CloseLevel, given
<1>2. AtLevel /\ Parts(comps, residual) /\ level \in Nat /\ MaxLevel' = MaxLevel
  BY <1>1, RunsAtLevel DEF IInv, Components, AtLevel, MaxLevel
<1>3. residual' \subseteq residual
  BY <1>1, <1>2 DEF Parts
<1>4. \A c : Cluster(c).level = level /\ Cluster(c).members = c.members
  OBVIOUS
<1>5. \A c \in accepted : c.members \subseteq residual /\ c.members \cap residual' = {}
  BY <1>1, <1>2 DEF Parts
<1>6. \A c, d \in accepted : Cluster(c) # Cluster(d) => c.members \cap d.members = {}
  BY <1>2 DEF Parts
<1> HIDE DEF Cluster
<1>7. \A c \in hierarchy' : c.level < level'
  <2>1. \A c \in hierarchy : c.level \in Nat /\ c.level < level
    BY DEF Typed, Levelled, Isolated
  <2> QED BY <1>1, <1>2, <1>4, <2>1
<1>8. ASSUME level < MaxLevel \/ ~setting.force, NEW c \in accepted,
             NEW a \in c.members, NEW b \in residual, b \notin c.members
      PROVE  cache.dist[<<a, b>>] > setting.schedule[level].buffer
  <2>1. ~ForcedAt(level)
    <3>1. level < MaxLevel => level # MaxLevel
      BY <1>2 DEF AtLevel
    <3> QED BY <1>8, <3>1 DEF ForcedAt
  <2>2. Sets(comps) = Threshold(level)
    BY <2>1, RuleDivisions DEF Closing
  <2>3. c.members \in Threshold(level)
    BY <2>2 DEF Sets
  <2> QED BY <1>2, <1>8, <2>3, ThresholdApart DEF Bounds
<1>9. ASSUME NEW c \in hierarchy', c.level < MaxLevel' \/ ~setting'.force
      PROVE  /\ \A a \in c.members, b \in residual' :
                  cache'.dist[<<a, b>>] > setting'.schedule[c.level].buffer
             /\ \A d \in hierarchy' : d # c /\ d.level >= c.level =>
                  \A a \in c.members, b \in d.members :
                    cache'.dist[<<a, b>>] > setting'.schedule[c.level].buffer
  <2>1. CASE c \in hierarchy
    <3>1. \A a \in c.members, b \in residual :
            cache.dist[<<a, b>>] > setting.schedule[c.level].buffer
      BY <1>1, <1>2, <1>9, <2>1 DEF Isolated
    <3>2. ASSUME NEW d \in hierarchy', d # c, d.level >= c.level,
                 NEW a \in c.members, NEW b \in d.members
          PROVE  cache.dist[<<a, b>>] > setting.schedule[c.level].buffer
      <4>1. CASE d \in hierarchy
        BY <1>1, <1>2, <1>9, <2>1, <3>2, <4>1 DEF Isolated
      <4>2. CASE \E e \in accepted : d = Cluster(e)
        BY <1>4, <1>5, <3>1, <4>2
      <4> QED BY <1>1, <4>1, <4>2
    <3> QED BY <1>1, <1>3, <3>1, <3>2
  <2>2. CASE \E e \in accepted : c = Cluster(e)
    <3>1. PICK e \in accepted : c = Cluster(e)
      BY <2>2
    <3>2. c.level = level /\ c.members = e.members /\ (level < MaxLevel \/ ~setting.force)
      BY <1>1, <1>2, <1>4, <1>9, <3>1
    <3>3. \A a \in c.members, b \in residual' :
            cache.dist[<<a, b>>] > setting.schedule[level].buffer
      BY <1>3, <1>5, <1>8, <3>2
    <3>4. ASSUME NEW d \in hierarchy', d # c, d.level >= c.level,
                 NEW a \in c.members, NEW b \in d.members
          PROVE  cache.dist[<<a, b>>] > setting.schedule[level].buffer
      <4>1. d \notin hierarchy
        <5>1. \A x \in hierarchy : x.level \in Nat /\ x.level < level
          BY DEF Typed, Levelled, Isolated
        <5> QED BY <1>2, <3>2, <3>4, <5>1
      <4>2. PICK f \in accepted : d = Cluster(f)
        BY <1>1, <4>1
      <4>3. b \in residual /\ b \notin e.members
        BY <1>4, <1>5, <1>6, <3>1, <3>4, <4>2
      <4> QED BY <1>8, <3>2, <4>3
    <3> QED BY <1>1, <3>2, <3>3, <3>4
  <2> QED BY <1>1, <2>1, <2>2
<1> QED BY <1>7, <1>9 DEF Isolated

LEMMA NextIsolates == IInv /\ Typed /\ Ruled /\ Isolated /\ [Next]_vars => Isolated'
<1> SUFFICES ASSUME IInv, Typed, Ruled, Isolated, [Next]_vars PROVE Isolated'
  OBVIOUS
<1>1. CASE DirectRoots
  <2>1. /\ hierarchy' = {[level |-> MaxLevel, members |-> S] :
                           S \in IF setting.schedule[MaxLevel].certified
                                 THEN InteriorComponents(cache.id, residual) ELSE {residual}}
        /\ level' = MaxLevel + 1 /\ setting' = setting /\ setting.force
    BY <1>1 DEF DirectRoots, given, OnlyForcedLevelAccepts
  <2>2. MaxLevel \in Nat /\ MaxLevel' = MaxLevel
    BY <2>1, BoundsAre DEF Typed, MaxLevel
  <2>3. \A c \in hierarchy' : c.level = MaxLevel
    BY <2>1
  <2> QED BY <2>1, <2>2, <2>3 DEF Isolated
<1>2. CASE CloseLevel
  BY <1>2, CloseLevelIsolates DEF Ruled, CloseLevel
<1>3. CASE UNCHANGED <<setting, cache, level, residual, hierarchy>>
  BY <1>3 DEF Isolated, MaxLevel
<1>4. CASE UNCHANGED <<given, built>> \/ Finish \/ UNCHANGED vars
  BY <1>3, <1>4 DEF given, built, vars, Finish
<1> QED BY <1>1, <1>2, <1>4
   DEF Next, Start, RunForced, RunSingletons, BeginLookup, LookupComponent, EndLookup, BeginGrowth,
       TakeCollision, TakeFrontier, EndGrowth, RunTable, BeginPairs, TakePair, EndPairs

\* When no list of radius neighbours is left empty, no cluster that is accepted below the forced
\* level has a detector of the rest within the buffer of its level: the premise of the stopping
\* lemma, that cluster_hierarchy_sparse sees fail when such lists are left empty.
THEOREM AcceptedStayIsolated == ASSUME ~SparseLists PROVE Spec => []AcceptedAreIsolated
<1>1. Init => IInv /\ Typed /\ Ruled /\ Isolated
  BY InitIInv, InitTyped DEF Init, Ruled, Isolated
<1>2. IInv /\ Typed /\ Ruled /\ Isolated /\ [Next]_vars => (IInv /\ Typed /\ Ruled /\ Isolated)'
  BY NextKeeps, NextTyped, NextRules, NextIsolates
<1> QED BY <1>1, <1>2, IsolatedAreIsolated, PTL DEF Spec

-----------------------------------------------------------------------------
(* Clusters have a perfect matching if the syndrome has one.               *)

\* What S has of the component of the graph that a is in.
Class(S, a) == {b \in S : cache.id[b] = cache.id[a]}

Fits(S, a) == Even(Class(S, a)) \/ \E b \in Class(S, a) : cache.near[b] < Inf

LEMMA SolvableIs ==
    ASSUME NEW S
    PROVE  Solvable(cache, S) <=> \A a \in S : Fits(S, a)
<1>1. InteriorComponents(cache.id, S) = {Class(S, a) : a \in S}
  BY DEF InteriorComponents, Class
<1> QED BY <1>1 DEF Solvable, Fits, Even

\* A component of the graph is near the boundary or not as a whole.
LEMMA NearAlike ==
    ASSUME Valid, NEW a \in Nodes, NEW b \in Nodes, cache.id[a] = cache.id[b],
           cache.near[b] < Inf
    PROVE  cache.near[a] < Inf
<1>1. Metric(cache.dist) /\ cache.id = ComponentIds(cache.dist)
  BY CacheIs
<1>2. cache.dist[<<b, a>>] < Inf
  BY <1>1, SameComponent, BoundsAre
<1>3. PICK g \in Graphs : IsGraph(g) /\ Short(g) /\ cache.near = NearestBoundary(g, cache.dist)
  BY CacheGraph
<1> QED BY <1>1, <1>2, <1>3, NearTogether

\* What is within the buffer of a level is in one component of the graph.
LEMMA ThresholdInside ==
    ASSUME AtLevel, NEW C \in Threshold(level), NEW a \in C
    PROVE  C \subseteq Class(residual, a)
<1>1. PICK z \in residual : C = ReachFrom(z, residual, Linked)
  BY ThresholdIs
<1>2. /\ Valid /\ residual \subseteq Nodes /\ 0 < Inf /\ Inf \in Nat
      /\ Bounds.buffer \in Nat /\ Bounds.buffer < Inf
  BY BoundsAre DEF AtLevel, Bounds
<1> DEFINE T == {y \in residual : cache.id[y] = cache.id[z]}
<1>3. ASSUME NEW x \in T, NEW y \in residual, <<x, y>> \in Linked PROVE y \in T
  <2>1. cache.dist[<<x, y>>] <= Bounds.buffer
    BY <1>3, LinkedAre
  <2>2. cache.dist[<<x, y>>] \in Nat
    BY <1>2, DistancesAre
  <2>3. cache.dist[<<x, y>>] < Inf
    BY <1>2, <2>1, <2>2
  <2>4. Metric(cache.dist) /\ cache.id = ComponentIds(cache.dist)
    BY <1>2, CacheIs
  <2>5. cache.id[x] = cache.id[y]
    BY <1>2, <2>3, <2>4, SameComponent
  <2> QED BY <2>5
<1>4. z \in T /\ T \in SUBSET residual
  OBVIOUS
<1>5. C \subseteq T
  BY <1>1, <1>3, <1>4 DEF ReachFrom
<1> QED BY <1>5 DEF Class

\* A threshold component that a level accepts has a perfect matching.
LEMMA AcceptedFits ==
    ASSUME AtLevel, ~ForcedAt(level), NEW C \in Threshold(level), Rule!MayStop(level, C),
           NEW a \in C
    PROVE  Even(C) \/ cache.near[a] < Inf
<1>1. Bounds.diameter \in Nat /\ Bounds.diameter < Inf /\ Inf \in Nat
  BY BoundsAre DEF AtLevel, Bounds
<1>2. Even(C) \/ cache.near[a] <= Bounds.diameter
  BY RuleMayStop DEF Bounds, Even
<1>3. cache.near[a] \in Nat
  <2>1. a \in Nodes
    BY ThresholdInside DEF Class, AtLevel
  <2>2. cache.near[a] \in 0 .. Inf
    BY <2>1, CacheIs DEF AtLevel
  <2> QED BY <2>2
<1> QED BY <1>1, <1>2, <1>3

\* A level that is not forced divides a syndrome that has a perfect matching into such.
LEMMA ThresholdSolvable ==
    ASSUME AtLevel, ~ForcedAt(level), Solvable(cache, residual),
           NEW out, out = {C \in Threshold(level) : Rule!MayStop(level, C)}
    PROVE  /\ \A C \in out : Solvable(cache, C)
           /\ Solvable(cache, residual \ UNION out)
<1>1. ASSUME NEW C \in out PROVE Solvable(cache, C)
  <2> SUFFICES ASSUME NEW a \in C PROVE Fits(C, a)
    BY SolvableIs
  <2>1. C \in Threshold(level) /\ Rule!MayStop(level, C)
    OBVIOUS
  <2>2. Class(C, a) = C
    BY <2>1, ThresholdInside DEF Class
  <2> QED BY <2>1, <2>2, AcceptedFits DEF Fits
<1>2. ASSUME NEW a \in residual \ UNION out PROVE Fits(residual \ UNION out, a)
  <2> DEFINE D == Class(residual, a)
             rest == residual \ UNION out
  <2>1. Fits(residual, a) /\ a \in Class(rest, a) /\ a \in Nodes
    BY SolvableIs DEF Class, AtLevel
  <2>2. CASE \E b \in D : cache.near[b] < Inf
    <3>1. cache.near[a] < Inf
      BY <2>1, <2>2, NearAlike DEF Class, AtLevel
    <3> QED BY <2>1, <3>1 DEF Fits
  <2>3. CASE ~ (\E b \in D : cache.near[b] < Inf)
    <3> DEFINE F == {C \in out : C \cap D # {}}
    <3>1. Even(D) /\ IsFiniteSet(D)
      <4>1. D \in SUBSET Nodes
        BY DEF Class, AtLevel
      <4>2. IsFiniteSet(D)
        BY <4>1, FS_Subset, GeometryAssumption
      <4> QED BY <2>1, <2>3, <4>2 DEF Fits
    <3>2. ASSUME NEW C \in F PROVE C \subseteq D /\ Even(C)
      <4>1. PICK c \in C : c \in D
        BY <3>2
      <4>2. C \in Threshold(level) /\ Rule!MayStop(level, C)
        BY <3>2
      <4>3. C \subseteq Class(residual, c)
        BY <4>1, <4>2, ThresholdInside
      <4>4. Class(residual, c) = D
        BY <4>1 DEF Class
      <4> QED BY <2>3, <4>1, <4>2, <4>3, <4>4, AcceptedFits
    <3>3. \A A, B \in F : A # B => A \cap B = {}
      <4>1. Divides(Threshold(level), residual)
        <5>1. residual \in SUBSET Nat
          BY GeometryAssumption DEF AtLevel
        <5> QED BY <5>1, ThresholdDivides DEF Threshold
      <4>2. \A A \in F : A \in Threshold(level)
        OBVIOUS
      <4> QED BY <4>1, <4>2 DEF Divides
    <3>4. Class(rest, a) = D \ UNION F
      BY DEF Class
    <3>5. F \in SUBSET SUBSET D /\ \A A \in F : Even(A)
      BY <3>2
    <3> HIDE DEF F, D
    <3>6. Even(D \ UNION F)
      BY <3>1, <3>3, <3>5, EvenRest
    <3> QED BY <3>4, <3>6 DEF Fits
  <2> QED BY <2>2, <2>3
<1> QED BY <1>1, <1>2, SolvableIs

\* A forced level that keeps the components of the graph together, or everything.
LEMMA InteriorSolvable ==
    ASSUME NEW S, Solvable(cache, S), NEW groups \in {{S}, InteriorComponents(cache.id, S)}
    PROVE  /\ \A C \in groups : Solvable(cache, C)
           /\ UNION groups = S
           /\ Solvable(cache, {})
<1>1. \A C \in groups : C = S \/ \E a \in S : C = Class(S, a)
  BY DEF InteriorComponents, Class
<1>2. ASSUME NEW a \in S PROVE Solvable(cache, Class(S, a))
  <2> SUFFICES ASSUME NEW b \in Class(S, a) PROVE Fits(Class(S, a), b)
    BY SolvableIs
  <2>1. b \in S /\ Class(Class(S, a), b) = Class(S, b)
    BY DEF Class
  <2>2. Fits(S, b)
    BY <2>1, SolvableIs
  <2> QED BY <2>1, <2>2 DEF Fits
<1>3. Divides(groups, S)
  BY InteriorDivides, SimplyDivides
<1>4. Solvable(cache, {})
  BY SolvableIs
<1> QED BY <1>1, <1>2, <1>3, <1>4 DEF Divides

\* A forced level is looked up and nothing else, if metadata need not be exact.
LooksUpForced ==
  /\ phase \in {"lookup", "grow", "pairs"} => ~ForcedLookup
  /\ phase = "close" /\ ForcedLookup => Sets(comps) \in {{residual}, Interior}

LEMMA CloseLevelSolves ==
    ASSUME IInv, Typed, Closing, LooksUpForced, ClustersAreSolvable, CloseLevel
    PROVE  ClustersAreSolvable'
<1> SUFFICES ASSUME setting.mode # "exact", Solvable(cache, syndrome)
             PROVE  /\ \A c \in hierarchy' : Solvable(cache, c.members)
                    /\ Solvable(cache, residual')
  BY DEF CloseLevel, given, ClustersAreSolvable
<1>1. /\ \A c \in hierarchy : Solvable(cache, c.members)
      /\ Solvable(cache, residual)
  BY DEF ClustersAreSolvable
<1>2. /\ hierarchy' = hierarchy \cup {[level |-> level, members |-> C] : C \in TakenOut}
      /\ residual' = residual \ UNION TakenOut
  BY CloseLevelTakes
<1>3. AtLevel /\ phase = "close"
  BY RunsAtLevel DEF CloseLevel
<1>4. (\A C \in TakenOut : Solvable(cache, C)) /\ Solvable(cache, residual \ UNION TakenOut)
  <2>1. CASE ~ForcedAt(level)
    <3>1. Sets(comps) = Threshold(level)
      BY <2>1, RuleDivisions DEF Closing
    <3>2. TakenOut = {C \in Threshold(level) : Rule!MayStop(level, C)}
      BY <3>1 DEF TakenOut
    <3> QED BY <1>1, <1>3, <2>1, <3>2, ThresholdSolvable
  <2>2. CASE ForcedAt(level)
    <3>1. ForcedLookup
      BY <2>2 DEF ForcedLookup, Forced, ForcedAt
    <3>2. Sets(comps) \in {{residual}, Interior}
      BY <1>3, <3>1 DEF LooksUpForced
    <3>3. TakenOut = Sets(comps)
      BY <2>2, RuleMayStop DEF TakenOut
    <3>4. /\ \A C \in TakenOut : Solvable(cache, C)
          /\ UNION TakenOut = residual /\ Solvable(cache, {})
      BY <1>1, <3>2, <3>3, InteriorSolvable DEF Interior
    <3>5. residual \ UNION TakenOut = {}
      BY <3>4
    <3> QED BY <3>4, <3>5
  <2> QED BY <2>1, <2>2
<1> QED BY <1>1, <1>2, <1>4

LEMMA DirectRootsSolves ==
    ASSUME ClustersAreSolvable, DirectRoots
    PROVE  ClustersAreSolvable'
<1> DEFINE groups == IF setting.schedule[MaxLevel].certified
                     THEN InteriorComponents(cache.id, residual) ELSE {residual}
           Root(S) == [level |-> MaxLevel, members |-> S]
<1>1. /\ hierarchy' = {Root(S) : S \in groups} /\ residual' = {}
      /\ UNCHANGED <<setting, cache, syndrome>>
  BY DEF DirectRoots, given
<1>2. groups \in {{residual}, InteriorComponents(cache.id, residual)}
  OBVIOUS
<1>3. \A S : Root(S).members = S
  OBVIOUS
<1> HIDE DEF groups, Root
<1> SUFFICES ASSUME setting.mode # "exact", Solvable(cache, syndrome)
             PROVE  /\ \A c \in hierarchy' : Solvable(cache, c.members)
                    /\ Solvable(cache, residual')
  BY <1>1 DEF ClustersAreSolvable
<1>4. Solvable(cache, residual)
  BY DEF ClustersAreSolvable
<1>5. (\A C \in groups : Solvable(cache, C)) /\ Solvable(cache, {})
  BY <1>2, <1>4, InteriorSolvable
<1> QED BY <1>1, <1>3, <1>5

LEMMA NextLooksUp == LooksUpForced /\ [Next]_vars => LooksUpForced'
<1> SUFFICES ASSUME LooksUpForced, [Next]_vars PROVE LooksUpForced'
  OBVIOUS
<1>1. CASE DirectRoots \/ Start \/ CloseLevel \/ Finish
  BY <1>1 DEF DirectRoots, Start, CloseLevel, Finish, LooksUpForced
<1>2. ASSUME UNCHANGED <<given, built>>
      PROVE  (ForcedLookup' <=> ForcedLookup) /\ Interior' = Interior /\ residual' = residual
  BY <1>2, SameLevel DEF ForcedLookup
<1>3. CASE RunForced
  <2>1. UNCHANGED <<given, built>> /\ comps' = Divide(WholeOrInterior) /\ phase' = "close"
    BY <1>3 DEF RunForced
  <2>2. Sets(comps') = WholeOrInterior
    BY <2>1, DivideSets
  <2>3. WholeOrInterior \in {{residual}, Interior}
    BY DEF WholeOrInterior, Interior
  <2> QED BY <1>2, <2>1, <2>2, <2>3 DEF LooksUpForced, Sets
<1>4. CASE RunSingletons \/ RunTable \/ BeginLookup \/ BeginGrowth \/ BeginPairs
  <2>1. UNCHANGED <<given, built>> /\ ~ForcedLookup
    BY <1>4 DEF RunSingletons, RunTable, BeginLookup, BeginGrowth, BeginPairs
  <2> QED BY <1>2, <2>1 DEF LooksUpForced
<1>5. CASE \/ LookupComponent \/ EndLookup \/ TakeCollision \/ TakeFrontier \/ EndGrowth
           \/ TakePair \/ EndPairs
  <2>1. UNCHANGED <<given, built>> /\ phase \in {"lookup", "grow", "pairs"}
    BY <1>5 DEF LookupComponent, EndLookup, TakeCollision, TakeFrontier, EndGrowth, TakePair,
                EndPairs
  <2> QED BY <1>2, <2>1 DEF LooksUpForced
<1>6. CASE UNCHANGED vars
  <2>1. UNCHANGED <<given, built, comps, phase>>
    BY <1>6 DEF vars, given, built
  <2>2. Sets(comps') = Sets(comps) /\ Sets(comps)' = Sets(comps')
    BY <2>1 DEF Sets
  <2> QED BY <1>2, <2>1, <2>2 DEF LooksUpForced
<1> QED BY <1>1, <1>3, <1>4, <1>5, <1>6 DEF Next

LEMMA NextSolves ==
    ASSUME IInv, Typed, Ruled, LooksUpForced, ClustersAreSolvable, [Next]_vars
    PROVE  ClustersAreSolvable'
<1>1. CASE DirectRoots
  BY <1>1, DirectRootsSolves
<1>2. CASE CloseLevel
  BY <1>2, CloseLevelSolves DEF Ruled, CloseLevel
<1>3. CASE UNCHANGED <<setting, cache, syndrome, residual, hierarchy>>
  BY <1>3 DEF ClustersAreSolvable
<1>4. CASE UNCHANGED <<given, built>> \/ Finish \/ UNCHANGED vars
  BY <1>3, <1>4 DEF given, built, vars, Finish
<1> QED BY <1>1, <1>2, <1>4
   DEF Next, Start, RunForced, RunSingletons, BeginLookup, LookupComponent, EndLookup, BeginGrowth,
       TakeCollision, TakeFrontier, EndGrowth, RunTable, BeginPairs, TakePair, EndPairs

\* A syndrome that can be matched is divided into clusters that can each be matched, and what is
\* left can be matched after every level (parity_can_stop_locally and the components that a
\* forced level keeps together), unless exact metadata are asked for on a forced level.
THEOREM ClustersStaySolvable == ASSUME ~SparseLists PROVE Spec => []ClustersAreSolvable
<1> DEFINE I == IInv /\ Typed /\ Ruled /\ LooksUpForced /\ ClustersAreSolvable
<1>1. Init => I
  BY InitIInv, InitTyped DEF Init, Ruled, LooksUpForced, ClustersAreSolvable
<1>2. I /\ [Next]_vars => I'
  BY NextKeeps, NextTyped, NextRules, NextLooksUp, NextSolves
<1> QED BY <1>1, <1>2, PTL DEF Spec

-----------------------------------------------------------------------------
(* The order of unions.                                                    *)

\* The members of S reach each other by steps of at most b.
Tied(S, b) == \A x, y \in S : y \in ReachFrom(x, S, Links(cache.dist, S, b))

\* The bottleneck of a set is the least bound that ties it.
LEMMA BottleneckTies ==
    ASSUME Valid, NEW S \in SUBSET Nodes, S # {}
    PROVE  /\ Bottleneck(cache.dist, S) \in Nat
           /\ Tied(S, Bottleneck(cache.dist, S))
           /\ \A b \in Nat : Tied(S, b) => Bottleneck(cache.dist, S) <= b
<1> DEFINE T == {0} \cup {cache.dist[p] : p \in S \X S}
           B == {b \in T : ReachFrom(Min(S), S, Links(cache.dist, S, b)) = S}
<1>1. \A x, y \in S : /\ cache.dist[<<x, y>>] \in 0 .. Inf /\ cache.dist[<<x, y>>] \in Nat
                      /\ cache.dist[<<x, y>>] = cache.dist[<<y, x>>]
  BY DistancesAre
<1>2. Bottleneck(cache.dist, S) \in Nat
  BY BottleneckIs
<1>3. S \in SUBSET Nat
  BY GeometryAssumption
<1>4. Min(S) \in S
  BY <1>3, LeastNatural
<1>5. \A b : \A x, y \in S : <<x, y>> \in Links(cache.dist, S, b) <=> cache.dist[<<x, y>>] <= b
  BY <1>1, <1>3, LinksAre
<1>6. \A x, y \in S : cache.dist[<<x, y>>] \in T
  OBVIOUS
<1>7. 0 \in T /\ \A t \in T : t = 0 \/ \E x, y \in S : t = cache.dist[<<x, y>>]
  OBVIOUS
<1>8. Bottleneck(cache.dist, S) = Min(B)
  BY DEF Bottleneck
<1> HIDE DEF T
<1>9. T \in SUBSET (0 .. Inf)
  <2>1. 0 \in 0 .. Inf
    BY GeometryAssumption
  <2>2. \A t \in T : t \in 0 .. Inf
    BY <1>1, <1>7, <2>1
  <2> QED BY <2>2
<1>10. B \in SUBSET Nat /\ \A b \in B : ReachFrom(Min(S), S, Links(cache.dist, S, b)) = S
  <2>1. T \in SUBSET Nat
    BY <1>9
  <2> QED BY <2>1
<1>11. ASSUME NEW b \in Nat, Tied(S, b) PROVE \E m \in B : m <= b
  <2> DEFINE U == {t \in T : t <= b}
  <2>1. U \in SUBSET (0 .. Inf) /\ 0 \in U
    <3>1. U \subseteq T /\ 0 \in U
      BY <1>7
    <3> HIDE DEF U
    <3> QED BY <1>9, <3>1
  <2>2. \A t \in T : t \in U <=> t <= b
    OBVIOUS
  <2> HIDE DEF U
  <2>3. PICK m \in U : m \in Nat /\ \A t \in U : t <= m
    BY <2>1, GreatestNatural, GeometryAssumption
  <2>4. m \in T /\ m <= b
    BY <1>9, <2>1, <2>2 DEF U
  <2>5. \A x, y \in S : <<x, y>> \in Links(cache.dist, S, b) => <<x, y>> \in Links(cache.dist, S, m)
    BY <1>5, <1>6, <2>2, <2>3
  <2>6. ReachFrom(Min(S), S, Links(cache.dist, S, b)) \subseteq ReachFrom(Min(S), S, Links(cache.dist, S, m))
    BY <2>5, ReachMore
  <2>7. S \subseteq ReachFrom(Min(S), S, Links(cache.dist, S, b))
    BY <1>4, <1>11 DEF Tied
  <2>8. ReachFrom(Min(S), S, Links(cache.dist, S, m)) \subseteq S
    BY DEF ReachFrom
  <2>9. ReachFrom(Min(S), S, Links(cache.dist, S, m)) = S
    BY <2>6, <2>7, <2>8
  <2> QED BY <2>4, <2>9
<1>12. ASSUME NEW b, ReachFrom(Min(S), S, Links(cache.dist, S, b)) = S PROVE Tied(S, b)
  <2> DEFINE R == Links(cache.dist, S, b)
  <2>1. \A x, y \in S : <<x, y>> \in R => <<y, x>> \in R
    BY <1>1, <1>5
  <2>2. ReachFrom(Min(S), S, R) = S
    BY <1>12
  <2> HIDE DEF R
  <2>3. \A x \in S : Min(S) \in ReachFrom(x, S, R)
    BY <1>4, <2>1, <2>2, ReachBack
  <2>4. \A x, y \in S : y \in ReachFrom(x, S, R)
    BY <1>4, <2>2, <2>3, ReachOn
  <2> QED BY <2>4 DEF Tied, R
<1> HIDE DEF B
<1>13. Tied(S, Bottleneck(cache.dist, S))
  <2> DEFINE W == Max(T)
  <2>1. W \in T /\ W \in Nat /\ \A t \in T : t <= W
    BY <1>7, <1>9, GreatestNatural, GeometryAssumption
  <2>2. \A x, y \in S : <<x, y>> \in Links(cache.dist, S, W)
    BY <1>5, <1>6, <2>1
  <2> HIDE DEF W
  <2>3. Tied(S, W)
    <3> SUFFICES ASSUME NEW x \in S, NEW y \in S
                 PROVE  y \in ReachFrom(x, S, Links(cache.dist, S, W))
      BY DEF Tied
    <3>1. x \in ReachFrom(x, S, Links(cache.dist, S, W))
      BY DEF ReachFrom
    <3> QED BY <2>2, <3>1, ReachNext
  <2>4. B # {}
    BY <1>11, <2>1, <2>3
  <2>5. Min(B) \in B
    BY <1>10, <2>4, LeastNatural
  <2> QED BY <1>8, <1>10, <1>12, <2>5
<1>14. ASSUME NEW b \in Nat, Tied(S, b) PROVE Bottleneck(cache.dist, S) <= b
  <2>1. PICK m \in B : m <= b
    BY <1>11, <1>14
  <2>2. Min(B) <= m /\ Min(B) \in B
    BY <1>10, LeastNatural
  <2>3. PICK i \in Nat, j \in Nat : i = Min(B) /\ j = m
    BY <1>10, <2>1, <2>2
  <2> QED BY <1>8, <2>1, <2>2, <2>3
<1> QED BY <1>2, <1>13, <1>14

\* One detector is tied by nothing.
LEMMA BottleneckAlone ==
    ASSUME Valid, NEW a \in Nodes
    PROVE  Bottleneck(cache.dist, {a}) = 0
<1>1. {a} \in SUBSET Nodes
  OBVIOUS
<1>2. Tied({a}, 0)
  BY DEF Tied, ReachFrom
<1>3. Bottleneck(cache.dist, {a}) \in Nat /\ Bottleneck(cache.dist, {a}) <= 0
  BY <1>1, <1>2, BottleneckTies
<1> QED BY <1>3

\* What reaches inside a part reaches in the whole.
LEMMA TiedInside ==
    ASSUME Valid, NEW S \in SUBSET Nodes, NEW U \in SUBSET S, NEW b \in Nat, NEW e \in Nat, b <= e,
           Tied(U, b)
    PROVE  \A x, y \in U : y \in ReachFrom(x, S, Links(cache.dist, S, e))
<1> SUFFICES ASSUME NEW x \in U, NEW y \in U, NEW T \in SUBSET S, x \in T,
                    \A v \in T, w \in S : <<v, w>> \in Links(cache.dist, S, e) => w \in T
             PROVE  y \in T
  BY DEF ReachFrom
<1>1. \A v, w \in S : cache.dist[<<v, w>>] \in Nat /\ cache.dist[<<v, w>>] = cache.dist[<<w, v>>]
  BY DistancesAre
<1>2. S \in SUBSET Nat /\ U \in SUBSET Nat
  BY GeometryAssumption
<1>3. \A v, w \in S : <<v, w>> \in Links(cache.dist, S, e) <=> cache.dist[<<v, w>>] <= e
  BY <1>1, <1>2, LinksAre
<1>4. \A v, w \in U : <<v, w>> \in Links(cache.dist, U, b) <=> cache.dist[<<v, w>>] <= b
  BY <1>1, <1>2, LinksAre
<1>5. \A v, w \in U : cache.dist[<<v, w>>] <= b => cache.dist[<<v, w>>] <= e
  <2> SUFFICES ASSUME NEW v \in U, NEW w \in U, cache.dist[<<v, w>>] <= b
               PROVE  cache.dist[<<v, w>>] <= e
    OBVIOUS
  <2>1. cache.dist[<<v, w>>] \in Nat
    BY <1>1
  <2> QED BY <2>1
<1>6. \A v \in T \cap U, w \in U : <<v, w>> \in Links(cache.dist, U, b) => w \in T \cap U
  BY <1>3, <1>4, <1>5
<1>7. y \in ReachFrom(x, U, Links(cache.dist, U, b))
  BY DEF Tied
<1>8. T \cap U \in SUBSET U /\ x \in T \cap U
  OBVIOUS
<1> QED BY <1>6, <1>7, <1>8 DEF ReachFrom

\* Two sets that are first linked by D are tied by D.
LEMMA BottleneckUnited ==
    ASSUME Valid, NEW C \in SUBSET Nodes, NEW E \in SUBSET Nodes, C \cap E = {},
           NEW D \in Nat, \E x \in C, y \in E : cache.dist[<<x, y>>] = D,
           \A v \in C, w \in E : D <= cache.dist[<<v, w>>],
           Bottleneck(cache.dist, C) <= D, Bottleneck(cache.dist, E) <= D
    PROVE  Bottleneck(cache.dist, C \cup E) = D
<1>0. PICK x \in C, y \in E : cache.dist[<<x, y>>] = D
  OBVIOUS
<1> DEFINE S == C \cup E
           R == Links(cache.dist, S, D)
<1>1. S \in SUBSET Nodes /\ S # {} /\ S \in SUBSET Nat /\ C \in SUBSET S /\ E \in SUBSET S
  BY GeometryAssumption
<1>2. \A v, w \in S : cache.dist[<<v, w>>] \in Nat /\ cache.dist[<<v, w>>] = cache.dist[<<w, v>>]
  BY <1>1, DistancesAre
<1>3. \A b : \A v, w \in S : <<v, w>> \in Links(cache.dist, S, b) <=> cache.dist[<<v, w>>] <= b
  BY <1>1, <1>2, LinksAre
<1>4. /\ Bottleneck(cache.dist, C) \in Nat /\ Tied(C, Bottleneck(cache.dist, C))
      /\ Bottleneck(cache.dist, E) \in Nat /\ Tied(E, Bottleneck(cache.dist, E))
  BY BottleneckTies
<1>5. \A v, w \in C : w \in ReachFrom(v, S, R)
  BY <1>1, <1>4, TiedInside
<1>6. \A v, w \in E : w \in ReachFrom(v, S, R)
  BY <1>1, <1>4, TiedInside
<1>7. <<x, y>> \in R /\ <<y, x>> \in R
  BY <1>0, <1>2, <1>3
<1>13. \A v \in S : v \in C \/ v \in E
  OBVIOUS
<1> HIDE DEF R, S
<1>8. Tied(S, D)
  <2> SUFFICES ASSUME NEW v \in S, NEW w \in S PROVE w \in ReachFrom(v, S, R)
    BY DEF Tied, R
  <2>1. x \in S /\ y \in S
    BY <1>1
  <2>2. CASE v \in C /\ w \in C
    BY <1>5, <2>2
  <2>3. CASE v \in E /\ w \in E
    BY <1>6, <2>3
  <2>4. CASE v \in C /\ w \in E
    <3>1. x \in ReachFrom(v, S, R) /\ w \in ReachFrom(y, S, R)
      BY <1>5, <1>6, <2>4
    <3>2. y \in ReachFrom(v, S, R)
      BY <1>7, <2>1, <3>1, ReachNext
    <3> QED BY <3>1, <3>2, ReachOn
  <2>5. CASE v \in E /\ w \in C
    <3>1. y \in ReachFrom(v, S, R) /\ w \in ReachFrom(x, S, R)
      BY <1>5, <1>6, <2>5
    <3>2. x \in ReachFrom(v, S, R)
      BY <1>7, <2>1, <3>1, ReachNext
    <3> QED BY <3>1, <3>2, ReachOn
  <2> QED BY <1>13, <2>2, <2>3, <2>4, <2>5
<1> DEFINE b == Bottleneck(cache.dist, S)
<1>9. b \in Nat /\ Tied(S, b) /\ b <= D
  BY <1>1, <1>8, BottleneckTies
<1> HIDE DEF b
<1>10. ~ (b < D)
  <2> SUFFICES ASSUME b < D PROVE FALSE
    OBVIOUS
  <2>1. ASSUME NEW v \in C, NEW w \in S, <<v, w>> \in Links(cache.dist, S, b) PROVE w \in C
    <3> SUFFICES ASSUME w \in E PROVE FALSE
      BY <1>13
    <3>1. PICK i \in Nat : i = cache.dist[<<v, w>>]
      BY <1>1, <1>2
    <3>2. i <= b /\ D <= i
      BY <1>1, <1>3, <2>1, <3>1
    <3> QED BY <1>9, <3>1, <3>2
  <2>2. y \in ReachFrom(x, S, Links(cache.dist, S, b))
    BY <1>1, <1>9 DEF Tied
  <2>3. y \in C
    BY <1>1, <2>1, <2>2 DEF ReachFrom
  <2> QED BY <2>3
<1>11. b = D
  BY <1>9, <1>10
<1> QED BY <1>11 DEF b, S

\* A component is ready at half its bottleneck, which lies behind all entries of a queue.
Ready(c) == c.ready = Bottleneck(cache.dist, c.members) \div 2

Behind(c, queue) == \A e \in queue : Bottleneck(cache.dist, c.members) <= e[1]

\* What unions in order leave: no component needed more than the buffer, nor more than what any
\* queue still holds.
Ordered ==
  /\ phase \in {"grow", "pairs"} => \A c \in comps :
       Ready(c) /\ Bottleneck(cache.dist, c.members) <= Bounds.buffer /\ Behind(c, collisions)
  /\ phase = "grow" => \A c \in comps : Behind(c, frontier)

\* Two components that are united when no two detectors of theirs are closer.
LEMMA UniteReadies ==
    ASSUME AtLevel, Parts(comps, residual), NEW c \in comps, NEW d \in comps, c # d,
           NEW x \in c.members, NEW y \in d.members,
           NEW D \in Nat, cache.dist[<<x, y>>] = D,
           \A v \in c.members, w \in d.members : D <= cache.dist[<<v, w>>],
           Ready(c), Ready(d),
           Bottleneck(cache.dist, c.members) <= D, Bottleneck(cache.dist, d.members) <= D
    PROVE  \A n \in Unite(c, d, D, D) :
             n \in comps \/ (Ready(n) /\ Bottleneck(cache.dist, n.members) = D)
<1> DEFINE n == Component(c.members \cup d.members, Max({c.ready, d.ready, D \div 2}),
                          Max({c.width, d.width, D}))
<1>1. n.members = c.members \cup d.members /\ n.ready = Max({c.ready, d.ready, D \div 2})
  BY DEF Component
<1>2. \A m \in Unite(c, d, D, D) : m \in comps \/ m = n
  BY DEF Unite
<1> HIDE DEF n
<1>3. /\ Valid /\ c.members \in SUBSET Nodes /\ d.members \in SUBSET Nodes
      /\ c.members \cap d.members = {}
  BY DEF AtLevel, Parts
<1>4. Bottleneck(cache.dist, c.members \cup d.members) = D
  <2>1. PICK C \in SUBSET Nodes, E \in SUBSET Nodes : C = c.members /\ E = d.members
    BY <1>3
  <2>2. /\ C \cap E = {}
        /\ \E v \in C, w \in E : cache.dist[<<v, w>>] = D
        /\ \A v \in C, w \in E : D <= cache.dist[<<v, w>>]
        /\ Bottleneck(cache.dist, C) <= D /\ Bottleneck(cache.dist, E) <= D
    BY <1>3, <2>1
  <2>3. Bottleneck(cache.dist, C \cup E) = D
    BY <1>3, <2>2, BottleneckUnited
  <2> QED BY <2>1, <2>3
<1>5. PICK i \in Nat, j \in Nat :
        i = Bottleneck(cache.dist, c.members) /\ j = Bottleneck(cache.dist, d.members)
  BY <1>3, BottleneckTies
<1>6. c.ready = i \div 2 /\ d.ready = j \div 2 /\ i <= D /\ j <= D
  BY <1>5 DEF Ready
<1>7. PICK p \in Nat, q \in Nat, r \in Nat :
        p = i \div 2 /\ q = j \div 2 /\ r = D \div 2 /\ p <= r /\ q <= r
  BY <1>5, <1>6
<1>8. Max({p, q, r}) = r
  <2>1. Max({p, q, r}) \in {p, q, r} /\ r <= Max({p, q, r})
    BY GreatestOfThree
  <2> QED BY <1>7, <2>1
<1>9. n.ready = D \div 2
  BY <1>1, <1>6, <1>7, <1>8
<1> QED BY <1>1, <1>2, <1>4, <1>9 DEF Ready

\* Detectors closer than all that waits are together.
LEMMA CloserAreTogether ==
    ASSUME IInv, Typed, Flooding, phase = "grow",
           NEW t \in Nat, t <= Bounds.buffer,
           \A f \in frontier : t < f[1], \A e \in collisions : t < e[1],
           NEW a \in residual, NEW b \in residual, cache.dist[<<a, b>>] <= t
    PROVE  Together(a, b)
<1>1. Joined(t, a, b)
  BY FloodMeets
<1>2. Parts(comps, residual) /\ Covers(comps, residual)
  BY DEF IInv, Components
<1>3. PICK c \in comps : a \in c.members
  BY <1>2 DEF Covers
<1>4. \A e \in collisions : ~ (e[1] <= t)
  <2> SUFFICES ASSUME NEW e \in collisions PROVE ~ (e[1] <= t)
    OBVIOUS
  <2>1. e[1] \in 0 .. Inf
    BY DEF Typed, Growing
  <2>2. e[1] \in Nat
    BY <2>1, GeometryAssumption
  <2> QED BY <2>2
<1>5. \A x \in c.members, y \in residual : Known(t, x, y) => y \in c.members
  BY <1>2, <1>4 DEF Known, Together, Parts
<1>6. c.members \in SUBSET residual
  BY <1>2 DEF Parts
<1>7. b \in c.members
  BY <1>1, <1>3, <1>5, <1>6 DEF Joined
<1> QED BY <1>3, <1>7 DEF Together

\* Components are not empty.
LEMMA MembersAre ==
    ASSUME AtLevel, Parts(comps, residual), Uniting, NEW c \in comps
    PROVE  /\ c.members \in SUBSET Nodes /\ c.members # {} /\ c.members \subseteq residual
           /\ Bottleneck(cache.dist, c.members) \in Nat
<1>1. c.members \in SUBSET Nodes /\ c.members # {} /\ c.members \subseteq residual /\ Valid
  BY DEF AtLevel, Parts, Uniting, Sound
<1> QED BY <1>1, BottleneckIs

LEMMA SingletonsOrder ==
    ASSUME AtLevel, UNCHANGED <<given, built>>, comps' = Singletons
    PROVE  \A c \in comps' : Ready(c)' /\ Bottleneck(cache'.dist, c.members) = 0
<1> DEFINE Made(a) == Component({a}, 0, 0)
<1>1. \A a : Made(a).members = {a} /\ Made(a).ready = 0
  BY DEF Component
<1>2. comps' = {Made(a) : a \in residual}
  BY DEF Singletons
<1>3. cache' = cache
  BY SameLevel
<1>4. \A a \in residual : Bottleneck(cache.dist, {a}) = 0
  BY BottleneckAlone DEF AtLevel
<1> HIDE DEF Made
<1> QED BY <1>1, <1>2, <1>3, <1>4 DEF Ready

LEMMA BeginGrowthOrders == IInv /\ Typed /\ BeginGrowth => Ordered'
<1> SUFFICES ASSUME IInv, Typed, BeginGrowth PROVE Ordered'
  OBVIOUS
<1>1. /\ UNCHANGED <<given, built>> /\ comps' = Singletons /\ Running /\ phase' = "grow"
      /\ frontier' = {<<0, a, a>> : a \in residual} /\ collisions' = {}
  BY DEF BeginGrowth
<1>2. AtLevel
  BY <1>1, RunsAtLevel
<1>3. \A c \in comps' : Ready(c)' /\ Bottleneck(cache'.dist, c.members) = 0
  BY <1>1, <1>2, SingletonsOrder
<1>4. Bounds'.buffer \in Nat
  BY <1>1, <1>2, SameLevel, BoundsAre DEF AtLevel, Bounds
<1>5. \A e \in frontier' \cup collisions' : 0 <= e[1]
  BY <1>1
<1> QED BY <1>1, <1>3, <1>4, <1>5 DEF Ordered, Behind

LEMMA BeginPairsOrders == IInv /\ Typed /\ BeginPairs => Ordered'
<1> SUFFICES ASSUME IInv, Typed, BeginPairs PROVE Ordered'
  OBVIOUS
<1>1. /\ UNCHANGED <<given, built>> /\ comps' = Singletons /\ Running /\ phase' = "pairs"
  BY DEF BeginPairs
<1>2. AtLevel
  BY <1>1, RunsAtLevel
<1>3. \A c \in comps' : Ready(c)' /\ Bottleneck(cache'.dist, c.members) = 0
  BY <1>1, <1>2, SingletonsOrder
<1>4. Bounds'.buffer \in Nat
  BY <1>1, <1>2, SameLevel, BoundsAre DEF AtLevel, Bounds
<1>5. \A e \in collisions' : 0 <= e[1]
  <2>1. Pairing'
    BY BeginPairsPairs
  <2>2. \A e \in collisions' : e[1] \in Nat
    BY <2>1 DEF Pairing, Events
  <2> QED BY <2>2
<1> QED BY <1>1, <1>3, <1>4, <1>5 DEF Ordered, Behind

\* A collision is taken when nothing that is closer waits: it unites two components at the
\* distance of their closest members.
LEMMA TakeCollisionOrders ==
    ASSUME IInv, Typed, Flooding, Ordered, TakeCollision
    PROVE  Ordered'
<1>1. /\ phase = "grow" /\ phase' = "grow" /\ UNCHANGED <<given, built, frontier>>
      /\ CollisionReady
  BY DEF TakeCollision
<1>2. PICK e \in collisions :
        /\ First(e, collisions)
        /\ collisions' = collisions \ {e}
        /\ comps' = IF ComponentOf(e[2]) = ComponentOf(e[3]) THEN comps
                    ELSE Unite(ComponentOf(e[2]), ComponentOf(e[3]), e[1], e[1])
  BY DEF TakeCollision
<1> DEFINE c == ComponentOf(e[2])
           d == ComponentOf(e[3])
<1>3. AtLevel /\ Parts(comps, residual) /\ Covers(comps, residual) /\ Uniting
  BY <1>1, RunsAtLevel DEF IInv, Components, Flooding
<1>4. cache' = cache /\ Bounds' = Bounds
  BY <1>1, SameLevel
<1>5. /\ \A h \in collisions : h[1] \in Nat
      /\ \A f \in frontier : f[1] \in Nat
  <2>1. /\ \A h \in collisions : h[1] \in 0 .. Inf
        /\ \A f \in frontier : f[1] \in 0 .. Inf
    BY DEF Typed, Growing
  <2> QED BY <2>1, GeometryAssumption
<1>6. \A h \in collisions : e[1] <= h[1]
  <2> SUFFICES ASSUME NEW h \in collisions PROVE e[1] <= h[1]
    OBVIOUS
  <2>1. Before(e, h)
    BY <1>2 DEF First
  <2> QED BY <1>5, <2>1 DEF Before
<1>7. \A f \in frontier : e[1] <= f[1]
  <2>1. PICK h \in collisions : \A f \in frontier : h[1] <= f[1]
    BY <1>1 DEF CollisionReady
  <2> SUFFICES ASSUME NEW f \in frontier PROVE e[1] <= f[1]
    OBVIOUS
  <2>2. PICK i \in Nat, j \in Nat, k \in Nat : i = e[1] /\ j = h[1] /\ k = f[1]
    BY <1>5
  <2>3. i <= j /\ j <= k
    BY <1>6, <2>1, <2>2
  <2> QED BY <2>2, <2>3
<1>8. PICK D \in Nat : D = e[1]
  BY <1>5
<1>9. /\ e[2] \in residual /\ e[3] \in residual /\ residual \subseteq Nodes
      /\ cache.dist[<<e[2], e[3]>>] <= D /\ D <= Bounds.buffer /\ Bounds.buffer \in Nat
  BY <1>1, <1>3, <1>8, BoundsAre DEF IInv, Grown, Ends, Flooding, AtLevel, Bounds
<1>10. c \in comps /\ d \in comps /\ e[2] \in c.members /\ e[3] \in d.members
  BY <1>3, <1>9 DEF Covers, ComponentOf
<1>11. \A n \in comps : /\ Ready(n) /\ Bottleneck(cache.dist, n.members) <= Bounds.buffer
                        /\ Behind(n, collisions) /\ Behind(n, frontier)
  BY <1>1 DEF Ordered
<1>12. \A n \in comps' : \/ n \in comps
                         \/ Ready(n) /\ Bottleneck(cache.dist, n.members) = D
  <2>1. CASE c = d
    BY <1>2, <2>1
  <2>2. CASE c # d
    <3>1. ASSUME NEW v \in c.members, NEW w \in d.members PROVE D <= cache.dist[<<v, w>>]
      <4>1. v \in residual /\ w \in residual
        BY <1>3, <1>10 DEF Parts
      <4>2. PICK t \in Nat : t = cache.dist[<<v, w>>]
        BY <1>3, <1>9, <4>1, DistancesAre DEF AtLevel
      <4>3. CASE t < D
        <5>1. t <= Bounds.buffer
          BY <1>9, <4>3
        <5>2. (\A f \in frontier : t < f[1]) /\ (\A h \in collisions : t < h[1])
          BY <1>5, <1>6, <1>7, <1>8, <4>3
        <5>3. Together(v, w)
          BY <1>1, <4>1, <4>2, <5>1, <5>2, CloserAreTogether
        <5> QED BY <1>3, <1>10, <2>2, <5>3 DEF Together, Parts
      <4> QED BY <4>2, <4>3
    <3>2. cache.dist[<<e[2], e[3]>>] = D
      <4>1. cache.dist[<<e[2], e[3]>>] \in Nat
        BY <1>3, <1>9, DistancesAre DEF AtLevel
      <4>2. D <= cache.dist[<<e[2], e[3]>>]
        BY <1>10, <3>1
      <4> QED BY <1>9, <4>1, <4>2
    <3>3. /\ Ready(c) /\ Ready(d)
          /\ Bottleneck(cache.dist, c.members) <= D /\ Bottleneck(cache.dist, d.members) <= D
      BY <1>8, <1>10, <1>11 DEF Behind
    <3>4. comps' = Unite(c, d, D, D)
      BY <1>2, <1>8, <2>2
    <3> HIDE DEF c, d
    <3>5. \A n \in Unite(c, d, D, D) :
            n \in comps \/ (Ready(n) /\ Bottleneck(cache.dist, n.members) = D)
      BY <1>3, <1>10, <2>2, <3>1, <3>2, <3>3, UniteReadies
    <3> QED BY <3>4, <3>5
  <2> QED BY <2>1, <2>2
<1>13. collisions' \subseteq collisions /\ frontier' = frontier
  BY <1>1, <1>2
<1> HIDE DEF c, d
<1>14. \A n \in comps' : /\ Ready(n) /\ Bottleneck(cache.dist, n.members) <= Bounds.buffer
                         /\ Behind(n, collisions') /\ Behind(n, frontier')
  <2> SUFFICES ASSUME NEW n \in comps'
               PROVE  /\ Ready(n) /\ Bottleneck(cache.dist, n.members) <= Bounds.buffer
                      /\ Behind(n, collisions') /\ Behind(n, frontier')
    OBVIOUS
  <2>1. CASE n \in comps
    BY <1>11, <1>13, <2>1 DEF Behind
  <2>2. CASE Ready(n) /\ Bottleneck(cache.dist, n.members) = D
    BY <1>6, <1>7, <1>8, <1>9, <1>13, <2>2 DEF Behind
  <2> QED BY <1>12, <2>1, <2>2
<1> QED BY <1>1, <1>4, <1>14 DEF Ordered, Ready, Behind

\* What the frontier finds is no closer than where it stands.
LEMMA TakeFrontierOrders ==
    ASSUME IInv, Typed, Flooding, Ordered, TakeFrontier
    PROVE  Ordered'
<1>1. phase = "grow" /\ phase' = "grow" /\ UNCHANGED <<given, built, comps>>
  BY DEF TakeFrontier
<1>2. PICK e \in frontier :
        IF Stale(e) THEN frontier' = frontier \ {e} /\ UNCHANGED <<reach, owner, collisions>>
        ELSE Spread(e[1], e[2], e[3])
  BY DEF TakeFrontier
<1>3. e[1] \in 0 .. Inf /\ e[2] \in Nodes /\ e[3] \in Nodes /\ e[1] \in Nat
  <2>1. e[1] \in 0 .. Inf /\ e[2] \in Nodes /\ e[3] \in Nodes
    BY DEF Typed, Growing
  <2> QED BY <2>1, GeometryAssumption
<1>4. PICK d \in Nat : d = e[1]
  BY <1>3
<1>5. /\ \A f \in frontier' : f \in frontier \/ d <= f[1]
      /\ \A h \in collisions' : h \in collisions \/ d <= h[1]
  <2>1. CASE Stale(e)
    BY <1>2, <2>1
  <2>2. CASE ~Stale(e)
    <3>1. e[3] = owner[e[2]] /\ e[1] = reach[e[2]] /\ Spread(e[1], e[2], e[3])
      BY <1>2, <2>2 DEF Stale
    <3>2. \A h \in collisions' : h \in collisions \/ e[1] <= h[1]
      BY <1>1, <1>3, <3>1, SpreadMeets
    <3>3. \E taken \in SUBSET Neighbors(e[2]) : Takes(e[2], e[3], e[1], taken)
      BY <1>1, <1>3, <3>1, SpreadIs
    <3>4. \A f \in frontier' : f \in frontier \/ e[1] <= f[1]
      BY <3>3 DEF Takes
    <3> QED BY <1>4, <3>2, <3>4
  <2> QED BY <2>1, <2>2
<1>6. AtLevel /\ Parts(comps, residual) /\ Uniting
  BY <1>1, RunsAtLevel DEF IInv, Components, Flooding
<1>7. cache' = cache /\ Bounds' = Bounds /\ comps' = comps
  BY <1>1, SameLevel
<1>8. ASSUME NEW n \in comps
      PROVE  /\ Ready(n) /\ Bottleneck(cache.dist, n.members) <= Bounds.buffer
             /\ Behind(n, collisions') /\ Behind(n, frontier')
  <2>1. /\ Ready(n) /\ Bottleneck(cache.dist, n.members) <= Bounds.buffer
        /\ Behind(n, collisions) /\ Behind(n, frontier)
    BY <1>1 DEF Ordered
  <2>2. PICK b \in Nat : b = Bottleneck(cache.dist, n.members)
    BY <1>6, MembersAre
  <2>3. b <= d
    BY <1>4, <2>1, <2>2 DEF Behind
  <2>4. ASSUME NEW f \in frontier' PROVE b <= f[1]
    <3>1. CASE f \in frontier
      BY <2>1, <2>2, <3>1 DEF Behind
    <3>2. CASE d <= f[1]
      <4>1. f[1] \in 0 .. Inf
        BY TakeFrontierTyped DEF Typed, Growing
      <4>2. f[1] \in Nat
        BY <4>1, GeometryAssumption
      <4> QED BY <2>3, <3>2, <4>2
    <3> QED BY <1>5, <3>1, <3>2
  <2>5. ASSUME NEW h \in collisions' PROVE b <= h[1]
    <3>1. CASE h \in collisions
      BY <2>1, <2>2, <3>1 DEF Behind
    <3>2. CASE d <= h[1]
      <4>1. h[1] \in 0 .. Inf
        BY TakeFrontierTyped DEF Typed, Growing
      <4>2. h[1] \in Nat
        BY <4>1, GeometryAssumption
      <4> QED BY <2>3, <3>2, <4>2
    <3> QED BY <1>5, <3>1, <3>2
  <2> QED BY <2>1, <2>2, <2>4, <2>5 DEF Behind
<1> QED BY <1>1, <1>7, <1>8 DEF Ordered, Ready, Behind

\* A pair is taken when all pairs that are closer have been.
LEMMA TakePairOrders ==
    ASSUME IInv, Typed, Pairing, Ordered, TakePair
    PROVE  Ordered'
<1>1. phase = "pairs" /\ phase' = "pairs" /\ UNCHANGED <<given, built>>
  BY DEF TakePair
<1>2. PICK e \in collisions :
        /\ First(e, collisions)
        /\ collisions' = collisions \ {e}
        /\ comps' = IF ComponentOf(e[2]) = ComponentOf(e[3])
                    THEN (comps \ {ComponentOf(e[2])}) \cup
                           {Component(ComponentOf(e[2]).members, ComponentOf(e[2]).ready,
                                      Max({ComponentOf(e[2]).width, e[1]}))}
                    ELSE IF e[1] <= Bounds.buffer
                    THEN Unite(ComponentOf(e[2]), ComponentOf(e[3]), e[1], e[1]) ELSE comps
  BY DEF TakePair
<1> DEFINE c == ComponentOf(e[2])
           d == ComponentOf(e[3])
<1>3. AtLevel /\ Parts(comps, residual) /\ Covers(comps, residual) /\ Uniting
  BY <1>1, RunsAtLevel DEF IInv, Components, Pairing
<1>4. cache' = cache /\ Bounds' = Bounds
  BY <1>1, SameLevel
<1>5. \A h \in collisions : h \in Events /\ h[1] \in Nat
  BY DEF Pairing, Events
<1>6. \A h \in collisions : e[1] <= h[1]
  <2> SUFFICES ASSUME NEW h \in collisions PROVE e[1] <= h[1]
    OBVIOUS
  <2>1. Before(e, h)
    BY <1>2 DEF First
  <2> QED BY <1>5, <2>1 DEF Before
<1>7. PICK D \in Nat : D = e[1]
  BY <1>5
<1>8. /\ e[2] \in residual /\ e[3] \in residual /\ residual \subseteq Nodes
      /\ cache.dist[<<e[2], e[3]>>] = D /\ D < Inf /\ Bounds.buffer \in Nat /\ Inf \in Nat
  BY <1>3, <1>5, <1>7, BoundsAre DEF Events, AtLevel, Bounds
<1>9. c \in comps /\ d \in comps /\ e[2] \in c.members /\ e[3] \in d.members
  BY <1>3, <1>8 DEF Covers, ComponentOf
<1>10. \A n \in comps : /\ Ready(n) /\ Bottleneck(cache.dist, n.members) <= Bounds.buffer
                        /\ Behind(n, collisions)
  BY <1>1 DEF Ordered
<1>11. \A n \in comps' : \/ \E m \in comps : n.members = m.members /\ n.ready = m.ready
                         \/ /\ Ready(n) /\ Bottleneck(cache.dist, n.members) = D
                            /\ D <= Bounds.buffer
  <2>1. CASE c = d
    <3> DEFINE n == Component(c.members, c.ready, Max({c.width, e[1]}))
    <3>1. n.members = c.members /\ n.ready = c.ready
      BY DEF Component
    <3>2. comps' = (comps \ {c}) \cup {n}
      BY <1>2, <2>1
    <3> HIDE DEF n, c, d
    <3> QED BY <1>9, <3>1, <3>2
  <2>2. CASE c # d /\ e[1] <= Bounds.buffer
    <3>1. ASSUME NEW v \in c.members, NEW w \in d.members PROVE D <= cache.dist[<<v, w>>]
      <4>1. v \in residual /\ w \in residual /\ v \in Nat /\ w \in Nat
        BY <1>3, <1>8, <1>9, GeometryAssumption DEF Parts
      <4>2. PICK t \in Nat : t = cache.dist[<<v, w>>] /\ t = cache.dist[<<w, v>>]
        BY <1>3, <1>8, <4>1, DistancesAre DEF AtLevel
      <4>3. ~Together(v, w) /\ ~Together(w, v)
        BY <1>3, <1>9, <2>2 DEF Together, Parts
      <4>4. CASE t < D
        <5>1. t < Inf /\ t <= Bounds.buffer /\ \A h \in collisions : h[1] # t
          <6>1. t < Inf /\ t <= Bounds.buffer
            BY <1>7, <1>8, <2>2, <4>4
          <6>2. \A h \in collisions : h[1] # t
            BY <1>6, <1>7, <4>4
          <6> QED BY <6>1, <6>2
        <5>2. CASE v < w
          <6>1. <<t, v, w>> \in Taken
            BY <4>1, <4>2, <5>1, <5>2 DEF Taken, Events
          <6>2. Together(v, w)
            BY <5>1, <6>1 DEF Pairing
          <6> QED BY <4>3, <6>2
        <5>3. CASE w < v
          <6>1. <<t, w, v>> \in Taken
            BY <4>1, <4>2, <5>1, <5>3 DEF Taken, Events
          <6>2. Together(w, v)
            BY <5>1, <6>1 DEF Pairing
          <6> QED BY <4>3, <6>2
        <5>4. v # w
          BY <1>3, <1>9, <2>2 DEF Parts
        <5> QED BY <4>1, <5>2, <5>3, <5>4
      <4> QED BY <4>2, <4>4
    <3>2. /\ Ready(c) /\ Ready(d)
          /\ Bottleneck(cache.dist, c.members) <= D /\ Bottleneck(cache.dist, d.members) <= D
      BY <1>7, <1>9, <1>10 DEF Behind
    <3>3. comps' = Unite(c, d, D, D)
      BY <1>2, <1>7, <2>2
    <3> HIDE DEF c, d
    <3>4. \A n \in Unite(c, d, D, D) :
            n \in comps \/ (Ready(n) /\ Bottleneck(cache.dist, n.members) = D)
      BY <1>3, <1>8, <1>9, <2>2, <3>1, <3>2, UniteReadies
    <3> QED BY <1>7, <2>2, <3>3, <3>4
  <2>3. CASE c # d /\ ~ (e[1] <= Bounds.buffer)
    BY <1>2, <2>3
  <2> QED BY <2>1, <2>2, <2>3
<1>12. collisions' \subseteq collisions
  BY <1>2
<1> HIDE DEF c, d
<1>13. ASSUME NEW n \in comps'
       PROVE  /\ Ready(n) /\ Bottleneck(cache.dist, n.members) <= Bounds.buffer
              /\ Behind(n, collisions')
  <2>1. CASE \E m \in comps : n.members = m.members /\ n.ready = m.ready
    BY <1>10, <1>12, <2>1 DEF Behind, Ready
  <2>2. CASE Ready(n) /\ Bottleneck(cache.dist, n.members) = D /\ D <= Bounds.buffer
    BY <1>6, <1>7, <1>12, <2>2 DEF Behind
  <2> QED BY <1>11, <2>1, <2>2
<1> QED BY <1>1, <1>4, <1>13 DEF Ordered, Ready, Behind

LEMMA NextOrders == IInv /\ Typed /\ Ruled /\ Ordered /\ [Next]_vars => Ordered'
<1> SUFFICES ASSUME IInv, Typed, Ruled, Ordered, [Next]_vars PROVE Ordered'
  OBVIOUS
<1>1. CASE phase' \notin {"grow", "pairs"}
  BY <1>1 DEF Ordered
<1>2. CASE BeginGrowth \/ BeginPairs
  BY <1>2, BeginGrowthOrders, BeginPairsOrders
<1>3. CASE TakeCollision \/ TakeFrontier
  <2>1. Flooding
    BY <1>3 DEF Ruled, TakeCollision, TakeFrontier
  <2> QED BY <1>3, <2>1, TakeCollisionOrders, TakeFrontierOrders
<1>4. CASE TakePair
  <2>1. Pairing
    BY <1>4 DEF Ruled, TakePair
  <2> QED BY <1>4, <2>1, TakePairOrders
<1>5. CASE UNCHANGED vars
  <2>1. UNCHANGED <<given, built, comps, phase, frontier, collisions>>
    BY <1>5 DEF vars, given, built
  <2>2. cache' = cache /\ Bounds' = Bounds
    BY <2>1, SameLevel
  <2> QED BY <2>1, <2>2 DEF Ordered, Ready, Behind
<1>6. CASE DirectRoots \/ Start \/ RunForced \/ RunSingletons \/ BeginLookup \/ LookupComponent
           \/ EndLookup \/ EndGrowth \/ RunTable \/ EndPairs \/ CloseLevel \/ Finish
  <2>1. phase' \notin {"grow", "pairs"}
    BY <1>6 DEF DirectRoots, Start, RunForced, RunSingletons, BeginLookup, LookupComponent,
                EndLookup, EndGrowth, RunTable, EndPairs, CloseLevel, Finish
  <2> QED BY <1>1, <2>1
<1> QED BY <1>2, <1>3, <1>4, <1>5, <1>6 DEF Next

LEMMA OrderedUnites == IInv /\ Typed /\ Ruled /\ Ordered => UnitesInOrder
<1> SUFFICES ASSUME IInv, Typed, Ruled, Ordered PROVE UnitesInOrder
  OBVIOUS
<1>1. ASSUME phase = "grow", frontier # {}, ~CollisionReady, NEW a \in residual, NEW b \in residual,
             \A f \in frontier : cache.dist[<<a, b>>] < f[1]
      PROVE  ComponentOf(a) = ComponentOf(b)
  <2>1. Flooding /\ AtLevel /\ Parts(comps, residual) /\ Covers(comps, residual)
    BY <1>1, RunsAtLevel DEF Ruled, IInv, Components
  <2>2. PICK t \in Nat : t = cache.dist[<<a, b>>]
    BY <2>1, DistancesAre DEF AtLevel
  <2>3. /\ \A e \in collisions : e[1] \in Nat
        /\ \A f \in frontier : f[1] \in Nat /\ f[1] <= Bounds.buffer
    <3>1. /\ \A e \in collisions : e[1] \in 0 .. Inf
          /\ \A f \in frontier : f[1] \in 0 .. Inf
      BY DEF Typed, Growing
    <3> QED BY <2>1, <3>1, GeometryAssumption DEF Flooding
  <2>4. t <= Bounds.buffer
    <3>1. PICK f \in frontier : TRUE
      BY <1>1
    <3>2. Bounds.buffer \in Nat
      BY <2>1, BoundsAre DEF AtLevel, Bounds
    <3>3. t < f[1] /\ f[1] <= Bounds.buffer /\ f[1] \in Nat
      BY <1>1, <2>2, <2>3
    <3> QED BY <3>2, <3>3
  <2>5. \A e \in collisions : t < e[1]
    <3> SUFFICES ASSUME NEW e \in collisions PROVE t < e[1]
      OBVIOUS
    <3>1. PICK f \in frontier : ~ (e[1] <= f[1])
      BY <1>1 DEF CollisionReady
    <3>2. t < f[1] /\ f[1] \in Nat /\ e[1] \in Nat
      BY <1>1, <2>2, <2>3
    <3> QED BY <3>1, <3>2
  <2>6. Together(a, b)
    BY <1>1, <2>1, <2>2, <2>4, <2>5, CloserAreTogether
  <2>7. /\ ComponentOf(a) \in comps /\ a \in ComponentOf(a).members
        /\ ComponentOf(b) \in comps /\ b \in ComponentOf(b).members
    BY <2>1 DEF Covers, ComponentOf
  <2> QED BY <2>1, <2>6, <2>7 DEF Together, Parts
<1>2. phase = "grow" => \A c \in comps : Bottleneck(cache.dist, c.members) <= Bounds.buffer
  BY DEF Ordered
<1>3. phase \in {"grow", "pairs"} =>
        \A c \in comps : c.ready = Bottleneck(cache.dist, c.members) \div 2
  BY DEF Ordered, Ready
<1>4. phase = "close" => \A c \in comps : c.width = Diameter(cache.dist, c.members)
  BY DEF Ruled, Closing, Exact
<1> QED BY <1>1, <1>2, <1>3, <1>4 DEF UnitesInOrder

\* The sparse frontier finds the unions of the table of all pairs although it sees a collision only
\* where two regions meet: what is closer than the frontier is together when no collision is due,
\* a component is ready at half the longest edge of its minimum spanning tree, which is within the
\* buffer, and its width is its diameter when the level closes (run_sparse_frontier_streaming_unions,
\* process_ready_collisions, unite, compute_exact_component_pair_metadata).
THEOREM UnitedInOrder == ASSUME ~SparseLists PROVE Spec => []UnitesInOrder
<1>1. Init => IInv /\ Typed /\ Ruled /\ Ordered
  BY InitIInv, InitTyped DEF Init, Ruled, Ordered
<1>2. IInv /\ Typed /\ Ruled /\ Ordered /\ [Next]_vars => (IInv /\ Typed /\ Ruled /\ Ordered)'
  BY NextKeeps, NextTyped, NextRules, NextOrders
<1> QED BY <1>1, <1>2, OrderedUnites, PTL DEF Spec

=============================================================================
