---------------------- MODULE LockstepScheduler_proofs ----------------------
(***************************************************************************)
(* The state of the lockstep scheduler stays well-formed, and in every     *)
(* hierarchy of two generations no detector is lost or counted twice.      *)
(***************************************************************************)
EXTENDS LockstepScheduler, FiniteSetTheorems, WellFoundedInduction, TLAPS

-----------------------------------------------------------------------------
(* The hierarchies of the theorem.                                         *)

\* Children have no children.  A broadcast to all levels above gives several
\* clusters the same states; they reach an answer twice if they reach two roots, or
\* a root that takes results instead of states (see finding 2 for the pipeline).
Broadcastable(s) ==
    LET I == DOMAIN s.level IN
    \/ \A c \in I : s.parent[c] = None /\ s.own[c] # {}
    \/ \E p \in I :
         /\ \A c \in I : s.parent[c] = None <=> c = p
         /\ s.own[p] = {} => \A c, d \in I \ {p} : s.level[c] = s.level[d]
TwoGenerations(s) ==
    /\ \A c \in DOMAIN s.level : s.parent[c] # None => s.parent[s.parent[c]] = None
    /\ s.mode = "parentless" => Broadcastable(s)

-----------------------------------------------------------------------------
(* The shape of the state, with what keeps it.                             *)

\* A root without detectors that takes results never grows anything.
Passive(p) == EmptyTerminalRoot(p) /\ shot.mode \in {"level_batched", "parentless"}

\* Only what is running, or was when it was imported, has trees.
TreesRun(k) == k.w.tree => k.state \in {"running", "drained", "imported"}
Well(c, k) ==
    /\ TreesRun(k)
    /\ k.state = "running" => ~Idle(k.w)
    /\ Passive(c) => ~k.w.tree /\ k.state \notin {"running", "drained"}

Shaped ==
    /\ TypeOK
    /\ pc = "begin" => r = [c \in Ids |-> Blank(c)] /\ time = 0
    /\ pc \in {"stable", "step"} =>
         /\ toStep \subseteq {c \in Ids : r[c].state = "running"}
         /\ \A c \in Ids : Well(c, r[c])

-----------------------------------------------------------------------------
(* What clusters hold.                                                     *)

\* The broadcast reaches clusters that are not roots.
Spreads == shot.mode = "parentless" /\ \A c \in Ids : shot.own[c] # {}

OwnOf(S) == UNION {shot.own[c] : c \in S}
Below(p) == OwnOf({p} \cup Children(p))
Imported(res, p) == {c \in Children(p) : res[c].state = "imported"}
Got(res, p) == OwnOf({p} \cup Imported(res, p))

\* k may be what is known of the child c.
ChildHas(c, k) ==
    /\ k.state # "imported" \/ Spreads =>
         /\ ~k.hasDirect
         /\ shot.own[c] \subseteq k.extraction
         /\ shot.own[c] \subseteq k.w.sources
         /\ Spreads \/ k.w.sources = shot.own[c]
    /\ k.state \in {"quiescent", "imported"} => k.hasState /\ k.stopped.sources = shot.own[c]

\* k may be what is known of the root p when res is known of its children.
PassiveHas(res, p, k) ==
    /\ k.direct = CountOf(Got(res, p))
    /\ k.extraction = {}
    /\ ~k.hasDirect => Imported(res, p) = {}
ActiveHas(res, p, k) ==
    /\ k.hasDirect => k.direct = CountOf(Below(p)) /\ ~HasUnimportedChild(res, p)
    /\ ~k.hasDirect =>
         /\ Got(res, p) \subseteq k.extraction
         /\ Got(res, p) \subseteq k.w.sources
         /\ k.extraction \subseteq Below(p)
RootHas(res, p, k) ==
    /\ k.stopped.sources = {}
    /\ Passive(p) => PassiveHas(res, p, k)
    /\ ~Passive(p) => ActiveHas(res, p, k)

Held(res) ==
    \A c \in Ids : IF Root(c) THEN RootHas(res, c, res[c]) ELSE ChildHas(c, res[c])

-----------------------------------------------------------------------------
(* When a child stops, at the time t and with the clusters S to step.      *)

SliceInOrder(res, t, S) == \A c \in S : res[c].w.next = t
\* time of the next event of a child, or of its last one if it has stopped.
ChildrenInOrder(res, t) ==
    \A c \in Ids : ~Root(c) =>
        /\ res[c].state = "running" => res[c].w.next >= t
        /\ res[c].state = "quiescent" => res[c].stopped.time = t
ImportsInOrder(res) ==
    \A c, d \in Ids : ~Root(c) /\ ~Root(d) /\ res[d].state = "imported" =>
        /\ res[c].state = "running" => res[d].stopped.time =< res[c].w.next
        /\ res[c].state = "quiescent" => res[d].stopped.time =< res[c].stopped.time

\* A root with checkpoints is never ahead of time, and its last checkpoint is what
\* it is.
Checkpointed(k) ==
    /\ k.history # <<>>
    /\ Last(k.history) = [time |-> k.w.clock, w |-> k.w, extraction |-> k.extraction]
    /\ \A i \in DOMAIN k.history : k.history[i].time =< k.w.clock
UpToDate(res, t) ==
    \A c \in Roots :
        /\ res[c].state = "running" => res[c].w.next >= t
        /\ res[c].state # "running" => res[c].state # "imported" /\ Idle(res[c].w)
        /\ HasUnimportedChild(res, c) => res[c].w.clock =< t /\ Checkpointed(res[c])

Balanced(res, t, S) ==
    /\ Held(res)
    /\ SliceInOrder(res, t, S)
    /\ shot.mode = "event_time" => ChildrenInOrder(res, t) /\ ImportsInOrder(res)
    /\ shot.mode = "event_time" /\ shot.checkpoints => UpToDate(res, t)
Accounted == pc \in {"stable", "step"} => Balanced(r, time, toStep)

IInv == Shaped /\ Accounted
-----------------------------------------------------------------------------
(* The hierarchy, and functions on it.                                     *)

\* What ShotsAssumption says of the shot.
LEMMA ShotIs ==
    ASSUME shot \in Shots
    PROVE  /\ Ids # {} /\ Ids \subseteq Nat /\ IsFiniteSet(Ids)
           /\ shot.level \in [Ids -> Nat]
           /\ shot.own \in [Ids -> SUBSET Detectors]
           /\ shot.reach \in [Ids -> SUBSET Detectors]
           /\ UNION {shot.own[c] : c \in Ids} = Detectors
           /\ \A c, d \in Ids : c # d => shot.own[c] \cap shot.own[d] = {}
           /\ \A c \in Ids : ~Root(c) =>
                /\ shot.parent[c] \in Ids
                /\ shot.level[shot.parent[c]] > shot.level[c]
                /\ shot.own[c] # {}
           /\ shot.mode \in Modes /\ shot.checkpoints \in BOOLEAN
BY ShotsAssumption DEF Ids, Root

\* A cluster is not a child of itself, and only of its parent.
LEMMA ChildrenAre ==
    ASSUME shot \in Shots, NEW p \in Ids
    PROVE  /\ p \notin Children(p) /\ Children(p) \subseteq Ids
           /\ \A c \in Children(p) : ~Root(c) /\ shot.parent[c] = p
<1>1. None \notin Ids
  BY ShotIs, ShotsAssumption
<1>2. \A c \in Children(p) : c \in Ids /\ shot.parent[c] = p /\ ~Root(c)
  BY <1>1 DEF Children, Root
<1>3. p \notin Children(p)
  <2> SUFFICES ASSUME p \in Children(p) PROVE FALSE
    OBVIOUS
  <2>1. shot.parent[p] = p /\ ~Root(p)
    BY <1>2
  <2>2. shot.level[p] > shot.level[p] /\ shot.level[p] \in Nat
    BY <2>1, ShotIs
  <2> QED
    BY <2>2
<1> QED
  BY <1>2, <1>3

\* Several entries put over a function.
LEMMA OverrideIs ==
    ASSUME NEW S, NEW T, NEW f \in [S -> T], NEW K \in SUBSET S, NEW g \in [K -> T]
    PROVE  /\ Override(f, g) \in [S -> T]
           /\ \A d \in K : Override(f, g)[d] = g[d]
           /\ \A d \in S \ K : Override(f, g)[d] = f[d]
BY DEF Override

\* A set of natural numbers has a least one.
LEMMA LeastNatural ==
    ASSUME NEW S \in SUBSET Nat, S # {}
    PROVE  Min(S) \in S /\ \A y \in S : Min(S) =< y
<1>1. PICK x \in S : \A y \in S : <<y, x>> \notin OpToRel(<, Nat)
  BY NatLessThanWellFounded, WFMin
<1>2. \A y \in S : x =< y
  <2> SUFFICES ASSUME NEW y \in S, y < x PROVE FALSE
    OBVIOUS
  <2>1. <<y, x>> \in OpToRel(<, Nat)
    BY DEF OpToRel
  <2> QED
    BY <1>1, <2>1
<1> QED
  BY <1>2 DEF Min

\* A set of times has a latest one.
LEMMA LatestTime ==
    ASSUME NEW S \in SUBSET Times, S # {}
    PROVE  Max(S) \in S /\ \A y \in S : y =< Max(S)
<1> DEFINE left == {MaxTime - t : t \in S}
<1>1. MaxTime \in Nat /\ S \subseteq 0..MaxTime
  BY ShotsAssumption DEF Times
<1>2. left \subseteq Nat /\ left # {}
  <2>1. \A t \in S : MaxTime - t \in Nat
    BY <1>1
  <2> QED
    BY <2>1
<1>3. \E n \in left : \A m \in left : n =< m
  <2> HIDE DEF left
  <2> QED
    BY <1>2, LeastNatural
<1>4. \E t \in S : \A y \in S : y =< t
  <2>1. PICK n \in left : \A m \in left : n =< m
    BY <1>3
  <2>2. PICK t \in S : n = MaxTime - t
    BY <2>1
  <2>3. ASSUME NEW y \in S PROVE y =< t
    <3>1. MaxTime - y \in left
      OBVIOUS
    <3>2. MaxTime - t =< MaxTime - y
      BY <2>1, <2>2, <3>1
    <3>3. t \in Nat /\ y \in Nat
      BY <1>1
    <3> QED
      BY <3>2, <3>3, <1>1
  <2> QED
    BY <2>3
<1>5. \A y, t \in S : y =< t <=> t >= y
  BY <1>1
<1> QED
  BY <1>4, <1>5 DEF Max

-----------------------------------------------------------------------------
(* Marking and capturing.                                                  *)

Stop == [time : Times, sources : SUBSET Detectors, owned : SUBSET Detectors]
Snapshot == [time : Times, w : Worker, extraction : SUBSET Detectors]
\* Everything but the history.
Alike(k, m) ==
    /\ m.state = k.state /\ m.hasState = k.hasState /\ m.provisional = k.provisional
    /\ m.everDrained = k.everDrained /\ m.hasDirect = k.hasDirect /\ m.direct = k.direct
    /\ m.extraction = k.extraction /\ m.stopped = k.stopped /\ m.w = k.w

LEMMA CountsAre == ASSUME NEW S PROVE CountOf(S) \in Count /\ NoCount \in Count
BY DEF CountOf, NoCount, Count

LEMMA ExportIs ==
    ASSUME shot \in Shots, NEW c \in Ids, NEW w \in Worker
    PROVE  /\ Export(c, w) \in Stop
           /\ Export(c, w).time = w.clock
           /\ shot.mode = "parentless" => Export(c, w).sources = w.sources \cap shot.own[c]
           /\ shot.mode # "parentless" => Export(c, w).sources = w.sources
BY ShotIs DEF Export, Stop, Worker

\* What a mark may do.
LEMMA MarkedCases ==
    ASSUME NEW res, NEW c
    PROVE  LET k == res[c]
               m == Marked(res, c)
               exported == /\ k.state = "quiescent"
                           /\ IF Root(c) THEN k.hasDirect ELSE k.hasState
               stopped == [k EXCEPT !.state = "quiescent", !.hasState = TRUE]
               root == [stopped EXCEPT !.provisional = FALSE]
           IN \/ m = k /\ (exported \/ ~Idle(k.w))
              \/ /\ ~Root(c) /\ Quiescent(k.w)
                 /\ m = [stopped EXCEPT !.provisional = TRUE, !.stopped = Export(c, k.w)]
              \/ Root(c) /\ Quiescent(k.w) /\ m = root
              \/ /\ Root(c) /\ Quiescent(k.w) /\ m = Extracted(root)
                 /\ ~k.hasDirect /\ ~HasUnimportedChild(res, c)
              \/ Idle(k.w) /\ k.w.tree /\ m = [k EXCEPT !.state = "drained", !.everDrained = TRUE]
<1> DEFINE k == res[c]
           m == Marked(res, c)
           exported == /\ k.state = "quiescent"
                       /\ IF Root(c) THEN k.hasDirect ELSE k.hasState
<1>1. CASE exported
  BY <1>1 DEF Marked
<1>2. CASE ~exported /\ Quiescent(k.w) /\ ~Root(c)
  BY <1>2 DEF Marked
<1>3. CASE ~exported /\ Quiescent(k.w) /\ Root(c)
  BY <1>3 DEF Marked
<1>4. CASE ~exported /\ Idle(k.w) /\ k.w.tree
  BY <1>4 DEF Marked, Quiescent
<1>5. CASE ~exported /\ ~Idle(k.w)
  BY <1>5 DEF Marked, Quiescent
<1> QED
  BY <1>1, <1>2, <1>3, <1>4, <1>5 DEF Quiescent

\* What a mark leaves alone.
LEMMA MarkedKeeps ==
    ASSUME shot \in Shots, NEW res \in [Ids -> Cluster], NEW c \in Ids
    PROVE  LET k == res[c]
               m == Marked(res, c)
           IN /\ m \in Cluster
              /\ m.extraction = k.extraction /\ m.history = k.history
              /\ m.w.tree = k.w.tree /\ m.w.next = k.w.next /\ m.w.clock = k.w.clock
              /\ TreesRun(k) => TreesRun(m)
              /\ m.state = "running" => ~Idle(m.w)
              /\ m.state = "imported" => k.state = "imported"
<1> DEFINE k == res[c]
           m == Marked(res, c)
           exported == /\ k.state = "quiescent"
                       /\ IF Root(c) THEN k.hasDirect ELSE k.hasState
           stopped == [k EXCEPT !.state = "quiescent", !.hasState = TRUE]
           root == [stopped EXCEPT !.provisional = FALSE]
           spent == [root EXCEPT !.direct = Counted(root), !.hasDirect = TRUE, !.w = Spent(root.w)]
<1>1. k \in Cluster /\ Counted(root) \in Count /\ k.w \in Worker
  BY CountsAre DEF Counted, Cluster
<1>2. Export(c, k.w) \in Stop /\ Spent(k.w) \in Worker
  BY <1>1, ExportIs DEF Spent, Worker
<1>3. \/ m = k /\ (exported \/ ~Idle(k.w))
      \/ /\ Quiescent(k.w)
         /\ m = [stopped EXCEPT !.provisional = TRUE, !.stopped = Export(c, k.w)]
      \/ Quiescent(k.w) /\ m = root
      \/ Quiescent(k.w) /\ m = spent
      \/ Idle(k.w) /\ k.w.tree /\ m = [k EXCEPT !.state = "drained", !.everDrained = TRUE]
  BY MarkedCases DEF Extracted
<1>4. CASE m = k /\ (exported \/ ~Idle(k.w))
  BY <1>1, <1>4 DEF TreesRun
<1>5. CASE Quiescent(k.w) /\ m = [stopped EXCEPT !.provisional = TRUE, !.stopped = Export(c, k.w)]
  BY <1>1, <1>2, <1>5 DEF TreesRun, Quiescent, Cluster, Stop
<1>6. CASE Quiescent(k.w) /\ m = root
  BY <1>1, <1>6 DEF TreesRun, Quiescent, Cluster
<1>7. CASE Quiescent(k.w) /\ m = spent
  <2>1. spent.w = Spent(k.w) /\ spent.state = "quiescent" /\ spent \in Cluster
    BY <1>1, <1>2 DEF Cluster
  <2>2. spent.extraction = k.extraction /\ spent.history = k.history
    BY <1>1 DEF Cluster
  <2> HIDE DEF spent
  <2>3. /\ Spent(k.w).tree = k.w.tree /\ Spent(k.w).next = k.w.next
        /\ Spent(k.w).clock = k.w.clock /\ ~k.w.tree
    BY <1>1, <1>7 DEF Spent, Worker, Quiescent
  <2> QED
    BY <2>1, <2>2, <2>3, <1>7 DEF TreesRun
<1>8. CASE Idle(k.w) /\ k.w.tree /\ m = [k EXCEPT !.state = "drained", !.everDrained = TRUE]
  BY <1>1, <1>8 DEF TreesRun, Cluster
<1> QED
  BY <1>3, <1>4, <1>5, <1>6, <1>7, <1>8

\* What a mark does to a child, and to a root.
LEMMA MarkedChild ==
    ASSUME shot \in Shots, NEW res \in [Ids -> Cluster], NEW c \in Ids, ~Root(c)
    PROVE  LET k == res[c]
               m == Marked(res, c)
           IN /\ m.w = k.w /\ m.hasDirect = k.hasDirect /\ m.direct = k.direct
              /\ \/ m.state = k.state /\ m.hasState = k.hasState /\ m.stopped = k.stopped
                 \/ m.state = "drained"
                 \/ m.state = "quiescent" /\ m.hasState /\ m.stopped = Export(c, k.w)
<1> DEFINE k == res[c]
           m == Marked(res, c)
           stopped == [k EXCEPT !.state = "quiescent", !.hasState = TRUE]
<1>1. k \in Cluster
  OBVIOUS
<1>2. \/ m = k
      \/ m = [stopped EXCEPT !.provisional = TRUE, !.stopped = Export(c, k.w)]
      \/ m = [k EXCEPT !.state = "drained", !.everDrained = TRUE]
  BY MarkedCases
<1> QED
  BY <1>1, <1>2 DEF Cluster

LEMMA MarkedRoot ==
    ASSUME shot \in Shots, NEW res \in [Ids -> Cluster], NEW c \in Ids, Root(c)
    PROVE  LET k == res[c]
               m == Marked(res, c)
           IN /\ m.stopped = k.stopped
              /\ \/ m.w = k.w /\ m.hasDirect = k.hasDirect /\ m.direct = k.direct
                 \/ /\ ~k.hasDirect /\ ~HasUnimportedChild(res, c)
                    /\ m.hasDirect /\ m.direct = Counted(k)
<1> DEFINE k == res[c]
           m == Marked(res, c)
           stopped == [k EXCEPT !.state = "quiescent", !.hasState = TRUE]
           root == [stopped EXCEPT !.provisional = FALSE]
<1>1. k \in Cluster
  OBVIOUS
<1>2. \/ m = k
      \/ m = root
      \/ m = Extracted(root) /\ ~k.hasDirect /\ ~HasUnimportedChild(res, c)
      \/ m = [k EXCEPT !.state = "drained", !.everDrained = TRUE]
  BY MarkedCases
<1>3. /\ root.stopped = k.stopped /\ root.w = k.w /\ root.hasDirect = k.hasDirect
      /\ root.direct = k.direct /\ root.extraction = k.extraction
  BY <1>1 DEF Cluster
<1>4. /\ Extracted(root).stopped = root.stopped /\ Extracted(root).hasDirect
      /\ Extracted(root).direct = Counted(root)
  BY <1>1 DEF Cluster, Extracted
<1>5. Counted(root) = Counted(k)
  BY <1>3 DEF Counted
<1>6. CASE m = k
  BY <1>6
<1>7. CASE m = root
  BY <1>3, <1>7
<1>8. CASE m = Extracted(root) /\ ~k.hasDirect /\ ~HasUnimportedChild(res, c)
  BY <1>3, <1>4, <1>5, <1>8
<1>9. CASE m = [k EXCEPT !.state = "drained", !.everDrained = TRUE]
  BY <1>1, <1>9 DEF Cluster
<1> QED
  BY <1>2, <1>6, <1>7, <1>8, <1>9

\* A checkpoint changes nothing but the history; there is one if a child is to come.
LEMMA CapturedIs ==
    ASSUME shot \in Shots, NEW res \in [Ids -> Cluster], NEW c \in Ids
    PROVE  LET k == res[c]
               m == Captured(res, c)
           IN /\ m \in Cluster
              /\ Alike(k, m)
              /\ /\ shot.checkpoints /\ HasUnimportedChild(res, c)
                 /\ \A i \in DOMAIN k.history : k.history[i].time =< k.w.clock
                 => Checkpointed(m)
<1> DEFINE k == res[c]
           entry == [time |-> k.w.clock, w |-> k.w, extraction |-> k.extraction]
           again == k.history # <<>> /\ Last(k.history).time = entry.time
           older == IF again THEN Front(k.history) ELSE k.history
           m == Captured(res, c)
<1>1. k \in Cluster /\ k.history \in Seq(Snapshot) /\ entry \in Snapshot
  BY DEF Cluster, Snapshot, Worker
<1>2. PICK h \in Seq(Snapshot) : h = k.history
  BY <1>1
<1>3. /\ older \in Seq(Snapshot)
      /\ Len(older) =< Len(h) /\ \A i \in 1..Len(older) : older[i] = h[i]
  <2>1. CASE again
    <3>1. Len(h) \in Nat /\ Len(h) > 0
      BY <1>2, <2>1
    <3>2. older = SubSeq(h, 1, Len(h) - 1)
      BY <1>2, <2>1 DEF Front
    <3>3. PICK n \in Nat : n = Len(h) - 1
      BY <3>1
    <3>4. SubSeq(h, 1, n) \in Seq(Snapshot) /\ Len(SubSeq(h, 1, n)) = n
      BY <3>1, <3>3
    <3>5. \A i \in 1..n : SubSeq(h, 1, n)[i] = h[i]
      BY <3>1, <3>3
    <3>6. older = SubSeq(h, 1, n) /\ n =< Len(h)
      BY <3>1, <3>2, <3>3
    <3> HIDE DEF older
    <3>7. older \in Seq(Snapshot) /\ Len(older) = n
      BY ONLY <3>4, <3>6
    <3> QED
      BY <3>5, <3>6, <3>7
  <2>2. CASE ~again
    BY <1>2, <2>2
  <2> QED
    BY <2>1, <2>2
<1>4. PICK o \in Seq(Snapshot) : o = older
  BY <1>3
<1>5. Append(o, entry) \in Seq(Snapshot)
  BY <1>1, <1>4
<1>6. CASE ~shot.checkpoints \/ ~HasUnimportedChild(res, c)
  <2>1. m = k
    BY <1>6 DEF Captured
  <2> QED
    BY <2>1, <1>6, <1>1 DEF Alike
<1>7. CASE shot.checkpoints /\ HasUnimportedChild(res, c)
  <2>1. m = [k EXCEPT !.history = Append(o, entry)]
    BY <1>7, <1>4 DEF Captured
  <2>2. m \in Cluster /\ m.history = Append(o, entry) /\ m.w = k.w /\ m.extraction = k.extraction
    <3>1. PICK a : a = Append(o, entry)
      OBVIOUS
    <3>2. m = [k EXCEPT !.history = a] /\ a \in Seq(Snapshot)
      BY <2>1, <3>1, <1>5
    <3> HIDE DEF m
    <3>3. m \in Cluster
      BY <1>1, <3>2 DEF Cluster, Snapshot
    <3> QED
      BY <1>1, <3>1, <3>2, <3>3 DEF Cluster
  <2>3. Alike(k, m)
    BY <2>1, <1>1 DEF Cluster, Alike
  <2>4. ASSUME \A i \in DOMAIN k.history : k.history[i].time =< k.w.clock
        PROVE  Checkpointed(m)
    <3>1. \A i \in 1..Len(o) : o[i].time =< k.w.clock
      BY <2>4, <1>2, <1>3, <1>4
    <3>2. PICK e \in Snapshot : e = entry
      BY <1>1
    <3>3. PICK a \in Seq(Snapshot) : a = Append(o, e)
      BY <1>5, <3>2
    <3>4. Len(a) = Len(o) + 1 /\ a[Len(a)] = e /\ \A i \in 1..Len(o) : a[i] = o[i]
      BY <3>3
    <3>5. entry.time =< k.w.clock
      BY <1>1 DEF Cluster, Worker, Times
    <3>6. \A i \in DOMAIN a : a[i].time =< k.w.clock
      BY <3>1, <3>2, <3>4, <3>5
    <3>7. a # <<>> /\ Last(a) = e
      BY <3>4 DEF Last
    <3>8. m.history = a
      BY <2>2, <3>2, <3>3
    <3> QED
      BY <2>2, <3>2, <3>6, <3>7, <3>8 DEF Checkpointed
  <2> QED
    BY <2>2, <2>3, <2>4
<1> QED
  BY <1>6, <1>7

\* Marking and capturing one cluster.
LEMMA AfterMark ==
    ASSUME shot \in Shots, NEW res \in [Ids -> Cluster], NEW c \in Ids
    PROVE  LET k == res[c]
               after == MarkAndCapture(res, c)
           IN /\ after \in [Ids -> Cluster]
              /\ \A d \in Ids \ {c} : after[d] = res[d]
              /\ Alike(Marked(res, c), after[c])
              /\ HasUnimportedChild(after, c) <=> HasUnimportedChild(res, c)
              /\ /\ shot.checkpoints /\ HasUnimportedChild(res, c)
                 /\ \A i \in DOMAIN k.history : k.history[i].time =< k.w.clock
                 => Checkpointed(after[c])
<1> DEFINE k == res[c]
           m == Marked(res, c)
           marked == [res EXCEPT ![c] = m]
           after == MarkAndCapture(res, c)
<1>1. /\ m \in Cluster /\ m.history = k.history /\ m.w.clock = k.w.clock
  BY MarkedKeeps
<1>2. marked \in [Ids -> Cluster] /\ marked[c] = m /\ \A d \in Ids \ {c} : marked[d] = res[d]
  BY <1>1
<1>3. after = [marked EXCEPT ![c] = Captured(marked, c)]
  BY DEF MarkAndCapture
<1>4. PICK x : x = marked
  OBVIOUS
<1>5. /\ x \in [Ids -> Cluster] /\ x[c] = m /\ \A d \in Ids \ {c} : x[d] = res[d]
      /\ after = [x EXCEPT ![c] = Captured(x, c)]
  BY <1>2, <1>3, <1>4
<1>6. /\ Captured(x, c) \in Cluster /\ Alike(x[c], Captured(x, c))
      /\ /\ shot.checkpoints /\ HasUnimportedChild(x, c)
         /\ \A i \in DOMAIN x[c].history : x[c].history[i].time =< x[c].w.clock
         => Checkpointed(Captured(x, c))
  BY <1>5, CapturedIs
<1>7. /\ after \in [Ids -> Cluster] /\ after[c] = Captured(x, c)
      /\ \A d \in Ids \ {c} : after[d] = res[d]
  BY <1>5, <1>6
<1>8. Children(c) \subseteq Ids \ {c}
  BY ChildrenAre
<1>9. /\ HasUnimportedChild(after, c) <=> HasUnimportedChild(res, c)
      /\ HasUnimportedChild(x, c) <=> HasUnimportedChild(res, c)
  BY <1>5, <1>7, <1>8 DEF HasUnimportedChild
<1> QED
  BY <1>1, <1>5, <1>6, <1>7, <1>9

\* The other facts about marking and capturing, for what is marked.
LEMMA AfterMarkKeeps ==
    ASSUME shot \in Shots, NEW res \in [Ids -> Cluster], NEW c \in Ids
    PROVE  LET k == res[c]
               m == MarkAndCapture(res, c)[c]
           IN /\ m.extraction = k.extraction
              /\ m.w.tree = k.w.tree /\ m.w.next = k.w.next /\ m.w.clock = k.w.clock
              /\ TreesRun(k) => TreesRun(m)
              /\ m.state = "running" => ~Idle(m.w)
              /\ m.state = "imported" => k.state = "imported"
BY AfterMark, MarkedKeeps DEF Alike, TreesRun

-----------------------------------------------------------------------------
(* Marking keeps what clusters hold.                                       *)

LEMMA ChildStays ==
    ASSUME shot \in Shots, NEW res \in [Ids -> Cluster], NEW c \in Ids, ~Root(c),
           ChildHas(c, res[c]), res[c].state # "imported" \/ Spreads,
           NEW m, Alike(Marked(res, c), m)
    PROVE  ChildHas(c, m)
<1> DEFINE k == res[c]
<1>1. /\ m.w = k.w /\ m.hasDirect = k.hasDirect /\ m.extraction = k.extraction
      /\ \/ m.state = k.state /\ m.hasState = k.hasState /\ m.stopped = k.stopped
         \/ m.state = "drained"
         \/ m.state = "quiescent" /\ m.hasState /\ m.stopped = Export(c, k.w)
  BY MarkedChild, MarkedKeeps DEF Alike
<1>2. Export(c, k.w).sources = shot.own[c]
  <2>1. k.w \in Worker
    BY DEF Cluster
  <2>2. shot.own[c] \subseteq k.w.sources /\ (Spreads \/ k.w.sources = shot.own[c])
    BY DEF ChildHas
  <2>3. CASE shot.mode = "parentless"
    <3>1. Export(c, k.w).sources = k.w.sources \cap shot.own[c]
      BY <2>1, <2>3, ExportIs
    <3> QED
      BY <2>2, <3>1
  <2>4. CASE shot.mode # "parentless"
    BY <2>1, <2>2, <2>4, ExportIs DEF Spreads
  <2> QED
    BY <2>3, <2>4
<1>3. /\ ~k.hasDirect /\ shot.own[c] \subseteq k.extraction /\ shot.own[c] \subseteq k.w.sources
      /\ Spreads \/ k.w.sources = shot.own[c]
      /\ k.state \in {"quiescent", "imported"} => k.hasState /\ k.stopped.sources = shot.own[c]
  BY DEF ChildHas
<1> QED
  BY <1>1, <1>2, <1>3 DEF ChildHas

\* What a root holds depends on nothing of its children but who is imported.
LEMMA RootLooksAtStates ==
    ASSUME NEW p, NEW a, NEW b, NEW k,
           \A c \in Children(p) : a[c].state = "imported" <=> b[c].state = "imported"
    PROVE  /\ RootHas(a, p, k) <=> RootHas(b, p, k)
           /\ Imported(a, p) = Imported(b, p) /\ Got(a, p) = Got(b, p)
           /\ HasUnimportedChild(a, p) <=> HasUnimportedChild(b, p)
<1>1. Imported(a, p) = Imported(b, p)
  BY DEF Imported
<1>2. Got(a, p) = Got(b, p)
  BY <1>1 DEF Got
<1>3. HasUnimportedChild(a, p) <=> HasUnimportedChild(b, p)
  BY DEF HasUnimportedChild
<1> QED
  BY <1>1, <1>2, <1>3 DEF RootHas, PassiveHas, ActiveHas

\* When all its children are imported a root has all there is below it.
LEMMA AllImported ==
    ASSUME NEW res, NEW p, ~HasUnimportedChild(res, p)
    PROVE  Imported(res, p) = Children(p) /\ Got(res, p) = Below(p)
BY DEF HasUnimportedChild, Imported, Got, Below

LEMMA RootStays ==
    ASSUME shot \in Shots, NEW res \in [Ids -> Cluster], NEW p \in Ids, Root(p),
           RootHas(res, p, res[p]),
           NEW m, Alike(Marked(res, p), m)
    PROVE  RootHas(res, p, m)
<1> DEFINE k == res[p]
<1>1. /\ m.stopped = k.stopped /\ m.extraction = k.extraction
      /\ \/ m.w = k.w /\ m.hasDirect = k.hasDirect /\ m.direct = k.direct
         \/ /\ ~k.hasDirect /\ ~HasUnimportedChild(res, p)
            /\ m.hasDirect /\ m.direct = Counted(k)
  BY MarkedRoot, MarkedKeeps DEF Alike
<1>2. CASE m.w = k.w /\ m.hasDirect = k.hasDirect /\ m.direct = k.direct
  BY <1>1, <1>2 DEF RootHas, PassiveHas, ActiveHas
<1>3. CASE /\ ~k.hasDirect /\ ~HasUnimportedChild(res, p)
           /\ m.hasDirect /\ m.direct = Counted(k)
  <2>1. CASE Passive(p)
    <3>1. k.extraction = {} /\ Imported(res, p) = {} /\ k.stopped.sources = {}
      BY <1>3, <2>1 DEF RootHas, PassiveHas
    <3>2. shot.own[p] = {}
      BY <2>1 DEF Passive, EmptyTerminalRoot
    <3>3. Got(res, p) = {}
      BY <3>1, <3>2 DEF Got, OwnOf
    <3>4. Counted(k) = CountOf({})
      BY <3>1 DEF Counted
    <3> QED
      BY <1>1, <1>3, <2>1, <3>1, <3>3, <3>4 DEF RootHas, PassiveHas
  <2>2. CASE ~Passive(p)
    <3>1. /\ Got(res, p) \subseteq k.extraction /\ Got(res, p) \subseteq k.w.sources
          /\ k.extraction \subseteq Below(p) /\ k.stopped.sources = {}
      BY <1>3, <2>2 DEF RootHas, ActiveHas
    <3>2. Got(res, p) = Below(p)
      BY <1>3, AllImported
    <3>3. k.extraction \cap k.w.sources = Below(p)
      BY <3>1, <3>2
    <3>4. Counted(k) = CountOf(Below(p))
      BY <3>3 DEF Counted
    <3> QED
      BY <1>1, <1>3, <2>2, <3>1, <3>4 DEF RootHas, ActiveHas
  <2> QED
    BY <2>1, <2>2
<1> QED
  BY <1>1, <1>2, <1>3

-----------------------------------------------------------------------------
(* Imports.                                                                *)

LEMMA InheritIs ==
    ASSUME NEW w \in Worker, NEW S \in SUBSET Stop
    PROVE  LET v == Inherit(w, S)
           IN /\ v \in Worker
              /\ v.sources = w.sources \cup UNION {s.sources : s \in S}
              /\ v.tree = w.tree /\ v.next = w.next
              /\ v.clock >= w.clock
              /\ v.clock = w.clock \/ \E s \in S : v.clock = s.time
<1> DEFINE clock == IF Idle(w) THEN Max({w.clock} \cup {s.time : s \in S}) ELSE w.clock
<1>1. \A s \in S : s.time \in Times /\ s.sources \in SUBSET Detectors /\ s.owned \in SUBSET Detectors
  BY DEF Stop
<1>2. w.clock \in Times
  BY DEF Worker
<1>3. /\ clock \in Times /\ clock >= w.clock
      /\ clock = w.clock \/ \E s \in S : clock = s.time
  <2> DEFINE all == {w.clock} \cup {s.time : s \in S}
  <2>1. all \in SUBSET Times /\ w.clock \in all
    BY <1>1, <1>2
  <2>2. Max(all) \in all /\ w.clock =< Max(all)
    <3> HIDE DEF all
    <3> QED
      BY <2>1, LatestTime
  <2>3. MaxTime \in Nat /\ w.clock \in Nat /\ Max(all) \in Nat
    BY <1>2, <2>1, <2>2, ShotsAssumption DEF Times
  <2>4. Max(all) = w.clock \/ \E s \in S : Max(all) = s.time
    BY <2>2
  <2>5. clock = IF Idle(w) THEN Max(all) ELSE w.clock
    OBVIOUS
  <2> HIDE DEF all, clock
  <2> QED
    BY <1>2, <2>1, <2>2, <2>3, <2>4, <2>5
<1>4. /\ w.sources \cup UNION {s.sources : s \in S} \in SUBSET Detectors
      /\ w.owned \cup UNION {s.owned : s \in S} \in SUBSET Detectors
  BY <1>1 DEF Worker
<1>5. Inherit(w, S) = [w EXCEPT !.sources = @ \cup UNION {s.sources : s \in S},
                                !.owned = @ \cup UNION {s.owned : s \in S}, !.clock = clock]
  BY DEF Inherit
<1> HIDE DEF clock
<1> QED
  BY <1>3, <1>4, <1>5 DEF Worker

LEMMA RescheduledIs ==
    ASSUME NEW w \in Worker, NEW v \in Rescheduled(w)
    PROVE  /\ v \in Worker
           /\ v.sources = w.sources /\ v.owned = w.owned /\ v.tree = w.tree /\ v.clock = w.clock
           /\ v.next = w.next \/ v.next >= w.clock
<1>1. PICK n \in {w.next} \cup (w.clock..Never) : v = [w EXCEPT !.next = n]
  BY DEF Rescheduled
<1>2. MaxTime \in Nat /\ Never = MaxTime + 1 /\ w.clock \in 0..MaxTime /\ w.next \in 0..Never
  BY ShotsAssumption DEF Never, Worker, Times
<1>3. n \in 0..Never /\ (n = w.next \/ n >= w.clock)
  BY <1>1, <1>2
<1> QED
  BY <1>1, <1>3 DEF Worker

\* What is known of a cluster that has imported the states of K.
LEMMA WithImportsIs ==
    ASSUME shot \in Shots, NEW res \in [Ids -> Cluster], NEW p \in Ids, NEW k \in Cluster,
           NEW K \in SUBSET Ids, NEW w \in Worker
    PROVE  LET after == WithImports(res, p, k, K, w)
               q == after[p]
           IN /\ after \in [Ids -> Cluster]
              /\ \A d \in Ids \ {p} : after[d] = res[d]
              /\ q.w = w /\ q.hasDirect = k.hasDirect /\ q.direct = k.direct
              /\ q.history = k.history /\ q.stopped = k.stopped
              /\ q.extraction = k.extraction \cup SourcesOf(res, K)
              /\ q.state = "running" \/ (q.state = "imported" /\ k.state = "imported")
              /\ q.state = "imported" => q.hasState = k.hasState
<1> DEFINE X == k.extraction \cup SourcesOf(res, K)
           j == [k EXCEPT !.w = w, !.extraction = X]
           after == WithImports(res, p, k, K, w)
<1>1. X \in SUBSET Detectors
  BY DEF Cluster, SourcesOf
<1>2. /\ j \in Cluster /\ j.w = w /\ j.extraction = X /\ j.state = k.state
      /\ j.hasDirect = k.hasDirect /\ j.direct = k.direct /\ j.history = k.history
      /\ j.stopped = k.stopped /\ j.hasState = k.hasState
  BY <1>1 DEF Cluster
<1>3. after = [res EXCEPT ![p] = Resumed(j)]
  BY DEF WithImports
<1> HIDE DEF j
<1>4. \/ Resumed(j) = [j EXCEPT !.state = "running", !.hasState = FALSE]
      \/ Resumed(j) = [j EXCEPT !.state = "running"]
      \/ Resumed(j) = j /\ j.state \notin {"quiescent", "drained"}
  BY DEF Resumed
<1>5. /\ Resumed(j) \in Cluster
      /\ Resumed(j).w = w /\ Resumed(j).extraction = X
      /\ Resumed(j).hasDirect = k.hasDirect /\ Resumed(j).direct = k.direct
      /\ Resumed(j).history = k.history /\ Resumed(j).stopped = k.stopped
      /\ \/ Resumed(j).state = "running"
         \/ Resumed(j).state = "imported" /\ k.state = "imported"
      /\ Resumed(j).state = "imported" => Resumed(j).hasState = k.hasState
  <2>1. CASE Resumed(j) = [j EXCEPT !.state = "running", !.hasState = FALSE]
    BY <1>2, <2>1 DEF Cluster
  <2>2. CASE Resumed(j) = [j EXCEPT !.state = "running"]
    BY <1>2, <2>2 DEF Cluster
  <2>3. CASE Resumed(j) = j /\ j.state \notin {"quiescent", "drained"}
    <3>1. j.state \in {"running", "imported"}
      BY <1>2, <2>3 DEF Cluster
    <3> QED
      BY <1>2, <2>3, <3>1
  <2> QED
    BY <1>4, <2>1, <2>2, <2>3
<1> QED
  BY <1>3, <1>5

LEMMA LeftIs ==
    ASSUME NEW res \in [Ids -> Cluster], NEW K \in SUBSET Ids
    PROVE  LET after == Left(res, K)
           IN /\ after \in [Ids -> Cluster]
              /\ \A c \in K :
                   /\ after[c].state = "imported"
                   /\ after[c].hasState = res[c].hasState /\ after[c].hasDirect = res[c].hasDirect
                   /\ after[c].direct = res[c].direct /\ after[c].extraction = res[c].extraction
                   /\ after[c].history = res[c].history /\ after[c].stopped = res[c].stopped
                   /\ after[c].w = res[c].w
              /\ \A c \in Ids \ K : after[c] = res[c]
<1> DEFINE left(c) == [res[c] EXCEPT !.state = "imported", !.provisional = FALSE]
           g == [c \in K |-> left(c)]
<1>1. \A c \in K : /\ left(c) \in Cluster /\ left(c).state = "imported"
                   /\ left(c).hasState = res[c].hasState /\ left(c).hasDirect = res[c].hasDirect
                   /\ left(c).direct = res[c].direct /\ left(c).extraction = res[c].extraction
                   /\ left(c).history = res[c].history /\ left(c).stopped = res[c].stopped
                   /\ left(c).w = res[c].w
  BY DEF Cluster
<1>2. Left(res, K) = Override(res, g)
  BY DEF Left
<1> HIDE DEF left
<1>3. g \in [K -> Cluster] /\ \A c \in K : g[c] = left(c)
  BY <1>1
<1> HIDE DEF g
<1>4. /\ Override(res, g) \in [Ids -> Cluster]
      /\ \A d \in K : Override(res, g)[d] = g[d]
      /\ \A d \in Ids \ K : Override(res, g)[d] = res[d]
  BY <1>3, OverrideIs
<1> QED
  BY <1>1, <1>2, <1>3, <1>4

-----------------------------------------------------------------------------
(* Sums.                                                                   *)

LEMMA SumType ==
    ASSUME NEW S, IsFiniteSet(S), NEW count \in [S -> Count]
    PROVE  SumOf(count, S) \in Count
<1>1. ASSUME NEW d \in Detectors
      PROVE  Cardinality(UNION {{c} \X (1..count[c][d]) : c \in S}) \in Nat
  <2> DEFINE part(c) == {c} \X (1..count[c][d])
             parts == {part(c) : c \in S}
  <2>1. \A c \in S : IsFiniteSet(part(c))
    <3> TAKE c \in S
    <3>1. count[c][d] \in Nat
      BY DEF Count
    <3>2. PICK n \in Nat : n = count[c][d]
      BY <3>1
    <3>3. 1 \in Int /\ n \in Int
      OBVIOUS
    <3>4. IsFiniteSet({c}) /\ IsFiniteSet(1..n)
      BY <3>3, FS_Singleton, FS_Interval
    <3> QED
      BY <3>2, <3>4, FS_Product
  <2>2. IsFiniteSet(parts)
    <3> DEFINE f == [c \in S |-> part(c)]
    <3> HIDE DEF part
    <3>1. f \in Surjection(S, parts)
      BY DEF Surjection
    <3> HIDE DEF f, parts
    <3> QED
      BY <3>1, FS_Surjection
  <2>3. \A T \in parts : IsFiniteSet(T)
    BY <2>1
  <2>4. IsFiniteSet(UNION parts)
    <3> HIDE DEF parts
    <3> QED
      BY <2>2, <2>3, FS_UNION
  <2> QED
    BY <2>4, FS_CardinalityType
<1> QED
  BY <1>1 DEF SumOf, Count

\* Counts of sets without common members add up to the count of all of them.
LEMMA SumApart ==
    ASSUME NEW S, NEW A \in [S -> SUBSET Detectors], NEW count,
           \A c \in S : count[c] = CountOf(A[c]),
           \A c, e \in S : c # e => A[c] \cap A[e] = {}
    PROVE  SumOf(count, S) = CountOf(UNION {A[c] : c \in S})
<1>1. ASSUME NEW d \in Detectors
      PROVE  Cardinality(UNION {{c} \X (1..count[c][d]) : c \in S}) =
               IF d \in UNION {A[c] : c \in S} THEN 1 ELSE 0
  <2> DEFINE all == UNION {{c} \X (1..count[c][d]) : c \in S}
  <2>1. \A c \in S : count[c][d] = IF d \in A[c] THEN 1 ELSE 0
    BY DEF CountOf
  <2>2. CASE d \in UNION {A[c] : c \in S}
    <3>1. PICK e \in S : d \in A[e]
      BY <2>2
    <3>2. \A c \in S \ {e} : 1..count[c][d] = {}
      BY <2>1, <3>1
    <3>3. 1..count[e][d] = {1}
      BY <2>1, <3>1
    <3>4. all = {<<e, 1>>}
      BY <3>2, <3>3
    <3> QED
      BY <2>2, <3>4, FS_Singleton
  <2>3. CASE d \notin UNION {A[c] : c \in S}
    <3>1. \A c \in S : 1..count[c][d] = {}
      BY <2>1, <2>3
    <3>2. all = {}
      BY <3>1
    <3> QED
      BY <2>3, <3>2, FS_EmptySet
  <2> QED
    BY <2>2, <2>3
<1> QED
  BY <1>1 DEF SumOf, CountOf

LEMMA PlusApart ==
    ASSUME NEW A, NEW B, A \cap B = {}
    PROVE  Plus(CountOf(A), CountOf(B)) = CountOf(A \cup B)
<1>1. ASSUME NEW d \in Detectors
      PROVE  CountOf(A)[d] + CountOf(B)[d] = CountOf(A \cup B)[d]
  BY DEF CountOf
<1> QED
  BY <1>1 DEF Plus, CountOf

-----------------------------------------------------------------------------
(* Results that are taken as they are.                                     *)

\* The sum of the results of the clusters of K.
ResultsOf(res, K) ==
    SumOf([c \in K |-> IF res[c].hasDirect THEN res[c].direct ELSE Counted(res[c])], K)

LEMMA TerminalIs ==
    ASSUME shot \in Shots, NEW res \in [Ids -> Cluster],
           NEW P \in SUBSET Ids, NEW K \in SUBSET Ids, P \cap K = {}
    PROVE  LET after == TerminallyImported(res, P, K)
           IN /\ after \in [Ids -> Cluster]
              /\ \A c \in K :
                   /\ after[c].state = "imported" /\ after[c].hasState = res[c].hasState
                   /\ after[c].stopped = res[c].stopped
                   /\ after[c].w.tree = res[c].w.tree
              /\ \A p \in P :
                   /\ after[p].state = "quiescent" /\ after[p].hasDirect
                   /\ after[p].direct = Plus(res[p].direct, ResultsOf(res, K))
                   /\ after[p].extraction = res[p].extraction /\ after[p].w = res[p].w
                   /\ after[p].stopped = res[p].stopped
              /\ \A d \in Ids \ (P \cup K) : after[d] = res[d]
<1> DEFINE spent(c) == IF res[c].hasDirect THEN res[c] ELSE Extracted(res[c])
           result(c) == IF res[c].hasDirect THEN res[c].direct ELSE Counted(res[c])
           made == [c \in K |-> spent(c)]
           sum == SumOf([c \in K |-> made[c].direct], K)
           root(p) == [res[p] EXCEPT !.direct = Plus(@, sum), !.hasDirect = TRUE,
                                     !.state = "quiescent", !.hasState = TRUE,
                                     !.provisional = FALSE]
           taken == [p \in P |-> root(p)]
           after == TerminallyImported(res, P, K)
<1>1. after = Override(Left(Override(res, made), K), taken)
  BY DEF TerminallyImported
<1>2. \A c \in K : /\ spent(c) \in Cluster /\ spent(c).direct = result(c)
                   /\ spent(c).hasState = res[c].hasState /\ spent(c).stopped = res[c].stopped
                   /\ spent(c).w.tree = res[c].w.tree
  <2> TAKE c \in K
  <2> DEFINE k == res[c]
  <2>1. CASE k.hasDirect
    BY <2>1
  <2>2. CASE ~k.hasDirect
    <3>1. k \in Cluster /\ k.w \in Worker /\ Counted(k) \in Count
      BY CountsAre DEF Counted, Cluster
    <3>2. Spent(k.w) \in Worker /\ Spent(k.w).tree = k.w.tree
      BY <3>1 DEF Spent, Worker
    <3>3. spent(c) = [k EXCEPT !.direct = Counted(k), !.hasDirect = TRUE, !.w = Spent(k.w)]
      BY <2>2 DEF Extracted
    <3> HIDE DEF spent
    <3> QED
      BY <2>2, <3>1, <3>2, <3>3 DEF Cluster
  <2> QED
    BY <2>1, <2>2
<1> HIDE DEF spent
<1>3. made \in [K -> Cluster] /\ \A c \in K : made[c] = spent(c)
  BY <1>2
<1>4. [c \in K |-> made[c].direct] = [c \in K |-> result(c)]
  BY <1>2, <1>3
<1>5. sum \in Count
  <2>1. [c \in K |-> made[c].direct] \in [K -> Count]
    BY <1>3 DEF Cluster
  <2>2. IsFiniteSet(K)
    BY ShotIs, FS_Subset
  <2> HIDE DEF made
  <2> QED
    BY <2>1, <2>2, SumType
<1> HIDE DEF made
<1>6. sum = SumOf([c \in K |-> result(c)], K)
  BY <1>4
<1> HIDE DEF sum
<1>7. \A p \in P : /\ root(p) \in Cluster
                   /\ root(p).state = "quiescent" /\ root(p).hasDirect
                   /\ root(p).direct = Plus(res[p].direct, sum)
                   /\ root(p).extraction = res[p].extraction /\ root(p).w = res[p].w
                   /\ root(p).stopped = res[p].stopped
  <2> TAKE p \in P
  <2>1. Plus(res[p].direct, sum) \in Count /\ res[p] \in Cluster
    <3>1. res[p] \in Cluster /\ res[p].direct \in Count
      BY DEF Cluster
    <3>2. \A d \in Detectors : res[p].direct[d] \in Nat /\ sum[d] \in Nat
      BY <1>5, <3>1 DEF Count
    <3> QED
      BY <3>1, <3>2 DEF Plus, Count
  <2> QED
    BY <2>1 DEF Cluster
<1> HIDE DEF root
<1>8. taken \in [P -> Cluster] /\ \A p \in P : taken[p] = root(p)
  BY <1>7
<1>9. PICK x : x = Override(res, made)
  OBVIOUS
<1>10. /\ x \in [Ids -> Cluster]
       /\ \A c \in K : x[c] = spent(c)
       /\ \A c \in Ids \ K : x[c] = res[c]
  BY <1>3, <1>9, OverrideIs
<1>11. PICK y : y = Left(x, K)
  OBVIOUS
<1>12. /\ y \in [Ids -> Cluster]
       /\ \A c \in K : /\ y[c].state = "imported" /\ y[c].hasState = spent(c).hasState
                       /\ y[c].stopped = spent(c).stopped /\ y[c].w = spent(c).w
       /\ \A c \in Ids \ K : y[c] = res[c]
  BY <1>10, <1>11, LeftIs
<1> HIDE DEF taken
<1>13. /\ after \in [Ids -> Cluster]
       /\ \A p \in P : after[p] = root(p)
       /\ \A c \in Ids \ P : after[c] = y[c]
  <2>1. after = Override(y, taken)
    BY <1>1, <1>9, <1>11
  <2>2. /\ Override(y, taken) \in [Ids -> Cluster]
        /\ \A p \in P : Override(y, taken)[p] = taken[p]
        /\ \A c \in Ids \ P : Override(y, taken)[c] = y[c]
    <3>1. y \in [Ids -> Cluster]
      BY <1>12
    <3>2. PICK g \in [P -> Cluster] : g = taken
      BY <1>8
    <3>3. /\ Override(y, g) \in [Ids -> Cluster]
          /\ \A p \in P : Override(y, g)[p] = g[p]
          /\ \A c \in Ids \ P : Override(y, g)[c] = y[c]
      BY <3>1 DEF Override
    <3> QED
      BY <3>2, <3>3
  <2> HIDE DEF after
  <2> QED
    BY <1>8, <2>1, <2>2
<1> HIDE DEF after, result
<1>14. \A c \in K : /\ after[c].state = "imported" /\ after[c].hasState = res[c].hasState
                    /\ after[c].stopped = res[c].stopped
                    /\ after[c].w.tree = res[c].w.tree
  BY <1>2, <1>12, <1>13
<1>15. \A p \in P :
         /\ after[p].state = "quiescent" /\ after[p].hasDirect
         /\ after[p].direct = Plus(res[p].direct, SumOf([c \in K |-> result(c)], K))
         /\ after[p].extraction = res[p].extraction /\ after[p].w = res[p].w
         /\ after[p].stopped = res[p].stopped
  BY <1>6, <1>7, <1>13
<1>16. \A d \in Ids \ (P \cup K) : after[d] = res[d]
  BY <1>12, <1>13
<1> QED
  BY <1>13, <1>14, <1>15, <1>16 DEF after, result, ResultsOf

-----------------------------------------------------------------------------
(* The shape of the state.                                                 *)

LEMMA ShapedFacts ==
    ASSUME Shaped
    PROVE  /\ shot \in Shots /\ r \in [Ids -> Cluster] /\ time \in Times
           /\ toStep \subseteq Ids /\ (toStep # {} <=> pc = "step") /\ cursor \in Nat
           /\ outcome \in {"none", "answered", "fallback", "threw"} /\ answer \in Count
           /\ \A c \in Ids : TreesRun(r[c])
           /\ pc \in {"stable", "step"} =>
                /\ \A c \in toStep : r[c].state = "running"
                /\ \A c \in Ids : Well(c, r[c])
BY DEF Shaped, TypeOK, TreesRun

\* The decode ends.
LEMMA ShapedDone ==
    ASSUME Shaped, pc # "step", pc' = "done", UNCHANGED <<shot, r, time, toStep, cursor>>,
           outcome' \in {"answered", "fallback", "threw"}, answer' \in Count
    PROVE  Shaped'
<1>1. Ids' = Ids
  BY DEF Ids
<1>2. TypeOK'
  BY <1>1 DEF Shaped, TypeOK
<1> QED
  BY <1>2 DEF Shaped

\* The decode goes on.
LEMMA ShapedOn ==
    ASSUME Shaped, shot' = shot, pc' \in {"stable", "step"},
           r' \in [Ids -> Cluster], \A c \in Ids : Well(c, r'[c]),
           time' \in Times, cursor' \in Nat, UNCHANGED <<outcome, answer>>,
           toStep' \subseteq Ids, \A c \in toStep' : r'[c].state = "running",
           toStep' # {} <=> pc' = "step"
    PROVE  Shaped'
<1>1. Ids' = Ids
  BY DEF Ids
<1>2. \A c \in Ids : Well(c, r[c])'
  <2> TAKE c \in Ids
  <2>1. Passive(c)' <=> Passive(c)
    BY DEF Passive, EmptyTerminalRoot, Root
  <2>2. Well(c, r'[c])
    OBVIOUS
  <2> QED
    BY <2>1, <2>2 DEF Well, TreesRun, Idle
<1>3. TypeOK'
  <2>1. \A c \in Ids : r'[c].w.tree => r'[c].state \in {"running", "drained", "imported"}
    BY DEF Well, TreesRun
  <2>2. \A c \in Ids : r'[c].state = "running" => ~Idle(r'[c].w)
    BY DEF Well
  <2>3. NothingToMark'
    BY <1>1, <2>2 DEF NothingToMark, Idle
  <2> QED
    BY <1>1, <2>1, <2>3 DEF Shaped, TypeOK
<1> QED
  BY <1>1, <1>2, <1>3 DEF Shaped

\* A cluster that is marked is well, unless it is a root that takes results.
LEMMA WellMarked ==
    ASSUME shot \in Shots, NEW res \in [Ids -> Cluster], NEW c \in Ids,
           TreesRun(res[c]), ~Passive(c)
    PROVE  Well(c, MarkAndCapture(res, c)[c])
BY AfterMarkKeeps DEF Well

LEMMA ShapedInit == ASSUME Init PROVE Shaped
<1>1. MaxTime \in Nat /\ 0 \in Times /\ Never \in 0..Never
  BY ShotsAssumption DEF Times, Never
<1>2. shot.own \in [Ids -> SUBSET Detectors]
  BY ShotIs DEF Init
<1>3. <<>> \in Seq(Snapshot)
  OBVIOUS
<1>4. \A c \in Ids : Blank(c) \in Cluster /\ ~Blank(c).w.tree
  BY <1>1, <1>2, <1>3, CountsAre DEF Blank, Cluster, Worker, Snapshot
<1>5. \A c \in Ids : r[c] = Blank(c)
  BY DEF Init
<1>6. r \in [Ids -> Cluster] /\ \A c \in Ids : ~r[c].w.tree
  BY <1>4, <1>5 DEF Init
<1> QED
  BY <1>1, <1>6, CountsAre DEF Init, Shaped, TypeOK

LEMMA RootsAreFinite == ASSUME shot \in Shots PROVE IsFiniteSet(Roots)
<1>1. Roots \subseteq Ids
  BY DEF Roots
<1> QED
  BY <1>1, ShotIs, FS_Subset

LEMMA ShapedThrow ==
    ASSUME Shaped, pc # "step", Throw
    PROVE  Shaped'
BY CountsAre, ShapedDone DEF Throw, FallBack, Escape

LEMMA ShapedDecodeRoots ==
    ASSUME Shaped, DecodeRoots
    PROVE  Shaped'
<1> DEFINE below(c) == UNION {shot.own[d] : d \in {e \in Ids : c \in Up(e)}}
           count == [c \in Roots |-> CountOf(IF Roots = {c} THEN Detectors ELSE below(c))]
<1>1. count \in [Roots -> Count]
  BY CountsAre
<1>2. SumOf(count, Roots) \in Count
  <2> HIDE DEF count
  <2> QED
    BY <1>1, ShapedFacts, RootsAreFinite, SumType
<1>3. pc = "begin" /\ (Answer(SumOf(count, Roots)) \/ Escape)
  BY DEF DecodeRoots
<1> HIDE DEF count
<1>4. CASE Answer(SumOf(count, Roots))
  BY <1>2, <1>3, <1>4, ShapedDone DEF Answer
<1>5. CASE Escape
  BY <1>3, <1>5, ShapedThrow DEF Throw
<1> QED
  BY <1>3, <1>4, <1>5

LEMMA ShapedDecodeSingle ==
    ASSUME Shaped, DecodeSingle
    PROVE  Shaped'
<1>1. pc = "begin" /\ (Answer(CountOf(Detectors)) \/ Throw)
  BY DEF DecodeSingle
<1>2. CASE Answer(CountOf(Detectors))
  BY <1>1, <1>2, CountsAre, ShapedDone DEF Answer
<1>3. CASE Throw
  BY <1>1, <1>3, ShapedThrow
<1> QED
  BY <1>1, <1>2, <1>3

LEMMA ShapedAggregate ==
    ASSUME Shaped, Aggregate
    PROVE  Shaped'
<1> DEFINE count(c) == IF r[c].hasDirect THEN r[c].direct ELSE Counted(r[c])
           counts == [c \in Roots |-> count(c)]
<1>1. pc = "stable" /\ (Throw \/ Answer(SumOf(counts, Roots)))
  BY DEF Aggregate
<1>2. counts \in [Roots -> Count]
  <2>1. \A c \in Roots : r[c] \in Cluster
    BY ShapedFacts DEF Roots
  <2> QED
    BY <2>1, CountsAre DEF Counted, Cluster
<1>3. SumOf(counts, Roots) \in Count
  <2> HIDE DEF counts
  <2> QED
    BY <1>2, ShapedFacts, RootsAreFinite, SumType
<1> HIDE DEF counts
<1>4. CASE Throw
  BY <1>1, <1>4, ShapedThrow
<1>5. CASE Answer(SumOf(counts, Roots))
  BY <1>1, <1>3, <1>5, ShapedDone DEF Answer
<1> QED
  BY <1>1, <1>4, <1>5

-----------------------------------------------------------------------------
(* Setup and time slices.                                                  *)

LEMMA FreshIs ==
    ASSUME shot \in Shots, NEW c \in Ids, NEW w \in Fresh(c)
    PROVE  /\ w \in Worker /\ w.sources = shot.own[c] /\ w.clock = 0
           /\ shot.own[c] = {} => ~w.tree /\ Idle(w)
<1>1. PICK n \in IF shot.own[c] = {} THEN {Never} ELSE 0..Never :
        w = [sources |-> shot.own[c], owned |-> shot.own[c], tree |-> shot.own[c] # {},
             next |-> n, clock |-> 0]
  BY DEF Fresh
<1>2. MaxTime \in Nat /\ Never \in 0..Never /\ 0 \in Times
  BY ShotsAssumption DEF Never, Times
<1>3. n \in 0..Never /\ (shot.own[c] = {} => n = Never)
  BY <1>1, <1>2
<1>4. shot.own[c] \in SUBSET Detectors
  BY ShotIs
<1> QED
  BY <1>1, <1>2, <1>3, <1>4 DEF Worker, Idle

\* Setup as a marking of clusters that have their own detectors.
SetupFrom(set) ==
    /\ set \in [Ids -> Cluster] /\ r' \in [Ids -> Cluster]
    /\ \A c \in Ids :
         /\ set[c].w \in Fresh(c) /\ set[c] = [Blank(c) EXCEPT !.w = set[c].w]
         /\ Alike(Marked(set, c), r'[c])
         /\ shot.checkpoints /\ HasUnimportedChild(r', c) => Checkpointed(r'[c])
    /\ pc' = "stable" /\ UNCHANGED <<shot, time, toStep, cursor, outcome, answer>>

LEMMA SetupIs ==
    ASSUME Shaped, Setup
    PROVE  \E set : SetupFrom(set)
<1> USE ShapedFacts
<1>1. PICK n \in [Ids -> 0..Never] :
         /\ \A c \in Ids : shot.own[c] = {} => n[c] = Never
         /\ LET worker(c) == CHOOSE w \in Fresh(c) : w.next = n[c]
                set == [c \in Ids |-> [r[c] EXCEPT !.w = worker(c)]]
                marked == [c \in Ids |-> Marked(set, c)]
            IN r' = [c \in Ids |-> Captured(marked, c)]
  BY DEF Setup
<1> DEFINE worker(c) == CHOOSE w \in Fresh(c) : w.next = n[c]
           set == [c \in Ids |-> [r[c] EXCEPT !.w = worker(c)]]
           marked == [c \in Ids |-> Marked(set, c)]
<1>2. r' = [c \in Ids |-> Captured(marked, c)]
  BY <1>1
<1>3. \A c \in Ids : worker(c) \in Fresh(c)
  <2> TAKE c \in Ids
  <2>1. n[c] \in IF shot.own[c] = {} THEN {Never} ELSE 0..Never
    BY <1>1
  <2>2. \E w \in Fresh(c) : w.next = n[c]
    <3> DEFINE v == [sources |-> shot.own[c], owned |-> shot.own[c], tree |-> shot.own[c] # {},
                     next |-> n[c], clock |-> 0]
    <3>1. v \in Fresh(c)
      BY <2>1 DEF Fresh
    <3>2. v.next = n[c]
      OBVIOUS
    <3> QED
      BY <3>1, <3>2
  <2> QED
    BY <2>2
<1>4. \A c \in Ids : r[c] = Blank(c) /\ Blank(c) \in Cluster
  <2>1. pc = "begin"
    BY DEF Setup
  <2> QED
    BY <2>1 DEF Shaped
<1>5. \A c \in Ids :
        /\ [r[c] EXCEPT !.w = worker(c)] \in Cluster
        /\ [r[c] EXCEPT !.w = worker(c)].w = worker(c)
  <2> TAKE c \in Ids
  <2>1. worker(c) \in Worker
    BY <1>3, FreshIs
  <2> HIDE DEF worker
  <2> QED
    BY <2>1, <1>4 DEF Cluster
<1> HIDE DEF worker
<1>6. /\ set \in [Ids -> Cluster]
      /\ \A c \in Ids : set[c] = [Blank(c) EXCEPT !.w = worker(c)] /\ set[c].w = worker(c)
  BY <1>4, <1>5
<1> HIDE DEF set
<1>7. \A c \in Ids : /\ Marked(set, c) \in Cluster
                     /\ Marked(set, c).history = <<>>
                     /\ Marked(set, c).state # "imported"
  <2> TAKE c \in Ids
  <2>1. set[c].history = <<>> /\ set[c].state = "running"
    BY <1>6 DEF Blank
  <2> QED
    BY <2>1, <1>6, MarkedKeeps
<1>8. marked \in [Ids -> Cluster] /\ \A c \in Ids : marked[c] = Marked(set, c)
  BY <1>7
<1> HIDE DEF marked
<1>9. \A c \in Ids : /\ Captured(marked, c) \in Cluster
                     /\ Alike(Marked(set, c), Captured(marked, c))
                     /\ shot.checkpoints /\ HasUnimportedChild(marked, c)
                          => Checkpointed(Captured(marked, c))
  <2> TAKE c \in Ids
  <2>1. \A i \in DOMAIN marked[c].history : marked[c].history[i].time =< marked[c].w.clock
    BY <1>7, <1>8
  <2> QED
    BY <2>1, <1>8, CapturedIs
<1>10. r' \in [Ids -> Cluster] /\ \A c \in Ids : r'[c] = Captured(marked, c)
  BY <1>2, <1>9
<1>11. \A c \in Ids : HasUnimportedChild(r', c) => HasUnimportedChild(marked, c)
  <2>1. \A c \in Ids : Children(c) \subseteq Ids
    BY ChildrenAre
  <2>2. \A c \in Ids : marked[c].state # "imported"
    BY <1>7, <1>8
  <2> QED
    BY <2>1, <2>2 DEF HasUnimportedChild
<1>12. pc' = "stable" /\ UNCHANGED <<shot, time, toStep, cursor, outcome, answer>>
  BY DEF Setup
<1>13. SetupFrom(set)
  BY <1>3, <1>6, <1>9, <1>10, <1>11, <1>12 DEF SetupFrom
<1> QED
  BY <1>13

LEMMA ShapedSetup ==
    ASSUME Shaped, Setup
    PROVE  Shaped'
<1> USE ShapedFacts
<1>1. PICK set : SetupFrom(set)
  BY SetupIs
<1>2. ASSUME NEW c \in Ids
      PROVE  Well(c, r'[c])
  <2>1. /\ set \in [Ids -> Cluster] /\ set[c].w \in Fresh(c)
        /\ set[c] = [Blank(c) EXCEPT !.w = set[c].w]
        /\ Alike(Marked(set, c), r'[c])
    BY <1>1 DEF SetupFrom
  <2>2. set[c].state = "running" /\ ~set[c].hasState
    BY <2>1 DEF Blank
  <2>3. TreesRun(set[c])
    BY <2>2 DEF TreesRun
  <2>4. /\ TreesRun(Marked(set, c)) /\ (Marked(set, c).state = "running" => ~Idle(Marked(set, c).w))
        /\ Marked(set, c).w.tree = set[c].w.tree /\ Marked(set, c).w.next = set[c].w.next
    BY <2>1, <2>3, MarkedKeeps
  <2>5. Passive(c) => ~set[c].w.tree /\ Idle(set[c].w)
    BY <2>1, FreshIs DEF Passive, EmptyTerminalRoot
  <2>6. Passive(c) => Marked(set, c).state \notin {"running", "drained"}
    <3> SUFFICES ASSUME Passive(c) PROVE Marked(set, c).state \notin {"running", "drained"}
      OBVIOUS
    <3> DEFINE k == set[c]
               root == [[k EXCEPT !.state = "quiescent", !.hasState = TRUE]
                           EXCEPT !.provisional = FALSE]
    <3>1. Quiescent(k.w) /\ Root(c)
      BY <2>5 DEF Quiescent, Passive, EmptyTerminalRoot
    <3>2. Marked(set, c) = root \/ Marked(set, c) = Extracted(root)
      BY <3>1, <2>2, MarkedCases DEF Quiescent
    <3>3. root.state = "quiescent" /\ Extracted(root).state = "quiescent"
      <4>1. k \in Cluster
        BY <2>1
      <4> QED
        BY <4>1 DEF Cluster, Extracted
    <3> QED
      BY <3>2, <3>3
  <2> QED
    BY <2>1, <2>4, <2>5, <2>6 DEF Well, TreesRun, Alike
<1>3. r' \in [Ids -> Cluster] /\ pc' = "stable"
      /\ UNCHANGED <<shot, time, toStep, cursor, outcome, answer>>
  BY <1>1 DEF SetupFrom
<1>4. toStep = {}
  BY DEF Setup
<1> QED
  BY <1>2, <1>3, <1>4, ShapedOn

LEMMA ShapedBeginSlice ==
    ASSUME Shaped, BeginSlice
    PROVE  Shaped'
<1> USE ShapedFacts
<1>1. /\ \A c \in toStep' : c \in Ids /\ r[c].state = "running"
      /\ toStep' # {} /\ time' \in Times
  <2> DEFINE now == {c \in Runnable : r[c].w.next = time}
             nexts == {r[c].w.next : c \in Runnable}
             next == Min(nexts)
  <2>1. \A c \in Runnable : /\ c \in Ids /\ r[c].state = "running"
                            /\ r[c].w.next \in Times
    <3> TAKE c \in Runnable
    <3>1. c \in Ids /\ r[c].state = "running" /\ r[c].w.next # Never
      BY DEF Runnable, Idle
    <3>2. r[c].w.next \in 0..Never
      BY <3>1 DEF Cluster, Worker
    <3> QED
      BY <3>1, <3>2, ShotsAssumption DEF Never, Times
  <2>2. nexts \in SUBSET Nat /\ nexts # {}
    BY <2>1 DEF BeginSlice, Times
  <2>3. next \in nexts
    <3> HIDE DEF nexts
    <3> QED
      BY <2>2, LeastNatural
  <2>4. next \in Times /\ \E c \in Runnable : r[c].w.next = next
    <3> HIDE DEF next
    <3> QED
      BY <2>1, <2>3
  <2>5. \/ now # {} /\ toStep' = now /\ time' = time
        \/ time' = next /\ toStep' = {c \in Runnable : r[c].w.next = next}
    BY DEF BeginSlice
  <2> HIDE DEF next
  <2> QED
    BY <2>1, <2>4, <2>5
<1>2. pc = "stable" /\ pc' = "step" /\ UNCHANGED <<shot, r, cursor, outcome, answer>>
  BY DEF BeginSlice
<1> QED
  BY <1>1, <1>2, ShapedOn

LEMMA SteppedIs ==
    ASSUME shot \in Shots, NEW c \in Ids, NEW w \in Worker, ~Idle(w), NEW v \in Stepped(c, w)
    PROVE  /\ v \in Worker /\ v.sources = w.sources /\ v.clock = w.next
           /\ v.next >= w.next /\ (v.tree => w.tree)
<1>1. PICK O \in OwnedNext(c, w), b \in {t \in BOOLEAN : t => w.tree}, n \in w.next..Never :
        v = Event(w, O, b, n)
  BY DEF Stepped
<1>5. O \in SUBSET Detectors
  BY ShotIs DEF Worker, OwnedNext
<1>2. /\ MaxTime \in Nat /\ w.next \in 0..Never /\ w.next # Never /\ Never = MaxTime + 1
      /\ Times = 0..MaxTime
  BY ShotsAssumption DEF Never, Worker, Idle, Times
<1>3. w.next \in Times /\ n \in 0..Never /\ n >= w.next
  BY <1>2
<1>4. b \in BOOLEAN /\ (b => w.tree)
  BY <1>1 DEF Worker
<1> QED
  BY <1>1, <1>3, <1>4, <1>5 DEF Event, Worker

\* A part of a time slice as a marking of a cluster whose worker has stepped.
StepFrom(c, mid) ==
    LET k == r[c]
        m == mid[c]
    IN /\ c \in toStep /\ c \in Ids /\ ~Idle(k.w)
       /\ mid \in [Ids -> Cluster] /\ \A d \in Ids \ {c} : mid[d] = r[d]
       /\ m.state = k.state /\ m.hasState = k.hasState /\ m.hasDirect = k.hasDirect
       /\ m.direct = k.direct /\ m.extraction = k.extraction /\ m.stopped = k.stopped
       /\ m.w \in Stepped(c, k.w)
       /\ /\ shot.checkpoints /\ HasUnimportedChild(r, c)
          /\ \A i \in DOMAIN k.history : k.history[i].time =< k.w.clock
          => \A i \in DOMAIN m.history : m.history[i].time =< k.w.clock
       /\ r' = MarkAndCapture(mid, c)
       /\ toStep' = toStep \ {c} /\ pc' = (IF toStep' = {} THEN "stable" ELSE "step")
       /\ cursor' = 0 /\ UNCHANGED <<shot, time, outcome, answer>>

LEMMA StepIs ==
    ASSUME Shaped, StepCluster
    PROVE  \E c, mid : StepFrom(c, mid)
<1> USE ShapedFacts
<1> DEFINE c == Min(toStep)
<1>1. PICK w \in Stepped(c, r[c].w) :
        /\ r' = MarkAndCapture([[r EXCEPT ![c] = Captured(r, c)] EXCEPT ![c].w = w], c)
        /\ toStep' = toStep \ {c}
  BY DEF StepCluster
<1>2. pc = "step" /\ toStep # {} /\ toStep \in SUBSET Nat
  BY ShotIs DEF StepCluster
<1>3. c \in toStep /\ c \in Ids
  BY <1>1, <1>2, LeastNatural
<1> HIDE DEF c
<1>4. ~Idle(r[c].w) /\ r[c].w \in Worker
  BY <1>2, <1>3 DEF Well, Cluster
<1> DEFINE before == [r EXCEPT ![c] = Captured(r, c)]
           mid == [before EXCEPT ![c].w = w]
<1>5. /\ Captured(r, c) \in Cluster /\ Alike(r[c], Captured(r, c))
      /\ /\ shot.checkpoints /\ HasUnimportedChild(r, c)
         /\ \A i \in DOMAIN r[c].history : r[c].history[i].time =< r[c].w.clock
         => Checkpointed(Captured(r, c))
  BY <1>3, CapturedIs
<1>6. w \in Worker
  BY <1>1, <1>3, <1>4, SteppedIs
<1>7. PICK k \in Cluster : k = Captured(r, c)
  BY <1>5
<1>8. /\ [k EXCEPT !.w = w] \in Cluster /\ [k EXCEPT !.w = w].w = w
      /\ [k EXCEPT !.w = w].state = k.state /\ [k EXCEPT !.w = w].hasState = k.hasState
      /\ [k EXCEPT !.w = w].hasDirect = k.hasDirect /\ [k EXCEPT !.w = w].direct = k.direct
      /\ [k EXCEPT !.w = w].extraction = k.extraction
      /\ [k EXCEPT !.w = w].stopped = k.stopped /\ [k EXCEPT !.w = w].history = k.history
  BY <1>6 DEF Cluster
<1>9. mid = [r EXCEPT ![c] = [k EXCEPT !.w = w]]
  BY <1>3, <1>7
<1> HIDE DEF mid
<1>10. /\ mid \in [Ids -> Cluster] /\ mid[c] = [k EXCEPT !.w = w]
       /\ \A d \in Ids \ {c} : mid[d] = r[d]
  BY <1>3, <1>8, <1>9
<1>11. r' = MarkAndCapture(mid, c)
  BY <1>1 DEF mid
<1>12. /\ shot.checkpoints /\ HasUnimportedChild(r, c)
       /\ \A i \in DOMAIN r[c].history : r[c].history[i].time =< r[c].w.clock
       => \A i \in DOMAIN mid[c].history : mid[c].history[i].time =< r[c].w.clock
  BY <1>5, <1>7, <1>8, <1>10 DEF Checkpointed, Alike
<1>13. /\ pc' = (IF toStep' = {} THEN "stable" ELSE "step")
       /\ cursor' = 0 /\ UNCHANGED <<shot, time, outcome, answer>>
  BY DEF StepCluster
<1>14. mid[c].w \in Stepped(c, r[c].w)
  BY <1>1, <1>8, <1>10
<1>15. StepFrom(c, mid)
  BY <1>1, <1>3, <1>4, <1>5, <1>7, <1>8, <1>10, <1>11, <1>12, <1>13, <1>14 DEF StepFrom, Alike
<1> QED
  BY <1>15

LEMMA ShapedStepCluster ==
    ASSUME Shaped, StepCluster
    PROVE  Shaped'
<1> USE ShapedFacts
<1>1. PICK c, mid : StepFrom(c, mid)
  BY StepIs
<1>2. pc = "step"
  BY DEF StepCluster
<1>3. /\ c \in Ids /\ r[c].state = "running" /\ ~Passive(c)
      /\ mid \in [Ids -> Cluster] /\ mid[c].state = "running"
      /\ \A d \in Ids \ {c} : mid[d] = r[d]
      /\ r' = MarkAndCapture(mid, c) /\ toStep' = toStep \ {c}
  BY <1>1, <1>2 DEF StepFrom, Well
<1>4. r' \in [Ids -> Cluster] /\ \A d \in Ids \ {c} : r'[d] = r[d]
  BY <1>3, AfterMark
<1>5. \A d \in Ids : Well(d, r'[d])
  <2>1. Well(c, r'[c])
    BY <1>3, WellMarked DEF TreesRun
  <2> QED
    BY <1>2, <1>4, <2>1
<1>6. /\ pc' = (IF toStep' = {} THEN "stable" ELSE "step")
      /\ cursor' = 0 /\ UNCHANGED <<shot, time, outcome, answer>>
  BY <1>1 DEF StepFrom
<1>7. \A d \in toStep' : d \in Ids /\ r'[d].state = "running"
  BY <1>2, <1>3, <1>4
<1> QED
  BY <1>4, <1>5, <1>6, <1>7, ShapedOn

-----------------------------------------------------------------------------
(* The import of a child.                                                  *)

LEMMA StatesAre ==
    ASSUME Shaped, NEW K \in SUBSET Ids
    PROVE  /\ StatesOf(K) \in SUBSET Stop
           /\ UNION {s.sources : s \in StatesOf(K)} = SourcesOf(r, K)
BY ShapedFacts DEF StatesOf, SourcesOf, Stop, Cluster

\* Among the snapshots up to t there is a last one.
LEMMA LatestIs ==
    ASSUME Shaped, NEW p \in Ids, NEW t, SnapshotsBefore(p, t) # {}
    PROVE  LET i == LatestSnapshot(p, t)
               h == r[p].history
           IN /\ i \in SnapshotsBefore(p, t) /\ i \in DOMAIN h /\ h[i] \in Snapshot
              /\ \A j \in SnapshotsBefore(p, t) :
                   h[j].time < h[i].time \/ (h[j].time = h[i].time /\ j =< i)
<1>1. r[p].history \in Seq(Snapshot)
  BY ShapedFacts DEF Cluster, Snapshot
<1>2. PICK h \in Seq(Snapshot) : h = r[p].history
  BY <1>1
<1> DEFINE B == SnapshotsBefore(p, t)
           times == {h[i].time : i \in B}
           T == Max(times)
           left == {Len(h) - i : i \in {j \in B : h[j].time = T}}
<1>3. B \subseteq 1..Len(h) /\ Len(h) \in Nat
  BY <1>2 DEF SnapshotsBefore
<1>4. \A i \in B : h[i] \in Snapshot /\ h[i].time \in Times /\ i \in Nat
  <2>1. \A i \in 1..Len(h) : h[i] \in Snapshot
    OBVIOUS
  <2>2. \A i \in B : h[i] \in Snapshot /\ i \in Nat
    BY <1>3, <2>1
  <2> QED
    BY <2>2 DEF Snapshot
<1> HIDE DEF B
<1>5. times \in SUBSET Times /\ times # {}
  BY <1>4 DEF B
<1>6. T \in times /\ \A y \in times : y =< T
  <2> HIDE DEF times
  <2> QED
    BY <1>5, LatestTime
<1>7. T \in Times
  BY <1>5, <1>6
<1> HIDE DEF T
<1>8. left \in SUBSET Nat /\ left # {}
  <2>1. \A i \in B : Len(h) - i \in Nat
    BY <1>3
  <2> QED
    BY <1>6, <2>1
<1>9. Min(left) \in left /\ \A y \in left : Min(left) =< y
  <2> HIDE DEF left
  <2> QED
    BY <1>8, LeastNatural
<1>10. PICK i \in B : h[i].time = T /\ Min(left) = Len(h) - i
  BY <1>9
<1>11. ASSUME NEW j \in B
       PROVE  h[j].time < h[i].time \/ (h[j].time = h[i].time /\ j =< i)
  <2>1. h[j].time =< T
    BY <1>6
  <2>2. CASE h[j].time = T
    <3>1. Len(h) - i =< Len(h) - j
      BY <1>9, <1>10, <2>2
    <3>2. j =< i
      BY <1>3, <3>1
    <3> QED
      BY <1>10, <2>2, <3>2
  <2>3. CASE h[j].time # T
    <3>1. h[j].time \in Nat /\ T \in Nat
      BY <1>4, <1>7 DEF Times
    <3> QED
      BY <1>10, <2>1, <2>3, <3>1
  <2> QED
    BY <2>2, <2>3
<1>12. LatestSnapshot(p, t) \in B /\
       \A j \in B : LET n == LatestSnapshot(p, t)
                    IN h[j].time < h[n].time \/ (h[j].time = h[n].time /\ j =< n)
  BY <1>2, <1>11 DEF LatestSnapshot, B
<1> QED
  BY <1>2, <1>3, <1>4, <1>12 DEF B

\* The parent before an import.
LEMMA UnclashedIs ==
    ASSUME Shaped, NEW p \in Ids, NEW c \in Ids
    PROVE  LET k == Unclashed(p, c)
           IN /\ k \in Cluster /\ [k EXCEPT !.w = r[p].w] = r[p]
              /\ k.w = [r[p].w EXCEPT !.clock = k.w.clock]
              /\ k.w.clock = Max({r[p].w.clock, r[c].stopped.time})
<1> DEFINE t == r[c].stopped.time
           w == r[p].w
<1>1. r[p] \in Cluster /\ r[c] \in Cluster
  BY ShapedFacts
<1>2. w \in Worker /\ w.clock \in Times /\ t \in Times
  BY <1>1 DEF Cluster, Worker
<1>3. Max({w.clock, t}) \in Times
  <2>1. {w.clock, t} \in SUBSET Times
    BY <1>2
  <2> QED
    BY <1>2, <2>1, LatestTime
<1>4. PICK m \in Times : m = Max({w.clock, t})
  BY <1>3
<1>5. PICK k \in Cluster : k = r[p]
  BY <1>1
<1>6. Unclashed(p, c) = [k EXCEPT !.w.clock = m]
  BY <1>4, <1>5 DEF Unclashed
<1>7. PICK v \in Worker : v = [k.w EXCEPT !.clock = m]
  BY <1>2, <1>5 DEF Worker
<1>8. v.clock = m /\ v = [k.w EXCEPT !.clock = v.clock]
  BY <1>2, <1>5, <1>7 DEF Worker
<1>9. Unclashed(p, c) = [k EXCEPT !.w = v]
  BY <1>6, <1>7
<1>10. /\ [k EXCEPT !.w = v] \in Cluster /\ [k EXCEPT !.w = v].w = v
       /\ [[k EXCEPT !.w = v] EXCEPT !.w = k.w] = k
  BY DEF Cluster
<1> QED
  BY <1>4, <1>5, <1>8, <1>9, <1>10

LEMMA RestoredIs ==
    ASSUME Shaped, NEW p \in Ids, NEW t, NEW k \in Restored(p, t)
    PROVE  LET e == r[p].history[LatestSnapshot(p, t)]
           IN /\ SnapshotsBefore(p, t) # {}
              /\ k \in Cluster /\ k = [r[p] EXCEPT !.w = e.w, !.extraction = e.extraction]
              /\ k.w = e.w /\ k.extraction = e.extraction
<1> DEFINE e == r[p].history[LatestSnapshot(p, t)]
<1>1. SnapshotsBefore(p, t) # {} /\ k = [r[p] EXCEPT !.w = e.w, !.extraction = e.extraction]
  BY DEF Restored
<1>2. e \in Snapshot
  BY <1>1, LatestIs
<1>3. e.w \in Worker /\ e.extraction \in SUBSET Detectors
  BY <1>2 DEF Snapshot
<1>4. r[p] \in Cluster
  BY ShapedFacts
<1> HIDE DEF e
<1>5. k \in Cluster /\ k.w = e.w /\ k.extraction = e.extraction
  BY <1>1, <1>3, <1>4 DEF Cluster
<1> QED
  BY <1>1, <1>5 DEF e

LEMMA RestartedIs ==
    ASSUME Shaped, NEW p \in Ids, NEW k \in Restarted(p)
    PROVE  /\ k \in Cluster /\ k.w \in Fresh(p) /\ k.extraction = shot.own[p]
           /\ k.hasDirect = r[p].hasDirect /\ k.stopped = r[p].stopped
<1> USE ShapedFacts
<1>1. PICK w \in Fresh(p) :
        k = [r[p] EXCEPT !.state = "running", !.hasState = FALSE, !.provisional = FALSE,
                         !.history = <<>>, !.extraction = shot.own[p], !.w = w]
  BY DEF Restarted
<1>2. w \in Worker /\ shot.own[p] \in SUBSET Detectors
  BY FreshIs, ShotIs
<1>3. <<>> \in Seq(Snapshot)
  OBVIOUS
<1>4. r[p] \in Cluster
  OBVIOUS
<1> QED
  BY <1>1, <1>2, <1>3, <1>4 DEF Cluster, Snapshot

\* The import of c, with parent p, as a marking of p in mid; the parent starts from
\* what is known in k.
ImportFrom(c, p, k, w, mid) ==
    LET K == Again(p, c)
        q == mid[p]
        m == mid[c]
    IN /\ c \in Ids /\ ~Root(c) /\ r[c].state = "quiescent" /\ p = shot.parent[c]
       /\ p \in Ids /\ p # c
       /\ k \in Base(p, c) /\ k \in Cluster /\ ~Clash(k.w, StatesOf(K)) /\ K \subseteq Ids
       /\ w \in Rescheduled(Inherit(k.w, StatesOf(K)))
       /\ mid \in [Ids -> Cluster] /\ \A d \in Ids \ {c, p} : mid[d] = r[d]
       /\ m.state = "imported" /\ m.hasState = r[c].hasState /\ m.stopped = r[c].stopped
       /\ q.w = w /\ q.hasDirect = k.hasDirect /\ q.direct = k.direct /\ q.stopped = k.stopped
       /\ q.history = k.history
       /\ q.extraction = k.extraction \cup SourcesOf(r, K)
       /\ q.state \in {"running", "imported"}
       /\ q.state = "imported" => k.state = "imported" /\ q.hasState = k.hasState
       /\ r' = MarkAndCapture(mid, p)
       /\ UNCHANGED <<shot, pc, time, toStep, outcome, answer>>

LEMMA ImportIs ==
    ASSUME Shaped, ImportChild
    PROVE  Throw \/ (cursor' \in Nat /\ \E c, p, k, w, mid : ImportFrom(c, p, k, w, mid))
<1> USE ShapedFacts
<1> DEFINE c == NextToImport
           p == shot.parent[c]
           K == Again(p, c)
<1>1. c \in ToImport
  <2>1. ToImport \in SUBSET Nat /\ ToImport # {}
    BY ShotIs DEF ImportChild, ToImport, Waiting
  <2>2. \A S \in SUBSET ToImport : S # {} => Min(S) \in S
    BY <2>1, LeastNatural
  <2>3. CASE \E d \in ToImport : d >= cursor
    <3>1. Min({d \in ToImport : d >= cursor}) \in {d \in ToImport : d >= cursor}
      BY <2>2, <2>3
    <3> QED
      BY <2>3, <3>1 DEF NextToImport
  <2>4. CASE ~ \E d \in ToImport : d >= cursor
    BY <2>1, <2>2, <2>4 DEF NextToImport
  <2> QED
    BY <2>3, <2>4
<1>2. c \in Ids /\ ~Root(c) /\ r[c].state = "quiescent"
  BY <1>1 DEF ToImport, Waiting
<1>3. p \in Ids /\ p # c
  <2>1. p \in Ids /\ shot.level[p] > shot.level[c] /\ shot.level[c] \in Nat
    BY <1>2, ShotIs
  <2> QED
    BY <2>1
<1>4. \/ Throw
      \/ \E k \in Base(p, c) :
           /\ ~Clash(k.w, StatesOf(K))
           /\ \E w \in Rescheduled(Inherit(k.w, StatesOf(K))) :
                r' = MarkAndCapture(Left(WithImports(r, p, k, K, w), {c}), p)
           /\ cursor' = c + 1
           /\ UNCHANGED <<shot, pc, time, toStep, outcome, answer>>
  BY DEF ImportChild
<1> HIDE DEF c, p, K
<1>5. CASE Throw
  BY <1>5
<1>6. CASE ~Throw
  <2>1. PICK k \in Base(p, c) :
          /\ ~Clash(k.w, StatesOf(K))
          /\ \E w \in Rescheduled(Inherit(k.w, StatesOf(K))) :
               r' = MarkAndCapture(Left(WithImports(r, p, k, K, w), {c}), p)
          /\ cursor' = c + 1
          /\ UNCHANGED <<shot, pc, time, toStep, outcome, answer>>
    BY <1>4, <1>6
  <2>2. PICK w \in Rescheduled(Inherit(k.w, StatesOf(K))) :
          r' = MarkAndCapture(Left(WithImports(r, p, k, K, w), {c}), p)
    BY <2>1
  <2>3. k \in Cluster
    <3>1. \/ k = Unclashed(p, c)
          \/ k \in Restored(p, r[c].stopped.time)
          \/ k \in Restarted(p)
      BY DEF Base
    <3> QED
      BY <1>2, <1>3, <3>1, UnclashedIs, RestoredIs, RestartedIs
  <2>4. K \in SUBSET Ids
    BY <1>2, <1>3, ChildrenAre DEF K, Again, Replayed
  <2>5. StatesOf(K) \in SUBSET Stop
    BY <2>4, StatesAre
  <2>6. k.w \in Worker
    BY <2>3 DEF Cluster
  <2>7. w \in Worker
    BY <2>2, <2>5, <2>6, InheritIs, RescheduledIs
  <2> DEFINE with == WithImports(r, p, k, K, w)
             mid == Left(with, {c})
  <2>8. LET q == with[p]
        IN /\ with \in [Ids -> Cluster]
           /\ \A d \in Ids \ {p} : with[d] = r[d]
           /\ q.w = w /\ q.hasDirect = k.hasDirect /\ q.direct = k.direct
           /\ q.history = k.history /\ q.stopped = k.stopped
           /\ q.extraction = k.extraction \cup SourcesOf(r, K)
           /\ q.state = "running" \/ (q.state = "imported" /\ k.state = "imported")
           /\ q.state = "imported" => q.hasState = k.hasState
    <3>1. r \in [Ids -> Cluster]
      OBVIOUS
    <3> QED
      BY <1>3, <2>3, <2>4, <2>7, <3>1, WithImportsIs
  <2>9. PICK x : x = with
    OBVIOUS
  <2>10. /\ Left(x, {c}) \in [Ids -> Cluster]
         /\ Left(x, {c})[c].state = "imported" /\ Left(x, {c})[c].hasState = x[c].hasState
         /\ Left(x, {c})[c].stopped = x[c].stopped
         /\ \A d \in Ids \ {c} : Left(x, {c})[d] = x[d]
    <3>1. x \in [Ids -> Cluster] /\ {c} \in SUBSET Ids
      BY <1>2, <2>8, <2>9
    <3> QED
      BY <3>1, LeftIs
  <2> HIDE DEF with
  <2>11. cursor' \in Nat
    BY <1>2, <2>1, ShotIs
  <2>12. ImportFrom(c, p, k, w, mid)
    <3>1. mid = Left(x, {c})
      BY <2>9
    <3> HIDE DEF mid
    <3>2. /\ mid \in [Ids -> Cluster] /\ \A d \in Ids \ {c, p} : mid[d] = r[d]
          /\ mid[c].state = "imported" /\ mid[c].hasState = r[c].hasState
          /\ mid[c].stopped = r[c].stopped /\ mid[p] = with[p]
      BY <1>2, <1>3, <2>8, <2>9, <2>10, <3>1
    <3>3. r' = MarkAndCapture(mid, p)
      BY <2>2 DEF mid, with
    <3> QED
      BY <1>2, <1>3, <2>1, <2>2, <2>3, <2>4, <2>8, <3>2, <3>3 DEF ImportFrom, K, p
  <2> QED
    BY <2>11, <2>12
<1> QED
  BY <1>5, <1>6

LEMMA ShapedImportChild ==
    ASSUME Shaped, ImportChild
    PROVE  Shaped'
<1> USE ShapedFacts
<1>1. pc = "stable" /\ shot.mode = "event_time"
  BY DEF ImportChild
<1>2. CASE Throw
  BY <1>1, <1>2, ShapedThrow
<1>3. ASSUME cursor' \in Nat, NEW c, NEW p, NEW k, NEW w, NEW mid, ImportFrom(c, p, k, w, mid)
      PROVE  Shaped'
  <2>1. /\ c \in Ids /\ p \in Ids /\ p # c /\ mid \in [Ids -> Cluster]
        /\ mid[c].state = "imported" /\ mid[p].state \in {"running", "imported"}
        /\ \A d \in Ids \ {c, p} : mid[d] = r[d]
        /\ r' = MarkAndCapture(mid, p)
        /\ UNCHANGED <<shot, pc, time, toStep, outcome, answer>>
    BY <1>3 DEF ImportFrom
  <2>2. \A d \in Ids : ~Passive(d)
    BY <1>1 DEF Passive
  <2>3. r' \in [Ids -> Cluster] /\ \A d \in Ids \ {p} : r'[d] = mid[d]
    BY <2>1, AfterMark
  <2>4. ASSUME NEW d \in Ids PROVE Well(d, r'[d])
    <3>1. CASE d = p
      BY <2>1, <2>2, <3>1, WellMarked DEF TreesRun
    <3>2. CASE d = c
      BY <2>1, <2>2, <2>3, <3>2 DEF Well, TreesRun
    <3>3. CASE d \notin {c, p}
      BY <1>1, <2>1, <2>3, <3>3
    <3> QED
      BY <3>1, <3>2, <3>3
  <2>5. toStep' = {}
    BY <1>1, <2>1
  <2> QED
    BY <1>1, <1>3, <2>1, <2>3, <2>4, <2>5, ShapedOn
<1> QED
  BY <1>2, <1>3, ImportIs

-----------------------------------------------------------------------------
(* The import of a level.                                                  *)

\* What is imported at the level l.
LEMMA LevelIs ==
    ASSUME Shaped, NEW l \in ReadyLevels
    PROVE  /\ l \in Nat /\ l # MaxLevel /\ Ready(l)
           /\ AtLevel(l) \cap Waiting # {}
           /\ \A c \in AtLevel(l) \cap Waiting :
                c \in Ids /\ shot.level[c] = l /\ r[c].state = "quiescent"
<1>1. l \in Nat /\ l # MaxLevel /\ Ready(l)
  <2>1. \A c \in Ids : shot.level[c] \in Nat
    BY ShapedFacts, ShotIs
  <2> QED
    BY <2>1 DEF ReadyLevels
<1>2. \A c \in AtLevel(l) \cap Waiting :
        c \in Ids /\ shot.level[c] = l /\ r[c].state = "quiescent"
  BY DEF AtLevel, Waiting
<1>3. PICK c \in AtLevel(l) : r[c].state = "quiescent"
  BY <1>1 DEF Ready
<1>4. c \in AtLevel(l) \cap Waiting
  BY <1>3 DEF AtLevel, Waiting
<1> QED
  BY <1>1, <1>2, <1>4

\* The import of the children K of p as a marking of p in mid.
LevelFrom(p, K, w, mid) ==
    LET q == mid[p]
    IN /\ w \in Rescheduled(Inherit(r[p].w, StatesOf(K)))
       /\ mid \in [Ids -> Cluster] /\ \A d \in Ids \ (K \cup {p}) : mid[d] = r[d]
       /\ \A c \in K : /\ mid[c].state = "imported" /\ mid[c].hasState = r[c].hasState
                       /\ mid[c].stopped = r[c].stopped
       /\ q.w = w /\ q.hasDirect = r[p].hasDirect /\ q.direct = r[p].direct
       /\ q.stopped = r[p].stopped
       /\ q.extraction = r[p].extraction \cup SourcesOf(r, K)
       /\ q.state \in {"running", "imported"}
       /\ r' = MarkAndCapture(mid, p)
TerminalFrom(p, K) == EmptyTerminalRoot(p) /\ r' = TerminallyImported(r, {p}, K)

LEMMA ImportLevelIs ==
    ASSUME Shaped, ImportLevel
    PROVE  \/ Throw
           \/ /\ UNCHANGED <<shot, pc, time, toStep, cursor, outcome, answer>>
              /\ \E p \in Ids : \E K \in SUBSET Children(p) :
                   /\ K # {} /\ \A c \in K : r[c].state = "quiescent"
                   /\ \/ TerminalFrom(p, K)
                      \/ ~EmptyTerminalRoot(p) /\ \E w, mid : LevelFrom(p, K, w, mid)
<1> USE ShapedFacts
<1>1. PICK l \in ReadyLevels :
       \E p \in {Min({shot.parent[c] : c \in AtLevel(l) \cap Waiting})} :
       \E K \in {AtLevel(l) \cap Waiting \cap Children(p)} :
          \/ /\ EmptyTerminalRoot(p)
             /\ r' = TerminallyImported(r, {p}, K)
             /\ UNCHANGED <<shot, pc, time, toStep, cursor, outcome, answer>>
          \/ /\ ~EmptyTerminalRoot(p) /\ Clash(r[p].w, StatesOf(K))
             /\ Throw
          \/ /\ ~EmptyTerminalRoot(p) /\ ~Clash(r[p].w, StatesOf(K))
             /\ \E w \in Rescheduled(Inherit(r[p].w, StatesOf(K))) :
                  r' = MarkAndCapture(Left(WithImports(r, p, r[p], K, w), K), p)
             /\ UNCHANGED <<shot, pc, time, toStep, cursor, outcome, answer>>
  BY DEF ImportLevel
<1> DEFINE waiting == AtLevel(l) \cap Waiting
           parents == {shot.parent[c] : c \in waiting}
           p == Min(parents)
           K == waiting \cap Children(p)
<1>2. p \in Ids /\ p \in parents
  <2>1. \A c \in waiting : shot.parent[c] \in Ids
    <3> TAKE c \in waiting
    <3>1. c \in Ids /\ ~Root(c)
      BY DEF AtLevel, ImportLevel
    <3> QED
      BY <3>1, ShotIs
  <2>2. parents \in SUBSET Ids /\ parents # {}
    BY <2>1, LevelIs
  <2> HIDE DEF parents
  <2> QED
    BY <2>2, ShotIs, LeastNatural
<1>3. K \in SUBSET Children(p) /\ K # {} /\ \A c \in K : r[c].state = "quiescent"
  <2>1. PICK c \in waiting : shot.parent[c] = p
    BY <1>2
  <2>2. c \in Ids
    BY DEF AtLevel
  <2>3. c \in K
    BY <2>1, <2>2 DEF Children
  <2> QED
    BY <2>3, LevelIs
<1>4. K \in SUBSET Ids /\ p \notin K
  BY <1>2, <1>3, ChildrenAre
<1>5. \/ Throw
      \/ /\ UNCHANGED <<shot, pc, time, toStep, cursor, outcome, answer>>
         /\ \/ TerminalFrom(p, K)
            \/ /\ ~EmptyTerminalRoot(p)
               /\ \E w \in Rescheduled(Inherit(r[p].w, StatesOf(K))) :
                    r' = MarkAndCapture(Left(WithImports(r, p, r[p], K, w), K), p)
  BY <1>1 DEF TerminalFrom
<1> HIDE DEF p, K
<1>6. ASSUME NEW w \in Rescheduled(Inherit(r[p].w, StatesOf(K))),
             r' = MarkAndCapture(Left(WithImports(r, p, r[p], K, w), K), p)
      PROVE  \E mid : LevelFrom(p, K, w, mid)
  <2>1. r[p] \in Cluster /\ r[p].w \in Worker
    BY <1>2 DEF Cluster
  <2>2. StatesOf(K) \in SUBSET Stop
    BY <1>4, StatesAre
  <2>3. w \in Worker
    BY <2>1, <2>2, InheritIs, RescheduledIs
  <2> DEFINE k == r[p]
             with == WithImports(r, p, k, K, w)
             mid == Left(with, K)
  <2>4. LET q == with[p]
        IN /\ with \in [Ids -> Cluster]
           /\ \A d \in Ids \ {p} : with[d] = r[d]
           /\ q.w = w /\ q.hasDirect = k.hasDirect /\ q.direct = k.direct
           /\ q.history = k.history /\ q.stopped = k.stopped
           /\ q.extraction = k.extraction \cup SourcesOf(r, K)
           /\ q.state = "running" \/ (q.state = "imported" /\ k.state = "imported")
           /\ q.state = "imported" => q.hasState = k.hasState
    <3>1. r \in [Ids -> Cluster]
      OBVIOUS
    <3> QED
      BY <1>2, <2>1, <1>4, <2>3, <3>1, WithImportsIs
  <2>5. PICK x : x = with
    OBVIOUS
  <2>6. /\ Left(x, K) \in [Ids -> Cluster]
        /\ \A c \in K : /\ Left(x, K)[c].state = "imported"
                        /\ Left(x, K)[c].hasState = x[c].hasState
                        /\ Left(x, K)[c].stopped = x[c].stopped
        /\ \A d \in Ids \ K : Left(x, K)[d] = x[d]
    <3>1. x \in [Ids -> Cluster]
      BY <2>4, <2>5
    <3> QED
      BY <1>4, <3>1, LeftIs
  <2>7. mid = Left(x, K)
    BY <2>5
  <2> HIDE DEF mid, with
  <2>8. /\ mid \in [Ids -> Cluster] /\ \A d \in Ids \ (K \cup {p}) : mid[d] = r[d]
        /\ \A c \in K : /\ mid[c].state = "imported" /\ mid[c].hasState = r[c].hasState
                        /\ mid[c].stopped = r[c].stopped
        /\ mid[p] = with[p]
    BY <1>2, <1>4, <2>4, <2>5, <2>6, <2>7
  <2>9. r' = MarkAndCapture(mid, p)
    BY <1>6 DEF mid, with
  <2> QED
    BY <1>6, <2>4, <2>8, <2>9 DEF LevelFrom
<1>7. CASE Throw
  BY <1>7
<1>8. CASE ~Throw
  BY <1>2, <1>3, <1>5, <1>6, <1>8
<1> QED
  BY <1>7, <1>8

\* Clusters that are well after results are taken as they are.
LEMMA TerminalWell ==
    ASSUME Shaped, pc \in {"stable", "step"}, NEW P \in SUBSET Ids, NEW K \in SUBSET Ids,
           P \cap K = {}, NEW res \in [Ids -> Cluster], \A d \in Ids : Well(d, res[d]),
           \A p \in P : Passive(p), \A c \in K : ~Passive(c)
    PROVE  LET after == TerminallyImported(res, P, K)
           IN after \in [Ids -> Cluster] /\ \A d \in Ids : Well(d, after[d])
<1> DEFINE after == TerminallyImported(res, P, K)
<1>1. /\ after \in [Ids -> Cluster]
      /\ \A c \in K : after[c].state = "imported"
      /\ \A p \in P : after[p].state = "quiescent" /\ after[p].w = res[p].w
      /\ \A d \in Ids \ (P \cup K) : after[d] = res[d]
  <2>1. shot \in Shots
    BY ShapedFacts
  <2> QED
    BY <2>1, TerminalIs
<1> HIDE DEF after
<1>2. ASSUME NEW d \in Ids PROVE Well(d, after[d])
  <2>1. CASE d \in K
    BY <1>1, <2>1 DEF Well, TreesRun
  <2>2. CASE d \in P
    BY <1>1, <2>2 DEF Well, TreesRun
  <2>3. CASE d \notin P \cup K
    BY <1>1, <2>3
  <2> QED
    BY <2>1, <2>2, <2>3
<1> QED
  BY <1>1, <1>2 DEF after

LEMMA ShapedImportLevel ==
    ASSUME Shaped, ImportLevel
    PROVE  Shaped'
<1> USE ShapedFacts
<1>1. pc = "stable" /\ shot.mode = "level_batched"
  BY DEF ImportLevel
<1>2. CASE Throw
  BY <1>1, <1>2, ShapedThrow
<1>3. ASSUME UNCHANGED <<shot, pc, time, toStep, cursor, outcome, answer>>,
             NEW p \in Ids, NEW K \in SUBSET Children(p),
             \/ TerminalFrom(p, K)
             \/ ~EmptyTerminalRoot(p) /\ \E w, mid : LevelFrom(p, K, w, mid)
      PROVE  Shaped'
  <2>1. K \in SUBSET Ids /\ p \notin K /\ \A c \in K : ~Passive(c)
    BY ChildrenAre DEF Passive, EmptyTerminalRoot
  <2>2. r' \in [Ids -> Cluster] /\ \A d \in Ids : Well(d, r'[d])
    <3>1. CASE TerminalFrom(p, K)
      <4>1. Passive(p) /\ r' = TerminallyImported(r, {p}, K)
        BY <1>1, <3>1 DEF Passive, TerminalFrom
      <4>2. {p} \in SUBSET Ids /\ {p} \cap K = {} /\ \A q \in {p} : Passive(q)
        BY <2>1, <4>1
      <4>3. pc \in {"stable", "step"} /\ r \in [Ids -> Cluster] /\ \A d \in Ids : Well(d, r[d])
        BY <1>1
      <4> QED
        BY <2>1, <4>1, <4>2, <4>3, TerminalWell
    <3>2. ASSUME ~EmptyTerminalRoot(p), NEW w, NEW mid, LevelFrom(p, K, w, mid)
          PROVE  r' \in [Ids -> Cluster] /\ \A d \in Ids : Well(d, r'[d])
      <4>1. /\ mid \in [Ids -> Cluster] /\ mid[p].state \in {"running", "imported"}
            /\ \A c \in K : mid[c].state = "imported"
            /\ \A d \in Ids \ (K \cup {p}) : mid[d] = r[d]
            /\ r' = MarkAndCapture(mid, p)
        BY <3>2 DEF LevelFrom
      <4>2. r' \in [Ids -> Cluster] /\ \A d \in Ids \ {p} : r'[d] = mid[d]
        BY <4>1, AfterMark
      <4>3. ASSUME NEW d \in Ids PROVE Well(d, r'[d])
        <5>1. CASE d = p
          BY <3>2, <4>1, <5>1, WellMarked DEF TreesRun, Passive
        <5>2. CASE d \in K
          BY <2>1, <4>1, <4>2, <5>2 DEF Well, TreesRun
        <5>3. CASE d \notin K \cup {p}
          BY <1>1, <4>1, <4>2, <5>3
        <5> QED
          BY <5>1, <5>2, <5>3
      <4> QED
        BY <4>2, <4>3
    <3> QED
      BY <1>3, <3>1, <3>2
  <2>3. toStep' = {} /\ pc' = "stable"
    BY <1>1, <1>3
  <2> QED
    BY <1>1, <1>3, <2>2, <2>3, ShapedOn
<1> QED
  BY <1>2, <1>3, ImportLevelIs

-----------------------------------------------------------------------------
(* The broadcast of a level.                                               *)

LEMMA TargetsAre ==
    ASSUME shot \in Shots, NEW l \in Nat, l # MaxLevel, AtLevel(l) # {}
    PROVE  /\ Targets(l) # {} /\ Targets(l) \in SUBSET Ids
           /\ \A t \in Targets(l) : t \in Ids /\ shot.level[t] > l
<1>1. Targets(l) \in SUBSET Ids /\ \A t \in Targets(l) : t \in Ids /\ shot.level[t] > l
  BY DEF Targets
<1>2. \E t \in Ids : shot.level[t] > l
  <2> SUFFICES ASSUME \A t \in Ids : ~(shot.level[t] > l) PROVE FALSE
    OBVIOUS
  <2> DEFINE levels == {shot.level[c] : c \in Ids}
  <2>1. \A t \in Ids : shot.level[t] \in Nat /\ shot.level[t] =< l
    BY ShotIs
  <2>2. PICK c \in Ids : shot.level[c] = l
    BY DEF AtLevel
  <2>3. l \in levels /\ \A n \in levels : n \in Nat /\ l >= n
    BY <2>1, <2>2
  <2>4. \A x \in levels : (\A n \in levels : x >= n) => x = l
    BY <2>3
  <2>5. Max(levels) = l
    <3> HIDE DEF levels
    <3> QED
      BY <2>3, <2>4 DEF Max
  <2> QED
    BY <2>5 DEF MaxLevel
<1> QED
  BY <1>1, <1>2 DEF Targets

\* x is what is known of t when it has been given the states of K.
SpreadTo(t, K, x) ==
    \E w, mid :
        LET q == mid[t]
            k == r[t]
        IN /\ w \in Rescheduled(Inherit(k.w, StatesOf(K))) /\ w \in Worker
           /\ mid \in [Ids -> Cluster] /\ \A d \in Ids \ {t} : mid[d] = r[d]
           /\ q.w = w /\ q.hasDirect = k.hasDirect /\ q.direct = k.direct /\ q.stopped = k.stopped
           /\ q.extraction = k.extraction \cup SourcesOf(r, K)
           /\ q.state = "running" \/ (q.state = "imported" /\ k.state = "imported")
           /\ q.state = "imported" => q.hasState = k.hasState
           /\ x = MarkAndCapture(mid, t)[t]
\* got is what is known of the targets before the children K of the level l are
\* imported.
BroadcastFrom(l, K, got) ==
    LET empty == {t \in Targets(l) : EmptyTerminalRoot(t)}
        full == Targets(l) \ empty
    IN /\ got \in [Ids -> Cluster] /\ \A d \in Ids \ full : got[d] = r[d]
       /\ \/ got = r /\ \A c \in K : r[c].stopped.sources = {}
          \/ /\ \E c \in K : r[c].stopped.sources # {}
             /\ \A t \in full : SpreadTo(t, K, got[t])
       /\ r' = IF empty = {} THEN Left(got, K) ELSE TerminallyImported(got, empty, K)

LEMMA SpreadIs ==
    ASSUME Shaped, NEW K \in SUBSET Ids, NEW t \in Ids,
           NEW w \in Rescheduled(Inherit(r[t].w, StatesOf(K)))
    PROVE  LET x == MarkAndCapture(WithImports(r, t, r[t], K, w), t)[t]
           IN x \in Cluster /\ SpreadTo(t, K, x)
<1> USE ShapedFacts
<1> DEFINE k == r[t]
           mid == WithImports(r, t, k, K, w)
           x == MarkAndCapture(mid, t)[t]
<1>1. k \in Cluster /\ k.w \in Worker
  BY DEF Cluster
<1>2. StatesOf(K) \in SUBSET Stop
  BY StatesAre
<1>3. w \in Worker
  BY <1>1, <1>2, InheritIs, RescheduledIs
<1>4. LET q == mid[t]
      IN /\ mid \in [Ids -> Cluster]
         /\ \A d \in Ids \ {t} : mid[d] = r[d]
         /\ q.w = w /\ q.hasDirect = k.hasDirect /\ q.direct = k.direct
         /\ q.history = k.history /\ q.stopped = k.stopped
         /\ q.extraction = k.extraction \cup SourcesOf(r, K)
         /\ q.state = "running" \/ (q.state = "imported" /\ k.state = "imported")
         /\ q.state = "imported" => q.hasState = k.hasState
  <2>1. r \in [Ids -> Cluster]
    OBVIOUS
  <2> QED
    BY <1>1, <1>3, <2>1, WithImportsIs
<1> HIDE DEF mid
<1>5. MarkAndCapture(mid, t) \in [Ids -> Cluster]
  BY <1>4, AfterMark
<1>6. x \in Cluster
  BY <1>5
<1>7. SpreadTo(t, K, x)
  BY <1>3, <1>4 DEF SpreadTo
<1> QED
  BY <1>6, <1>7 DEF x, mid

LEMMA BroadcastIs ==
    ASSUME Shaped, BroadcastLevel
    PROVE  /\ UNCHANGED <<shot, pc, time, toStep, cursor, outcome, answer>>
           /\ \E l \in ReadyLevels : \E got : BroadcastFrom(l, AtLevel(l) \cap Waiting, got)
<1> USE ShapedFacts
<1>1. PICK l \in ReadyLevels :
       \E K \in {AtLevel(l) \cap Waiting}, empty \in {{t \in Targets(l) : EmptyTerminalRoot(t)}} :
       LET full == Targets(l) \ empty
           some == \E c \in K : r[c].stopped.sources # {}
           taken == [t \in full |-> Inherit(r[t].w, StatesOf(K))]
       IN \E n \in [full -> 0..Never] :
            /\ \A t \in full : [taken[t] EXCEPT !.next = n[t]] \in Rescheduled(taken[t])
            /\ LET worker(t) == [taken[t] EXCEPT !.next = n[t]]
                   with(t) == MarkAndCapture(WithImports(r, t, r[t], K, worker(t)), t)[t]
                   got == IF some THEN Override(r, [t \in full |-> with(t)]) ELSE r
               IN r' = IF empty = {} THEN Left(got, K)
                       ELSE TerminallyImported(got, empty, K)
  BY DEF BroadcastLevel
<1>0. PICK K \in {AtLevel(l) \cap Waiting}, empty \in {{t \in Targets(l) : EmptyTerminalRoot(t)}} :
       LET full == Targets(l) \ empty
           some == \E c \in K : r[c].stopped.sources # {}
           taken == [t \in full |-> Inherit(r[t].w, StatesOf(K))]
       IN \E n \in [full -> 0..Never] :
            /\ \A t \in full : [taken[t] EXCEPT !.next = n[t]] \in Rescheduled(taken[t])
            /\ LET worker(t) == [taken[t] EXCEPT !.next = n[t]]
                   with(t) == MarkAndCapture(WithImports(r, t, r[t], K, worker(t)), t)[t]
                   got == IF some THEN Override(r, [t \in full |-> with(t)]) ELSE r
               IN r' = IF empty = {} THEN Left(got, K)
                       ELSE TerminallyImported(got, empty, K)
  BY <1>1
<1> DEFINE full == Targets(l) \ empty
           some == \E c \in K : r[c].stopped.sources # {}
           taken == [t \in full |-> Inherit(r[t].w, StatesOf(K))]
<1>2. PICK n \in [full -> 0..Never] :
        /\ \A t \in full : [taken[t] EXCEPT !.next = n[t]] \in Rescheduled(taken[t])
        /\ LET worker(t) == [taken[t] EXCEPT !.next = n[t]]
               with(t) == MarkAndCapture(WithImports(r, t, r[t], K, worker(t)), t)[t]
               got == IF some THEN Override(r, [t \in full |-> with(t)]) ELSE r
           IN r' = IF empty = {} THEN Left(got, K)
                   ELSE TerminallyImported(got, empty, K)
  BY <1>0
<1> DEFINE worker(t) == [taken[t] EXCEPT !.next = n[t]]
           with(t) == MarkAndCapture(WithImports(r, t, r[t], K, worker(t)), t)[t]
           spread == [t \in full |-> with(t)]
           got == IF some THEN Override(r, spread) ELSE r
<1>3. r' = IF empty = {} THEN Left(got, K) ELSE TerminallyImported(got, empty, K)
  BY <1>2
<1>4. \A t \in full : worker(t) \in Rescheduled(Inherit(r[t].w, StatesOf(K)))
  BY <1>2
<1>5. K \in SUBSET Ids /\ full \in SUBSET Ids
  BY DEF AtLevel, Targets
<1> HIDE DEF worker, full, taken
<1>6. \A t \in full : with(t) \in Cluster /\ SpreadTo(t, K, with(t))
  BY <1>4, <1>5, SpreadIs
<1> HIDE DEF with
<1>7. spread \in [full -> Cluster] /\ \A t \in full : spread[t] = with(t)
  BY <1>6
<1> HIDE DEF spread
<1>8. /\ Override(r, spread) \in [Ids -> Cluster]
      /\ \A t \in full : Override(r, spread)[t] = with(t)
      /\ \A d \in Ids \ full : Override(r, spread)[d] = r[d]
  <2>1. r \in [Ids -> Cluster]
    OBVIOUS
  <2> QED
    BY <1>5, <1>7, <2>1 DEF Override
<1>9. /\ got \in [Ids -> Cluster] /\ \A d \in Ids \ full : got[d] = r[d]
      /\ \/ got = r /\ \A c \in K : r[c].stopped.sources = {}
         \/ some /\ \A t \in full : SpreadTo(t, K, got[t])
  <2>1. CASE some
    BY <1>6, <1>8, <2>1
  <2>2. CASE ~some
    BY <2>2
  <2> QED
    BY <2>1, <2>2
<1> HIDE DEF got
<1>10. BroadcastFrom(l, K, got)
  BY <1>3, <1>9 DEF BroadcastFrom, full
<1>11. UNCHANGED <<shot, pc, time, toStep, cursor, outcome, answer>>
  BY DEF BroadcastLevel
<1> QED
  BY <1>10, <1>11

LEMMA ShapedBroadcastLevel ==
    ASSUME Shaped, BroadcastLevel
    PROVE  Shaped'
<1> USE ShapedFacts
<1>1. pc = "stable" /\ shot.mode = "parentless"
  BY DEF BroadcastLevel
<1>2. UNCHANGED <<shot, pc, time, toStep, cursor, outcome, answer>>
  BY BroadcastIs
<1>3. PICK l \in ReadyLevels : \E got : BroadcastFrom(l, AtLevel(l) \cap Waiting, got)
  BY BroadcastIs
<1>4. PICK K : K = AtLevel(l) \cap Waiting
  OBVIOUS
<1>5. PICK got : BroadcastFrom(l, K, got)
  BY <1>3, <1>4
<1> DEFINE empty == {t \in Targets(l) : EmptyTerminalRoot(t)}
           full == Targets(l) \ empty
<1>6. /\ l \in Nat /\ l # MaxLevel /\ K # {}
      /\ \A c \in K : c \in Ids /\ shot.level[c] = l /\ r[c].state = "quiescent"
  BY <1>4, LevelIs
<1>7. /\ Targets(l) \in SUBSET Ids /\ Targets(l) \cap K = {}
  BY <1>6 DEF Targets
<1>8. /\ got \in [Ids -> Cluster] /\ \A d \in Ids \ full : got[d] = r[d]
      /\ got = r \/ \A t \in full : SpreadTo(t, K, got[t])
      /\ r' = IF empty = {} THEN Left(got, K) ELSE TerminallyImported(got, empty, K)
  BY <1>5 DEF BroadcastFrom
<1>9. \A d \in Ids : Well(d, got[d])
  <2>1. ASSUME NEW t \in full, SpreadTo(t, K, got[t])
        PROVE  Well(t, got[t])
    <3>1. PICK mid : /\ mid \in [Ids -> Cluster] /\ mid[t].state \in {"running", "imported"}
                     /\ got[t] = MarkAndCapture(mid, t)[t]
      BY <2>1 DEF SpreadTo
    <3>2. ~Passive(t) /\ t \in Ids
      BY <1>7 DEF Passive
    <3>3. TreesRun(mid[t])
      BY <3>1 DEF TreesRun
    <3> QED
      BY <3>1, <3>2, <3>3, WellMarked
  <2> HIDE DEF full
  <2>2. \A d \in Ids : Well(d, r[d])
    BY <1>1
  <2> QED
    BY <1>8, <2>1, <2>2
<1>10. r' \in [Ids -> Cluster] /\ \A d \in Ids : Well(d, r'[d])
  <2>1. K \in SUBSET Ids
    BY <1>6
  <2>2. CASE empty = {}
    <3>1. r' = Left(got, K)
      BY <1>8, <2>2
    <3>2. /\ r' \in [Ids -> Cluster] /\ \A d \in Ids \ K : r'[d] = got[d]
          /\ \A c \in K : r'[c].state = "imported" /\ r'[c].w = got[c].w
      <4>1. got \in [Ids -> Cluster]
        BY <1>8
      <4> QED
        BY <2>1, <3>1, <4>1, LeftIs
    <3>3. ASSUME NEW c \in K PROVE Well(c, r'[c])
      <4>1. Well(c, got[c]) /\ c \in Ids
        BY <1>6, <1>9
      <4> QED
        BY <3>2, <4>1 DEF Well, TreesRun
    <3> QED
      BY <1>9, <3>2, <3>3
  <2>3. CASE empty # {}
    <3>1. r' = TerminallyImported(got, empty, K)
      BY <1>8, <2>3
    <3>2. empty \in SUBSET Ids /\ empty \cap K = {} /\ \A p \in empty : Passive(p)
      BY <1>1, <1>7 DEF Passive
    <3>3. /\ r' \in [Ids -> Cluster]
          /\ \A c \in K : r'[c].state = "imported" /\ r'[c].w.tree = got[c].w.tree
          /\ \A p \in empty : r'[p].state = "quiescent" /\ r'[p].w = got[p].w
          /\ \A d \in Ids \ (empty \cup K) : r'[d] = got[d]
      <4> HIDE DEF empty
      <4>1. shot \in Shots
        OBVIOUS
      <4> QED
        BY <1>8, <2>1, <3>1, <3>2, <4>1, TerminalIs
    <3> HIDE DEF empty
    <3>4. ASSUME NEW d \in Ids PROVE Well(d, r'[d])
      <4>1. CASE d \in K
        BY <1>9, <3>3, <4>1 DEF Well, TreesRun
      <4>2. CASE d \in empty
        BY <1>9, <3>2, <3>3, <4>2 DEF Well, TreesRun
      <4>3. CASE d \notin empty \cup K
        BY <1>9, <3>3, <4>3
      <4> QED
        BY <4>1, <4>2, <4>3
    <3> QED
      BY <3>3, <3>4
  <2> QED
    BY <2>2, <2>3
<1>11. toStep' = {} /\ pc' = "stable"
  BY <1>1, <1>2
<1> QED
  BY <1>1, <1>2, <1>10, <1>11, ShapedOn

-----------------------------------------------------------------------------
(* The state is always well-formed.                                        *)

LEMMA ShapedStep ==
    ASSUME Shaped, [Next]_vars
    PROVE  Shaped'
<1>1. CASE DecodeRoots
  BY <1>1, ShapedDecodeRoots
<1>2. CASE DecodeSingle
  BY <1>2, ShapedDecodeSingle
<1>3. CASE Setup
  BY <1>3, ShapedSetup
<1>4. CASE ImportChild
  BY <1>4, ShapedImportChild
<1>5. CASE ImportLevel
  BY <1>5, ShapedImportLevel
<1>6. CASE BroadcastLevel
  BY <1>6, ShapedBroadcastLevel
<1>7. CASE BeginSlice
  BY <1>7, ShapedBeginSlice
<1>8. CASE StepCluster
  BY <1>8, ShapedStepCluster
<1>9. CASE Aggregate
  BY <1>9, ShapedAggregate
<1>10. CASE UNCHANGED vars
  BY <1>10 DEF vars, Shaped, TypeOK, Ids, Cluster, Worker, Count, Times, Never, NothingToMark,
     Idle, Well, TreesRun, Passive, EmptyTerminalRoot, Root, Blank, NoCount
<1> QED
  BY <1>1, <1>2, <1>3, <1>4, <1>5, <1>6, <1>7, <1>8, <1>9, <1>10 DEF Next

\* What a decode keeps of every cluster has its type at every moment, only what runs
\* has alternating trees, and no cluster that runs is without an event when the
\* scheduler looks for clusters to stop.
THEOREM TypesHold == Spec => []TypeOK
<1>1. Init => Shaped
  BY ShapedInit
<1>2. Shaped /\ [Next]_vars => Shaped'
  BY ShapedStep
<1>3. Shaped => TypeOK
  BY DEF Shaped
<1> QED
  BY <1>1, <1>2, <1>3, PTL DEF Spec

-----------------------------------------------------------------------------
(* What every detector is accounted by.                                    *)

\* In two generations a parent is a root.
LEMMA TwoGenerationsAre ==
    ASSUME shot \in Shots, TwoGenerations(shot)
    PROVE  /\ \A p \in Ids : \A c \in Children(p) : Root(p) /\ ~Root(c)
           /\ \A c \in Ids : ~Root(c) =>
                Root(shot.parent[c]) /\ shot.parent[c] \in Ids /\ c \in Children(shot.parent[c])
BY ShotIs, ChildrenAre DEF TwoGenerations, Ids, Root, Children

\* The decode goes on, and what there is is accounted for.
LEMMA AccountedOn ==
    ASSUME shot' = shot, Balanced(r', time', toStep')
    PROVE  Accounted'
<1>1. Ids' = Ids /\ Roots' = Roots /\ Spreads' = Spreads
  BY DEF Ids, Roots, Root, Spreads
<1>2. \A c \in Ids : /\ Children(c)' = Children(c) /\ Root(c)' = Root(c)
                     /\ Passive(c)' = Passive(c) /\ Below(c)' = Below(c)
                     /\ Got(r, c)' = Got(r', c) /\ Imported(r, c)' = Imported(r', c)
                     /\ HasUnimportedChild(r, c)' = HasUnimportedChild(r', c)
  BY <1>1 DEF Children, Root, Passive, EmptyTerminalRoot, Below, Got, Imported, OwnOf,
     HasUnimportedChild
<1>3. \A c \in Ids : /\ RootHas(r, c, r[c])' = RootHas(r', c, r'[c])
                     /\ ChildHas(c, r[c])' = ChildHas(c, r'[c])
  BY <1>1, <1>2 DEF RootHas, PassiveHas, ActiveHas, ChildHas, CountOf
<1>4. Held(r)' = Held(r')
  BY <1>1, <1>2, <1>3 DEF Held
<1>5. /\ SliceInOrder(r, time, toStep)' = SliceInOrder(r', time', toStep')
      /\ ChildrenInOrder(r, time)' = ChildrenInOrder(r', time')
      /\ ImportsInOrder(r)' = ImportsInOrder(r')
      /\ UpToDate(r, time)' = UpToDate(r', time')
  BY <1>1, <1>2 DEF SliceInOrder, ChildrenInOrder, ImportsInOrder, UpToDate, Roots, Idle,
     Never, Checkpointed
<1> QED
  BY <1>4, <1>5 DEF Accounted, Balanced

\* What runs and is marked runs on or has nothing to do any more.
LEMMA MarkedRuns ==
    ASSUME shot \in Shots, NEW res \in [Ids -> Cluster], NEW c \in Ids,
           res[c].state = "running"
    PROVE  LET m == Marked(res, c)
           IN /\ m.state # "imported"
              /\ m.state # "running" => Idle(m.w)
              /\ ~Root(c) /\ m.state = "quiescent" => m.stopped.time = res[c].w.clock
<1> DEFINE k == res[c]
           m == Marked(res, c)
           stopped == [k EXCEPT !.state = "quiescent", !.hasState = TRUE]
           root == [stopped EXCEPT !.provisional = FALSE]
<1>1. m.state # "imported" /\ m.w.next = k.w.next
  BY MarkedKeeps
<1>2. k \in Cluster /\ k.w \in Worker
  BY DEF Cluster
<1>3. \/ m = k /\ ~Idle(k.w)
      \/ ~Root(c) /\ Quiescent(k.w)
         /\ m = [stopped EXCEPT !.provisional = TRUE, !.stopped = Export(c, k.w)]
      \/ Root(c) /\ Quiescent(k.w)
      \/ Idle(k.w) /\ m = [k EXCEPT !.state = "drained", !.everDrained = TRUE]
  BY MarkedCases
<1>4. m.state # "running" => Idle(m.w)
  BY <1>1, <1>3 DEF Idle, Quiescent
<1>5. Export(c, k.w).time = k.w.clock
  BY <1>2, ExportIs
<1>6. ~Root(c) /\ m.state = "quiescent" => m.stopped.time = k.w.clock
  BY <1>2, <1>3, <1>5 DEF Cluster
<1> QED
  BY <1>1, <1>4, <1>6

\* After the setup every cluster has its own detectors.
LEMMA AccountedSetup ==
    ASSUME Shaped, Setup
    PROVE  Accounted'
<1> USE ShapedFacts
<1>1. PICK set : SetupFrom(set)
  BY SetupIs
<1>2. /\ set \in [Ids -> Cluster] /\ r' \in [Ids -> Cluster]
      /\ \A c \in Ids :
           /\ set[c].w \in Fresh(c) /\ set[c] = [Blank(c) EXCEPT !.w = set[c].w]
           /\ Alike(Marked(set, c), r'[c])
           /\ shot.checkpoints /\ HasUnimportedChild(r', c) => Checkpointed(r'[c])
      /\ UNCHANGED <<shot, time, toStep>>
  BY <1>1 DEF SetupFrom
<1>3. time' = 0 /\ toStep' = {}
  BY <1>2 DEF Setup, Shaped
<1>4. ASSUME NEW c \in Ids
      PROVE  /\ set[c].state = "running" /\ ~set[c].hasDirect /\ set[c].direct = NoCount
             /\ set[c].extraction = shot.own[c] /\ set[c].stopped.sources = {}
             /\ set[c].w \in Worker /\ set[c].w.sources = shot.own[c] /\ set[c].w.clock = 0
  <2>1. set[c].w \in Fresh(c) /\ set[c] = [Blank(c) EXCEPT !.w = set[c].w]
    BY <1>2
  <2>2. set[c].w \in Worker /\ set[c].w.sources = shot.own[c] /\ set[c].w.clock = 0
    BY <2>1, FreshIs
  <2> QED
    BY <2>1, <2>2 DEF Blank
<1>5. ASSUME NEW c \in Ids
      PROVE  /\ r'[c].state # "imported" /\ (r'[c].state # "running" => Idle(r'[c].w))
             /\ (~Root(c) /\ r'[c].state = "quiescent" => r'[c].stopped.time = 0)
             /\ r'[c].w.clock = 0
  <2>1. Alike(Marked(set, c), r'[c]) /\ set[c].state = "running" /\ set[c].w.clock = 0
    BY <1>2, <1>4
  <2>2. LET m == Marked(set, c)
        IN /\ m.state # "imported" /\ (m.state # "running" => Idle(m.w))
           /\ ~Root(c) /\ m.state = "quiescent" => m.stopped.time = 0
           /\ m.w.clock = 0
    BY <1>2, <2>1, MarkedRuns, MarkedKeeps
  <2> QED
    BY <2>1, <2>2 DEF Alike
<1>6. Held(r')
  <2>1. ASSUME NEW c \in Ids, ~Root(c) PROVE ChildHas(c, r'[c])
    <3>1. ChildHas(c, set[c])
      BY <1>4 DEF ChildHas
    <3> QED
      BY <1>2, <1>4, <2>1, <3>1, ChildStays
  <2>2. ASSUME NEW c \in Ids, Root(c) PROVE RootHas(r', c, r'[c])
    <3>1. \A d \in Children(c) : d \in Ids
      BY ChildrenAre
    <3>2. \A d \in Children(c) : set[d].state # "imported" /\ r'[d].state # "imported"
      BY <1>4, <1>5, <3>1
    <3>3. Imported(set, c) = {} /\ Got(set, c) = shot.own[c]
      BY <3>2 DEF Imported, Got, OwnOf
    <3>4. RootHas(set, c, set[c])
      <4>1. PassiveHas(set, c, set[c]) \/ ~Passive(c)
        <5> SUFFICES ASSUME Passive(c) PROVE PassiveHas(set, c, set[c])
          OBVIOUS
        <5>1. shot.own[c] = {}
          BY DEF Passive, EmptyTerminalRoot
        <5>2. NoCount = CountOf({})
          BY DEF NoCount, CountOf
        <5> QED
          BY <1>4, <3>3, <5>1, <5>2 DEF PassiveHas
      <4>2. ActiveHas(set, c, set[c])
        BY <1>4, <3>3 DEF ActiveHas, Below, OwnOf
      <4> QED
        BY <1>4, <4>1, <4>2 DEF RootHas
    <3>5. RootHas(set, c, r'[c])
      BY <1>2, <2>2, <3>4, RootStays
    <3> QED
      BY <3>2, <3>5, RootLooksAtStates
  <2> QED
    BY <2>1, <2>2 DEF Held
<1>7. \A c \in Ids : r'[c].w.next >= 0
  <2> TAKE c \in Ids
  <2>1. r'[c].w.next \in 0..Never
    BY <1>2 DEF Cluster, Worker
  <2> QED
    BY <2>1
<1>8. SliceInOrder(r', 0, {}) /\ ChildrenInOrder(r', 0) /\ ImportsInOrder(r')
  BY <1>5, <1>7 DEF SliceInOrder, ChildrenInOrder, ImportsInOrder
<1>9. shot.checkpoints => UpToDate(r', 0)
  BY <1>2, <1>5, <1>7 DEF UpToDate, Roots
<1> QED
  BY <1>2, <1>3, <1>6, <1>8, <1>9, AccountedOn DEF Balanced

LEMMA AccountedBeginSlice ==
    ASSUME Shaped, Accounted, BeginSlice
    PROVE  Accounted'
<1> USE ShapedFacts
<1>1. /\ pc = "stable" /\ Stable /\ Runnable # {} /\ UNCHANGED <<shot, r>>
      /\ Balanced(r, time, toStep)
  BY DEF BeginSlice, Accounted
<1> DEFINE nexts == {r[c].w.next : c \in Runnable}
           next == Min(nexts)
<1>2. nexts \in SUBSET Nat /\ nexts # {}
  <2>1. \A c \in Runnable : r[c].w.next \in 0..Never
    BY DEF Runnable, Cluster, Worker
  <2> QED
    BY <1>1, <2>1
<1>3. next \in nexts /\ \A n \in nexts : next =< n
  <2> HIDE DEF nexts
  <2> QED
    BY <1>2, LeastNatural
<1>4. \/ time' = time /\ toStep' = {c \in Runnable : r[c].w.next = time}
      \/ time' = next /\ toStep' = {c \in Runnable : r[c].w.next = next}
  BY DEF BeginSlice
<1>5. next \in Nat /\ time \in Nat
  BY <1>2, <1>3 DEF Times
<1>6. \A c \in Runnable : next =< r[c].w.next
  BY <1>3
<1>7. PICK e \in Runnable : r[e].w.next = next
  BY <1>3
<1> HIDE DEF next, nexts
<1>8. SliceInOrder(r, time', toStep')
  BY <1>4 DEF SliceInOrder
<1>9. \A c \in Ids : r[c].state = "running" => c \in Runnable
  BY <1>1 DEF Well, Runnable
<1>10. ASSUME shot.mode = "event_time" PROVE ChildrenInOrder(r, time') /\ ImportsInOrder(r)
  <2>1. ChildrenInOrder(r, time) /\ ImportsInOrder(r) /\ ToImport = {}
    BY <1>1, <1>10 DEF Balanced, Stable
  <2>2. \A c \in Ids : ~Root(c) => r[c].state # "quiescent"
    BY <2>1 DEF ToImport, Waiting
  <2> QED
    BY <1>4, <1>6, <1>9, <2>1, <2>2 DEF ChildrenInOrder
<1>11. ASSUME shot.mode = "event_time", shot.checkpoints PROVE UpToDate(r, time')
  <2>1. UpToDate(r, time) /\ ChildrenInOrder(r, time)
    BY <1>1, <1>11 DEF Balanced
  <2>2. e \in Ids /\ r[e].state = "running"
    BY DEF Runnable
  <2>3. time =< next
    BY <1>7, <2>1, <2>2 DEF UpToDate, ChildrenInOrder, Roots
  <2>4. time =< time' /\ time' \in Nat
    BY <1>4, <1>5, <2>3
  <2>5. ASSUME NEW c \in Roots
        PROVE  /\ r[c].state = "running" => r[c].w.next >= time'
               /\ r[c].state # "running" => r[c].state # "imported" /\ Idle(r[c].w)
               /\ HasUnimportedChild(r, c) => r[c].w.clock =< time' /\ Checkpointed(r[c])
    <3>1. /\ r[c].state = "running" => r[c].w.next >= time
          /\ r[c].state # "running" => r[c].state # "imported" /\ Idle(r[c].w)
          /\ HasUnimportedChild(r, c) => r[c].w.clock =< time /\ Checkpointed(r[c])
      BY <2>1 DEF UpToDate
    <3>2. c \in Ids
      BY DEF Roots
    <3>3. r[c].w.clock \in Nat /\ r[c].w.next \in Nat
      BY <3>2 DEF Cluster, Worker, Times
    <3>4. r[c].state = "running" => r[c].w.next >= time'
      BY <1>4, <1>6, <1>9, <3>1, <3>2, <3>3, <1>5
    <3> QED
      BY <1>5, <2>4, <3>1, <3>3, <3>4
  <2> QED
    BY <2>5 DEF UpToDate
<1>12. Held(r)
  BY <1>1 DEF Balanced
<1> QED
  BY <1>1, <1>8, <1>10, <1>11, <1>12, AccountedOn DEF Balanced

LEMMA AccountedStepCluster ==
    ASSUME Shaped, Accounted, StepCluster
    PROVE  Accounted'
<1> USE ShapedFacts
<1>1. PICK c, mid : StepFrom(c, mid)
  BY StepIs
<1>2. pc = "step" /\ Balanced(r, time, toStep)
  BY DEF StepCluster, Accounted
<1>3. /\ c \in toStep /\ c \in Ids /\ ~Idle(r[c].w) /\ r[c].state = "running"
      /\ mid \in [Ids -> Cluster] /\ \A d \in Ids \ {c} : mid[d] = r[d]
      /\ mid[c].state = "running" /\ mid[c].hasState = r[c].hasState
      /\ mid[c].hasDirect = r[c].hasDirect /\ mid[c].direct = r[c].direct
      /\ mid[c].extraction = r[c].extraction /\ mid[c].stopped = r[c].stopped
      /\ mid[c].w \in Stepped(c, r[c].w)
      /\ /\ shot.checkpoints /\ HasUnimportedChild(r, c)
         /\ \A i \in DOMAIN r[c].history : r[c].history[i].time =< r[c].w.clock
         => \A i \in DOMAIN mid[c].history : mid[c].history[i].time =< r[c].w.clock
      /\ r' = MarkAndCapture(mid, c)
      /\ toStep' = toStep \ {c} /\ shot' = shot /\ time' = time
  BY <1>1, <1>2 DEF StepFrom
<1>4. r[c].w \in Worker /\ r[c].w.next = time /\ time \in Nat
  BY <1>2, <1>3 DEF Balanced, SliceInOrder, Cluster, Times
<1>5. /\ mid[c].w \in Worker /\ mid[c].w.sources = r[c].w.sources
      /\ mid[c].w.clock = time /\ mid[c].w.next >= time
  BY <1>3, <1>4, SteppedIs
<1>6. /\ r' \in [Ids -> Cluster] /\ \A d \in Ids \ {c} : r'[d] = r[d]
      /\ Alike(Marked(mid, c), r'[c])
      /\ HasUnimportedChild(r', c) <=> HasUnimportedChild(mid, c)
      /\ /\ shot.checkpoints /\ HasUnimportedChild(mid, c)
         /\ \A i \in DOMAIN mid[c].history : mid[c].history[i].time =< mid[c].w.clock
         => Checkpointed(r'[c])
  BY <1>3, AfterMark
<1>7. /\ r'[c].state # "imported" /\ (r'[c].state # "running" => Idle(r'[c].w))
      /\ (~Root(c) /\ r'[c].state = "quiescent" => r'[c].stopped.time = time)
      /\ r'[c].w.clock = time /\ r'[c].w.next >= time
  <2>1. LET m == Marked(mid, c)
        IN /\ m.state # "imported" /\ (m.state # "running" => Idle(m.w))
           /\ ~Root(c) /\ m.state = "quiescent" => m.stopped.time = time
           /\ m.w.clock = time /\ m.w.next >= time
    BY <1>3, <1>5, MarkedRuns, MarkedKeeps
  <2> QED
    BY <1>6, <2>1 DEF Alike
<1>8. \A d \in Ids : /\ r[d].state = "imported" <=> r'[d].state = "imported"
                     /\ r[d].state = "imported" <=> mid[d].state = "imported"
  BY <1>3, <1>6, <1>7
<1>9. \A d \in Ids : \A e \in Children(d) : e \in Ids
  BY ChildrenAre
<1>10. ASSUME NEW d \in Ids, NEW k
       PROVE  /\ RootHas(r, d, k) <=> RootHas(r', d, k)
              /\ RootHas(r, d, k) <=> RootHas(mid, d, k)
              /\ HasUnimportedChild(r, d) <=> HasUnimportedChild(r', d)
              /\ HasUnimportedChild(r, d) <=> HasUnimportedChild(mid, d)
  <2>1. /\ \A e \in Children(d) : r[e].state = "imported" <=> r'[e].state = "imported"
        /\ \A e \in Children(d) : r[e].state = "imported" <=> mid[e].state = "imported"
    BY <1>8, <1>9
  <2> QED
    BY <2>1, RootLooksAtStates
<1>11. Held(r')
  <2>1. \A d \in Ids : IF Root(d) THEN RootHas(r, d, r[d]) ELSE ChildHas(d, r[d])
    BY <1>2 DEF Balanced, Held
  <2>2. ASSUME ~Root(c) PROVE ChildHas(c, r'[c])
    <3>1. ChildHas(c, mid[c])
      BY <1>3, <1>5, <2>1, <2>2 DEF ChildHas
    <3> QED
      BY <1>3, <1>6, <2>2, <3>1, ChildStays
  <2>3. ASSUME Root(c) PROVE RootHas(r', c, r'[c])
    <3>1. RootHas(r, c, mid[c])
      BY <1>3, <1>5, <2>1, <2>3 DEF RootHas, PassiveHas, ActiveHas
    <3>2. RootHas(mid, c, mid[c])
      BY <1>3, <1>10, <3>1
    <3>3. RootHas(mid, c, r'[c])
      BY <1>3, <1>6, <2>3, <3>2, RootStays
    <3> QED
      BY <1>3, <1>10, <3>3
  <2> QED
    BY <1>6, <1>10, <2>1, <2>2, <2>3 DEF Held
<1>12. SliceInOrder(r', time, toStep')
  BY <1>2, <1>3, <1>6 DEF Balanced, SliceInOrder
<1>13. ASSUME shot.mode = "event_time" PROVE ChildrenInOrder(r', time) /\ ImportsInOrder(r')
  <2>1. ChildrenInOrder(r, time) /\ ImportsInOrder(r)
    BY <1>2, <1>13 DEF Balanced
  <2>2. ChildrenInOrder(r', time)
    BY <1>6, <1>7, <2>1 DEF ChildrenInOrder
  <2>3. ASSUME NEW e \in Ids, NEW d \in Ids, ~Root(e), ~Root(d), r'[d].state = "imported"
        PROVE  /\ r'[e].state = "running" => r'[d].stopped.time =< r'[e].w.next
               /\ r'[e].state = "quiescent" => r'[d].stopped.time =< r'[e].stopped.time
    <3>1. d # c /\ r'[d] = r[d]
      BY <1>6, <1>7, <2>3
    <3>2. CASE e # c
      BY <1>6, <2>1, <2>3, <3>1, <3>2 DEF ImportsInOrder
    <3>3. CASE e = c
      <4>1. r[d].stopped.time =< time
        BY <1>3, <1>4, <2>1, <2>3, <3>1, <3>3 DEF ImportsInOrder
      <4>2. r[d].stopped.time \in Nat /\ r'[c].w.next \in Nat
        <5>1. r[d] \in Cluster /\ r'[c] \in Cluster
          BY <1>3, <1>6
        <5>2. r[d].stopped.time \in Times /\ r'[c].w \in Worker
          BY <5>1 DEF Cluster
        <5> QED
          BY <5>2 DEF Worker, Times
      <4>3. r[d].stopped.time =< r'[c].w.next
        BY <1>4, <1>7, <4>1, <4>2
      <4> QED
        BY <1>7, <2>3, <3>1, <3>3, <4>1, <4>3
    <3> QED
      BY <3>2, <3>3
  <2> QED
    BY <2>2, <2>3 DEF ImportsInOrder
<1>14. ASSUME shot.mode = "event_time", shot.checkpoints PROVE UpToDate(r', time)
  <2>1. UpToDate(r, time)
    BY <1>2, <1>14 DEF Balanced
  <2>2. ASSUME Root(c), HasUnimportedChild(r', c) PROVE Checkpointed(r'[c])
    <3>1. HasUnimportedChild(r, c) /\ HasUnimportedChild(mid, c)
      BY <1>3, <1>10, <2>2
    <3>2. r[c].w.clock =< time /\ Checkpointed(r[c])
      BY <1>3, <2>1, <2>2, <3>1 DEF UpToDate, Roots
    <3>3. \A i \in DOMAIN mid[c].history : mid[c].history[i].time =< r[c].w.clock
      BY <1>3, <1>14, <3>1, <3>2 DEF Checkpointed
    <3>4. \A i \in DOMAIN mid[c].history : mid[c].history[i].time \in Nat
      <4>1. mid[c].history \in Seq(Snapshot)
        BY <1>3 DEF Cluster, Snapshot
      <4>2. PICK h \in Seq(Snapshot) : h = mid[c].history
        BY <4>1
      <4>3. \A i \in DOMAIN h : h[i] \in Snapshot
        OBVIOUS
      <4> QED
        BY <4>2, <4>3 DEF Snapshot, Times
    <3>5. r[c].w.clock \in Nat
      BY <1>4 DEF Worker, Times
    <3>6. \A i \in DOMAIN mid[c].history : mid[c].history[i].time =< mid[c].w.clock
      BY <1>4, <1>5, <3>2, <3>3, <3>4, <3>5
    <3> QED
      BY <1>6, <1>14, <3>1, <3>6
  <2>3. ASSUME NEW d \in Roots
        PROVE  /\ r'[d].state = "running" => r'[d].w.next >= time
               /\ r'[d].state # "running" => r'[d].state # "imported" /\ Idle(r'[d].w)
               /\ HasUnimportedChild(r', d) => r'[d].w.clock =< time /\ Checkpointed(r'[d])
    <3>1. d \in Ids /\ Root(d)
      BY DEF Roots
    <3>2. CASE d = c
      BY <1>4, <1>7, <2>2, <3>1, <3>2
    <3>3. CASE d # c
      BY <1>6, <1>10, <2>1, <3>1, <3>3 DEF UpToDate
    <3> QED
      BY <3>2, <3>3
  <2> QED
    BY <2>3 DEF UpToDate
<1> QED
  BY <1>3, <1>11, <1>12, <1>13, <1>14, AccountedOn DEF Balanced

\* The last checkpoint of a root that still waits for a child is what it is: taking
\* it back changes nothing.
LEMMA RestoreIsVain ==
    ASSUME Shaped, NEW p \in Ids, Checkpointed(r[p]), NEW t \in Times, r[p].w.clock =< t,
           NEW k \in Restored(p, t)
    PROVE  k.w = r[p].w
<1> DEFINE i == LatestSnapshot(p, t)
<1>1. r[p].history \in Seq(Snapshot) /\ r[p].w.clock \in Nat
  <2>1. r[p].history \in Seq(Snapshot)
    BY ShapedFacts DEF Cluster, Snapshot
  <2>2. r[p].w \in Worker
    BY ShapedFacts DEF Cluster
  <2> QED
    BY <2>1, <2>2 DEF Worker, Times
<1>2. PICK h \in Seq(Snapshot) : h = r[p].history
  BY <1>1
<1>3. /\ h # <<>> /\ Last(h).time = r[p].w.clock /\ Last(h).w = r[p].w
      /\ \A j \in DOMAIN h : h[j].time =< r[p].w.clock
  BY <1>2 DEF Checkpointed
<1>4. Len(h) \in 1..Len(h) /\ Len(h) \in Nat /\ DOMAIN h = 1..Len(h) /\ Last(h) = h[Len(h)]
  BY <1>3 DEF Last
<1>5. Len(h) \in SnapshotsBefore(p, t)
  BY <1>2, <1>3, <1>4 DEF SnapshotsBefore
<1>6. /\ i \in DOMAIN h /\ h[i] \in Snapshot
      /\ h[Len(h)].time < h[i].time \/ (h[Len(h)].time = h[i].time /\ Len(h) =< i)
  BY <1>2, <1>5, LatestIs
<1>7. k.w = h[i].w
  BY <1>2, RestoredIs
<1> HIDE DEF i
<1>8. h[i].time =< r[p].w.clock /\ h[i].time \in Nat /\ i \in 1..Len(h)
  BY <1>3, <1>4, <1>6 DEF Snapshot, Times
<1>9. i = Len(h)
  BY <1>1, <1>3, <1>4, <1>6, <1>8
<1> QED
  BY <1>3, <1>4, <1>7, <1>9

\* The parent from which a child is imported: as it was, with its clock moved on,
\* or from the beginning with all that it had imported to be imported again.
LEMMA BaseIs ==
    ASSUME Shaped, Accounted, pc = "stable", TwoGenerations(shot), shot.mode = "event_time",
           NEW c, NEW p, NEW k, NEW w, NEW mid, ImportFrom(c, p, k, w, mid)
    PROVE  /\ Root(p) /\ ~r[p].hasDirect /\ ~k.hasDirect /\ k.stopped = r[p].stopped
           /\ \/ /\ k = Unclashed(p, c) /\ Again(p, c) = {c}
                 /\ k.extraction = r[p].extraction /\ k.w.sources = r[p].w.sources
                 /\ k.w.next = r[p].w.next /\ k.history = r[p].history /\ k.state = r[p].state
              \/ /\ ~shot.checkpoints
                 /\ Again(p, c) = {c} \cup Imported(r, p)
                 /\ k.extraction = shot.own[p] /\ k.w.sources = shot.own[p]
<1> USE ShapedFacts
<1>1. /\ c \in Ids /\ ~Root(c) /\ r[c].state = "quiescent" /\ p = shot.parent[c] /\ p \in Ids
      /\ k \in Base(p, c) /\ ~Clash(k.w, StatesOf(Again(p, c)))
  BY DEF ImportFrom
<1>2. Root(p) /\ c \in Children(p)
  BY <1>1, TwoGenerationsAre
<1>3. HasUnimportedChild(r, p)
  BY <1>1, <1>2 DEF HasUnimportedChild
<1>4. Balanced(r, time, toStep) /\ ~Passive(p) /\ ~Spreads
  BY DEF Accounted, Passive, Spreads
<1>5. ~r[p].hasDirect
  BY <1>1, <1>2, <1>3, <1>4 DEF Balanced, Held, RootHas, ActiveHas
<1>6. r[c].stopped.time = time
  BY <1>1, <1>4 DEF Balanced, ChildrenInOrder
<1>7. CASE ~Clash(r[p].w, {r[c].stopped})
  <2>1. k = Unclashed(p, c) /\ Again(p, c) = {c}
    BY <1>1, <1>7 DEF Base, Again
  <2>2. /\ k \in Cluster /\ [k EXCEPT !.w = r[p].w] = r[p]
        /\ k.w = [r[p].w EXCEPT !.clock = k.w.clock]
    BY <1>1, <2>1, UnclashedIs
  <2>3. PICK v \in Worker : v = r[p].w
    BY <1>1 DEF Cluster
  <2>4. /\ k.hasDirect = r[p].hasDirect /\ k.stopped = r[p].stopped
        /\ k.extraction = r[p].extraction /\ k.history = r[p].history /\ k.state = r[p].state
    <3>1. r[p] = [k EXCEPT !.w = v]
      BY <2>2, <2>3
    <3> QED
      BY <2>2, <3>1 DEF Cluster
  <2>5. k.w.sources = v.sources /\ k.w.next = v.next
    BY <2>2, <2>3 DEF Worker
  <2> QED
    BY <1>2, <1>5, <2>1, <2>3, <2>4, <2>5
<1>8. CASE Clash(r[p].w, {r[c].stopped}) /\ shot.checkpoints
  <2>1. r[p].w.clock =< time /\ Checkpointed(r[p])
    BY <1>1, <1>2, <1>3, <1>4, <1>8 DEF Balanced, UpToDate, Roots
  <2>2. k \in Restored(p, time)
    BY <1>1, <1>6, <1>8 DEF Base
  <2>3. k.w = r[p].w
    BY <1>1, <2>1, <2>2, RestoreIsVain
  <2>4. c \in Again(p, c)
    BY DEF Again
  <2>5. r[c].stopped \in StatesOf(Again(p, c))
    BY <2>4 DEF StatesOf
  <2>6. r[p].w.owned \cap r[c].stopped.owned # {}
    BY <1>8 DEF Clash
  <2>7. FALSE
    BY <1>1, <2>3, <2>5, <2>6 DEF Clash
  <2> QED
    BY <2>7
<1>9. CASE Clash(r[p].w, {r[c].stopped}) /\ ~shot.checkpoints
  <2>1. k \in Restarted(p)
    BY <1>1, <1>9 DEF Base
  <2>2. /\ k.w \in Fresh(p) /\ k.extraction = shot.own[p]
        /\ k.hasDirect = r[p].hasDirect /\ k.stopped = r[p].stopped
    BY <1>1, <2>1, RestartedIs
  <2>3. k.w.sources = shot.own[p]
    BY <1>1, <2>2, FreshIs
  <2>4. Replayed(p, c, time) = Imported(r, p)
    <3>1. \A d \in Children(p) : d \in Ids /\ ~Root(d)
      BY <1>1, ChildrenAre
    <3>2. \A d \in Imported(r, p) : r[d].hasState /\ r[d].stopped.time =< time /\ d # c
      <4>1. \A d \in Imported(r, p) : d \in Ids /\ ~Root(d) /\ r[d].state = "imported"
        BY <3>1 DEF Imported
      <4>2. \A d \in Imported(r, p) : r[d].hasState
        BY <1>4, <4>1 DEF Balanced, Held, ChildHas
      <4>3. \A d \in Imported(r, p) : r[d].stopped.time =< time
        BY <1>1, <1>4, <1>6, <4>1 DEF Balanced, ImportsInOrder
      <4> QED
        BY <1>1, <4>1, <4>2, <4>3
    <3> QED
      BY <1>9, <3>2 DEF Replayed, Imported
  <2>5. Again(p, c) = {c} \cup Imported(r, p)
    BY <1>6, <1>9, <2>4 DEF Again
  <2> QED
    BY <1>2, <1>5, <1>9, <2>2, <2>3, <2>5
<1> QED
  BY <1>7, <1>8, <1>9

LEMMA AccountedImportChild ==
    ASSUME Shaped, Accounted, TwoGenerations(shot), ImportChild
    PROVE  Accounted'
<1> USE ShapedFacts
<1>1. pc = "stable" /\ shot.mode = "event_time" /\ Balanced(r, time, toStep) /\ toStep = {}
  BY DEF ImportChild, Accounted
<1>2. CASE Throw
  BY <1>2 DEF Throw, FallBack, Escape, Accounted
<1>3. ASSUME NEW c, NEW p, NEW k, NEW w, NEW mid, ImportFrom(c, p, k, w, mid)
      PROVE  Accounted'
  <2> DEFINE K == Again(p, c)
  <2>1. /\ c \in Ids /\ ~Root(c) /\ r[c].state = "quiescent" /\ p = shot.parent[c]
        /\ p \in Ids /\ p # c
        /\ k \in Cluster /\ K \in SUBSET Ids
        /\ w \in Rescheduled(Inherit(k.w, StatesOf(K)))
        /\ mid \in [Ids -> Cluster] /\ \A d \in Ids \ {c, p} : mid[d] = r[d]
        /\ mid[c].state = "imported" /\ mid[c].hasState = r[c].hasState
        /\ mid[c].stopped = r[c].stopped
        /\ mid[p].w = w /\ mid[p].hasDirect = k.hasDirect
        /\ mid[p].stopped = k.stopped /\ mid[p].history = k.history
        /\ mid[p].extraction = k.extraction \cup SourcesOf(r, K)
        /\ mid[p].state \in {"running", "imported"}
        /\ mid[p].state = "imported" => k.state = "imported"
        /\ r' = MarkAndCapture(mid, p)
        /\ UNCHANGED <<shot, pc, time, toStep, outcome, answer>>
    BY <1>3 DEF ImportFrom
  <2>2. /\ Root(p) /\ ~r[p].hasDirect /\ ~k.hasDirect /\ k.stopped = r[p].stopped
        /\ \/ /\ k = Unclashed(p, c) /\ K = {c}
              /\ k.extraction = r[p].extraction /\ k.w.sources = r[p].w.sources
              /\ k.w.next = r[p].w.next /\ k.history = r[p].history /\ k.state = r[p].state
           \/ /\ ~shot.checkpoints
              /\ K = {c} \cup Imported(r, p)
              /\ k.extraction = shot.own[p] /\ k.w.sources = shot.own[p]
    BY <1>1, <1>3, BaseIs
  <2> HIDE DEF K
  <2>3. c \in Children(p) /\ Children(p) \subseteq Ids /\ p \notin Children(p)
    BY <2>1, TwoGenerationsAre, ChildrenAre
  <2>4. ~Passive(p) /\ ~Spreads
    BY <1>1 DEF Passive, Spreads
  <2>5. /\ Held(r) /\ ChildrenInOrder(r, time) /\ ImportsInOrder(r)
        /\ shot.checkpoints => UpToDate(r, time)
    BY <1>1 DEF Balanced
  <2>6. /\ \A d \in Ids : ~Root(d) => ChildHas(d, r[d])
        /\ RootHas(r, p, r[p])
    BY <2>1, <2>2, <2>5 DEF Held
  <2>7. k.w \in Worker /\ StatesOf(K) \in SUBSET Stop
    BY <2>1, StatesAre DEF Cluster
  <2>8. PICK v \in Worker :
          /\ v = Inherit(k.w, StatesOf(K))
          /\ v.sources = k.w.sources \cup UNION {s.sources : s \in StatesOf(K)}
          /\ v.next = k.w.next /\ v.clock >= k.w.clock
          /\ v.clock = k.w.clock \/ \E s \in StatesOf(K) : v.clock = s.time
    BY <2>7, InheritIs
  <2>9. /\ w \in Worker /\ w.sources = v.sources /\ w.clock = v.clock
        /\ w.next = v.next \/ w.next >= v.clock
    BY <2>1, <2>8, RescheduledIs
  <2>10. w.sources = k.w.sources \cup SourcesOf(r, K)
    BY <2>1, <2>8, <2>9, StatesAre
  <2>11. K \in SUBSET Children(p) /\ \A d \in K : r[d].stopped.sources = shot.own[d]
    <3>1. \A d \in K : d \in Children(p) /\ r[d].state \in {"quiescent", "imported"}
      BY <2>1, <2>2, <2>3 DEF Imported
    <3>2. \A d \in K : d \in Ids /\ ~Root(d)
      BY <2>1, <3>1, ChildrenAre
    <3> QED
      BY <2>6, <3>1, <3>2 DEF ChildHas
  <2>12. SourcesOf(r, K) = OwnOf(K)
    BY <2>11 DEF SourcesOf, OwnOf
  <2>13. Imported(mid, p) = Imported(r, p) \cup {c}
    <3>1. \A d \in Children(p) \ {c} : mid[d] = r[d]
      BY <2>1, <2>3
    <3> QED
      BY <2>1, <2>3, <3>1 DEF Imported
  <2>14. /\ Got(r, p) \subseteq r[p].extraction /\ Got(r, p) \subseteq r[p].w.sources
         /\ r[p].extraction \subseteq Below(p) /\ r[p].stopped.sources = {}
    BY <2>2, <2>4, <2>6 DEF RootHas, ActiveHas
  <2>15. RootHas(mid, p, mid[p])
    <3>1. Got(mid, p) = Got(r, p) \cup shot.own[c]
      BY <2>13 DEF Got, OwnOf
    <3>2. OwnOf(K) \subseteq Below(p) /\ shot.own[p] \subseteq Below(p)
      BY <2>11 DEF OwnOf, Below
    <3>3. CASE K = {c} /\ k.extraction = r[p].extraction /\ k.w.sources = r[p].w.sources
      <4>1. OwnOf(K) = shot.own[c]
        BY <3>3 DEF OwnOf
      <4> QED
        BY <2>1, <2>2, <2>4, <2>10, <2>12, <2>14, <3>1, <3>2, <3>3, <4>1 DEF RootHas, ActiveHas
    <3>4. CASE /\ K = {c} \cup Imported(r, p)
               /\ k.extraction = shot.own[p] /\ k.w.sources = shot.own[p]
      <4>1. Got(mid, p) = shot.own[p] \cup OwnOf(K)
        BY <2>13, <3>4 DEF Got, OwnOf
      <4> QED
        BY <2>1, <2>2, <2>4, <2>10, <2>12, <2>14, <3>2, <3>4, <4>1 DEF RootHas, ActiveHas
    <3> QED
      BY <2>2, <3>3, <3>4
  <2>16. /\ r' \in [Ids -> Cluster] /\ \A d \in Ids \ {p} : r'[d] = mid[d]
         /\ Alike(Marked(mid, p), r'[p])
         /\ HasUnimportedChild(r', p) <=> HasUnimportedChild(mid, p)
         /\ /\ shot.checkpoints /\ HasUnimportedChild(mid, p)
            /\ \A i \in DOMAIN mid[p].history : mid[p].history[i].time =< mid[p].w.clock
            => Checkpointed(r'[p])
    BY <2>1, AfterMark
  <2>17. /\ \A d \in Ids \ {c, p} : r'[d] = r[d]
         /\ r'[c] = mid[c]
    BY <2>1, <2>16
  <2>18. Held(r')
    <3>1. RootHas(r', p, r'[p])
      <4>1. RootHas(mid, p, r'[p])
        BY <2>1, <2>2, <2>15, <2>16, RootStays
      <4>2. \A d \in Children(p) : mid[d].state = "imported" <=> r'[d].state = "imported"
        BY <2>3, <2>16
      <4> QED
        BY <4>1, <4>2, RootLooksAtStates
    <3>2. ChildHas(c, r'[c])
      <4>1. ChildHas(c, r[c])
        BY <2>1, <2>6
      <4> QED
        BY <2>1, <2>4, <2>17, <4>1 DEF ChildHas
    <3>3. ASSUME NEW d \in Ids \ {c, p}, Root(d) PROVE RootHas(r', d, r'[d])
      <4>1. \A e \in Children(d) : e \in Ids \ {c, p}
        BY <2>1, <2>2, <3>3, ChildrenAre
      <4>2. \A e \in Children(d) : r[e].state = "imported" <=> r'[e].state = "imported"
        BY <2>17, <4>1
      <4>3. RootHas(r, d, r[d])
        BY <2>5, <3>3 DEF Held
      <4> QED
        BY <2>17, <4>2, <4>3, RootLooksAtStates
    <3> QED
      BY <2>1, <2>2, <2>6, <2>17, <3>1, <3>2, <3>3 DEF Held
  <2>19. SliceInOrder(r', time, {})
    BY DEF SliceInOrder
  <2>20. r[c].stopped.time = time /\ time \in Nat
    BY <2>1, <2>5 DEF ChildrenInOrder, Times
  <2>21. ChildrenInOrder(r', time)
    BY <2>1, <2>2, <2>5, <2>17 DEF ChildrenInOrder
  <2>22. ImportsInOrder(r')
    <3> SUFFICES ASSUME NEW e \in Ids, NEW d \in Ids, ~Root(e), ~Root(d), r'[d].state = "imported"
                 PROVE  /\ r'[e].state = "running" => r'[d].stopped.time =< r'[e].w.next
                        /\ r'[e].state = "quiescent" => r'[d].stopped.time =< r'[e].stopped.time
      BY DEF ImportsInOrder
    <3>1. d # p /\ e # p
      BY <2>2
    <3>2. CASE e = c
      BY <2>1, <2>17, <3>2
    <3>3. CASE e # c /\ d = c
      <4>1. r'[e] = r[e] /\ r'[d].stopped.time = time
        BY <2>1, <2>17, <2>20, <3>1, <3>3
      <4>2. /\ r[e].state = "running" => r[e].w.next >= time
            /\ r[e].state = "quiescent" => r[e].stopped.time = time
        BY <2>5 DEF ChildrenInOrder
      <4>3. r[e].w.next \in Nat
        <5>1. r[e].w \in Worker
          BY DEF Cluster
        <5> QED
          BY <5>1 DEF Worker
      <4> QED
        BY <2>20, <4>1, <4>2, <4>3
    <3>4. CASE e # c /\ d # c
      BY <2>5, <2>17, <3>1, <3>4 DEF ImportsInOrder
    <3> QED
      BY <3>2, <3>3, <3>4
  <2>23. ASSUME shot.checkpoints PROVE UpToDate(r', time)
    <3>1. /\ k = Unclashed(p, c) /\ K = {c} /\ k.w.next = r[p].w.next
          /\ k.history = r[p].history /\ k.state = r[p].state
      BY <2>2, <2>23
    <3>2. HasUnimportedChild(r, p)
      BY <2>1, <2>3 DEF HasUnimportedChild
    <3>3. /\ r[p].state = "running" => r[p].w.next >= time
          /\ r[p].state # "running" => r[p].state # "imported" /\ Idle(r[p].w)
          /\ r[p].w.clock =< time /\ Checkpointed(r[p])
      BY <2>1, <2>2, <2>5, <2>23, <3>2 DEF UpToDate, Roots
    <3>4. /\ r[p].w.clock \in Nat /\ r[p].w.next \in Nat /\ v.clock \in Nat /\ v.next \in Nat
          /\ w.next \in Nat /\ w.clock \in Nat /\ MaxTime \in Nat /\ time =< MaxTime
      <4>1. r[p].w \in Worker
        BY <2>1 DEF Cluster
      <4> QED
        BY <2>9, <4>1, ShotsAssumption DEF Worker, Times
    <3>5. k.w.clock = time
      <4>1. k.w.clock = Max({r[p].w.clock, time})
        BY <2>1, <2>20, <3>1, UnclashedIs
      <4>2. \A x \in {r[p].w.clock, time} : x \in Nat /\ time >= x
        BY <2>20, <3>3, <3>4
      <4>3. Max({r[p].w.clock, time}) = time
        <5>1. \A x \in {r[p].w.clock, time} :
                (\A y \in {r[p].w.clock, time} : x >= y) => x = time
          BY <2>20, <4>2
        <5> QED
          BY <4>2, <5>1 DEF Max
      <4> QED
        BY <4>1, <4>3
    <3>6. w.clock = time
      <4>1. \A s \in StatesOf(K) : s.time = time
        BY <2>20, <3>1 DEF StatesOf
      <4> QED
        BY <2>8, <2>9, <3>5, <4>1
    <3>7. w.next >= time
      <4>1. CASE w.next >= v.clock
        BY <2>9, <3>6, <4>1
      <4>2. CASE w.next = v.next
        <5>1. w.next = r[p].w.next
          BY <2>8, <3>1, <4>2
        <5>2. CASE r[p].state = "running"
          BY <3>3, <5>1, <5>2
        <5>3. CASE r[p].state # "running"
          BY <3>3, <3>4, <2>20, <5>1, <5>3 DEF Idle, Never
        <5> QED
          BY <5>2, <5>3
      <4> QED
        BY <2>9, <4>1, <4>2
    <3>8. mid[p].state = "running"
      BY <2>1, <3>1, <3>3
    <3>9. /\ r'[p].state # "imported" /\ (r'[p].state # "running" => Idle(r'[p].w))
          /\ r'[p].w.clock = time /\ r'[p].w.next >= time
      <4>1. LET m == Marked(mid, p)
            IN /\ m.state # "imported" /\ (m.state # "running" => Idle(m.w))
               /\ m.w.clock = w.clock /\ m.w.next = w.next
        BY <2>1, <3>8, MarkedRuns, MarkedKeeps
      <4> QED
        BY <2>16, <3>6, <3>7, <4>1 DEF Alike
    <3>10. HasUnimportedChild(r', p) => Checkpointed(r'[p])
      <4>1. \A i \in DOMAIN mid[p].history : mid[p].history[i].time \in Nat
        <5>1. mid[p].history \in Seq(Snapshot)
          BY <2>1 DEF Cluster, Snapshot
        <5>2. PICK h \in Seq(Snapshot) : h = mid[p].history
          BY <5>1
        <5>3. \A i \in DOMAIN h : h[i] \in Snapshot
          OBVIOUS
        <5> QED
          BY <5>2, <5>3 DEF Snapshot, Times
      <4>2. \A i \in DOMAIN mid[p].history : mid[p].history[i].time =< r[p].w.clock
        BY <2>1, <3>1, <3>3 DEF Checkpointed
      <4>3. \A i \in DOMAIN mid[p].history : mid[p].history[i].time =< mid[p].w.clock
        BY <2>1, <2>20, <3>3, <3>4, <3>6, <4>1, <4>2
      <4> QED
        BY <2>16, <2>23, <4>3
    <3>11. ASSUME NEW d \in Roots
           PROVE  /\ r'[d].state = "running" => r'[d].w.next >= time
                  /\ r'[d].state # "running" => r'[d].state # "imported" /\ Idle(r'[d].w)
                  /\ HasUnimportedChild(r', d) => r'[d].w.clock =< time /\ Checkpointed(r'[d])
      <4>1. d \in Ids /\ Root(d) /\ d # c
        BY <2>1 DEF Roots
      <4>2. CASE d = p
        BY <2>20, <3>9, <3>10, <4>2
      <4>3. CASE d # p
        <5>1. \A e \in Children(d) : e \in Ids \ {c, p}
          BY <2>1, <2>2, <4>1, <4>3, ChildrenAre
        <5>2. HasUnimportedChild(r', d) => HasUnimportedChild(r, d)
          BY <2>17, <5>1 DEF HasUnimportedChild
        <5>3. r'[d] = r[d]
          BY <2>17, <4>1, <4>3
        <5> QED
          BY <2>5, <2>23, <5>2, <5>3 DEF UpToDate
      <4> QED
        BY <4>2, <4>3
    <3> QED
      BY <3>11 DEF UpToDate
  <2>24. Balanced(r', time', toStep')
    BY <1>1, <2>1, <2>18, <2>19, <2>21, <2>22, <2>23 DEF Balanced
  <2> QED
    BY <2>1, <2>24, AccountedOn
<1> QED
  BY <1>2, <1>3, ImportIs

\* A root that takes the results of some children, which have not been imported
\* before, has what they had.
LEMMA TerminalHeld ==
    ASSUME Shaped, TwoGenerations(shot), ~Spreads, Held(r), NEW p \in Ids, Passive(p),
           NEW K \in SUBSET Children(p), \A c \in K : r[c].state = "quiescent"
    PROVE  Held(TerminallyImported(r, {p}, K))
<1> USE ShapedFacts
<1>1. /\ Root(p) /\ K \in SUBSET Ids /\ p \notin K
      /\ \A c \in K : c \in Ids /\ ~Root(c) /\ shot.parent[c] = p
  BY ChildrenAre DEF Passive, EmptyTerminalRoot
<1>2. PICK P : P = {p}
  OBVIOUS
<1>3. PICK x : x = TerminallyImported(r, P, K)
  OBVIOUS
<1>4. /\ x \in [Ids -> Cluster]
      /\ \A c \in K : /\ x[c].state = "imported" /\ x[c].hasState = r[c].hasState
                      /\ x[c].stopped = r[c].stopped
      /\ x[p].hasDirect /\ x[p].direct = Plus(r[p].direct, ResultsOf(r, K))
      /\ x[p].extraction = r[p].extraction /\ x[p].stopped = r[p].stopped
      /\ \A d \in Ids \ (K \cup {p}) : x[d] = r[d]
  <2>1. P \in SUBSET Ids /\ P \cap K = {} /\ shot \in Shots /\ r \in [Ids -> Cluster]
    BY <1>1, <1>2
  <2>2. /\ x \in [Ids -> Cluster]
        /\ \A c \in K : /\ x[c].state = "imported" /\ x[c].hasState = r[c].hasState
                        /\ x[c].stopped = r[c].stopped
        /\ \A q \in P :
             /\ x[q].hasDirect /\ x[q].direct = Plus(r[q].direct, ResultsOf(r, K))
             /\ x[q].extraction = r[q].extraction /\ x[q].stopped = r[q].stopped
        /\ \A d \in Ids \ (P \cup K) : x[d] = r[d]
    <3>1. PICK y : y = TerminallyImported(r, P, K)
      OBVIOUS
    <3>2. K \in SUBSET Ids
      BY <1>1
    <3>3. y \in [Ids -> Cluster] /\ \A d \in Ids \ (P \cup K) : y[d] = r[d]
      BY ONLY <2>1, <3>1, <3>2, TerminalIs
    <3>4. \A c \in K : /\ y[c].state = "imported" /\ y[c].hasState = r[c].hasState
                        /\ y[c].stopped = r[c].stopped
      BY ONLY <2>1, <3>1, <3>2, TerminalIs
    <3>5. \A q \in P :
             /\ y[q].hasDirect /\ y[q].direct = Plus(r[q].direct, ResultsOf(r, K))
             /\ y[q].extraction = r[q].extraction /\ y[q].stopped = r[q].stopped
      BY ONLY <2>1, <3>1, <3>2, TerminalIs
    <3> QED
      BY <1>3, <3>1, <3>3, <3>4, <3>5
  <2> QED
    BY <1>2, <2>2
<1>5. \A c \in K : ChildHas(c, r[c])
  BY <1>1 DEF Held
<1>6. RootHas(r, p, r[p])
  BY <1>1 DEF Held
<1>7. /\ r[p].direct = CountOf(Got(r, p)) /\ r[p].extraction = {} /\ r[p].stopped.sources = {}
  BY <1>6 DEF RootHas, PassiveHas
<1>8. ResultsOf(r, K) = CountOf(OwnOf(K))
  <2> DEFINE results == [c \in K |-> IF r[c].hasDirect THEN r[c].direct ELSE Counted(r[c])]
             A == [c \in K |-> shot.own[c]]
  <2>1. \A c \in K : results[c] = CountOf(A[c])
    <3> TAKE c \in K
    <3>1. /\ ~r[c].hasDirect /\ shot.own[c] \subseteq r[c].extraction
          /\ r[c].w.sources = shot.own[c]
      BY <1>5 DEF ChildHas
    <3>2. r[c].extraction \cap r[c].w.sources = shot.own[c]
      BY <3>1
    <3> QED
      BY <3>1, <3>2 DEF Counted
  <2>2. A \in [K -> SUBSET Detectors] /\ \A c, e \in K : c # e => A[c] \cap A[e] = {}
    BY <1>1, ShotIs
  <2>3. SumOf(results, K) = CountOf(UNION {A[c] : c \in K})
    <3> HIDE DEF results, A
    <3> QED
      BY <2>1, <2>2, SumApart
  <2>4. UNION {A[c] : c \in K} = OwnOf(K)
    BY DEF OwnOf
  <2> QED
    BY <2>3, <2>4 DEF ResultsOf
<1>9. \A d \in Children(p) : d \in Ids /\ ~Root(d)
  BY ChildrenAre
<1>10. Imported(x, p) = Imported(r, p) \cup K
  <2>1. \A d \in Children(p) \ K : x[d] = r[d]
    BY <1>1, <1>4, <1>9
  <2> QED
    BY <1>4, <2>1 DEF Imported
<1>11. Got(r, p) \cap OwnOf(K) = {} /\ Got(x, p) = Got(r, p) \cup OwnOf(K)
  <2>1. \A d \in {p} \cup Imported(r, p) : d \in Ids \ K
    BY <1>1, <1>9 DEF Imported
  <2>2. \A d \in {p} \cup Imported(r, p), c \in K : shot.own[d] \cap shot.own[c] = {}
    BY <1>1, <2>1, ShotIs
  <2> QED
    BY <1>10, <2>2 DEF Got, OwnOf
<1>12. x[p].direct = CountOf(Got(x, p))
  BY <1>4, <1>7, <1>8, <1>11, PlusApart
<1>13. RootHas(x, p, x[p])
  BY <1>4, <1>7, <1>12 DEF RootHas, PassiveHas
<1>14. \A c \in K : ChildHas(c, x[c])
  BY <1>4, <1>5 DEF ChildHas
<1>15. ASSUME NEW d \in Ids \ {p}, Root(d) PROVE RootHas(x, d, x[d])
  <2>1. \A e \in Children(d) : e \in Ids /\ ~Root(e) /\ shot.parent[e] = d
    BY <1>15, ChildrenAre
  <2>2. \A e \in Children(d) : x[e] = r[e]
    BY <1>1, <1>4, <1>15, <2>1
  <2>3. RootHas(r, d, r[d]) /\ x[d] = r[d]
    BY <1>1, <1>4, <1>15 DEF Held
  <2> QED
    BY <2>2, <2>3, RootLooksAtStates
<1>16. ASSUME NEW d \in Ids \ K, ~Root(d) PROVE ChildHas(d, x[d])
  BY <1>1, <1>4, <1>16 DEF Held
<1>17. Held(x)
  BY <1>1, <1>13, <1>14, <1>15, <1>16 DEF Held
<1> QED
  BY <1>2, <1>3, <1>17

LEMMA AccountedImportLevel ==
    ASSUME Shaped, Accounted, TwoGenerations(shot), ImportLevel
    PROVE  Accounted'
<1> USE ShapedFacts
<1>1. /\ pc = "stable" /\ shot.mode = "level_batched" /\ Held(r) /\ toStep = {}
  BY DEF ImportLevel, Accounted, Balanced
<1>2. ~Spreads
  BY <1>1 DEF Spreads
<1>3. CASE Throw
  BY <1>3 DEF Throw, FallBack, Escape, Accounted
<1>4. ASSUME UNCHANGED <<shot, pc, time, toStep, cursor, outcome, answer>>,
             NEW p \in Ids, NEW K \in SUBSET Children(p), K # {},
             \A c \in K : r[c].state = "quiescent",
             \/ TerminalFrom(p, K)
             \/ ~EmptyTerminalRoot(p) /\ \E w, mid : LevelFrom(p, K, w, mid)
      PROVE  Held(r')
  <2>1. CASE TerminalFrom(p, K)
    <3>1. Passive(p) /\ r' = TerminallyImported(r, {p}, K)
      BY <1>1, <2>1 DEF Passive, TerminalFrom
    <3> QED
      BY <1>1, <1>2, <1>4, <3>1, TerminalHeld
  <2>2. ASSUME ~EmptyTerminalRoot(p), NEW w, NEW mid, LevelFrom(p, K, w, mid)
        PROVE  Held(r')
    <3>1. /\ w \in Rescheduled(Inherit(r[p].w, StatesOf(K)))
          /\ mid \in [Ids -> Cluster] /\ \A d \in Ids \ (K \cup {p}) : mid[d] = r[d]
          /\ \A c \in K : /\ mid[c].state = "imported" /\ mid[c].hasState = r[c].hasState
                          /\ mid[c].stopped = r[c].stopped
          /\ mid[p].w = w /\ mid[p].hasDirect = r[p].hasDirect
          /\ mid[p].stopped = r[p].stopped
          /\ mid[p].extraction = r[p].extraction \cup SourcesOf(r, K)
          /\ r' = MarkAndCapture(mid, p)
      BY <2>2 DEF LevelFrom
    <3>2. /\ \A c \in K : c \in Ids /\ ~Root(c) /\ shot.parent[c] = p /\ c # p
          /\ \A c \in Children(p) : c \in Ids
          /\ Root(p) /\ HasUnimportedChild(r, p) /\ ~Passive(p)
      BY <1>4, <2>2, ChildrenAre, TwoGenerationsAre DEF HasUnimportedChild, Passive
    <3>3. \A c \in K : ChildHas(c, r[c])
      BY <1>1, <3>2 DEF Held
    <3>4. \A c \in K : r[c].stopped.sources = shot.own[c]
      BY <1>4, <3>3 DEF ChildHas
    <3>5. SourcesOf(r, K) = OwnOf(K)
      BY <3>4 DEF SourcesOf, OwnOf
    <3>6. r[p].w \in Worker /\ StatesOf(K) \in SUBSET Stop /\ K \in SUBSET Ids
      BY <3>2, StatesAre DEF Cluster
    <3>7. w.sources = r[p].w.sources \cup UNION {s.sources : s \in StatesOf(K)}
      <4>1. PICK v \in Worker :
              /\ v = Inherit(r[p].w, StatesOf(K))
              /\ v.sources = r[p].w.sources \cup UNION {s.sources : s \in StatesOf(K)}
        BY <3>6, InheritIs
      <4> QED
        BY <3>1, <4>1, RescheduledIs
    <3>8. w.sources = r[p].w.sources \cup OwnOf(K)
      BY <3>5, <3>6, <3>7, StatesAre
    <3>9. Imported(mid, p) = Imported(r, p) \cup K
      <4>1. \A d \in Children(p) \ K : mid[d] = r[d]
        BY <3>1, <3>2, ChildrenAre
      <4> QED
        BY <3>1, <4>1 DEF Imported
    <3>10. /\ ~r[p].hasDirect /\ r[p].stopped.sources = {}
           /\ Got(r, p) \subseteq r[p].extraction /\ Got(r, p) \subseteq r[p].w.sources
           /\ r[p].extraction \subseteq Below(p)
      BY <1>1, <3>2 DEF Held, RootHas, ActiveHas
    <3>11. Got(mid, p) = Got(r, p) \cup OwnOf(K) /\ OwnOf(K) \subseteq Below(p)
      BY <3>9 DEF Got, OwnOf, Below
    <3>12. RootHas(mid, p, mid[p])
      BY <3>1, <3>2, <3>5, <3>8, <3>10, <3>11 DEF RootHas, ActiveHas
    <3>13. /\ \A d \in Ids \ {p} : r'[d] = mid[d]
           /\ Alike(Marked(mid, p), r'[p])
      BY <3>1, AfterMark
    <3>14. RootHas(r', p, r'[p])
      <4>1. RootHas(mid, p, r'[p])
        BY <3>1, <3>2, <3>12, <3>13, RootStays
      <4>2. \A d \in Children(p) : mid[d].state = "imported" <=> r'[d].state = "imported"
        BY <3>2, <3>13, ChildrenAre
      <4> QED
        BY <4>1, <4>2, RootLooksAtStates
    <3>15. \A c \in K : ChildHas(c, r'[c])
      <4>1. \A c \in K : r'[c] = mid[c]
        BY <3>2, <3>13
      <4> QED
        BY <1>2, <1>4, <3>1, <3>3, <4>1 DEF ChildHas
    <3>16. ASSUME NEW d \in Ids \ {p}, Root(d) PROVE RootHas(r', d, r'[d])
      <4>1. \A e \in Children(d) : e \in Ids /\ ~Root(e) /\ shot.parent[e] = d
        BY <3>16, ChildrenAre
      <4>2. \A e \in Children(d) : r'[e] = r[e]
        BY <3>1, <3>2, <3>13, <3>16, <4>1
      <4>3. RootHas(r, d, r[d]) /\ r'[d] = r[d]
        BY <1>1, <3>1, <3>2, <3>13, <3>16 DEF Held
      <4> QED
        BY <4>2, <4>3, RootLooksAtStates
    <3>17. ASSUME NEW d \in Ids \ K, ~Root(d) PROVE ChildHas(d, r'[d])
      <4>1. r'[d] = r[d]
        BY <3>1, <3>2, <3>13, <3>17
      <4> QED
        BY <1>1, <3>17, <4>1 DEF Held
    <3> QED
      BY <3>2, <3>14, <3>15, <3>16, <3>17 DEF Held
  <2> QED
    BY <1>4, <2>1, <2>2
<1>5. CASE ~Throw
  <2>1. /\ UNCHANGED <<shot, pc, time, toStep, cursor, outcome, answer>>
        /\ Held(r')
    BY <1>4, <1>5, ImportLevelIs
  <2>2. Balanced(r', time', toStep')
    BY <1>1, <2>1 DEF Balanced, SliceInOrder
  <2> QED
    BY <2>1, <2>2, AccountedOn
<1> QED
  BY <1>3, <1>5

\* What a broadcast does to a root, and to a child, that it reaches.
LEMMA SpreadHolds ==
    ASSUME Shaped, Held(r), NEW K \in SUBSET Ids, NEW t \in Ids, ~EmptyTerminalRoot(t),
           \A c \in K : r[c].stopped.sources = shot.own[c] /\ r[c].state = "quiescent",
           NEW x, SpreadTo(t, K, x)
    PROVE  /\ x.state = "imported" => r[t].state = "imported"
           /\ ~Root(t) /\ Spreads => ChildHas(t, x)
           /\ /\ Root(t) /\ K # {} /\ K \subseteq Children(t)
              => /\ ~x.hasDirect /\ x.stopped.sources = {}
                 /\ x.extraction = r[t].extraction \cup OwnOf(K)
                 /\ x.w.sources = r[t].w.sources \cup OwnOf(K)
<1> USE ShapedFacts
<1>1. PICK w, mid :
        /\ w \in Rescheduled(Inherit(r[t].w, StatesOf(K))) /\ w \in Worker
        /\ mid \in [Ids -> Cluster] /\ \A d \in Ids \ {t} : mid[d] = r[d]
        /\ mid[t].w = w /\ mid[t].hasDirect = r[t].hasDirect /\ mid[t].stopped = r[t].stopped
        /\ mid[t].extraction = r[t].extraction \cup SourcesOf(r, K)
        /\ mid[t].state = "running" \/ (mid[t].state = "imported" /\ r[t].state = "imported")
        /\ mid[t].state = "imported" => mid[t].hasState = r[t].hasState
        /\ x = MarkAndCapture(mid, t)[t]
  BY DEF SpreadTo
<1>2. SourcesOf(r, K) = OwnOf(K)
  BY DEF SourcesOf, OwnOf
<1>3. r[t].w \in Worker /\ StatesOf(K) \in SUBSET Stop
  BY StatesAre DEF Cluster
<1>4. w.sources = r[t].w.sources \cup OwnOf(K)
  <2>1. PICK v \in Worker :
          /\ v = Inherit(r[t].w, StatesOf(K))
          /\ v.sources = r[t].w.sources \cup UNION {s.sources : s \in StatesOf(K)}
    BY <1>3, InheritIs
  <2>2. w.sources = r[t].w.sources \cup UNION {s.sources : s \in StatesOf(K)}
    BY <1>1, <2>1, RescheduledIs
  <2> QED
    BY <1>2, <2>2, StatesAre
<1>5. Alike(Marked(mid, t), x)
  BY <1>1, AfterMark
<1>6. ASSUME ~Root(t), Spreads PROVE ChildHas(t, x)
  <2>1. ChildHas(t, r[t])
    BY <1>6 DEF Held
  <2>2. ChildHas(t, mid[t])
    BY <1>1, <1>2, <1>4, <1>6, <2>1 DEF ChildHas
  <2> QED
    BY <1>1, <1>5, <1>6, <2>2, ChildStays
<1>7. ASSUME Root(t), K # {}, K \subseteq Children(t)
      PROVE  /\ ~x.hasDirect /\ x.stopped.sources = {}
             /\ x.extraction = r[t].extraction \cup OwnOf(K)
             /\ x.w.sources = r[t].w.sources \cup OwnOf(K)
  <2>1. \A c \in K : c # t
    BY <1>7, ChildrenAre
  <2>2. HasUnimportedChild(mid, t) /\ HasUnimportedChild(r, t)
    BY <1>1, <1>7, <2>1 DEF HasUnimportedChild
  <2>3. RootHas(r, t, r[t]) /\ ~Passive(t)
    BY <1>7 DEF Held, Passive
  <2>4. ~r[t].hasDirect /\ r[t].stopped.sources = {}
    BY <2>2, <2>3 DEF RootHas, ActiveHas
  <2>5. LET m == Marked(mid, t)
        IN /\ m.w = mid[t].w /\ m.hasDirect = mid[t].hasDirect
           /\ m.stopped = mid[t].stopped /\ m.extraction = mid[t].extraction
    BY <1>1, <1>7, <2>2, MarkedRoot, MarkedKeeps
  <2> QED
    BY <1>1, <1>2, <1>4, <1>5, <2>4, <2>5 DEF Alike
<1>8. x.state = "imported" => r[t].state = "imported"
  BY <1>1, AfterMarkKeeps
<1> QED
  BY <1>6, <1>7, <1>8

LEMMA AccountedBroadcastLevel ==
    ASSUME Shaped, Accounted, TwoGenerations(shot), BroadcastLevel
    PROVE  Accounted'
<1> USE ShapedFacts
<1>1. /\ pc = "stable" /\ shot.mode = "parentless" /\ Held(r) /\ toStep = {}
      /\ UNCHANGED <<shot, pc, time, toStep, cursor, outcome, answer>>
  BY BroadcastIs DEF BroadcastLevel, Accounted, Balanced
<1>2. PICK l \in ReadyLevels : \E got : BroadcastFrom(l, AtLevel(l) \cap Waiting, got)
  BY BroadcastIs
<1>3. PICK K : K = AtLevel(l) \cap Waiting
  OBVIOUS
<1>4. PICK got : BroadcastFrom(l, K, got)
  BY <1>2, <1>3
<1>5. PICK empty : empty = {t \in Targets(l) : EmptyTerminalRoot(t)}
  OBVIOUS
<1> DEFINE full == Targets(l) \ empty
<1>6. /\ got \in [Ids -> Cluster] /\ \A d \in Ids \ full : got[d] = r[d]
      /\ \/ got = r /\ \A c \in K : r[c].stopped.sources = {}
         \/ /\ \E c \in K : r[c].stopped.sources # {}
            /\ \A t \in full : SpreadTo(t, K, got[t])
      /\ r' = IF empty = {} THEN Left(got, K) ELSE TerminallyImported(got, empty, K)
  BY <1>4, <1>5 DEF BroadcastFrom
<1>7. /\ l \in Nat /\ l # MaxLevel /\ K # {} /\ K \in SUBSET Ids
      /\ \A c \in K : c \in Ids /\ shot.level[c] = l /\ r[c].state = "quiescent"
  BY <1>3, LevelIs
<1>8. /\ Targets(l) \in SUBSET Ids /\ Targets(l) # {}
      /\ \A t \in Targets(l) : t \in Ids /\ shot.level[t] > l
  <2>1. AtLevel(l) # {}
    BY <1>3, <1>7
  <2> QED
    BY <1>7, <2>1, TargetsAre
<1>9. Held(r')
  <2>1. CASE \A c \in Ids : Root(c) /\ shot.own[c] # {}
    <3>1. empty = {}
      BY <1>5, <1>8, <2>1 DEF EmptyTerminalRoot
    <3>2. \A c \in Ids : Children(c) = {} /\ ~Passive(c)
      BY <2>1, ChildrenAre DEF Passive, EmptyTerminalRoot
    <3>3. \A c \in Ids : RootHas(r, c, r[c])
      BY <1>1, <2>1 DEF Held
    <3>4. got = r /\ r' = Left(got, K)
      <4>1. \A c \in K : r[c].stopped.sources = {}
        BY <1>7, <3>3 DEF RootHas
      <4> QED
        BY <1>6, <3>1, <4>1
    <3>5. ASSUME NEW c \in Ids
          PROVE  /\ r'[c].hasDirect = r[c].hasDirect /\ r'[c].direct = r[c].direct
                 /\ r'[c].extraction = r[c].extraction /\ r'[c].w = r[c].w
                 /\ r'[c].stopped = r[c].stopped
      <4>1. PICK x \in [Ids -> Cluster] : x = r
        OBVIOUS
      <4>2. r' = Left(x, K)
        BY <3>4, <4>1
      <4>3. CASE c \in K
        BY <1>7, <4>1, <4>2, <4>3, LeftIs
      <4>4. CASE c \notin K
        BY <1>7, <4>1, <4>2, <4>4, LeftIs
      <4> QED
        BY <4>3, <4>4
    <3>6. ASSUME NEW c \in Ids PROVE RootHas(r', c, r'[c])
      <4>1. RootHas(r', c, r[c])
        BY <3>2, <3>3, RootLooksAtStates
      <4> QED
        BY <3>5, <4>1 DEF RootHas, PassiveHas, ActiveHas
    <3> QED
      BY <2>1, <3>6 DEF Held
  <2>2. ASSUME NEW p \in Ids, \A c \in Ids : Root(c) <=> c = p,
               shot.own[p] = {} => \A c, d \in Ids \ {p} : shot.level[c] = shot.level[d]
        PROVE  Held(r')
    <3>1. \A c \in Ids \ {p} : /\ ~Root(c) /\ c \in Children(p) /\ shot.own[c] # {}
                             /\ shot.level[p] > shot.level[c]
      <4> TAKE c \in Ids \ {p}
      <4>1. ~Root(c) /\ c \in Ids
        BY <2>2
      <4>2. Root(shot.parent[c]) /\ shot.parent[c] \in Ids /\ c \in Children(shot.parent[c])
        BY <4>1, TwoGenerationsAre
      <4>3. shot.parent[c] = p
        BY <2>2, <4>2
      <4> QED
        BY <4>1, <4>2, <4>3, ShotIs
    <3>2. /\ p \notin K /\ K \subseteq Children(p)
          /\ shot.level \in [Ids -> Nat]
      <4>1. shot.level \in [Ids -> Nat]
        BY ShotIs
      <4>2. PICK t \in Targets(l) : t \in Ids /\ shot.level[t] > l
        BY <1>8
      <4>3. p \notin K
        <5> SUFFICES ASSUME p \in K PROVE FALSE
          OBVIOUS
        <5>1. shot.level[p] = l /\ t # p
          BY <1>7, <4>2
        <5>2. shot.level[p] > shot.level[t]
          BY <3>1, <4>2, <5>1
        <5> QED
          BY <4>1, <4>2, <5>1, <5>2
      <4> QED
        BY <1>7, <3>1, <4>1, <4>3
    <3>3. /\ \A c \in K : ChildHas(c, r[c]) /\ r[c].stopped.sources = shot.own[c] /\ shot.own[c] # {}
          /\ \A c \in Ids \ {p} : ChildHas(c, r[c])
          /\ RootHas(r, p, r[p]) /\ Root(p)
      <4>1. \A c \in Ids \ {p} : ChildHas(c, r[c])
        BY <1>1, <3>1 DEF Held
      <4>2. RootHas(r, p, r[p])
        BY <1>1, <2>2 DEF Held
      <4> QED
        BY <1>7, <2>2, <3>1, <3>2, <4>1, <4>2 DEF ChildHas
    <3>4. p \in Ids /\ shot.level[p] > l
      BY <1>7, <3>1, <3>2
    <3>5. CASE shot.own[p] = {}
      <4>1. \A c \in Ids \ {p} : shot.level[c] = l
        BY <1>7, <2>2, <3>2, <3>5
      <4>2. {c \in Ids : shot.level[c] > l} = {p}
        BY <1>7, <3>4, <4>1
      <4>3. Targets(l) = {p}
        BY <3>5, <4>2 DEF Targets
      <4>4. Passive(p) /\ EmptyTerminalRoot(p) /\ ~Spreads
        BY <1>1, <3>3, <3>5 DEF Passive, EmptyTerminalRoot, Spreads
      <4>5. empty = {p}
        BY <1>5, <4>3, <4>4
      <4>6. got = r
        BY <1>6, <4>3, <4>5
      <4>7. r' = TerminallyImported(r, {p}, K)
        BY <1>6, <4>5, <4>6
      <4> QED
        BY <1>1, <1>7, <3>2, <4>4, <4>7, TerminalHeld
    <3>6. CASE shot.own[p] # {}
      <4>1. \A c \in Ids : shot.own[c] # {} /\ ~EmptyTerminalRoot(c)
        BY <3>1, <3>6 DEF EmptyTerminalRoot
      <4>2. Spreads
        BY <1>1, <4>1 DEF Spreads
      <4>3. empty = {} /\ p \in full
        BY <1>5, <1>8, <3>4, <3>6, <4>1 DEF Targets
      <4>4. /\ \A t \in full : SpreadTo(t, K, got[t])
            /\ r' = Left(got, K) /\ full \subseteq Ids
        BY <1>6, <1>7, <1>8, <3>3, <4>3
      <4>5. full \cap K = {}
        BY <1>7, <1>8
      <4> HIDE DEF full
      <4>6. /\ r' \in [Ids -> Cluster] /\ \A d \in Ids \ K : r'[d] = got[d]
            /\ \A c \in K :
                 /\ r'[c].state = "imported"
                 /\ r'[c].hasState = got[c].hasState /\ r'[c].hasDirect = got[c].hasDirect
                 /\ r'[c].extraction = got[c].extraction
                 /\ r'[c].stopped = got[c].stopped /\ r'[c].w = got[c].w
        <5>1. got \in [Ids -> Cluster]
          BY <1>6
        <5> QED
          BY <1>7, <4>4, <5>1, LeftIs
      <4>7. \A c \in K : r[c].stopped.sources = shot.own[c] /\ r[c].state = "quiescent"
        BY <1>7, <3>3
      <4>8. ASSUME NEW t \in full
            PROVE  /\ got[t].state = "imported" => r[t].state = "imported"
                   /\ ~Root(t) => ChildHas(t, got[t])
                   /\ t = p => /\ ~got[t].hasDirect /\ got[t].stopped.sources = {}
                               /\ got[t].extraction = r[t].extraction \cup OwnOf(K)
                               /\ got[t].w.sources = r[t].w.sources \cup OwnOf(K)
        <5>1. SpreadTo(t, K, got[t]) /\ t \in Ids /\ ~EmptyTerminalRoot(t)
          BY <4>1, <4>4
        <5>2. Held(r)
          BY <1>1
        <5> QED
          BY <1>7, <3>2, <3>3, <4>2, <4>7, <5>1, <5>2, SpreadHolds
      <4>9. \A c \in K : ChildHas(c, r'[c])
        <5>1. \A c \in K : got[c] = r[c]
          BY <1>6, <1>7, <4>5 DEF full
        <5> QED
          BY <1>7, <3>3, <4>2, <4>6, <5>1 DEF ChildHas
      <4>10. \A d \in Ids \ (K \cup {p}) : ChildHas(d, r'[d])
        <5> TAKE d \in Ids \ (K \cup {p})
        <5>1. CASE d \in full
          BY <3>1, <4>6, <4>8, <5>1
        <5>2. CASE d \notin full
          BY <1>6, <3>3, <4>6, <5>2 DEF full
        <5> QED
          BY <5>1, <5>2
      <4>11. Imported(r', p) \subseteq Imported(r, p) \cup K
        <5>1. \A d \in Children(p) : d \in Ids
          BY ChildrenAre
        <5>2. \A d \in Ids \ K : got[d].state = "imported" => r[d].state = "imported"
          BY <1>6, <4>8 DEF full
        <5> QED
          BY <4>6, <5>1, <5>2 DEF Imported
      <4>12. RootHas(r', p, r'[p])
        <5>1. ~Passive(p)
          BY <4>1 DEF Passive
        <5>2. HasUnimportedChild(r, p)
          BY <1>7, <3>2 DEF HasUnimportedChild
        <5>3. /\ Got(r, p) \subseteq r[p].extraction /\ Got(r, p) \subseteq r[p].w.sources
              /\ r[p].extraction \subseteq Below(p)
          BY <3>3, <5>1, <5>2 DEF RootHas, ActiveHas
        <5>4. Got(r', p) \subseteq Got(r, p) \cup OwnOf(K) /\ OwnOf(K) \subseteq Below(p)
          BY <3>2, <4>11 DEF Got, OwnOf, Below
        <5>5. r'[p] = got[p]
          BY <3>2, <4>6
        <5> QED
          BY <4>3, <4>8, <5>1, <5>3, <5>4, <5>5 DEF RootHas, ActiveHas
      <4> QED
        BY <2>2, <3>1, <4>9, <4>10, <4>12 DEF Held
    <3> QED
      BY <3>5, <3>6
  <2>3. \/ \A c \in Ids : Root(c) /\ shot.own[c] # {}
        \/ \E p \in Ids :
             /\ \A c \in Ids : Root(c) <=> c = p
             /\ shot.own[p] = {} => \A c, d \in Ids \ {p} : shot.level[c] = shot.level[d]
    BY <1>1 DEF TwoGenerations, Broadcastable, Ids, Root
  <2> QED
    BY <2>1, <2>2, <2>3
<1>10. Balanced(r', time', toStep')
  BY <1>1, <1>9 DEF Balanced, SliceInOrder
<1> QED
  BY <1>1, <1>10, AccountedOn

LEMMA InvInit == ASSUME Init PROVE IInv
BY ShapedInit DEF IInv, Init, Accounted

LEMMA InvStep ==
    ASSUME \A s \in Shots : TwoGenerations(s), IInv, [Next]_vars
    PROVE  IInv'
<1>1. Shaped /\ Accounted /\ shot \in Shots
  BY ShapedFacts DEF IInv
<1>2. Shaped'
  BY <1>1, ShapedStep
<1>3. TwoGenerations(shot)
  BY <1>1
<1>4. Accounted'
  <2>1. CASE DecodeRoots
    BY <2>1 DEF DecodeRoots, Answer, Escape, Accounted
  <2>2. CASE DecodeSingle
    BY <2>2 DEF DecodeSingle, Answer, Throw, FallBack, Escape, Accounted
  <2>3. CASE Setup
    BY <1>1, <2>3, AccountedSetup
  <2>4. CASE ImportChild
    BY <1>1, <1>3, <2>4, AccountedImportChild
  <2>5. CASE ImportLevel
    BY <1>1, <1>3, <2>5, AccountedImportLevel
  <2>6. CASE BroadcastLevel
    BY <1>1, <1>3, <2>6, AccountedBroadcastLevel
  <2>7. CASE BeginSlice
    BY <1>1, <2>7, AccountedBeginSlice
  <2>8. CASE StepCluster
    BY <1>1, <2>8, AccountedStepCluster
  <2>9. CASE Aggregate
    BY <2>9 DEF Aggregate, Answer, Throw, FallBack, Escape, Accounted
  <2>10. CASE UNCHANGED vars
    <3>1. UNCHANGED <<shot, pc, r, time, toStep>>
      BY <2>10 DEF vars
    <3>2. CASE pc \in {"stable", "step"}
      BY <1>1, <3>1, <3>2, AccountedOn DEF Accounted
    <3>3. CASE pc \notin {"stable", "step"}
      BY <3>1, <3>3 DEF Accounted
    <3> QED
      BY <3>2, <3>3
  <2> QED
    BY <1>1, <2>1, <2>2, <2>3, <2>4, <2>5, <2>6, <2>7, <2>8, <2>9, <2>10 DEF Next
<1> QED
  BY <1>2, <1>4 DEF IInv

-----------------------------------------------------------------------------
(* No detector is lost.                                                    *)

LEMMA AccountedLosesNothing ==
    ASSUME \A s \in Shots : TwoGenerations(s), IInv
    PROVE  NothingLost
<1> SUFFICES ASSUME pc \in {"stable", "step"}, NEW d \in Detectors
             PROVE  \E c \in Ids : (Root(c) \/ r[c].state # "imported") /\ d \in Holds(c)
  BY DEF NothingLost
<1> USE ShapedFacts
<1>1. Shaped /\ Held(r) /\ TwoGenerations(shot)
  BY DEF IInv, Accounted, Balanced
<1>2. PICK e \in Ids : d \in shot.own[e]
  BY <1>1, ShotIs
<1>3. CASE ~Root(e) /\ r[e].state # "imported"
  <2>1. /\ ~r[e].hasDirect
        /\ shot.own[e] \subseteq r[e].extraction /\ shot.own[e] \subseteq r[e].w.sources
    BY <1>1, <1>3 DEF Held, ChildHas
  <2>2. d \in Holds(e)
    BY <1>2, <2>1 DEF Holds
  <2> QED
    BY <1>3, <2>2
<1>4. ASSUME NEW p \in Ids, Root(p), e \in {p} \cup Imported(r, p)
      PROVE  d \in Holds(p)
  <2>1. RootHas(r, p, r[p])
    BY <1>1, <1>4 DEF Held
  <2>2. d \in Got(r, p)
    BY <1>2, <1>4 DEF Got, OwnOf
  <2>3. CASE Passive(p)
    <3>1. e # p
      BY <1>2, <2>3 DEF Passive, EmptyTerminalRoot
    <3>2. r[p].hasDirect /\ r[p].direct = CountOf(Got(r, p))
      BY <1>4, <2>1, <2>3, <3>1 DEF RootHas, PassiveHas
    <3>3. r[p].direct[d] = 1
      BY <2>2, <3>2 DEF CountOf
    <3> QED
      BY <3>2, <3>3 DEF Holds
  <2>4. CASE ~Passive(p) /\ r[p].hasDirect
    <3>1. r[p].direct = CountOf(Below(p)) /\ d \in Below(p)
      BY <1>4, <2>1, <2>2, <2>4, AllImported DEF RootHas, ActiveHas
    <3>2. r[p].direct[d] = 1
      BY <3>1 DEF CountOf
    <3> QED
      BY <2>4, <3>2 DEF Holds
  <2>5. CASE ~Passive(p) /\ ~r[p].hasDirect
    BY <2>1, <2>2, <2>5 DEF RootHas, ActiveHas, Holds
  <2> QED
    BY <2>3, <2>4, <2>5
<1>5. CASE Root(e)
  BY <1>4, <1>5
<1>6. CASE ~Root(e) /\ r[e].state = "imported"
  <2>1. /\ Root(shot.parent[e]) /\ shot.parent[e] \in Ids
        /\ e \in Imported(r, shot.parent[e])
    BY <1>1, <1>6, TwoGenerationsAre DEF Imported
  <2> QED
    BY <1>4, <2>1
<1> QED
  BY <1>3, <1>5, <1>6

\* In hierarchies of two generations, at every moment of a decode each active detector
\* is accounted for by a root or by a cluster that has not been imported away, however
\* often parents are resumed, restarted from time zero or taken back to a checkpoint.
THEOREM NoDetectorIsLost ==
    ASSUME \A s \in Shots : TwoGenerations(s)
    PROVE  Spec => []NothingLost
<1>1. Init => IInv
  BY InvInit
<1>2. IInv /\ [Next]_vars => IInv'
  BY InvStep
<1>3. IInv => NothingLost
  BY AccountedLosesNothing
<1> QED
  BY <1>1, <1>2, <1>3, PTL DEF Spec

-----------------------------------------------------------------------------
(* The answer.                                                             *)

\* The roots share out what there is.
LEMMA RootsShare ==
    ASSUME shot \in Shots, TwoGenerations(shot)
    PROVE  /\ UNION {Below(p) : p \in Roots} = Detectors
           /\ \A p \in Roots : Below(p) \in SUBSET Detectors
           /\ \A p, q \in Roots : p # q => Below(p) \cap Below(q) = {}
<1>1. \A p \in Roots : /\ p \in Ids /\ Root(p)
                       /\ \A c \in Children(p) : c \in Ids /\ ~Root(c) /\ shot.parent[c] = p
  BY ChildrenAre DEF Roots
<1>2. \A c \in Ids : shot.own[c] \in SUBSET Detectors
  BY ShotIs
<1>3. \A p \in Roots : Below(p) \in SUBSET Detectors
  BY <1>1, <1>2 DEF Below, OwnOf
<1>4. ASSUME NEW d \in Detectors PROVE \E p \in Roots : d \in Below(p)
  <2>1. PICK c \in Ids : d \in shot.own[c]
    BY ShotIs
  <2>2. CASE Root(c)
    <3>1. c \in Roots /\ d \in Below(c)
      BY <2>1, <2>2 DEF Roots, Below, OwnOf
    <3> QED
      BY <3>1
  <2>3. CASE ~Root(c)
    <3>1. shot.parent[c] \in Roots /\ c \in Children(shot.parent[c])
      BY <2>3, TwoGenerationsAre DEF Roots
    <3>2. d \in Below(shot.parent[c])
      BY <2>1, <3>1 DEF Below, OwnOf
    <3> QED
      BY <3>1, <3>2
  <2> QED
    BY <2>2, <2>3
<1>5. ASSUME NEW p \in Roots, NEW q \in Roots, p # q PROVE Below(p) \cap Below(q) = {}
  <2>1. \A c \in {p} \cup Children(p), e \in {q} \cup Children(q) : c \in Ids /\ e \in Ids /\ c # e
    BY <1>1, <1>5
  <2>2. \A c \in {p} \cup Children(p), e \in {q} \cup Children(q) :
          shot.own[c] \cap shot.own[e] = {}
    BY <2>1, ShotIs
  <2> QED
    BY <2>2 DEF Below, OwnOf
<1>6. UNION {Below(p) : p \in Roots} = Detectors
  BY <1>3, <1>4
<1> QED
  BY <1>3, <1>5, <1>6

LEMMA SumOverRoots ==
    ASSUME shot \in Shots, TwoGenerations(shot), NEW count,
           \A p \in Roots : count[p] = CountOf(Below(p))
    PROVE  SumOf(count, Roots) = CountOf(Detectors)
<1> DEFINE A == [p \in Roots |-> Below(p)]
<1>1. /\ A \in [Roots -> SUBSET Detectors] /\ \A p \in Roots : count[p] = CountOf(A[p])
      /\ \A p, q \in Roots : p # q => A[p] \cap A[q] = {}
  BY RootsShare
<1>2. UNION {A[p] : p \in Roots} = Detectors
  BY RootsShare
<1> HIDE DEF A
<1> QED
  BY <1>1, <1>2, SumApart

\* The way up from a cluster ends at its parent.
LEMMA UpIs ==
    ASSUME shot \in Shots, TwoGenerations(shot), NEW p \in Roots, NEW c \in Ids
    PROVE  p \in Up(c) <=> c \in {p} \cup Children(p)
<1> DEFINE closed(X) == c \in X /\ \A d \in X : Root(d) \/ shot.parent[d] \in X
<1>1. p \in Ids /\ Root(p)
  BY DEF Roots
<1>2. Up(c) = {u \in Ids : \A X \in SUBSET Ids : closed(X) => u \in X}
  BY DEF Up
<1>3. CASE Root(c)
  <2>1. closed({c})
    BY <1>3
  <2>2. Up(c) = {c}
    <3>1. {c} \in SUBSET Ids
      OBVIOUS
    <3> QED
      BY <1>2, <2>1, <3>1
  <2> QED
    BY <1>3, <2>2, ChildrenAre, <1>1
<1>4. CASE ~Root(c)
  <2>1. shot.parent[c] \in Ids /\ Root(shot.parent[c])
    BY <1>4, TwoGenerationsAre
  <2>2. closed({c, shot.parent[c]}) /\ {c, shot.parent[c]} \in SUBSET Ids
    BY <2>1
  <2>3. \A X \in SUBSET Ids : closed(X) => shot.parent[c] \in X /\ c \in X
    BY <1>4
  <2>4. Up(c) = {c, shot.parent[c]}
    <3> HIDE DEF closed
    <3> QED
      BY <1>2, <2>1, <2>2, <2>3
  <2>5. p # c
    BY <1>1, <1>4
  <2> QED
    BY <2>4, <2>5 DEF Children
<1> QED
  BY <1>3, <1>4

LEMMA RootsAnswer ==
    ASSUME shot \in Shots, TwoGenerations(shot), DecodeRoots
    PROVE  outcome' = "answered" => answer' = CountOf(Detectors)
<1> DEFINE below(c) == UNION {shot.own[d] : d \in {e \in Ids : c \in Up(e)}}
           count == [c \in Roots |-> CountOf(IF Roots = {c} THEN Detectors ELSE below(c))]
<1>1. outcome' = "answered" => answer' = SumOf(count, Roots)
  BY DEF DecodeRoots, Answer, Escape
<1>2. ASSUME NEW p \in Roots PROVE count[p] = CountOf(Below(p))
  <2>1. {e \in Ids : p \in Up(e)} = {p} \cup Children(p)
    <3>1. p \in Ids /\ Children(p) \subseteq Ids
      BY ChildrenAre DEF Roots
    <3> QED
      BY <3>1, UpIs
  <2>2. below(p) = Below(p)
    BY <2>1 DEF Below, OwnOf
  <2>3. CASE Roots = {p}
    <3>1. Below(p) = Detectors
      BY <2>3, RootsShare
    <3> QED
      BY <2>3, <3>1
  <2>4. CASE Roots # {p}
    BY <2>2, <2>4
  <2> QED
    BY <2>3, <2>4
<1> HIDE DEF count
<1> QED
  BY <1>1, <1>2, SumOverRoots

LEMMA AggregateAnswers ==
    ASSUME IInv, TwoGenerations(shot), Aggregate
    PROVE  outcome' = "answered" => answer' = CountOf(Detectors)
<1> USE ShapedFacts
<1>1. Shaped /\ Held(r)
  BY DEF IInv, Accounted, Balanced, Aggregate
<1> DEFINE count(c) == IF r[c].hasDirect THEN r[c].direct ELSE Counted(r[c])
           counts == [c \in Roots |-> count(c)]
<1>2. \/ Throw
      \/ /\ \A c \in Ids : ~Root(c) => r[c].state = "imported"
         /\ Answer(SumOf(counts, Roots))
  BY DEF Aggregate
<1>3. CASE Throw
  BY <1>3 DEF Throw, FallBack, Escape
<1>4. CASE /\ \A c \in Ids : ~Root(c) => r[c].state = "imported"
           /\ Answer(SumOf(counts, Roots))
  <2>1. ASSUME NEW p \in Roots PROVE counts[p] = CountOf(Below(p))
    <3>1. p \in Ids /\ Root(p) /\ RootHas(r, p, r[p])
      BY <1>1 DEF Roots, Held
    <3>2. ~HasUnimportedChild(r, p)
      <4>0. p \in Ids /\ shot \in Shots
        BY ONLY <1>1, <3>1, ShapedFacts
      <4>1. \A c \in Children(p) : c \in Ids /\ ~Root(c)
        BY ONLY <4>0, ChildrenAre
      <4>2. \A c \in Children(p) : r[c].state = "imported"
        BY <1>4, <4>1
      <4> QED
        BY <4>2 DEF HasUnimportedChild
    <3>3. Got(r, p) = Below(p) /\ Imported(r, p) = Children(p)
      BY <3>2, AllImported
    <3>4. CASE Passive(p)
      <4>1. CASE r[p].hasDirect
        BY <3>1, <3>3, <3>4, <4>1 DEF RootHas, PassiveHas
      <4>2. CASE ~r[p].hasDirect
        <5>1. r[p].extraction = {} /\ Children(p) = {} /\ shot.own[p] = {}
          BY <3>1, <3>3, <3>4, <4>2 DEF RootHas, PassiveHas, Passive, EmptyTerminalRoot
        <5>2. Below(p) = {} /\ r[p].extraction \cap r[p].w.sources = {}
          BY <5>1 DEF Below, OwnOf
        <5> QED
          BY <4>2, <5>2 DEF Counted
      <4> QED
        BY <4>1, <4>2
    <3>5. CASE ~Passive(p)
      <4>1. CASE r[p].hasDirect
        BY <3>1, <3>5, <4>1 DEF RootHas, ActiveHas
      <4>2. CASE ~r[p].hasDirect
        <5>1. /\ Got(r, p) \subseteq r[p].extraction /\ Got(r, p) \subseteq r[p].w.sources
              /\ r[p].extraction \subseteq Below(p)
          BY <3>1, <3>5, <4>2 DEF RootHas, ActiveHas
        <5>2. r[p].extraction \cap r[p].w.sources = Below(p)
          BY <3>3, <5>1
        <5> QED
          BY <4>2, <5>2 DEF Counted
      <4> QED
        BY <4>1, <4>2
    <3> QED
      BY <3>4, <3>5
  <2> HIDE DEF counts
  <2>2. SumOf(counts, Roots) = CountOf(Detectors)
    BY <1>1, <2>1, SumOverRoots
  <2> QED
    BY <1>4, <2>2 DEF Answer
<1> QED
  BY <1>2, <1>3, <1>4

\* In hierarchies of two generations, an answer that is not the fallback's counts each
\* active detector once: no detector reaches two roots, or one root twice.
THEOREM EveryDetectorCountsOnce ==
    ASSUME \A s \in Shots : TwoGenerations(s)
    PROVE  Spec => []CountsEveryDetectorOnce
<1>1. Init => IInv /\ CountsEveryDetectorOnce
  BY InvInit DEF Init, CountsEveryDetectorOnce
<1>2. ASSUME IInv, CountsEveryDetectorOnce, [Next]_vars
      PROVE  CountsEveryDetectorOnce'
  <2>1. /\ shot \in Shots /\ TwoGenerations(shot)
    BY <1>2, ShapedFacts DEF IInv
  <2>2. CASE DecodeRoots
    BY <2>1, <2>2, RootsAnswer DEF CountsEveryDetectorOnce, CountOf
  <2>3. CASE DecodeSingle
    BY <2>3 DEF DecodeSingle, Answer, Throw, FallBack, Escape, CountsEveryDetectorOnce, CountOf
  <2>4. CASE Aggregate
    BY <1>2, <2>1, <2>4, AggregateAnswers DEF CountsEveryDetectorOnce, CountOf
  <2>5. CASE ImportChild
    BY <1>2, <2>5 DEF ImportChild, Throw, FallBack, Escape, CountsEveryDetectorOnce, CountOf
  <2>6. CASE ImportLevel
    BY <1>2, <2>6 DEF ImportLevel, Throw, FallBack, Escape, CountsEveryDetectorOnce, CountOf
  <2>7. CASE \/ Setup \/ BroadcastLevel \/ BeginSlice \/ StepCluster \/ UNCHANGED vars
    <3>1. UNCHANGED <<outcome, answer>>
      BY <2>7 DEF Setup, BroadcastLevel, BeginSlice, StepCluster, vars
    <3> QED
      BY <1>2, <3>1 DEF CountsEveryDetectorOnce, CountOf
  <2> QED
    BY <1>2, <2>2, <2>3, <2>4, <2>5, <2>6, <2>7 DEF Next
<1>3. IInv /\ [Next]_vars => IInv'
  BY InvStep
<1> QED
  BY <1>1, <1>2, <1>3, PTL DEF Spec

=============================================================================
