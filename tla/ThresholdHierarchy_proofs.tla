---------------------- MODULE ThresholdHierarchy_proofs -----------------------
(***************************************************************************)
(* Proofs about ThresholdHierarchy, for any graphs, policies, schedules    *)
(* and syndromes: a finished hierarchy gives every detector to one         *)
(* cluster under one root, each cluster can be matched in the subgraph of  *)
(* its region, and the region of a parent contains those of its children;  *)
(* the schedules that are built keep what the policies promise.            *)
(***************************************************************************)
EXTENDS ThresholdHierarchy, ClusterGeometry_proofs

-----------------------------------------------------------------------------
(* Sequences of the members of a set.                                      *)

\* s names each member of S once.
Lists(s, S) == s \in Seq(S) /\ ToSet(s) = S /\ IsInjective(s)

\* The rank of a member is below the number of members, and ranks differ as marks do.
LEMMA RanksDiffer ==
    ASSUME NEW S, IsFiniteSet(S), NEW mark,
           \A x \in S : mark[x] \in Int,
           \A x, y \in S : mark[x] = mark[y] => x = y
    PROVE  /\ \A x \in S : Cardinality({y \in S : mark[y] < mark[x]}) \in 0 .. Cardinality(S) - 1
           /\ \A x, z \in S : Cardinality({y \in S : mark[y] < mark[x]})
                                = Cardinality({y \in S : mark[y] < mark[z]}) => x = z
<1> DEFINE Below(x) == {y \in S : mark[y] < mark[x]}
<1>1. Cardinality(S) \in Nat BY FS_CardinalityType
<1>2. ASSUME NEW x \in S PROVE IsFiniteSet(Below(x)) /\ Cardinality(Below(x)) \in 0 .. Cardinality(S) - 1
  <2>1. Below(x) \subseteq S \ {x} OBVIOUS
  <2>2. IsFiniteSet(S \ {x}) /\ Cardinality(S \ {x}) = Cardinality(S) - 1 BY FS_RemoveElement
  <2> HIDE DEF Below
  <2>3. IsFiniteSet(Below(x)) /\ Cardinality(Below(x)) <= Cardinality(S \ {x}) BY <2>1, <2>2, FS_Subset
  <2>4. Cardinality(Below(x)) \in Nat BY <2>3, FS_CardinalityType
  <2> QED BY <1>1, <2>2, <2>3, <2>4
<1>3. ASSUME NEW x \in S, NEW z \in S, mark[x] < mark[z]
      PROVE  Cardinality(Below(x)) # Cardinality(Below(z))
  <2>1. Below(x) \subseteq Below(z) BY <1>3
  <2>2. x \in Below(z) /\ x \notin Below(x) BY <1>3
  <2>3. IsFiniteSet(Below(z)) BY <1>2
  <2> HIDE DEF Below
  <2> QED BY <2>1, <2>2, <2>3, FS_Subset
<1>4. ASSUME NEW x \in S, NEW z \in S, Cardinality(Below(x)) = Cardinality(Below(z)) PROVE x = z
  <2> HIDE DEF Below
  <2>1. ~ (mark[x] < mark[z]) /\ ~ (mark[z] < mark[x]) BY <1>3, <1>4
  <2> QED BY <2>1
<1> QED BY <1>2, <1>4

\* Ranked names each member once.
LEMMA RankedLists ==
    ASSUME NEW S, IsFiniteSet(S), NEW mark,
           \A x \in S : mark[x] \in Int,
           \A x, y \in S : mark[x] = mark[y] => x = y
    PROVE  Lists(Ranked(S, mark), S) /\ Len(Ranked(S, mark)) = Cardinality(S)
<1> DEFINE Rank(x) == Cardinality({y \in S : mark[y] < mark[x]})
           n == Cardinality(S)
           rank == [x \in S |-> Rank(x)]
<1>1. n \in Nat BY FS_CardinalityType
<1>2. \A x \in S : Rank(x) \in 0 .. n - 1 BY RanksDiffer
<1>3. \A x, z \in S : Rank(x) = Rank(z) => x = z BY RanksDiffer
<1> HIDE DEF Rank, n
<1>4. rank \in Injection(S, 0 .. n - 1) BY <1>2, <1>3 DEF Injection, IsInjective
<1>5. IsFiniteSet(0 .. n - 1) /\ Cardinality(0 .. n - 1) = n BY <1>1, FS_Interval
<1>6. rank \in Surjection(S, 0 .. n - 1)
  <2> HIDE DEF rank
  <2> QED BY <1>4, <1>5, FS_Injection DEF n
<1>7. \A k \in 0 .. n - 1 : \E x \in S : Rank(x) = k BY <1>6 DEF Surjection
<1>8. Ranked(S, mark) = [i \in 1 .. n |-> CHOOSE x \in S : Rank(x) = i - 1] BY DEF Ranked, Rank, n
<1> DEFINE r == Ranked(S, mark)
<1>9. \A i \in 1 .. n : r[i] \in S /\ Rank(r[i]) = i - 1
  <2> SUFFICES ASSUME NEW i \in 1 .. n PROVE r[i] \in S /\ Rank(r[i]) = i - 1 OBVIOUS
  <2>1. r[i] = CHOOSE x \in S : Rank(x) = i - 1 BY <1>8
  <2>2. i - 1 \in 0 .. n - 1 BY <1>1
  <2> QED BY <1>7, <2>1, <2>2
<1>10. r \in [1 .. n -> S]
  <2>1. DOMAIN r = 1 .. n BY <1>8
  <2> QED BY <1>8, <1>9
<1>11. r \in Seq(S) /\ Len(r) = n BY <1>1, <1>10
<1>12. \A x \in S : \E i \in 1 .. n : r[i] = x
  <2> SUFFICES ASSUME NEW x \in S PROVE \E i \in 1 .. n : r[i] = x OBVIOUS
  <2>1. Rank(x) + 1 \in 1 .. n BY <1>1, <1>2
  <2>2. Rank(r[Rank(x) + 1]) = Rank(x) BY <1>2, <1>9, <2>1
  <2> QED BY <1>3, <1>9, <2>1, <2>2
<1>13. DOMAIN r = 1 .. n BY <1>10
<1> HIDE DEF r
<1>14. ToSet(r) = S BY <1>9, <1>12, <1>13 DEF ToSet
<1>15. IsInjective(r)
  <2> SUFFICES ASSUME NEW i \in 1 .. n, NEW j \in 1 .. n, r[i] = r[j] PROVE i = j
    BY <1>13 DEF IsInjective
  <2>1. i - 1 = j - 1 BY <1>9
  <2> QED BY <2>1
<1>16. Lists(r, S) /\ Len(r) = n BY <1>11, <1>14, <1>15 DEF Lists
<1> QED BY <1>16 DEF r, n

\* Sorted names each member once.
LEMMA SortedLists ==
    ASSUME NEW S \in SUBSET Nat, IsFiniteSet(S)
    PROVE  Lists(Sorted(S), S) /\ Len(Sorted(S)) = Cardinality(S)
<1> DEFINE mark == [x \in S |-> x]
<1>1. \A x \in S : mark[x] \in Int OBVIOUS
<1>2. \A x, y \in S : mark[x] = mark[y] => x = y OBVIOUS
<1> HIDE DEF mark
<1>3. Lists(Ranked(S, mark), S) /\ Len(Ranked(S, mark)) = Cardinality(S) BY <1>1, <1>2, RankedLists
<1> QED BY <1>3 DEF Sorted, mark

\* One after the other, two lists without a common member name each member once.
LEMMA ListsConcat ==
    ASSUME NEW A, NEW B, A \cap B = {}, NEW s, Lists(s, A), NEW t, Lists(t, B)
    PROVE  Lists(s \o t, A \cup B)
<1> DEFINE C == A \cup B
           u == s \o t
<1>1. s \in Seq(C) /\ t \in Seq(C) BY DEF Lists
<1>2. Len(s) \in Nat /\ Len(t) \in Nat /\ DOMAIN s = 1 .. Len(s) /\ DOMAIN t = 1 .. Len(t)
  BY <1>1
<1>3. u \in Seq(C) /\ Len(u) = Len(s) + Len(t) /\ DOMAIN u = 1 .. Len(s) + Len(t) BY <1>1
<1>4. \A i \in 1 .. Len(s) : u[i] = s[i] BY <1>1
<1>5. \A i \in 1 .. Len(t) : u[Len(s) + i] = t[i] BY <1>1
<1>6. \A i \in 1 .. Len(s) + Len(t) : i \in 1 .. Len(s) \/ (i - Len(s) \in 1 .. Len(t) /\ u[i] = t[i - Len(s)])
  <2> SUFFICES ASSUME NEW i \in 1 .. Len(s) + Len(t), i \notin 1 .. Len(s)
               PROVE  i - Len(s) \in 1 .. Len(t) /\ u[i] = t[i - Len(s)]
    OBVIOUS
  <2>1. i - Len(s) \in 1 .. Len(t) /\ Len(s) + (i - Len(s)) = i BY <1>2
  <2> HIDE DEF u
  <2> QED BY <1>5, <2>1
<1>7. \A i \in 1 .. Len(t) : Len(s) + i \in 1 .. Len(s) + Len(t) BY <1>2
<1>8. \A i \in 1 .. Len(s) : i \in 1 .. Len(s) + Len(t) BY <1>2
<1>9. ToSet(s) = A /\ ToSet(t) = B /\ IsInjective(s) /\ IsInjective(t) BY DEF Lists
<1> HIDE DEF u
<1>10. ToSet(u) = C
  <2>1. \A x \in ToSet(u) : x \in C BY <1>2, <1>3, <1>4, <1>6, <1>9 DEF ToSet
  <2>2. \A x \in A : x \in ToSet(u) BY <1>2, <1>3, <1>4, <1>8, <1>9 DEF ToSet
  <2>3. \A x \in B : x \in ToSet(u) BY <1>2, <1>3, <1>5, <1>7, <1>9 DEF ToSet
  <2> QED BY <2>1, <2>2, <2>3
<1>11. IsInjective(u)
  <2> SUFFICES ASSUME NEW i \in DOMAIN u, NEW j \in DOMAIN u, u[i] = u[j] PROVE i = j
    BY DEF IsInjective
  <2>1. i \in 1 .. Len(s) => u[i] \in A BY <1>2, <1>4, <1>9 DEF ToSet
  <2>2. j \in 1 .. Len(s) => u[j] \in A BY <1>2, <1>4, <1>9 DEF ToSet
  <2>3. i \notin 1 .. Len(s) => u[i] \in B BY <1>2, <1>3, <1>6, <1>9 DEF ToSet
  <2>4. j \notin 1 .. Len(s) => u[j] \in B BY <1>2, <1>3, <1>6, <1>9 DEF ToSet
  <2>5. CASE i \in 1 .. Len(s) /\ j \in 1 .. Len(s) BY <1>2, <1>4, <1>9, <2>5 DEF IsInjective
  <2>6. CASE i \notin 1 .. Len(s) /\ j \notin 1 .. Len(s)
    <3>1. i - Len(s) = j - Len(s) BY <1>2, <1>3, <1>6, <1>9, <2>6 DEF IsInjective
    <3> QED BY <1>2, <1>3, <3>1
  <2> QED BY <2>1, <2>2, <2>3, <2>4, <2>5, <2>6
<1> QED BY <1>3, <1>10, <1>11 DEF Lists, u

\* The empty list, and the list of one.
LEMMA ListsOne ==
    /\ Lists(<<>>, {})
    /\ \A x : Lists(<<x>>, {x})
<1>1. ToSet(<<>>) = {} /\ IsInjective(<<>>) BY DEF ToSet, IsInjective
<1>2. ASSUME NEW x PROVE Lists(<<x>>, {x})
  <2>1. <<x>> \in Seq({x}) /\ DOMAIN <<x>> = 1 .. 1 /\ <<x>>[1] = x OBVIOUS
  <2>2. ToSet(<<x>>) = {x} BY <2>1 DEF ToSet
  <2>3. IsInjective(<<x>>) BY <2>1 DEF IsInjective
  <2> QED BY <2>1, <2>2, <2>3 DEF Lists
<1> QED BY <1>1, <1>2 DEF Lists

\* A list with one more at its end.
LEMMA ListsAppend ==
    ASSUME NEW A, NEW s, Lists(s, A), NEW x, x \notin A
    PROVE  Lists(Append(s, x), A \cup {x})
<1>1. Lists(<<x>>, {x}) BY ListsOne
<1>2. Lists(s \o <<x>>, A \cup {x}) BY <1>1, ListsConcat
<1>3. s \in Seq(A \cup {x}) BY DEF Lists
<1>4. Append(s, x) = s \o <<x>> BY <1>3
<1> QED BY <1>2, <1>4

\* A list without its last.
LEMMA ListsFront ==
    ASSUME NEW A, NEW s, Lists(s, A), s # <<>>
    PROVE  Last(s) \in A /\ Lists(Front(s), A \ {Last(s)})
<1> DEFINE n == Len(s)
           f == Front(s)
<1>1. s \in Seq(A) /\ ToSet(s) = A /\ IsInjective(s) BY DEF Lists
<1>2. n \in Nat \ {0} /\ DOMAIN s = 1 .. n /\ n \in 1 .. n BY <1>1
<1>3. Last(s) = s[n] /\ Last(s) \in A BY <1>1, <1>2 DEF Last
<1>4. f \in Seq(A) /\ Len(f) = n - 1 /\ DOMAIN f = 1 .. n - 1 /\ \A i \in 1 .. n - 1 : f[i] = s[i]
  BY <1>1, <1>2 DEF Front
<1> HIDE DEF n, f
<1>5. \A i \in 1 .. n - 1 : i \in 1 .. n /\ i # n BY <1>2
<1>6. \A i \in 1 .. n : i # n => i \in 1 .. n - 1 BY <1>2
<1>7. \A i \in 1 .. n - 1 : f[i] \in A \ {Last(s)} BY <1>1, <1>2, <1>3, <1>4, <1>5 DEF ToSet, IsInjective
<1>8. f \in Seq(A \ {Last(s)}) BY <1>4, <1>7
<1>9. ToSet(f) = A \ {Last(s)}
  <2>1. \A x \in A \ {Last(s)} : \E i \in 1 .. n - 1 : f[i] = x BY <1>1, <1>2, <1>3, <1>4, <1>6 DEF ToSet
  <2> QED BY <1>4, <1>7, <2>1 DEF ToSet
<1>10. IsInjective(f) BY <1>1, <1>2, <1>4, <1>5 DEF IsInjective
<1> QED BY <1>3, <1>8, <1>9, <1>10 DEF Lists, f

\* A list is as long as its members are many.
LEMMA ListsLength ==
    ASSUME NEW A, NEW s, Lists(s, A)
    PROVE  IsFiniteSet(A) /\ Len(s) = Cardinality(A)
<1>1. s \in Seq(A) /\ ToSet(s) = A /\ IsInjective(s) BY DEF Lists
<1>2. Len(s) \in Nat /\ DOMAIN s = 1 .. Len(s) /\ s \in [1 .. Len(s) -> A] BY <1>1
<1>3. s \in Bijection(1 .. Len(s), A)
  BY <1>1, <1>2 DEF Bijection, Injection, Surjection, IsInjective, ToSet
<1>4. ExistsBijection(1 .. Len(s), A) BY <1>3 DEF ExistsBijection
<1>5. IsFiniteSet(1 .. Len(s)) /\ Cardinality(1 .. Len(s)) = Len(s) BY <1>2, FS_Interval
<1> QED BY <1>4, <1>5, FS_Bijection

-----------------------------------------------------------------------------
(* The cache and the schedule a level works with.                          *)

CacheGiven == \E g \in Graphs : cache \in GraphCaches(g)

BufferOf(l) == setting.schedule[l].buffer

LevelGiven ==
  /\ MaxLevel \in Nat /\ level \in 1 .. MaxLevel
  /\ \A l \in 1 .. MaxLevel : BufferOf(l) \in 0 .. MaxDistance

\* The cache holds the shortest ways of a graph.
LEMMA CacheOfGraph ==
    ASSUME CacheGiven, Nodes # {}
    PROVE  \E g : /\ IsGraph(g) /\ cache.edge = g.edge
                  /\ cache.dist \in Tables
                  /\ \A a, b \in Nodes : cache.dist[<<a, b>>] = Shortest(g, a, b)
<1>1. PICK g \in Graphs : cache \in GraphCaches(g) BY DEF CacheGiven
<1>2. cache.dist = Distances(g) /\ cache.edge = g.edge BY <1>1 DEF GraphCaches
<1>3. IsGraph(g) BY GeometryAssumption
<1> QED BY <1>2, <1>3, DistancesAreShortest

\* So its distances are those of a metric, but for Inf and nodes at no distance.
LEMMA CacheDistances ==
    ASSUME CacheGiven
    PROVE  \A a, b \in Nodes :
             /\ cache.dist[<<a, b>>] \in Nat
             /\ cache.dist[<<a, a>>] = 0
             /\ cache.dist[<<a, b>>] = cache.dist[<<b, a>>]
<1> SUFFICES ASSUME NEW a \in Nodes, NEW b \in Nodes
             PROVE  /\ cache.dist[<<a, b>>] \in Nat
                    /\ cache.dist[<<a, a>>] = 0
                    /\ cache.dist[<<a, b>>] = cache.dist[<<b, a>>]
  OBVIOUS
<1>1. PICK g : /\ IsGraph(g) /\ cache.edge = g.edge
               /\ cache.dist \in Tables
               /\ \A v, w \in Nodes : cache.dist[<<v, w>>] = Shortest(g, v, w)
  BY CacheOfGraph
<1>2. Shortest(g, a, b) \in Nat /\ Shortest(g, b, a) \in Nat
  <2>1. IsGraph(g) BY <1>1
  <2>2. Shortest(g, a, b) \in 0 .. Inf /\ Shortest(g, b, a) \in 0 .. Inf BY <2>1, ShortestIs
  <2> QED BY <2>2
<1>3. Shortest(g, a, a) = 0 BY <1>1, ShortestSelf
<1>4. Shortest(g, a, b) <= Shortest(g, b, a) /\ Shortest(g, b, a) <= Shortest(g, a, b)
  BY <1>1, ShortestSymmetric
<1> QED BY <1>1, <1>2, <1>3, <1>4

\* What else the cache holds.
LEMMA CacheIs ==
    ASSUME CacheGiven, Nodes # {}
    PROVE  /\ 0 < Inf /\ Inf \in Nat
           /\ Metric(cache.dist)
           /\ cache.upper \in Nat
           /\ \E g \in Graphs :
                /\ IsGraph(g) /\ Short(g)
                /\ cache.edge = g.edge /\ cache.boundary = g.boundary
                /\ \A a, b \in Nodes : cache.dist[<<a, b>>] = Shortest(g, a, b)
                /\ cache.near = NearestBoundary(g, cache.dist)
                /\ cache.id = ComponentIds(cache.dist)
<1>1. PICK g \in Graphs : cache \in GraphCaches(g) BY DEF CacheGiven
<1>2. IsGraph(g) /\ Short(g) BY GeometryAssumption, LengthAssumption
<1>3. /\ cache.edge = g.edge /\ cache.boundary = g.boundary /\ cache.dist = Distances(g)
      /\ cache.near = NearestBoundary(g, cache.dist)
      /\ cache.id = ComponentIds(cache.dist)
      /\ \/ cache.upper = Max(Finite(cache.dist))
         \/ cache.upper \in LandmarkBounds(cache.dist) \cup {Inf}
  <2> DEFINE Cache(upper, allPairs, radius) ==
               [dist |-> Distances(g), near |-> NearestBoundary(g, Distances(g)),
                id |-> ComponentIds(Distances(g)), edge |-> g.edge, boundary |-> g.boundary,
                upper |-> upper, allPairs |-> allPairs, radius |-> radius]
  <2>1. \/ \E radius \in BOOLEAN : cache = Cache(Max(Finite(Distances(g))), TRUE, radius)
        \/ \E upper \in LandmarkBounds(Distances(g)) \cup {Inf}, radius \in BOOLEAN :
             cache = Cache(upper, FALSE, radius)
    BY <1>1 DEF GraphCaches
  <2> QED BY <2>1
<1>4. Metric(cache.dist) BY <1>2, <1>3, DistancesAreMetric
<1>5. \A a, b \in Nodes : cache.dist[<<a, b>>] = Shortest(g, a, b)
  BY <1>2, <1>3, DistancesAreShortest
<1>6. 0 < Inf /\ Inf \in Nat
  BY BoundsAssumption, GeometryAssumption, PolicyAssumption
<1>7. cache.upper \in Nat
  <2>1. CASE cache.upper = Max(Finite(cache.dist))
    <3>1. PICK v \in Nodes : TRUE OBVIOUS
    <3>2. Finite(cache.dist) \in SUBSET (0 .. Inf) /\ cache.dist[<<v, v>>] \in Finite(cache.dist)
      <4>1. PICK d \in Tables : d = cache.dist BY <1>4 DEF Metric
      <4>2. DOMAIN d = Nodes \X Nodes /\ \A p \in Nodes \X Nodes : d[p] \in 0 .. Inf
        BY DEF Tables
      <4>3. d[<<v, v>>] = 0 BY <1>4, <4>1 DEF Metric
      <4> QED BY <1>6, <4>1, <4>2, <4>3 DEF Finite, Range
    <3> QED BY <1>6, <2>1, <3>2, GreatestNatural
  <2>2. CASE cache.upper \in LandmarkBounds(cache.dist) BY <1>4, <1>6, <2>2, LandmarksAre
  <2> QED BY <1>3, <1>6, <2>1, <2>2
<1> QED BY <1>2, <1>3, <1>4, <1>5, <1>6, <1>7

-----------------------------------------------------------------------------
(* Territories.                                                            *)

ResidualGiven == residual \subseteq Nodes

\* The owner of a node is a nearest detector, if that is within the buffer.
LEMMA OwnerIs ==
    ASSUME CacheGiven, ResidualGiven, residual # {}, NEW v \in Nodes, NEW buffer \in Nat
    PROVE  \/ Owner(v, buffer) = NoOwner /\ \A s \in residual : cache.dist[<<s, v>>] > buffer
           \/ /\ Owner(v, buffer) \in residual
              /\ Owner(v, buffer) # NoOwner
              /\ \A s \in residual : cache.dist[<<Owner(v, buffer), v>>] <= cache.dist[<<s, v>>]
<1> DEFINE near == Min({cache.dist[<<s, v>>] : s \in residual})
           nearest == {s \in residual : cache.dist[<<s, v>>] = near}
<1>1. \A s \in residual : s \in Nodes /\ s \in Nat /\ cache.dist[<<s, v>>] \in Nat
  BY CacheDistances, GeometryAssumption DEF ResidualGiven
<1>2. near \in {cache.dist[<<s, v>>] : s \in residual} /\ \A s \in residual : near <= cache.dist[<<s, v>>]
  <2> DEFINE D == {cache.dist[<<s, v>>] : s \in residual}
  <2>1. D \in SUBSET Nat /\ D # {} BY <1>1
  <2>2. \A s \in residual : cache.dist[<<s, v>>] \in D OBVIOUS
  <2> HIDE DEF D
  <2>3. Min(D) \in D /\ \A y \in D : Min(D) <= y BY <2>1, LeastNatural
  <2> QED BY <2>2, <2>3 DEF D
<1>3. Owner(v, buffer) = IF near > buffer THEN NoOwner ELSE Min(nearest) BY DEF Owner
<1> HIDE DEF near
<1>4. near \in Nat BY <1>1, <1>2
<1>5. nearest \in SUBSET Nat /\ nearest # {} BY <1>1, <1>2
<1>6. Min(nearest) \in nearest
  <2> HIDE DEF nearest
  <2> QED BY <1>5, LeastNatural
<1>7. Min(nearest) \in residual /\ Min(nearest) # NoOwner /\ cache.dist[<<Min(nearest), v>>] = near
  <2>1. PICK m \in nearest : m = Min(nearest) BY <1>6
  <2>2. m \in residual /\ m \in Nat /\ cache.dist[<<m, v>>] = near BY <1>1
  <2>3. m # -1 BY <2>2
  <2> QED BY <2>1, <2>2, <2>3 DEF NoOwner
<1> HIDE DEF nearest
<1>8. CASE near > buffer BY <1>1, <1>2, <1>3, <1>4, <1>8
<1>9. CASE ~ (near > buffer) BY <1>2, <1>3, <1>4, <1>7, <1>9
<1> QED BY <1>8, <1>9

\* How far the owners of two nodes are from each other by way of these.
Between(u, v, buffer) ==
  cache.dist[<<Owner(u, buffer), u>>] + Weight(cache, u, v) + cache.dist[<<Owner(v, buffer), v>>]

\* What is united.
LEMMA FloodedUnionsAre ==
    ASSUME ResidualGiven, NEW buffer, NEW x \in Nodes, NEW y \in Nodes
    PROVE  <<x, y>> \in FloodedUnions(buffer) <=>
             \/ \E u, v \in Nodes : /\ x = Owner(u, buffer) /\ y = Owner(v, buffer)
                                    /\ x # NoOwner /\ y # NoOwner
                                    /\ Between(u, v, buffer) <= buffer
             \/ x \in residual /\ y = Owner(x, buffer)
             \/ y \in residual /\ x = Owner(y, buffer)
<1> DEFINE own == [v \in Nodes |-> Owner(v, buffer)]
           Way(u, v) == cache.dist[<<own[u], u>>] + Weight(cache, u, v) + cache.dist[<<own[v], v>>]
           met == {p \in Nodes \X Nodes : own[p[1]] # NoOwner /\ own[p[2]] # NoOwner /\ Way(p[1], p[2]) <= buffer}
           homes == UNION {{<<s, own[s]>>, <<own[s], s>>} : s \in residual}
<1>1. FloodedUnions(buffer) = {<<own[p[1]], own[p[2]]>> : p \in met} \cup homes
  BY DEF FloodedUnions, Meet
<1>2. \A v \in Nodes : own[v] = Owner(v, buffer) OBVIOUS
<1>3. <<x, y>> \in {<<own[p[1]], own[p[2]]>> : p \in met} <=>
        \E u, v \in Nodes : /\ x = Owner(u, buffer) /\ y = Owner(v, buffer)
                            /\ x # NoOwner /\ y # NoOwner
                            /\ Between(u, v, buffer) <= buffer
  <2>1. \A u, v \in Nodes : Way(u, v) = Between(u, v, buffer) BY <1>2 DEF Between
  <2>2. \A u, v \in Nodes : <<u, v>> \in met <=>
          own[u] # NoOwner /\ own[v] # NoOwner /\ Way(u, v) <= buffer
    OBVIOUS
  <2>3. \A p \in met : p \in Nodes \X Nodes OBVIOUS
  <2> HIDE DEF Way, own, met
  <2>4. ASSUME NEW p \in met, <<x, y>> = <<own[p[1]], own[p[2]]>>
        PROVE  \E u, v \in Nodes : <<u, v>> \in met /\ x = own[u] /\ y = own[v]
    <3>1. PICK u \in Nodes, v \in Nodes : p = <<u, v>> BY <2>3
    <3>2. x = own[u] /\ y = own[v] BY <2>4, <3>1
    <3> QED BY <3>1, <3>2
  <2>5. ASSUME NEW u \in Nodes, NEW v \in Nodes, <<u, v>> \in met, x = own[u], y = own[v]
        PROVE  \E p \in met : <<x, y>> = <<own[p[1]], own[p[2]]>>
    <3>1. <<u, v>>[1] = u /\ <<u, v>>[2] = v OBVIOUS
    <3> QED BY <2>5, <3>1
  <2>6. <<x, y>> \in {<<own[p[1]], own[p[2]]>> : p \in met} <=>
          \E u, v \in Nodes : <<u, v>> \in met /\ x = own[u] /\ y = own[v]
    BY <2>4, <2>5
  <2> QED BY <1>2, <2>1, <2>2, <2>6
<1>4. <<x, y>> \in homes <=> (\/ x \in residual /\ y = Owner(x, buffer)
                              \/ y \in residual /\ x = Owner(y, buffer))
  <2>1. <<x, y>> \in homes <=> \E s \in residual : <<x, y>> = <<s, own[s]>> \/ <<x, y>> = <<own[s], s>>
    OBVIOUS
  <2>2. \A s \in residual : s \in Nodes BY DEF ResidualGiven
  <2> HIDE DEF homes, own
  <2>3. ASSUME NEW s \in residual
        PROVE  /\ <<x, y>> = <<s, own[s]>> <=> x = s /\ y = Owner(s, buffer)
               /\ <<x, y>> = <<own[s], s>> <=> y = s /\ x = Owner(s, buffer)
    BY <1>2, <2>2
  <2> QED BY <2>1, <2>3
<1> DEFINE mets == {<<own[p[1]], own[p[2]]>> : p \in met}
<1>5. <<x, y>> \in FloodedUnions(buffer) <=> <<x, y>> \in mets \/ <<x, y>> \in homes BY <1>1
<1> HIDE DEF homes, mets
<1>6. <<x, y>> \in mets <=>
        \E u, v \in Nodes : /\ x = Owner(u, buffer) /\ y = Owner(v, buffer)
                            /\ x # NoOwner /\ y # NoOwner
                            /\ Between(u, v, buffer) <= buffer
  BY <1>3 DEF mets
<1> QED BY <1>4, <1>5, <1>6

\* Weights do not depend on the order of the ends.
LEMMA WeightSymmetric ==
    ASSUME CacheGiven, Nodes # {}, NEW u \in Nodes, NEW v \in Nodes
    PROVE  Weight(cache, u, v) \in Nat /\ Weight(cache, u, v) = Weight(cache, v, u)
<1>1. PICK g : IsGraph(g) /\ cache.edge = g.edge BY CacheOfGraph
<1>2. {u, v} = {v, u} OBVIOUS
<1>3. Inf \in Nat BY GeometryAssumption
<1>4. {u, v} \in DOMAIN g.edge => g.edge[{u, v}] \in Nat BY <1>1 DEF IsGraph
<1> QED BY <1>1, <1>2, <1>3, <1>4 DEF Weight

\* Two detectors at most the buffer apart are united: the territories along the shortest way
\* between them meet.
LEMMA FloodJoins ==
    ASSUME CacheGiven, ResidualGiven, NEW buffer \in 0 .. MaxDistance,
           NEW a \in residual, NEW b \in residual, cache.dist[<<a, b>>] <= buffer
    PROVE  b \in ReachFrom(a, residual, FloodedUnions(buffer))
<1> SUFFICES ASSUME NEW T \in SUBSET residual, a \in T,
                    \A x \in T, y \in residual : <<x, y>> \in FloodedUnions(buffer) => y \in T
             PROVE  b \in T
  BY DEF ReachFrom
<1> DEFINE Own(v) == Owner(v, buffer)
           D(v, w) == cache.dist[<<v, w>>]
           U == FloodedUnions(buffer)
<1>1. /\ buffer \in Nat /\ Inf \in Nat /\ buffer < Inf
      /\ a \in Nodes /\ b \in Nodes /\ Nodes # {} /\ residual # {} /\ residual \subseteq Nodes
      /\ \A s \in residual : s # NoOwner /\ s \in Nodes
  <2>1. MaxDistance \in Nat /\ Inf \in Nat /\ MaxDistance < Inf
    BY BoundsAssumption, GeometryAssumption, PolicyAssumption
  <2>2. buffer \in Nat /\ buffer < Inf BY <2>1
  <2>3. \A s \in residual : s \in Nodes /\ s \in Nat BY GeometryAssumption DEF ResidualGiven
  <2>4. \A s \in Nat : s # -1 OBVIOUS
  <2> QED BY <2>1, <2>2, <2>3, <2>4 DEF NoOwner, ResidualGiven
<1>2. PICK g : /\ IsGraph(g) /\ cache.edge = g.edge
               /\ \A v, w \in Nodes : D(v, w) = Shortest(g, v, w)
  BY <1>1, CacheOfGraph
<1>3. \A v, w \in Nodes : D(v, w) \in Nat /\ D(v, v) = 0 /\ D(v, w) = D(w, v) BY CacheDistances
<1>4. \A v \in Nodes : \A s \in residual : D(s, v) <= buffer =>
        Own(v) \in residual /\ Own(v) # NoOwner /\ \A t \in residual : D(Own(v), v) <= D(t, v)
  <2> SUFFICES ASSUME NEW v \in Nodes, NEW s \in residual, D(s, v) <= buffer
               PROVE  Own(v) \in residual /\ Own(v) # NoOwner /\ \A t \in residual : D(Own(v), v) <= D(t, v)
    OBVIOUS
  <2>1. ~ (D(s, v) > buffer)
    <3>1. D(s, v) \in Nat BY <1>1, <1>3
    <3> QED BY <1>1, <3>1
  <2> QED BY <1>1, <2>1, OwnerIs
<1>5. \A s \in residual : /\ Own(s) \in residual
                          /\ <<s, Own(s)>> \in U /\ <<Own(s), s>> \in U
  <2> SUFFICES ASSUME NEW s \in residual
               PROVE  Own(s) \in residual /\ <<s, Own(s)>> \in U /\ <<Own(s), s>> \in U
    OBVIOUS
  <2>1. s \in Nodes /\ D(s, s) <= buffer BY <1>1, <1>3
  <2>2. Own(s) \in residual /\ Own(s) \in Nodes BY <1>1, <1>4, <2>1
  <2>3. <<s, Owner(s, buffer)>> \in FloodedUnions(buffer) BY <2>1, <2>2, FloodedUnionsAre
  <2>4. <<Owner(s, buffer), s>> \in FloodedUnions(buffer) BY <2>1, <2>2, FloodedUnionsAre
  <2> QED BY <2>2, <2>3, <2>4
<1>6. \A k \in Nat, v \in Nodes : Ways(g)[k][<<a, v>>] \in Nat
  <2> SUFFICES ASSUME NEW k \in Nat, NEW v \in Nodes PROVE Ways(g)[k][<<a, v>>] \in Nat OBVIOUS
  <2>1. Ways(g)[k] \in Tables BY <1>2, WaysType
  <2>2. Ways(g)[k][<<a, v>>] \in 0 .. Inf BY <1>1, <2>1 DEF Tables
  <2> QED BY <1>1, <2>2
<1> DEFINE Within1(k) == \A v \in Nodes : Ways(g)[k][<<a, v>>] + D(v, b) <= buffer => Own(v) \in T
           K == {k \in Nat : Within1(k)}
<1>7. Within1(0)
  <2> SUFFICES ASSUME NEW v \in Nodes, Ways(g)[0][<<a, v>>] + D(v, b) <= buffer PROVE Own(v) \in T
    OBVIOUS
  <2>1. Ways(g)[0] = NoWay BY WaysRecursion
  <2>2. Ways(g)[0][<<a, v>>] = IF a = v THEN 0 ELSE Inf BY <1>1, <2>1 DEF NoWay
  <2>3. D(v, b) \in Nat BY <1>1, <1>3
  <2>4. a = v BY <1>1, <2>2, <2>3
  <2> QED BY <1>5, <2>4
<1>8. ASSUME NEW k \in Nat, Within1(k) PROVE Within1(k + 1)
  <2> SUFFICES ASSUME NEW v \in Nodes, Ways(g)[k + 1][<<a, v>>] + D(v, b) <= buffer PROVE Own(v) \in T
    OBVIOUS
  <2>1. Ways(g)[k] \in Tables BY <1>2, WaysType
  <2>2. Ways(g)[k + 1] = Longer(g, Ways(g)[k]) BY WaysRecursion
  <2>3. \/ Ways(g)[k + 1][<<a, v>>] = Ways(g)[k][<<a, v>>]
        \/ \E m \in Adjacent(g, v) :
             /\ Weight(g, m, v) \in Nat
             /\ Ways(g)[k + 1][<<a, v>>] = Ways(g)[k][<<a, m>>] + Weight(g, m, v)
    <3>1. PICK d : d = Ways(g)[k] OBVIOUS
    <3>2. d \in Tables BY <2>1, <3>1
    <3>3. /\ \A m \in Adjacent(g, v) : Weight(g, m, v) \in Nat
          /\ \/ Longer(g, d)[<<a, v>>] = d[<<a, v>>]
             \/ \E m \in Adjacent(g, v) :
                  Longer(g, d)[<<a, v>>] = d[<<a, m>>] + Weight(g, m, v)
      BY <1>1, <1>2, <3>2, LongerIs
    <3> QED BY <2>2, <3>1, <3>3
  <2>4. CASE Ways(g)[k + 1][<<a, v>>] = Ways(g)[k][<<a, v>>] BY <1>8, <2>4
  <2>5. CASE \E m \in Adjacent(g, v) :
               /\ Weight(g, m, v) \in Nat
               /\ Ways(g)[k + 1][<<a, v>>] = Ways(g)[k][<<a, m>>] + Weight(g, m, v)
    <3>1. PICK m \in Adjacent(g, v) :
               /\ Weight(g, m, v) \in Nat
               /\ Ways(g)[k + 1][<<a, v>>] = Ways(g)[k][<<a, m>>] + Weight(g, m, v)
      BY <2>5
    <3> DEFINE w == Weight(g, m, v)
    <3>2. m \in Nodes /\ v \in Adjacent(g, m)
      <4>1. {m, v} = {v, m} OBVIOUS
      <4> QED BY <4>1 DEF Adjacent
    <3>3. Weight(cache, m, v) = w /\ w \in Nat /\ Weight(g, v, m) = w
      <4>1. {m, v} = {v, m} OBVIOUS
      <4> QED BY <1>2, <3>1, <4>1 DEF Weight
    <3>4. D(m, b) <= w + D(v, b)
      <4>1. Shortest(g, b, m) <= Shortest(g, b, v) + Weight(g, v, m) BY <1>1, <1>2, <3>2, ShortestExtends
      <4>2. D(b, m) <= D(b, v) + w BY <1>1, <1>2, <3>2, <3>3, <4>1
      <4>3. D(b, m) = D(m, b) /\ D(b, v) = D(v, b) /\ D(m, b) \in Nat /\ D(v, b) \in Nat
        BY <1>1, <1>3, <3>2
      <4> QED BY <3>3, <4>2, <4>3
    <3> HIDE DEF w, D, Own, U
    <3>5. /\ Ways(g)[k][<<a, m>>] \in Nat /\ Ways(g)[k + 1][<<a, v>>] \in Nat
          /\ D(m, b) \in Nat /\ D(v, b) \in Nat /\ D(b, v) = D(v, b)
      BY <1>1, <1>3, <1>6, <3>2
    <3>6. Ways(g)[k + 1][<<a, v>>] = Ways(g)[k][<<a, m>>] + w BY <3>1 DEF w
    <3>7. Ways(g)[k][<<a, m>>] + D(m, b) <= buffer BY <1>1, <3>3, <3>4, <3>5, <3>6
    <3>8. Own(m) \in T BY <1>8, <3>2, <3>7
    <3>9. D(a, m) <= Ways(g)[k][<<a, m>>] BY <1>1, <1>2, <3>2, ShortestIs
    <3>10. D(b, v) <= buffer BY <1>1, <3>3, <3>5, <3>6
    <3>11. D(a, m) \in Nat /\ D(b, v) \in Nat BY <1>1, <1>3, <3>2
    <3>12. D(a, m) <= buffer BY <1>1, <3>5, <3>7, <3>9, <3>11
    <3>13. /\ Own(m) \in residual /\ Own(m) # NoOwner /\ D(Own(m), m) <= D(a, m)
           /\ Own(v) \in residual /\ Own(v) # NoOwner /\ D(Own(v), v) <= D(b, v)
      BY <1>4, <3>2, <3>10, <3>12
    <3>14. D(Own(m), m) \in Nat /\ D(Own(v), v) \in Nat /\ Own(m) \in Nodes /\ Own(v) \in Nodes
      BY <1>1, <1>3, <3>2, <3>13
    <3>15. D(Own(m), m) + w + D(Own(v), v) <= buffer
      BY <1>1, <3>3, <3>5, <3>6, <3>9, <3>11, <3>13, <3>14
    <3>16. Between(m, v, buffer) <= buffer BY <3>3, <3>15 DEF Between, D, Own
    <3>17. <<Owner(m, buffer), Owner(v, buffer)>> \in FloodedUnions(buffer)
      BY <3>2, <3>13, <3>14, <3>16, FloodedUnionsAre DEF Own
    <3> QED BY <3>8, <3>13, <3>17 DEF Own
  <2> QED BY <2>3, <2>4, <2>5
<1>9. Nat \subseteq K
  <2>1. 0 \in K /\ \A k \in Nat : k \in K => k + 1 \in K BY <1>7, <1>8
  <2> HIDE DEF K
  <2> QED BY <2>1, SetInduction
<1>10. PICK k \in Nat : Shortest(g, a, b) = Ways(g)[k][<<a, b>>] BY <1>1, <1>2, ShortestIs
<1>11. Own(b) \in T
  <2>1. Ways(g)[k][<<a, b>>] = D(a, b) BY <1>1, <1>2, <1>10
  <2>2. D(b, b) = 0 /\ D(a, b) \in Nat BY <1>1, <1>3
  <2>3. Ways(g)[k][<<a, b>>] + D(b, b) <= buffer BY <2>1, <2>2
  <2>4. Within1(k) BY <1>9
  <2> QED BY <1>1, <2>3, <2>4
<1> QED BY <1>5, <1>11

\* What is united is united in both directions.
LEMMA FloodDivides ==
    ASSUME CacheGiven, ResidualGiven, NEW buffer \in 0 .. MaxDistance
    PROVE  Divides(FloodedComponents(buffer), residual)
<1> DEFINE R == FloodedUnions(buffer)
<1>1. ASSUME NEW x \in residual, NEW y \in residual, <<x, y>> \in R PROVE <<y, x>> \in R
  <2>1. x \in Nodes /\ y \in Nodes /\ residual # {} /\ Nodes # {} BY DEF ResidualGiven
  <2>2. CASE \E u, v \in Nodes : /\ x = Owner(u, buffer) /\ y = Owner(v, buffer)
                                 /\ x # NoOwner /\ y # NoOwner
                                 /\ Between(u, v, buffer) <= buffer
    <3>1. PICK u \in Nodes, v \in Nodes : /\ x = Owner(u, buffer) /\ y = Owner(v, buffer)
                                          /\ x # NoOwner /\ y # NoOwner
                                          /\ Between(u, v, buffer) <= buffer
      BY <2>2
    <3>2. Weight(cache, u, v) \in Nat /\ Weight(cache, u, v) = Weight(cache, v, u)
      BY <2>1, WeightSymmetric
    <3>3. cache.dist[<<x, u>>] \in Nat /\ cache.dist[<<y, v>>] \in Nat BY <2>1, CacheDistances
    <3>4. Between(u, v, buffer) = Between(v, u, buffer)
      <4>1. PICK p \in Nat : p = cache.dist[<<x, u>>] BY <3>3
      <4>2. PICK q \in Nat : q = cache.dist[<<y, v>>] BY <3>3
      <4>3. PICK w \in Nat : w = Weight(cache, u, v) BY <3>2
      <4>4. Between(u, v, buffer) = p + w + q BY <3>1, <4>1, <4>2, <4>3 DEF Between
      <4>5. Between(v, u, buffer) = q + w + p BY <3>1, <3>2, <4>1, <4>2, <4>3 DEF Between
      <4>6. p + w + q = q + w + p BY ONLY p \in Nat, w \in Nat, q \in Nat
      <4> QED BY <4>4, <4>5, <4>6
    <3>5. y = Owner(v, buffer) /\ x = Owner(u, buffer) /\ Between(v, u, buffer) <= buffer BY <3>1, <3>4
    <3> QED BY <2>1, <3>1, <3>5, FloodedUnionsAre
  <2>3. CASE x \in residual /\ y = Owner(x, buffer) BY <2>1, <2>3, FloodedUnionsAre
  <2>4. CASE y \in residual /\ x = Owner(y, buffer) BY <2>1, <2>4, FloodedUnionsAre
  <2> QED BY <1>1, <2>1, <2>2, <2>3, <2>4, FloodedUnionsAre
<1> HIDE DEF R
<1>2. Divides(Reached(residual, R), residual) BY <1>1, ReachDivides
<1> QED BY <1>2 DEF FloodedComponents, Reached, R

-----------------------------------------------------------------------------
(* The components of a level.                                              *)

\* The members of S are farther than the buffer from the other detectors left.
Lonely(S, buffer) == \A a \in S, b \in residual \ S : cache.dist[<<a, b>>] > buffer

\* Lists of detectors left, none in two of them and none twice in one.
Listing(listed) ==
  /\ listed \in Seq(Seq(residual))
  /\ \A i \in DOMAIN listed : IsInjective(listed[i])
  /\ \A i, j \in DOMAIN listed : i # j => ToSet(listed[i]) \cap ToSet(listed[j]) = {}

\* The parts of a division one by one are such lists.
LEMMA ByMarkLists ==
    ASSUME residual \in SUBSET Nat, IsFiniteSet(residual),
           NEW division, Divides(division, residual), NEW mark, \A S \in division : mark[S] \in S
    PROVE  /\ Listing(ByMark(division, mark))
           /\ \A i \in DOMAIN ByMark(division, mark) : ToSet(ByMark(division, mark)[i]) \in division
<1> DEFINE parts == Ranked(division, mark)
           listed == ByMark(division, mark)
<1>1. IsFiniteSet(division)
  <2>1. division \subseteq SUBSET residual BY DEF Divides
  <2>2. IsFiniteSet(SUBSET residual) BY FS_SUBSET
  <2> QED BY <2>1, <2>2, FS_Subset
<1>2. \A S \in division : mark[S] \in Int
  <2>1. \A S \in division : mark[S] \in residual BY DEF Divides
  <2>2. \A x \in residual : x \in Int OBVIOUS
  <2> QED BY <2>1, <2>2
<1>3. \A S, R \in division : mark[S] = mark[R] => S = R BY DEF Divides
<1>4. Lists(parts, division) BY <1>1, <1>2, <1>3, RankedLists
<1> HIDE DEF parts
<1>5. parts \in Seq(division) /\ IsInjective(parts) /\ parts \in [1 .. Len(parts) -> division]
        /\ DOMAIN parts = 1 .. Len(parts) /\ Len(parts) \in Nat
  BY <1>4 DEF Lists
<1>6. listed = [i \in DOMAIN parts |-> Sorted(parts[i])] BY DEF ByMark, parts
<1>7. \A S \in division : Lists(Sorted(S), S)
  <2> SUFFICES ASSUME NEW S \in division PROVE Lists(Sorted(S), S) OBVIOUS
  <2>1. S \subseteq residual BY DEF Divides
  <2>2. S \in SUBSET Nat /\ IsFiniteSet(S) BY <2>1, FS_Subset
  <2> QED BY <2>2, SortedLists
<1>8. \A i \in DOMAIN parts : parts[i] \in division /\ Lists(listed[i], parts[i]) BY <1>5, <1>6, <1>7
<1>9. listed \in Seq(Seq(residual)) /\ DOMAIN listed = DOMAIN parts
  <2>1. \A i \in DOMAIN parts : listed[i] \in Seq(residual)
    <3> SUFFICES ASSUME NEW i \in DOMAIN parts PROVE listed[i] \in Seq(residual) OBVIOUS
    <3>1. listed[i] \in Seq(parts[i]) /\ parts[i] \subseteq residual BY <1>8 DEF Lists, Divides
    <3> QED BY <3>1
  <2>2. listed \in [1 .. Len(parts) -> Seq(residual)] BY <1>5, <1>6, <2>1
  <2> QED BY <1>5, <1>6, <2>2
<1> HIDE DEF listed
<1>10. \A i, j \in DOMAIN parts : i # j => parts[i] # parts[j] BY <1>5 DEF IsInjective
<1> QED BY <1>8, <1>9, <1>10 DEF Listing, Lists, Divides, listed

\* A threshold component is farther than the buffer from the other detectors.
LEMMA ThresholdLonely ==
    ASSUME CacheGiven, ResidualGiven, NEW buffer \in Nat,
           NEW S \in ThresholdComponents(cache.dist, residual, buffer)
    PROVE  Lonely(S, buffer)
<1> SUFFICES ASSUME NEW a \in S, NEW b \in residual, b \notin S,
                    ~ (cache.dist[<<a, b>>] > buffer)
             PROVE  FALSE
  BY DEF Lonely
<1> DEFINE R == Links(cache.dist, residual, buffer)
<1>1. PICK s \in residual : S = ReachFrom(s, residual, R) BY DEF ThresholdComponents
<1>2. a \in residual /\ a \in Nodes /\ b \in Nodes BY <1>1 DEF ReachFrom, ResidualGiven
<1>3. cache.dist[<<a, b>>] \in Nat /\ cache.dist[<<a, b>>] = cache.dist[<<b, a>>] BY <1>2, CacheDistances
<1>4. Apart(cache.dist, a, b) <= buffer BY <1>3 DEF Apart
<1>5. <<a, b>> \in R BY <1>2, <1>4 DEF Links
<1>6. b \in ReachFrom(s, residual, R)
  <2> HIDE DEF R
  <2> SUFFICES ASSUME NEW T \in SUBSET residual, s \in T,
                      \A x \in T, y \in residual : <<x, y>> \in R => y \in T
               PROVE  b \in T
    BY DEF ReachFrom
  <2>1. a \in T BY <1>1 DEF ReachFrom
  <2> QED BY <1>5, <2>1
<1> QED BY <1>1, <1>6

\* So is what the flooding unites.
LEMMA FloodLonely ==
    ASSUME CacheGiven, ResidualGiven, NEW buffer \in 0 .. MaxDistance,
           NEW S \in FloodedComponents(buffer)
    PROVE  Lonely(S, buffer)
<1> SUFFICES ASSUME NEW a \in S, NEW b \in residual, b \notin S,
                    ~ (cache.dist[<<a, b>>] > buffer)
             PROVE  FALSE
  BY DEF Lonely
<1> DEFINE R == FloodedUnions(buffer)
<1>1. PICK s \in residual : S = ReachFrom(s, residual, R) BY DEF FloodedComponents
<1>2. a \in residual /\ a \in Nodes /\ b \in Nodes BY <1>1 DEF ReachFrom, ResidualGiven
<1>3. cache.dist[<<a, b>>] \in Nat BY <1>2, CacheDistances
<1>4. buffer \in Nat BY PolicyAssumption
<1>5. b \in ReachFrom(a, residual, R) BY <1>2, <1>3, <1>4, FloodJoins
<1> HIDE DEF R
<1>6. ReachFrom(a, residual, R) \subseteq ReachFrom(s, residual, R) BY <1>1, ReachOn
<1> QED BY <1>1, <1>5, <1>6

\* All of S is in one component of the graph.
Together(S) == \A a, b \in S : cache.dist[<<a, b>>] < Inf

LEMMA TogetherAround ==
    ASSUME CacheGiven, NEW s \in Nodes, NEW S \in SUBSET Nodes, \A x \in S : cache.dist[<<s, x>>] < Inf
    PROVE  Together(S)
<1> SUFFICES ASSUME NEW a \in S, NEW b \in S PROVE cache.dist[<<a, b>>] < Inf BY DEF Together
<1>1. cache.dist[<<s, a>>] < Inf /\ cache.dist[<<s, b>>] < Inf /\ cache.dist[<<a, s>>] = cache.dist[<<s, a>>]
  BY CacheDistances
<1>2. Metric(cache.dist) BY CacheIs
<1> QED BY <1>1, <1>2, ConnectedOn

\* A threshold component is, if the buffer is less than what means "unreachable".
LEMMA ThresholdTogether ==
    ASSUME CacheGiven, ResidualGiven, NEW buffer \in 0 .. MaxDistance,
           NEW S \in ThresholdComponents(cache.dist, residual, buffer)
    PROVE  Together(S)
<1>1. PICK s \in residual : S = ReachFrom(s, residual, Links(cache.dist, residual, buffer))
  BY DEF ThresholdComponents
<1> DEFINE T == {x \in residual : cache.dist[<<s, x>>] < Inf}
           R == Links(cache.dist, residual, buffer)
<1>2. s \in T /\ T \in SUBSET residual
  <2>1. cache.dist[<<s, s>>] = 0 /\ 0 < Inf BY CacheDistances, CacheIs DEF ResidualGiven
  <2> QED BY <2>1
<1>3. ASSUME NEW x \in T, NEW y \in residual, <<x, y>> \in R PROVE y \in T
  <2>1. x \in Nodes /\ y \in Nodes /\ s \in Nodes BY DEF ResidualGiven
  <2>2. Apart(cache.dist, x, y) <= buffer BY <1>3 DEF Links
  <2>3. cache.dist[<<x, y>>] \in Nat /\ cache.dist[<<x, y>>] = cache.dist[<<y, x>>] BY <2>1, CacheDistances
  <2>4. cache.dist[<<x, y>>] <= buffer BY <2>2, <2>3 DEF Apart
  <2>5. cache.dist[<<x, y>>] < Inf BY <2>3, <2>4, BoundsAssumption, PolicyAssumption, GeometryAssumption
  <2>6. Metric(cache.dist) BY <2>1, CacheIs
  <2>7. cache.dist[<<s, y>>] < Inf BY <2>1, <2>5, <2>6, ConnectedOn
  <2> QED BY <2>7
<1> HIDE DEF R
<1>4. S \subseteq T BY <1>1, <1>2, <1>3 DEF ReachFrom, R
<1> QED BY <1>4, TogetherAround DEF ResidualGiven

\* So is what the flooding unites.
LEMMA FloodTogether ==
    ASSUME CacheGiven, ResidualGiven, NEW buffer \in 0 .. MaxDistance,
           NEW S \in FloodedComponents(buffer)
    PROVE  Together(S)
<1>1. PICK s \in residual : S = ReachFrom(s, residual, FloodedUnions(buffer))
  BY DEF FloodedComponents
<1> DEFINE T == {x \in residual : cache.dist[<<s, x>>] < Inf}
<1>2. s \in T /\ T \in SUBSET residual
  <2>1. cache.dist[<<s, s>>] = 0 /\ 0 < Inf BY CacheDistances, CacheIs DEF ResidualGiven
  <2> QED BY <2>1
<1>3. ASSUME NEW x \in T, NEW y \in residual, <<x, y>> \in FloodedUnions(buffer) PROVE y \in T
  <2>1. x \in Nodes /\ y \in Nodes /\ s \in Nodes /\ x \in residual /\ residual # {} /\ Nodes # {}
    BY DEF ResidualGiven
  <2>2. Metric(cache.dist) /\ Inf \in Nat /\ buffer \in Nat /\ buffer < Inf
    BY <2>1, CacheIs, BoundsAssumption, PolicyAssumption
  <2>3. \/ \E u, v \in Nodes : /\ x = Owner(u, buffer) /\ y = Owner(v, buffer)
                                /\ Between(u, v, buffer) <= buffer
        \/ y = Owner(x, buffer)
        \/ x = Owner(y, buffer)
    BY <1>3, <2>1, FloodedUnionsAre
  <2>4. cache.dist[<<x, y>>] < Inf
    <3>1. ASSUME NEW u \in Nodes, NEW v \in Nodes, x = Owner(u, buffer), y = Owner(v, buffer),
                 Between(u, v, buffer) <= buffer
          PROVE  cache.dist[<<x, y>>] < Inf
      <4>1. PICK i, j, w \in Nat :
              i = cache.dist[<<x, u>>] /\ j = cache.dist[<<y, v>>] /\ w = Weight(cache, u, v)
        BY <2>1, CacheDistances, WeightSymmetric
      <4>2. i + w + j <= buffer BY <3>1, <4>1 DEF Between
      <4>3. i < Inf /\ w < Inf /\ j < Inf BY <2>2, <4>2
      <4>4. {u, v} \in DOMAIN cache.edge BY <2>2, <4>1, <4>3 DEF Weight
      <4>5. cache.dist[<<u, v>>] < Inf
        <5>1. PICK g \in Graphs :
                /\ IsGraph(g) /\ Short(g) /\ cache.edge = g.edge
                /\ \A a, b \in Nodes : cache.dist[<<a, b>>] = Shortest(g, a, b)
          BY <2>1, CacheIs
        <5> QED BY <4>4, <5>1, EdgeConnects
      <4>6. cache.dist[<<v, y>>] = j BY <2>1, <4>1, CacheDistances
      <4>7. cache.dist[<<x, v>>] < Inf BY <2>1, <2>2, <4>1, <4>3, <4>5, ConnectedOn
      <4> QED BY <2>1, <2>2, <4>3, <4>6, <4>7, ConnectedOn
    <3>2. ASSUME NEW a \in residual, NEW b \in residual, b = Owner(a, buffer)
          PROVE  cache.dist[<<a, b>>] < Inf /\ cache.dist[<<b, a>>] < Inf
      <4>1. a \in Nodes /\ b \in Nodes BY <2>1 DEF ResidualGiven
      <4>2. b # NoOwner
        <5>1. b \in Nat BY <4>1, GeometryAssumption
        <5> QED BY <5>1 DEF NoOwner
      <4>3. cache.dist[<<b, a>>] <= cache.dist[<<a, a>>]
        <5>1. \/ Owner(a, buffer) = NoOwner
              \/ \A t \in residual : cache.dist[<<Owner(a, buffer), a>>] <= cache.dist[<<t, a>>]
          BY <2>2, <4>1, OwnerIs
        <5> QED BY <3>2, <4>2, <5>1
      <4>4. cache.dist[<<a, a>>] = 0 /\ cache.dist[<<a, b>>] = cache.dist[<<b, a>>]
              /\ cache.dist[<<a, b>>] \in Nat /\ 0 < Inf
        BY <4>1, CacheDistances, CacheIs
      <4> QED BY <2>2, <4>3, <4>4
    <3>3. CASE y = Owner(x, buffer) BY <1>3, <2>1, <3>2, <3>3
    <3>4. CASE x = Owner(y, buffer) BY <1>3, <2>1, <3>2, <3>4
    <3> QED BY <2>3, <3>1, <3>3, <3>4
  <2>5. cache.dist[<<s, y>>] < Inf BY <2>1, <2>2, <2>4, ConnectedOn
  <2> QED BY <2>5
<1>4. S \subseteq T BY <1>1, <1>2, <1>3 DEF ReachFrom
<1> QED BY <1>4, TogetherAround DEF ResidualGiven

\* The walk from a detector: what is on the stack and what is out are different detectors, all
\* of them seen, and the neighbours of what is out are seen; all was reached from the detector.
Beside(a) == RadiusRow(a) \cap residual

Closed(T) == \A x \in T : Beside(x) \subseteq T

Walked(walk, start, seen, k) ==
  \E waiting, out \in SUBSET residual :
    /\ Lists(walk.stack, waiting) /\ Lists(walk.out, out) /\ waiting \cap out = {}
    /\ walk.seen = seen \cup waiting \cup out
    /\ (waiting \cup out) \cap seen = {}
    /\ \A x \in out : Beside(x) \subseteq walk.seen
    /\ walk.stack = <<>> \/ Len(walk.out) = k
    /\ \A T \in SUBSET residual : start \in T /\ Closed(T) => waiting \cup out \subseteq T

\* A visit keeps that.
LEMMA VisitWalks ==
    ASSUME residual \in SUBSET Nat, IsFiniteSet(residual),
           NEW walk, NEW start, NEW seen, NEW k \in Nat, Walked(walk, start, seen, k)
    PROVE  Walked(Visit(walk), start, seen, k + 1)
<1>1. PICK waiting \in SUBSET residual, out \in SUBSET residual :
        /\ Lists(walk.stack, waiting) /\ Lists(walk.out, out) /\ waiting \cap out = {}
        /\ walk.seen = seen \cup waiting \cup out
        /\ (waiting \cup out) \cap seen = {}
        /\ \A x \in out : Beside(x) \subseteq walk.seen
        /\ walk.stack = <<>> \/ Len(walk.out) = k
        /\ \A T \in SUBSET residual : start \in T /\ Closed(T) => waiting \cup out \subseteq T
  BY DEF Walked
<1>2. CASE walk.stack = <<>>
  <2>1. Visit(walk) = walk BY <1>2 DEF Visit
  <2> QED BY <1>1, <1>2, <2>1 DEF Walked
<1>3. CASE walk.stack # <<>>
  <2> DEFINE a == Last(walk.stack)
             next == Beside(a) \ walk.seen
             w == Visit(walk)
  <2>1. /\ w.stack = Front(walk.stack) \o Sorted(next)
        /\ w.seen = walk.seen \cup next
        /\ w.out = Append(walk.out, a)
    BY <1>3 DEF Visit, Beside
  <2>2. a \in waiting /\ Lists(Front(walk.stack), waiting \ {a}) BY <1>1, <1>3, ListsFront
  <2>3. next \subseteq residual BY DEF Beside
  <2> HIDE DEF next, w, a
  <2>4. Lists(Sorted(next), next)
    <3>1. next \in SUBSET Nat /\ IsFiniteSet(next) BY <2>3, FS_Subset
    <3> QED BY <3>1, SortedLists
  <2>5. next \cap walk.seen = {} /\ Beside(a) \subseteq walk.seen \cup next BY DEF next
  <2>6. Lists(w.stack, (waiting \ {a}) \cup next)
    <3>1. (waiting \ {a}) \cap next = {} BY <1>1, <2>5
    <3> QED BY <2>1, <2>2, <2>4, <3>1, ListsConcat
  <2>7. Lists(w.out, out \cup {a})
    <3>1. a \notin out BY <1>1, <2>2
    <3> QED BY <1>1, <2>1, <3>1, ListsAppend
  <2>8. Len(w.out) = k + 1
    <3>1. Len(walk.out) = k BY <1>1, <1>3
    <3>2. walk.out \in Seq(out) BY <1>1 DEF Lists
    <3> QED BY <2>1, <3>1, <3>2
  <2>9. ((waiting \ {a}) \cup next) \cap (out \cup {a}) = {} BY <1>1, <2>2, <2>5
  <2>10. w.seen = seen \cup ((waiting \ {a}) \cup next) \cup (out \cup {a}) BY <1>1, <2>1, <2>2
  <2>11. (((waiting \ {a}) \cup next) \cup (out \cup {a})) \cap seen = {} BY <1>1, <2>2, <2>5
  <2>12. \A x \in out \cup {a} : Beside(x) \subseteq w.seen BY <1>1, <2>1, <2>5
  <2>13. (waiting \ {a}) \cup next \in SUBSET residual /\ out \cup {a} \in SUBSET residual
    BY <1>1, <2>2, <2>3
  <2>14. \A T \in SUBSET residual :
           start \in T /\ Closed(T) => ((waiting \ {a}) \cup next) \cup (out \cup {a}) \subseteq T
    <3> SUFFICES ASSUME NEW T \in SUBSET residual, start \in T, Closed(T)
                 PROVE  ((waiting \ {a}) \cup next) \cup (out \cup {a}) \subseteq T
      OBVIOUS
    <3>1. waiting \cup out \subseteq T BY <1>1
    <3>2. next \subseteq T BY <2>2, <3>1 DEF Closed, next
    <3> QED BY <2>2, <3>1, <3>2
  <2>15. Walked(w, start, seen, k + 1)
    BY <2>6, <2>7, <2>8, <2>9, <2>10, <2>11, <2>12, <2>13, <2>14 DEF Walked
  <2> QED BY <2>15 DEF w
<1> QED BY <1>2, <1>3

\* A walk ends with a set of detectors whose neighbours are in it or were seen before.
LEMMA VisitedIs ==
    ASSUME residual \in SUBSET Nat, IsFiniteSet(residual),
           NEW start \in residual, NEW seen \in SUBSET residual, start \notin seen
    PROVE  \E out \in SUBSET residual :
             /\ Lists(Visited(start, seen), out) /\ out \cap seen = {}
             /\ \A x \in out : Beside(x) \subseteq seen \cup out
             /\ \A T \in SUBSET residual : start \in T /\ Closed(T) => out \subseteq T
<1> DEFINE n == Cardinality(residual)
           first == [stack |-> <<start>>, seen |-> seen \cup {start}, out |-> <<>>]
           Def(w, k) == Visit(w)
           walk == CHOOSE f : f = [k \in 0 .. n |-> IF k = 0 THEN first ELSE Visit(f[k - 1])]
<1>1. n \in Nat BY FS_CardinalityType
<1>2. walk[0] = first /\ \A k \in 0 .. n - 1 : walk[k + 1] = Visit(walk[k])
  <2>1. FiniteNatInductiveDefHypothesis(walk, first, Def, 0, n)
    BY DEF FiniteNatInductiveDefHypothesis
  <2> HIDE DEF Def, walk, first, n
  <2>2. FiniteNatInductiveDefConclusion(walk, first, Def, 0, n)
    BY <1>1, <2>1, FiniteNatInductiveDef
  <2>3. walk[0] = first /\ \A k \in 1 .. n : walk[k] = Def(walk[k - 1], k)
    BY <1>1, <2>2 DEF FiniteNatInductiveDefConclusion
  <2>4. \A k \in 0 .. n - 1 : k + 1 \in 1 .. n /\ (k + 1) - 1 = k BY <1>1
  <2>5. \A k \in 0 .. n - 1 : walk[k + 1] = Def(walk[k], k + 1) BY <2>3, <2>4
  <2> QED BY <2>3, <2>5 DEF Def
<1>3. Visited(start, seen) = walk[n].out BY DEF Visited
<1> DEFINE S == {k \in 0 .. n : Walked(walk[k], start, seen, k)}
<1>4. 0 \in S
  <2>1. first.stack = <<start>> /\ first.out = <<>> /\ first.seen = seen \cup {start} OBVIOUS
  <2>2. Lists(<<start>>, {start}) /\ Lists(<<>>, {}) BY ListsOne
  <2>3. {start} \in SUBSET residual /\ {} \in SUBSET residual OBVIOUS
  <2>4. {start} \cap {} = {} /\ seen \cup {start} = seen \cup {start} \cup {}
          /\ ({start} \cup {}) \cap seen = {} /\ Len(<<>>) = 0
    OBVIOUS
  <2> HIDE DEF first, walk
  <2>5. \A T \in SUBSET residual : start \in T /\ Closed(T) => {start} \cup {} \subseteq T OBVIOUS
  <2>6. Walked(first, start, seen, 0) BY <2>1, <2>2, <2>3, <2>4, <2>5 DEF Walked
  <2> QED BY <1>1, <1>2, <2>6
<1> HIDE DEF n, walk, first
<1>5. \A k \in 0 .. n - 1 : k \in S => k + 1 \in S
  <2> SUFFICES ASSUME NEW k \in 0 .. n - 1, k \in S PROVE k + 1 \in S OBVIOUS
  <2>1. k \in Nat /\ k + 1 \in 0 .. n BY <1>1
  <2>2. Walked(walk[k], start, seen, k) OBVIOUS
  <2>3. Walked(Visit(walk[k]), start, seen, k + 1) BY <2>1, <2>2, VisitWalks
  <2> QED BY <1>2, <2>1, <2>3
<1>6. Walked(walk[n], start, seen, n)
  <2> HIDE DEF S
  <2>1. n \in S BY <1>1, <1>4, <1>5, Upwards
  <2> QED BY <2>1 DEF S
<1>7. PICK waiting \in SUBSET residual, out \in SUBSET residual :
        /\ Lists(walk[n].stack, waiting) /\ Lists(walk[n].out, out) /\ waiting \cap out = {}
        /\ walk[n].seen = seen \cup waiting \cup out
        /\ (waiting \cup out) \cap seen = {}
        /\ \A x \in out : Beside(x) \subseteq walk[n].seen
        /\ walk[n].stack = <<>> \/ Len(walk[n].out) = n
        /\ \A T \in SUBSET residual : start \in T /\ Closed(T) => waiting \cup out \subseteq T
  BY <1>6 DEF Walked
<1>8. waiting = {}
  <2>1. CASE walk[n].stack = <<>> BY <1>7, <2>1 DEF Lists, ToSet
  <2>2. CASE Len(walk[n].out) = n
    <3>1. Cardinality(out) = Cardinality(residual) /\ IsFiniteSet(out) BY <1>7, <2>2, ListsLength DEF n
    <3>2. out = residual BY <3>1, FS_Subset
    <3> QED BY <1>7, <3>2
  <2> QED BY <1>7, <2>1, <2>2
<1> QED BY <1>3, <1>7, <1>8

\* Every component found is a list of its own; of a member and a detector of no or another
\* component, one is not in the other's list of neighbours.
Strange(S) == \A a \in S, b \in residual \ S : b \notin Beside(a) \/ a \notin Beside(b)

\* All of a component was reached from one detector.
Coherent(S) ==
  \E start \in residual :
    \A T \in SUBSET residual : start \in T /\ Closed(T) => S \subseteq T

Gathered(found) ==
  /\ found.seen \in SUBSET residual
  /\ Listing(found.comps)
  /\ \A i \in DOMAIN found.comps : ToSet(found.comps[i]) \subseteq found.seen
                                   /\ Strange(ToSet(found.comps[i])) /\ Coherent(ToSet(found.comps[i]))
  /\ \A x \in found.seen : Beside(x) \subseteq found.seen

\* One more component keeps that.
LEMMA CollectGathers ==
    ASSUME residual \in SUBSET Nat, IsFiniteSet(residual),
           NEW found, Gathered(found), NEW a \in residual
    PROVE  Gathered(Collect(found, a))
<1>1. CASE a \in found.seen BY <1>1 DEF Collect
<1>2. CASE a \notin found.seen
  <2> DEFINE seen == found.seen
             comps == found.comps
             component == Visited(a, seen)
             now == Collect(found, a)
  <2>1. now.seen = seen \cup ToSet(component) /\ now.comps = Append(comps, component)
    BY <1>2 DEF Collect
  <2>2. seen \in SUBSET residual BY DEF Gathered
  <2>5. /\ Listing(comps)
        /\ \A i \in DOMAIN comps : ToSet(comps[i]) \subseteq seen /\ Strange(ToSet(comps[i]))
                                     /\ Coherent(ToSet(comps[i]))
        /\ \A x \in seen : Beside(x) \subseteq seen
    BY DEF Gathered
  <2> HIDE DEF seen, comps, now
  <2>3. PICK out \in SUBSET residual :
          /\ Lists(component, out) /\ out \cap seen = {}
          /\ \A x \in out : Beside(x) \subseteq seen \cup out
          /\ \A T \in SUBSET residual : a \in T /\ Closed(T) => out \subseteq T
    <3>1. a \notin seen BY <1>2 DEF seen
    <3> QED BY <2>2, <3>1, VisitedIs
  <2> HIDE DEF component
  <2>4. component \in Seq(residual) /\ ToSet(component) = out /\ IsInjective(component)
    <3>1. component \in Seq(out) /\ ToSet(component) = out /\ IsInjective(component)
      BY <2>3 DEF Lists
    <3>2. component \in Seq(residual)
      <4>1. PICK c : c = component OBVIOUS
      <4>2. c \in Seq(out) /\ out \subseteq residual BY <3>1, <4>1
      <4>3. c \in Seq(residual) BY ONLY <4>2
      <4> QED BY <4>1, <4>3
    <3> QED BY <3>1, <3>2
  <2>6. /\ comps \in Seq(Seq(residual))
        /\ \A i \in DOMAIN comps : IsInjective(comps[i])
        /\ \A i, j \in DOMAIN comps : i # j => ToSet(comps[i]) \cap ToSet(comps[j]) = {}
    BY <2>5 DEF Listing
  <2> DEFINE n == Len(comps)
             more == Append(comps, component)
  <2>7. n \in Nat /\ DOMAIN comps = 1 .. n /\ more \in Seq(Seq(residual)) /\ DOMAIN more = 1 .. n + 1
          /\ more[n + 1] = component /\ \A i \in 1 .. n : more[i] = comps[i]
    BY <2>4, <2>6
  <2>8. \A i \in 1 .. n + 1 : i \in 1 .. n \/ i = n + 1 BY <2>7
  <2> HIDE DEF n, more
  <2>9. \A i \in DOMAIN more : IsInjective(more[i]) BY <2>4, <2>6, <2>7, <2>8
  <2>10. \A i, j \in DOMAIN more : i # j => ToSet(more[i]) \cap ToSet(more[j]) = {}
    <3> SUFFICES ASSUME NEW i \in DOMAIN more, NEW j \in DOMAIN more, i # j
                 PROVE  ToSet(more[i]) \cap ToSet(more[j]) = {}
      OBVIOUS
    <3>1. CASE i \in 1 .. n /\ j \in 1 .. n BY <2>6, <2>7, <3>1
    <3>2. CASE i \in 1 .. n /\ j = n + 1 BY <2>3, <2>4, <2>5, <2>7, <3>2
    <3>3. CASE i = n + 1 /\ j \in 1 .. n BY <2>3, <2>4, <2>5, <2>7, <3>3
    <3> QED BY <2>7, <2>8, <3>1, <3>2, <3>3
  <2>11. Listing(more) BY <2>7, <2>9, <2>10 DEF Listing
  <2>12. Strange(out) /\ Coherent(out)
    <3>1. Strange(out) BY <2>3, <2>5 DEF Strange
    <3>2. Coherent(out) BY <2>3 DEF Coherent
    <3> QED BY <3>1, <3>2
  <2>13. \A i \in DOMAIN more : ToSet(more[i]) \subseteq seen \cup out /\ Strange(ToSet(more[i]))
                                /\ Coherent(ToSet(more[i]))
    BY <2>4, <2>5, <2>7, <2>8, <2>12
  <2>14. \A x \in seen \cup out : Beside(x) \subseteq seen \cup out BY <2>3, <2>5
  <2>15. now.seen = seen \cup out /\ now.comps = more BY <2>1, <2>4 DEF more
  <2>16. seen \cup out \in SUBSET residual BY <2>2
  <2>17. Gathered(now) BY <2>11, <2>13, <2>14, <2>15, <2>16 DEF Gathered
  <2> QED BY <2>17 DEF now
<1> QED BY <1>1, <1>2

\* So it is of the components of the level.
LEMMA ListedGathers ==
    ASSUME residual \in SUBSET Nat, IsFiniteSet(residual)
    PROVE  /\ Listing(ListedComponents)
           /\ \A i \in DOMAIN ListedComponents : /\ Strange(ToSet(ListedComponents[i]))
                                                  /\ Coherent(ToSet(ListedComponents[i]))
<1> DEFINE n == Cardinality(residual)
           first == [seen |-> {}, comps |-> <<>>]
           Def(f, k) == Collect(f, Sorted(residual)[k])
           found == CHOOSE f : f = [k \in 0 .. n |-> IF k = 0 THEN first
                                                     ELSE Collect(f[k - 1], Sorted(residual)[k])]
<1>1. n \in Nat BY FS_CardinalityType
<1>2. found[0] = first /\ \A k \in 0 .. n - 1 : found[k + 1] = Collect(found[k], Sorted(residual)[k + 1])
  <2>1. FiniteNatInductiveDefHypothesis(found, first, Def, 0, n)
    BY DEF FiniteNatInductiveDefHypothesis
  <2> HIDE DEF Def, found, first, n
  <2>2. FiniteNatInductiveDefConclusion(found, first, Def, 0, n)
    BY <1>1, <2>1, FiniteNatInductiveDef
  <2>3. found[0] = first /\ \A k \in 1 .. n : found[k] = Def(found[k - 1], k)
    BY <1>1, <2>2 DEF FiniteNatInductiveDefConclusion
  <2>4. \A k \in 0 .. n - 1 : k + 1 \in 1 .. n /\ (k + 1) - 1 = k BY <1>1
  <2>5. \A k \in 0 .. n - 1 : found[k + 1] = Def(found[k], k + 1) BY <2>3, <2>4
  <2> QED BY <2>3, <2>5 DEF Def
<1>3. ListedComponents = found[n].comps BY DEF ListedComponents
<1> DEFINE S == {k \in 0 .. n : Gathered(found[k])}
<1>4. 0 \in S
  <2>1. first.seen = {} /\ first.comps = <<>> /\ <<>> \in Seq(Seq(residual)) /\ DOMAIN <<>> = {}
    OBVIOUS
  <2> HIDE DEF first
  <2>2. Gathered(first) BY <2>1 DEF Gathered, Listing
  <2> HIDE DEF found, n
  <2> QED BY <1>1, <1>2, <2>2
<1>5. Lists(Sorted(residual), residual) /\ Len(Sorted(residual)) = n BY SortedLists
<1> HIDE DEF n, found, first
<1>6. \A k \in 0 .. n - 1 : k \in S => k + 1 \in S
  <2> SUFFICES ASSUME NEW k \in 0 .. n - 1, k \in S PROVE k + 1 \in S OBVIOUS
  <2>1. k + 1 \in 1 .. n /\ k + 1 \in 0 .. n BY <1>1
  <2>2. Sorted(residual)[k + 1] \in residual BY <1>5, <2>1 DEF Lists
  <2>3. Gathered(found[k]) OBVIOUS
  <2>4. Gathered(Collect(found[k], Sorted(residual)[k + 1])) BY <2>2, <2>3, CollectGathers
  <2> QED BY <1>2, <2>1, <2>4
<1>7. Gathered(found[n])
  <2> HIDE DEF S
  <2>1. n \in S BY <1>1, <1>4, <1>6, Upwards
  <2> QED BY <2>1 DEF S
<1> QED BY <1>3, <1>7 DEF Gathered

\* A detector not listed by another is farther than the buffer from it.
LEMMA StrangeLonely ==
    ASSUME CacheGiven, LevelGiven, ResidualGiven, NEW S \in SUBSET residual, Strange(S)
    PROVE  Lonely(S, BufferOf(level))
<1> SUFFICES ASSUME NEW a \in S, NEW b \in residual \ S
             PROVE  cache.dist[<<a, b>>] > BufferOf(level)
  BY DEF Lonely
<1> DEFINE d == cache.dist[<<a, b>>]
           buffer == BufferOf(level)
<1>1. a \in Nodes /\ b \in Nodes /\ a # b /\ a \in residual /\ b \in residual BY DEF ResidualGiven
<1>2. d \in Nat /\ cache.dist[<<b, a>>] = d BY <1>1, CacheDistances
<1>3. /\ level \in 1 .. MaxLevel /\ level \in 1 .. level /\ buffer \in Nat /\ buffer < Inf /\ Inf \in Nat
  <2>1. MaxDistance \in Nat /\ Inf \in Nat /\ MaxDistance < Inf
    BY BoundsAssumption, GeometryAssumption, PolicyAssumption
  <2>2. buffer \in 0 .. MaxDistance /\ level \in 1 .. MaxLevel /\ MaxLevel \in Nat BY DEF LevelGiven
  <2> QED BY <2>1, <2>2
<1>4. b \notin RadiusRow(a) \/ a \notin RadiusRow(b) BY <1>1 DEF Strange, Beside
<1>5. ~ (d <= buffer)
  <2> SUFFICES ASSUME d <= buffer PROVE b \in RadiusRow(a) /\ a \in RadiusRow(b) BY <1>4
  <2>1. d < Inf BY <1>2, <1>3
  <2> QED BY <1>1, <1>2, <1>3, <2>1 DEF RadiusRow, BufferOf
<1> QED BY <1>2, <1>3, <1>5

\* What is reached through lists of neighbours is in one component of the graph.
LEMMA CoherentTogether ==
    ASSUME CacheGiven, LevelGiven, ResidualGiven, NEW S \in SUBSET residual, Coherent(S)
    PROVE  Together(S)
<1>1. PICK s \in residual : \A T \in SUBSET residual : s \in T /\ Closed(T) => S \subseteq T
  BY DEF Coherent
<1> DEFINE T == {x \in residual : cache.dist[<<s, x>>] < Inf}
<1>2. s \in T
  <2>1. cache.dist[<<s, s>>] = 0 /\ 0 < Inf BY CacheDistances, CacheIs DEF ResidualGiven
  <2> QED BY <2>1
<1>3. ASSUME NEW x \in T, NEW y \in Beside(x) PROVE y \in T
  <2>1. x \in Nodes /\ y \in Nodes /\ s \in Nodes /\ y \in residual /\ y \in RadiusRow(x)
    BY DEF ResidualGiven, Beside
  <2>2. cache.dist[<<x, y>>] < Inf
    <3>1. CASE cache.allPairs BY <2>1, <3>1 DEF RadiusRow
    <3>2. CASE ~ cache.allPairs
      <4>1. cache.dist[<<x, y>>] <= BufferOf(level) BY <2>1, <3>2 DEF RadiusRow, BufferOf
      <4>2. BufferOf(level) \in 0 .. MaxDistance BY DEF LevelGiven
      <4>3. cache.dist[<<x, y>>] \in Nat BY <2>1, CacheDistances
      <4> QED BY <4>1, <4>2, <4>3, BoundsAssumption, PolicyAssumption, GeometryAssumption
    <3> QED BY <3>1, <3>2
  <2>3. Metric(cache.dist) BY <2>1, CacheIs
  <2>4. cache.dist[<<s, y>>] < Inf BY <2>1, <2>2, <2>3, ConnectedOn
  <2> QED BY <2>1, <2>4
<1>4. Closed(T) BY <1>3 DEF Closed
<1>5. S \subseteq T
  <2> HIDE DEF T
  <2>1. T \in SUBSET residual BY DEF T
  <2> QED BY <1>1, <1>2, <1>4, <2>1
<1> QED BY <1>5, TogetherAround DEF ResidualGiven

\* Whichever way they are found, the components of a level are lists without a common detector,
\* and farther than the buffer from the detectors that are not in them; unless the buffer covers
\* the graph, each is inside one of its components.
LEMMA ComponentsAre ==
    ASSUME CacheGiven, LevelGiven, ResidualGiven,
           NEW listed \in Components(BufferOf(level))
    PROVE  /\ Listing(listed)
           /\ \A i \in DOMAIN listed : Lonely(ToSet(listed[i]), BufferOf(level))
           /\ ~ CoversEach(BufferOf(level)) => \A i \in DOMAIN listed : Together(ToSet(listed[i]))
<1> DEFINE buffer == BufferOf(level)
<1>1. /\ residual \in SUBSET Nat /\ IsFiniteSet(residual)
      /\ buffer \in 0 .. MaxDistance /\ buffer \in Nat
  <2>1. residual \in SUBSET Nat /\ IsFiniteSet(residual)
    BY GeometryAssumption, FS_Subset DEF ResidualGiven
  <2>2. buffer \in 0 .. MaxDistance BY DEF LevelGiven
  <2>3. MaxDistance \in Nat BY PolicyAssumption
  <2> QED BY <2>1, <2>2, <2>3
<1>2. CASE CoversEach(buffer)
  <2>0. listed = <<Sorted(residual)>> BY <1>2 DEF Components
  <2>1. Lists(Sorted(residual), residual) BY <1>1, SortedLists
  <2>2. DOMAIN listed = {1} /\ listed[1] = Sorted(residual) BY <2>0
  <2>3. listed \in Seq(Seq(residual)) BY <2>0, <2>1 DEF Lists
  <2>4. Lonely(residual, buffer) BY DEF Lonely
  <2> QED BY <1>2, <2>1, <2>2, <2>3, <2>4 DEF Lists, Listing
<1>3. CASE listed = ListedComponents
  <2>1. /\ Listing(listed)
        /\ \A i \in DOMAIN listed : /\ Strange(ToSet(listed[i])) /\ Coherent(ToSet(listed[i]))
                                    /\ ToSet(listed[i]) \in SUBSET residual
    <3>1. Listing(ListedComponents)
            /\ \A i \in DOMAIN ListedComponents : /\ Strange(ToSet(ListedComponents[i]))
                                                   /\ Coherent(ToSet(ListedComponents[i]))
      BY <1>1, ListedGathers
    <3>2. listed \in Seq(Seq(residual)) BY <1>3, <3>1 DEF Listing
    <3>3. \A i \in DOMAIN listed : listed[i] \in Seq(residual) BY <3>2
    <3> QED BY <1>3, <3>1, <3>3 DEF ToSet
  <2> QED BY <2>1, StrangeLonely, CoherentTogether
<1>4. CASE listed = ByFirstMember(ThresholdComponents(cache.dist, residual, buffer))
  <2> DEFINE division == ThresholdComponents(cache.dist, residual, buffer)
             mark == [S \in division |-> Min(S)]
  <2>1. Divides(division, residual) BY <1>1, ThresholdDivides
  <2>2. \A S \in division : Lonely(S, buffer) /\ Together(S) BY <1>1, ThresholdLonely, ThresholdTogether
  <2>3. \A S \in division : S # {} /\ S \in SUBSET Nat
    <3>1. \A a \in residual : a \in ReachFrom(a, residual, Links(cache.dist, residual, buffer))
      BY DEF ReachFrom
    <3>2. \A S \in division : S # {} BY <3>1 DEF ThresholdComponents
    <3> QED BY <1>1, <2>1, <3>2 DEF Divides
  <2> HIDE DEF division
  <2>4. \A S \in division : mark[S] \in S BY <2>3, LeastNatural
  <2> HIDE DEF mark
  <2>5. /\ Listing(ByMark(division, mark))
        /\ \A i \in DOMAIN ByMark(division, mark) : ToSet(ByMark(division, mark)[i]) \in division
    BY <1>1, <2>1, <2>4, ByMarkLists
  <2>6. listed = ByMark(division, mark) BY <1>4 DEF ByFirstMember, division, mark
  <2> QED BY <2>2, <2>5, <2>6
<1>5. CASE listed \in ByRepresentative(FloodedComponents(buffer))
  <2> DEFINE division == FloodedComponents(buffer)
  <2>1. Divides(division, residual) BY <1>1, FloodDivides
  <2>2. \A S \in division : Lonely(S, buffer) /\ Together(S) BY <1>1, FloodLonely, FloodTogether
  <2> HIDE DEF division
  <2>3. PICK mark : /\ \A S \in division : mark[S] \in S
                    /\ listed = ByMark(division, mark)
    BY <1>5 DEF ByRepresentative, division
  <2>4. /\ Listing(ByMark(division, mark))
        /\ \A i \in DOMAIN ByMark(division, mark) : ToSet(ByMark(division, mark)[i]) \in division
    BY <1>1, <2>1, <2>3, ByMarkLists
  <2> QED BY <2>2, <2>3, <2>4
<1> QED BY <1>2, <1>3, <1>4, <1>5 DEF Components

-----------------------------------------------------------------------------
(* Accepted clusters.                                                      *)

ClusterRecords ==
  [level : Nat, members : Seq(Nodes), full : BOOLEAN, region : Seq(Nodes), parent : Nat]

\* Marking adds nodes that are not in the region yet.
LEMMA MarkLists ==
    ASSUME NEW R \in SUBSET Nodes, NEW region, Lists(region, R), NEW a \in Nodes
    PROVE  \E Q \in SUBSET Nodes : /\ Lists(Mark(region, a), Q)
                                   /\ R \subseteq Q /\ a \in Q /\ RadiusRow(a) \subseteq Q
<1> DEFINE own == IF a \in ToSet(region) THEN <<>> ELSE <<a>>
           row == RadiusRow(a) \ ToSet(region)
           half == region \o own
           whole == half \o Sorted(row)
<1>1. ToSet(region) = R BY DEF Lists
<1>2. row \in SUBSET Nat /\ IsFiniteSet(row) /\ row \subseteq Nodes /\ row \cap (R \cup {a}) = {}
  <2>1. row \subseteq Nodes /\ a \notin row /\ row \cap R = {} BY <1>1 DEF RadiusRow
  <2> HIDE DEF row
  <2> QED BY <2>1, GeometryAssumption, FS_Subset
<1> HIDE DEF row
<1>3. Lists(half, R \cup {a})
  <2>1. CASE a \in R
    <3>1. half = region \o <<>> BY <1>1, <2>1
    <3>2. Lists(<<>>, {}) /\ R \cap {} = {} BY ListsOne
    <3>3. Lists(region \o <<>>, R \cup {}) BY <3>2, ListsConcat
    <3>4. R \cup {} = R \cup {a} BY <2>1
    <3> QED BY <3>1, <3>3, <3>4
  <2>2. CASE a \notin R
    <3>1. half = region \o <<a>> BY <1>1, <2>2
    <3>2. Lists(<<a>>, {a}) /\ R \cap {a} = {} BY <2>2, ListsOne
    <3> QED BY <3>1, <3>2, ListsConcat
  <2> QED BY <2>1, <2>2
<1> HIDE DEF half
<1>4. Lists(Sorted(row), row) BY <1>2, SortedLists
<1>5. Lists(whole, R \cup {a} \cup row)
  <2>1. (R \cup {a}) \cap row = {} BY <1>2
  <2>2. Lists(half \o Sorted(row), (R \cup {a}) \cup row) BY <1>3, <1>4, <2>1, ListsConcat
  <2> QED BY <2>2
<1>6. R \cup {a} \cup row \in SUBSET Nodes BY <1>2
<1>8. PICK Q \in SUBSET Nodes : Q = R \cup {a} \cup row BY <1>6
<1>9. R \subseteq Q /\ a \in Q /\ RadiusRow(a) \subseteq Q BY <1>1, <1>8 DEF row
<1>7. Mark(region, a) = whole
  <2>1. Mark(region, a) = region \o own \o Sorted(row) BY DEF Mark, row
  <2> HIDE DEF own
  <2> QED BY <2>1 DEF half
<1> QED BY <1>5, <1>7, <1>8, <1>9

\* So a region found through radius neighbours names no node twice, and has all of them.
LEMMA ListedRegionLists ==
    ASSUME NEW members \in Seq(Nodes)
    PROVE  \E R \in SUBSET Nodes :
             /\ Lists(ListedRegion(members), R)
             /\ \A a \in ToSet(members) : a \in R /\ RadiusRow(a) \subseteq R
<1> DEFINE n == Len(members)
           Def(r, k) == Mark(r, members[k])
           marked == CHOOSE f : f = [k \in 0 .. n |-> IF k = 0 THEN <<>>
                                                      ELSE Mark(f[k - 1], members[k])]
<1>1. n \in Nat /\ DOMAIN members = 1 .. n OBVIOUS
<1>2. marked[0] = <<>> /\ \A k \in 0 .. n - 1 : marked[k + 1] = Mark(marked[k], members[k + 1])
  <2>1. FiniteNatInductiveDefHypothesis(marked, <<>>, Def, 0, n)
    BY DEF FiniteNatInductiveDefHypothesis
  <2> HIDE DEF Def, marked, n
  <2>2. FiniteNatInductiveDefConclusion(marked, <<>>, Def, 0, n)
    BY <1>1, <2>1, FiniteNatInductiveDef
  <2>3. marked[0] = <<>> /\ \A k \in 1 .. n : marked[k] = Def(marked[k - 1], k)
    BY <1>1, <2>2 DEF FiniteNatInductiveDefConclusion
  <2>4. \A k \in 0 .. n - 1 : k + 1 \in 1 .. n /\ (k + 1) - 1 = k BY <1>1
  <2>5. \A k \in 0 .. n - 1 : marked[k + 1] = Def(marked[k], k + 1) BY <2>3, <2>4
  <2> QED BY <2>3, <2>5 DEF Def
<1>3. ListedRegion(members) = marked[n] BY DEF ListedRegion
<1>4. \A k \in 1 .. n : members[k] \in Nodes BY <1>1
<1> HIDE DEF n, marked
<1> DEFINE Holds(R, k) == \A j \in 1 .. k : members[j] \in R /\ RadiusRow(members[j]) \subseteq R
           S == {k \in 0 .. n : \E R \in SUBSET Nodes : Lists(marked[k], R) /\ Holds(R, k)}
<1>5. 0 \in S
  <2>1. Lists(<<>>, {}) /\ {} \in SUBSET Nodes BY ListsOne
  <2>2. Holds({}, 0) OBVIOUS
  <2> HIDE DEF Holds
  <2> QED BY <1>1, <1>2, <2>1, <2>2
<1>6. \A k \in 0 .. n - 1 : k \in S => k + 1 \in S
  <2> SUFFICES ASSUME NEW k \in 0 .. n - 1, k \in S PROVE k + 1 \in S OBVIOUS
  <2>1. PICK R \in SUBSET Nodes : Lists(marked[k], R) /\ Holds(R, k)
    <3> HIDE DEF Holds
    <3> QED OBVIOUS
  <2>2. k + 1 \in 1 .. n /\ k + 1 \in 0 .. n BY <1>1
  <2>3. members[k + 1] \in Nodes BY <1>4, <2>2
  <2>4. PICK Q \in SUBSET Nodes :
          /\ Lists(Mark(marked[k], members[k + 1]), Q)
          /\ R \subseteq Q /\ members[k + 1] \in Q /\ RadiusRow(members[k + 1]) \subseteq Q
    <3>1. R \in SUBSET Nodes /\ Lists(marked[k], R) BY <2>1
    <3> HIDE DEF Holds
    <3> QED BY <2>3, <3>1, MarkLists
  <2>5. Holds(Q, k + 1)
    <3> SUFFICES ASSUME NEW j \in 1 .. k + 1 PROVE members[j] \in Q /\ RadiusRow(members[j]) \subseteq Q
      OBVIOUS
    <3>1. j \in 1 .. k \/ j = k + 1 OBVIOUS
    <3> QED BY <2>1, <2>4, <3>1
  <2> HIDE DEF Holds
  <2> QED BY <1>2, <2>2, <2>4, <2>5
<1> HIDE DEF S, Holds
<1>7. n \in S BY <1>1, <1>5, <1>6, Upwards
<1>8. PICK R \in SUBSET Nodes : Lists(marked[n], R) /\ Holds(R, n) BY <1>7 DEF S
<1>9. \A a \in ToSet(members) : a \in R /\ RadiusRow(a) \subseteq R
  <2>1. \A a \in ToSet(members) : \E j \in 1 .. n : a = members[j] BY <1>1 DEF ToSet
  <2> QED BY <1>8, <2>1 DEF Holds
<1> QED BY <1>3, <1>8, <1>9

\* What an accepted cluster is made of.
LEMMA AcceptedIs ==
    ASSUME LevelGiven, ResidualGiven, NEW members \in Seq(residual)
    PROVE  /\ Accepted(members) \in ClusterRecords
           /\ Accepted(members).level = level
           /\ Accepted(members).members = members
           /\ Accepted(members).full <=> CoversEach(BufferOf(level))
           /\ Accepted(members).parent = NoParent
           /\ IsInjective(Accepted(members).region)
<1> DEFINE buffer == BufferOf(level)
           full == CoversEach(buffer)
           region == IF full THEN <<>>
                     ELSE IF RadiusListed THEN ListedRegion(members)
                     ELSE Sorted(Ball(ToSet(members), buffer))
<1>1. Accepted(members) = [level |-> level, members |-> members, full |-> full,
                           region |-> region, parent |-> NoParent]
  BY DEF Accepted, Cluster, BufferOf
<1>2. members \in Seq(Nodes) BY DEF ResidualGiven
<1>3. \E R \in SUBSET Nodes : Lists(region, R)
  <2>1. CASE full
    <3>1. Lists(<<>>, {}) /\ {} \in SUBSET Nodes BY ListsOne
    <3> QED BY <2>1, <3>1
  <2>2. CASE ~ full /\ RadiusListed BY <1>2, <2>2, ListedRegionLists
  <2>3. CASE ~ full /\ ~ RadiusListed
    <3> DEFINE ball == Ball(ToSet(members), buffer)
    <3>1. ball \in SUBSET Nodes BY DEF Ball
    <3> HIDE DEF ball
    <3>2. ball \in SUBSET Nat /\ IsFiniteSet(ball) BY <3>1, GeometryAssumption, FS_Subset
    <3>3. Lists(Sorted(ball), ball) BY <3>2, SortedLists
    <3> QED BY <2>3, <3>1, <3>3 DEF ball
  <2> QED BY <2>1, <2>2, <2>3
<1>4. region \in Seq(Nodes) /\ IsInjective(region)
  <2>1. PICK R \in SUBSET Nodes : Lists(region, R) BY <1>3
  <2>2. PICK r : r = region OBVIOUS
  <2> HIDE DEF region
  <2>3. r \in Seq(R) /\ R \subseteq Nodes /\ IsInjective(r) BY <2>1, <2>2 DEF Lists
  <2>4. r \in Seq(Nodes) BY ONLY <2>3
  <2> QED BY <2>2, <2>3, <2>4
<1>5. full \in BOOLEAN BY DEF CoversEach
<1>6. level \in Nat /\ NoParent \in Nat BY DEF LevelGiven, NoParent
<1> HIDE DEF full, region
<1> QED BY <1>1, <1>2, <1>4, <1>5, <1>6 DEF ClusterRecords, full

\* What is within the buffer of a node is in its list of neighbours.
LEMMA RowHolds ==
    ASSUME CacheGiven, LevelGiven, NEW a \in Nodes, NEW v \in Nodes, v # a,
           cache.dist[<<a, v>>] <= BufferOf(level)
    PROVE  v \in RadiusRow(a)
<1>1. level \in 1 .. MaxLevel /\ level \in 1 .. level /\ BufferOf(level) \in 0 .. MaxDistance
  BY DEF LevelGiven
<1>2. cache.dist[<<a, v>>] \in Nat BY CacheDistances
<1>3. cache.dist[<<a, v>>] < Inf
  BY <1>1, <1>2, BoundsAssumption, PolicyAssumption, GeometryAssumption
<1> QED BY <1>1, <1>3 DEF RadiusRow, BufferOf

\* So the region of a cluster, if it is not all of the graph, has all that is within the buffer of
\* a member.
LEMMA AcceptedReaches ==
    ASSUME CacheGiven, LevelGiven, ResidualGiven, NEW members \in Seq(residual),
           ~ CoversEach(BufferOf(level)), NEW a \in ToSet(members), NEW v \in Nodes,
           cache.dist[<<a, v>>] <= BufferOf(level)
    PROVE  v \in ToSet(Accepted(members).region)
<1> DEFINE buffer == BufferOf(level)
           ball == Ball(ToSet(members), buffer)
<1>1. Accepted(members).region = IF RadiusListed THEN ListedRegion(members) ELSE Sorted(ball)
  BY DEF Accepted, Cluster, BufferOf
<1>2. members \in Seq(Nodes) /\ a \in Nodes
  BY DEF ResidualGiven, ToSet
<1>3. CASE RadiusListed
  <2>1. PICK R \in SUBSET Nodes : /\ Lists(ListedRegion(members), R)
                                  /\ \A b \in ToSet(members) : b \in R /\ RadiusRow(b) \subseteq R
    BY <1>2, ListedRegionLists
  <2>2. v \in R BY <1>2, <2>1, RowHolds
  <2> QED BY <1>1, <1>3, <2>1, <2>2 DEF Lists
<1>4. CASE ~ RadiusListed
  <2>1. ball \in SUBSET Nodes /\ v \in ball BY DEF Ball
  <2> HIDE DEF ball
  <2>2. ball \in SUBSET Nat /\ IsFiniteSet(ball) BY <2>1, GeometryAssumption, FS_Subset
  <2>3. Lists(Sorted(ball), ball) BY <2>2, SortedLists
  <2> QED BY <1>1, <1>4, <2>1, <2>3 DEF Lists
<1> QED BY <1>3, <1>4

-----------------------------------------------------------------------------
(* The inductive invariant.                                                *)

\* The levels of a schedule in the making.
LevelRecords == {l \in [d : Nat, b : Nat, phi : Int \X Int] :
                   l.b >= l.d + 2 /\ l.phi[1] > 0 /\ l.phi[2] > 0}

Scheduled ==
  /\ policy \in Policies
  /\ policy.kind # "given" =>
       /\ bounds \in Seq(LevelRecords)
       /\ built = "done" => bounds # <<>>
  /\ policy.kind = "given" => built = "done"
  /\ candidate \in Nat \ {0}

\* Before a shot, and from its beginning on.
Started == phase = "schedule" => level = 1 /\ residual = {} /\ syndrome = {} /\ clusters = <<>> /\ roots = {}

Prepared == phase # "schedule" => CacheGiven /\ LevelGiven /\ syndrome \subseteq Nodes

Shaped ==
  /\ phase \in {"schedule", "level", "left", "assigned", "done", "thrown"}
  /\ clusters \in Seq(ClusterRecords)
  /\ \A i \in Ids : /\ clusters[i].level > 0
                    /\ IsInjective(clusters[i].members)
                    /\ IsInjective(clusters[i].region)

Members(i) == ToSet(clusters[i].members)

\* Every detector is left over or a member of just one cluster.
Owned ==
  /\ residual \subseteq syndrome
  /\ \A i \in Ids : Members(i) \subseteq syndrome \ residual
  /\ \A i, j \in Ids : i # j => Members(i) \cap Members(j) = {}
  /\ \A a \in syndrome \ residual : \E i \in Ids : a \in Members(i)

\* Clusters come in the order of their levels, from below the level that is run; one that
\* covers the graph is the last and above all others.
Ascending ==
  /\ \A i, j \in Ids : i < j => clusters[i].level <= clusters[j].level
  /\ phase = "level" => \A i \in Ids : clusters[i].level < level
  /\ phase = "left" /\ residual # {} => \A i \in Ids : clusters[i].level <= level
  /\ phase \in {"level", "left"} =>
       \A i \in {j \in Ids : clusters[j].full} :
         residual = {} /\ \A j \in Ids \ {i} : clusters[j].level < clusters[i].level

\* Clusters of the levels, of the two above them, or just of the one while roots are to be joined.
Bounded ==
  phase # "schedule" =>
    \A i \in Ids : /\ clusters[i].level <= MaxLevel + 2
                   /\ phase \in {"level", "left", "thrown"} \/ Several => clusters[i].level <= MaxLevel + 1

\* Once parents are assigned, all but the roots have one, after and above them.
Linked ==
  IF phase \in {"assigned", "done"}
  THEN /\ residual = {}
       /\ roots \subseteq Ids
       /\ \A i \in roots : clusters[i].parent = NoParent
       /\ \A i \in Ids \ roots :
            /\ clusters[i].parent \in Ids /\ clusters[i].parent > i
            /\ clusters[clusters[i].parent].level > clusters[i].level
       /\ Ids # {} => roots # {}
       /\ phase = "done" => ~Several
  ELSE roots = {} /\ \A i \in Ids : clusters[i].parent = NoParent

IInv == /\ Scheduled /\ Started /\ Prepared /\ Shaped /\ Owned
        /\ Ascending /\ Bounded /\ Linked
        /\ AcceptedAreApart /\ RegionsNest

-----------------------------------------------------------------------------
(* A level.                                                                *)

\* Some of the lists, in their order.
Chosen(listed, stop) == [k \in DOMAIN stop |-> listed[stop[k]]]

LEMMA ChosenList ==
    ASSUME NEW listed, Listing(listed), NEW which, which \subseteq DOMAIN listed
    PROVE  /\ Listing(Chosen(listed, Sorted(which)))
           /\ \A k \in DOMAIN Chosen(listed, Sorted(which)) :
                \E i \in which : Chosen(listed, Sorted(which))[k] = listed[i]
<1> DEFINE stop == Sorted(which)
           some == Chosen(listed, stop)
<1>1. /\ listed \in Seq(Seq(residual))
      /\ \A i \in DOMAIN listed : IsInjective(listed[i])
      /\ \A i, j \in DOMAIN listed : i # j => ToSet(listed[i]) \cap ToSet(listed[j]) = {}
  BY DEF Listing
<1>2. Len(listed) \in Nat /\ DOMAIN listed = 1 .. Len(listed) /\ \A i \in DOMAIN listed : listed[i] \in Seq(residual)
  BY <1>1
<1>3. Lists(stop, which)
  <2>1. IsFiniteSet(1 .. Len(listed)) BY <1>2, FS_Interval
  <2>2. which \in SUBSET Nat /\ IsFiniteSet(which) BY <1>2, <2>1, FS_Subset
  <2> QED BY <2>2, SortedLists
<1> HIDE DEF stop
<1>4. Len(stop) \in Nat /\ DOMAIN stop = 1 .. Len(stop) /\ IsInjective(stop)
        /\ \A k \in DOMAIN stop : stop[k] \in which
  BY <1>3 DEF Lists
<1>5. DOMAIN some = 1 .. Len(stop) /\ \A k \in DOMAIN some : some[k] = listed[stop[k]]
  BY <1>4 DEF Chosen
<1>6. some \in Seq(Seq(residual))
  <2>1. \A k \in DOMAIN stop : listed[stop[k]] \in Seq(residual) BY <1>2, <1>4
  <2>2. some \in [1 .. Len(stop) -> Seq(residual)] BY <1>4, <2>1 DEF Chosen
  <2> QED BY <1>4, <2>2
<1> HIDE DEF some
<1>7. \A k \in DOMAIN some : some[k] = listed[stop[k]] /\ stop[k] \in which BY <1>4, <1>5
<1>8. \A k \in DOMAIN some : IsInjective(some[k]) BY <1>1, <1>7
<1>9. \A k, m \in DOMAIN some : k # m => stop[k] # stop[m] BY <1>4, <1>5 DEF IsInjective
<1>10. \A k, m \in DOMAIN some : k # m => ToSet(some[k]) \cap ToSet(some[m]) = {}
  BY <1>1, <1>7, <1>9
<1>11. Listing(some) BY <1>6, <1>8, <1>10 DEF Listing
<1> QED BY <1>7, <1>11 DEF some, stop

\* What a level leaves behind.
LEMMA CloseLevelIs ==
    ASSUME CacheGiven, LevelGiven, ResidualGiven, CloseLevel
    PROVE  \E accepted :
             /\ Listing(accepted)
             /\ \A i \in DOMAIN accepted : Lonely(ToSet(accepted[i]), BufferOf(level))
             /\ CoversEach(BufferOf(level)) =>
                  Len(accepted) <= 1 /\ \A i \in DOMAIN accepted : ToSet(accepted[i]) = residual
             /\ \A i \in DOMAIN accepted :
                  /\ MayStop(ToSet(accepted[i]))
                  /\ ~ CoversEach(BufferOf(level)) => Together(ToSet(accepted[i]))
             /\ clusters' = clusters \o [i \in DOMAIN accepted |-> Accepted(accepted[i])]
             /\ residual' = {a \in residual : \A i \in DOMAIN accepted : a \notin ToSet(accepted[i])}
<1>1. PICK listed \in Components(BufferOf(level)) :
        LET stop == Sorted({i \in DOMAIN listed : MayStop(ToSet(listed[i]))})
            accepted == [k \in DOMAIN stop |-> listed[stop[k]]] IN
        /\ clusters' = clusters \o [i \in DOMAIN accepted |-> Accepted(accepted[i])]
        /\ residual' = {a \in residual : \A i \in DOMAIN accepted : a \notin ToSet(accepted[i])}
  BY DEF CloseLevel, BufferOf
<1> DEFINE which == {i \in DOMAIN listed : MayStop(ToSet(listed[i]))}
           accepted == Chosen(listed, Sorted(which))
<1>2. /\ clusters' = clusters \o [i \in DOMAIN accepted |-> Accepted(accepted[i])]
      /\ residual' = {a \in residual : \A i \in DOMAIN accepted : a \notin ToSet(accepted[i])}
  BY <1>1 DEF Chosen
<1>3. /\ Listing(listed)
      /\ \A i \in DOMAIN listed : Lonely(ToSet(listed[i]), BufferOf(level))
      /\ ~ CoversEach(BufferOf(level)) => \A i \in DOMAIN listed : Together(ToSet(listed[i]))
  BY ComponentsAre
<1>4. which \subseteq DOMAIN listed /\ \A i \in which : MayStop(ToSet(listed[i])) OBVIOUS
<1> HIDE DEF which
<1>5. /\ Listing(accepted)
      /\ \A k \in DOMAIN accepted : \E i \in which : accepted[k] = listed[i]
  BY <1>3, <1>4, ChosenList
<1> HIDE DEF accepted
<1>6. \A k \in DOMAIN accepted :
        /\ Lonely(ToSet(accepted[k]), BufferOf(level))
        /\ MayStop(ToSet(accepted[k]))
        /\ ~ CoversEach(BufferOf(level)) => Together(ToSet(accepted[k]))
  BY <1>3, <1>4, <1>5
<1>7. ASSUME CoversEach(BufferOf(level))
      PROVE  Len(accepted) <= 1 /\ \A i \in DOMAIN accepted : ToSet(accepted[i]) = residual
  <2>1. listed = <<Sorted(residual)>> BY <1>7 DEF Components
  <2>2. DOMAIN listed = {1} /\ listed[1] = Sorted(residual) BY <2>1
  <2>3. residual \in SUBSET Nat /\ IsFiniteSet(residual)
    BY GeometryAssumption, FS_Subset DEF ResidualGiven
  <2>4. ToSet(Sorted(residual)) = residual BY <2>3, SortedLists DEF Lists
  <2>5. \A k \in DOMAIN accepted : accepted[k] = Sorted(residual) BY <1>4, <1>5, <2>2
  <2>6. Len(accepted) <= 1
    <3>1. accepted \in Seq(Seq(residual)) BY <1>5 DEF Listing
    <3>2. Len(accepted) \in Nat /\ DOMAIN accepted = 1 .. Len(accepted) BY <3>1
    <3> SUFFICES ASSUME 1 \in DOMAIN accepted, 2 \in DOMAIN accepted PROVE FALSE BY <3>2
    <3>3. residual \cap residual = {}
      <4>1. ToSet(accepted[1]) \cap ToSet(accepted[2]) = {} BY <1>5 DEF Listing
      <4> QED BY <2>4, <2>5, <4>1
    <3>4. residual # {} BY DEF CloseLevel
    <3> QED BY <3>3, <3>4
  <2> QED BY <2>4, <2>5, <2>6
<1> QED BY <1>2, <1>5, <1>6, <1>7

\* What the invariant says of a step's clusterer while it is at a level.
LEMMA Given ==
    ASSUME IInv, phase # "schedule"
    PROVE  /\ CacheGiven /\ LevelGiven /\ ResidualGiven /\ syndrome \subseteq Nodes
           /\ IsFiniteSet(syndrome) /\ IsFiniteSet(residual) /\ syndrome \in SUBSET Nat
<1>1. CacheGiven /\ LevelGiven /\ syndrome \subseteq Nodes /\ residual \subseteq syndrome
  BY DEF IInv, Prepared, Owned
<1>2. IsFiniteSet(syndrome) /\ IsFiniteSet(residual) /\ syndrome \in SUBSET Nat
  BY <1>1, GeometryAssumption, FS_Subset
<1> QED BY <1>1, <1>2 DEF ResidualGiven

\* The shot and its schedule do not change, and what they are keeps holding.
LEMMA GivenKeeps ==
    ASSUME IInv, UNCHANGED given, phase # "schedule", phase' # "schedule", level' \in 1 .. MaxLevel
    PROVE  Scheduled' /\ Started' /\ Prepared' /\ MaxLevel' = MaxLevel
             /\ CacheGiven' /\ LevelGiven' /\ syndrome' = syndrome
             /\ \A l : BufferOf(l)' = BufferOf(l)
<1>1. policy' = policy /\ bounds' = bounds /\ candidate' = candidate /\ built' = built
        /\ setting' = setting /\ cache' = cache /\ syndrome' = syndrome
  BY DEF given, scheduleVars
<1>2. Scheduled' BY <1>1 DEF IInv, Scheduled
<1>3. CacheGiven' BY <1>1, Given DEF CacheGiven
<1>4. MaxLevel' = MaxLevel /\ \A l : BufferOf(l)' = BufferOf(l) BY <1>1 DEF MaxLevel, BufferOf
<1>5. LevelGiven' BY <1>1, <1>4, Given DEF LevelGiven
<1> QED BY <1>1, <1>2, <1>3, <1>4, <1>5, Given DEF Started, Prepared

\* Closing a level keeps the invariant.
LEMMA CloseLevelKeeps ==
    ASSUME IInv, CloseLevel
    PROVE  IInv'
<1>1. phase = "level" /\ residual # {} /\ phase' = "left" /\ UNCHANGED given
        /\ level' = level /\ roots' = roots
  BY DEF CloseLevel
<1>2. CacheGiven /\ LevelGiven /\ ResidualGiven /\ syndrome \subseteq Nodes BY <1>1, Given
<1>3. level \in 1 .. MaxLevel /\ MaxLevel \in Nat /\ level \in Nat BY <1>2 DEF LevelGiven
<1>4. /\ Scheduled' /\ Started' /\ Prepared' /\ MaxLevel' = MaxLevel /\ syndrome' = syndrome
      /\ cache' = cache /\ \A l : BufferOf(l)' = BufferOf(l)
  BY <1>1, <1>3, GivenKeeps DEF given
<1>5. PICK accepted :
        /\ Listing(accepted)
        /\ \A i \in DOMAIN accepted : Lonely(ToSet(accepted[i]), BufferOf(level))
        /\ CoversEach(BufferOf(level)) =>
             Len(accepted) <= 1 /\ \A i \in DOMAIN accepted : ToSet(accepted[i]) = residual
        /\ clusters' = clusters \o [i \in DOMAIN accepted |-> Accepted(accepted[i])]
        /\ residual' = {a \in residual : \A i \in DOMAIN accepted : a \notin ToSet(accepted[i])}
  BY <1>2, CloseLevelIs
<1> DEFINE m == Len(clusters)
           n == Len(accepted)
           news == [i \in DOMAIN accepted |-> Accepted(accepted[i])]
<1>6. /\ accepted \in Seq(Seq(residual)) /\ n \in Nat /\ DOMAIN accepted = 1 .. n
      /\ \A i \in 1 .. n : accepted[i] \in Seq(residual) /\ ToSet(accepted[i]) \subseteq residual
  <2>1. accepted \in Seq(Seq(residual)) BY <1>5 DEF Listing
  <2>2. n \in Nat /\ DOMAIN accepted = 1 .. n /\ \A i \in 1 .. n : accepted[i] \in Seq(residual)
    BY <2>1
  <2> QED BY <2>1, <2>2 DEF ToSet
<1>7. clusters \in Seq(ClusterRecords) /\ m \in Nat /\ Ids = 1 .. m
        /\ \A i \in Ids : clusters[i].level \in Nat
  <2>1. clusters \in Seq(ClusterRecords) BY DEF IInv, Shaped
  <2>2. m \in Nat /\ Ids = 1 .. m /\ \A i \in 1 .. m : clusters[i] \in ClusterRecords
    BY <2>1 DEF Ids
  <2> QED BY <2>1, <2>2 DEF ClusterRecords
<1>8. \A k \in 1 .. n :
        /\ news[k] \in ClusterRecords /\ news[k].level = level /\ news[k].members = accepted[k]
        /\ news[k].full <=> CoversEach(BufferOf(level))
        /\ news[k].parent = NoParent /\ IsInjective(news[k].region)
  BY <1>2, <1>6, AcceptedIs
<1>9. news \in Seq(ClusterRecords) /\ Len(news) = n
  <2>1. news \in [1 .. n -> ClusterRecords] BY <1>6, <1>8
  <2> QED BY <1>6, <2>1
<1> HIDE DEF news
<1>10. /\ clusters' \in Seq(ClusterRecords) /\ Ids' = 1 .. m + n
       /\ \A i \in 1 .. m : clusters'[i] = clusters[i]
       /\ \A k \in 1 .. n : clusters'[m + k] = news[k]
  <2>1. clusters' = clusters \o news BY <1>5 DEF news
  <2>2. PICK c, d, e : c = clusters /\ d = news /\ e = clusters' OBVIOUS
  <2>3. c \in Seq(ClusterRecords) /\ d \in Seq(ClusterRecords) /\ e = c \o d
    BY <1>7, <1>9, <2>1, <2>2
  <2>4. /\ e \in Seq(ClusterRecords) /\ DOMAIN e = 1 .. Len(c) + Len(d)
        /\ \A i \in 1 .. Len(c) : e[i] = c[i]
        /\ \A k \in 1 .. Len(d) : e[Len(c) + k] = d[k]
    BY ONLY <2>3
  <2> QED BY <1>9, <2>2, <2>4 DEF Ids
<1> HIDE DEF m, n
<1>11. \A j \in 1 .. m + n : j \in 1 .. m \/ \E k \in 1 .. n : j = m + k
  <2> SUFFICES ASSUME NEW j \in 1 .. m + n, j \notin 1 .. m PROVE \E k \in 1 .. n : j = m + k
    OBVIOUS
  <2>1. j - m \in 1 .. n /\ j = m + (j - m) BY <1>6, <1>7
  <2> QED BY <2>1
<1>12. \A i \in Ids : i \in 1 .. m /\ i \in Ids' /\ clusters'[i] = clusters[i] /\ Members(i)' = Members(i)
  <2>1. \A i \in 1 .. m : i \in 1 .. m + n BY <1>6, <1>7
  <2> QED BY <1>7, <1>10, <2>1 DEF Members
<1> DEFINE New(j, k) == /\ j = m + k
                        /\ clusters'[j].level = level
                        /\ clusters'[j].members = accepted[k]
                        /\ clusters'[j].full <=> CoversEach(BufferOf(level))
                        /\ clusters'[j].parent = NoParent
                        /\ IsInjective(clusters'[j].region)
                        /\ Members(j)' = ToSet(accepted[k])
<1>13. \A j \in Ids' : j \in Ids \/ \E k \in 1 .. n : New(j, k)
  <2> SUFFICES ASSUME NEW j \in Ids', j \notin Ids PROVE \E k \in 1 .. n : New(j, k) OBVIOUS
  <2>1. PICK k \in 1 .. n : j = m + k BY <1>7, <1>10, <1>11
  <2>2. clusters'[j] = news[k] BY <1>10, <2>1
  <2>3. Members(j)' = ToSet(clusters'[j].members) BY DEF Members
  <2> QED BY <1>8, <2>1, <2>2, <2>3
<1> HIDE DEF New
<1>14. /\ residual' \subseteq residual
       /\ \A a \in residual : a \in residual' <=> \A k \in 1 .. n : a \notin ToSet(accepted[k])
  BY <1>5, <1>6
<1>15. Shaped'
  <2>1. ASSUME NEW j \in Ids'
        PROVE  clusters'[j].level > 0 /\ IsInjective(clusters'[j].members) /\ IsInjective(clusters'[j].region)
    <3>1. CASE j \in Ids BY <1>12, <3>1 DEF IInv, Shaped
    <3>2. CASE \E k \in 1 .. n : New(j, k)
      <4>1. PICK k \in 1 .. n : New(j, k) BY <3>2
      <4>2. IsInjective(accepted[k]) BY <1>5, <1>6 DEF Listing
      <4> QED BY <1>3, <4>1, <4>2 DEF New
    <3> QED BY <1>13, <3>1, <3>2
  <2> QED BY <1>1, <1>10, <2>1 DEF Shaped
<1>16. Owned'
  <2>1. /\ residual \subseteq syndrome
        /\ \A i \in Ids : Members(i) \subseteq syndrome \ residual
        /\ \A i, j \in Ids : i # j => Members(i) \cap Members(j) = {}
        /\ \A a \in syndrome \ residual : \E i \in Ids : a \in Members(i)
    BY DEF IInv, Owned
  <2>2. residual' \subseteq syndrome' BY <1>4, <1>14, <2>1
  <2>3. \A j \in Ids' : Members(j)' \subseteq syndrome' \ residual'
    <3> SUFFICES ASSUME NEW j \in Ids' PROVE Members(j)' \subseteq syndrome' \ residual' OBVIOUS
    <3>1. CASE j \in Ids BY <1>4, <1>12, <1>14, <2>1, <3>1
    <3>2. CASE \E k \in 1 .. n : New(j, k)
      <4>1. PICK k \in 1 .. n : New(j, k) BY <3>2
      <4>2. Members(j)' = ToSet(accepted[k]) BY <4>1 DEF New
      <4> QED BY <1>4, <1>6, <1>14, <2>1, <4>2
    <3> QED BY <1>13, <3>1, <3>2
  <2>4. \A i, j \in Ids' : i # j => Members(i)' \cap Members(j)' = {}
    <3>1. ASSUME NEW i \in Ids, NEW j \in Ids', NEW k \in 1 .. n, New(j, k)
          PROVE  Members(i)' \cap Members(j)' = {}
      <4>1. Members(j)' = ToSet(accepted[k]) BY <3>1 DEF New
      <4> QED BY <1>6, <1>12, <2>1, <4>1
    <3>2. ASSUME NEW i \in Ids', NEW j \in Ids', i # j,
                 NEW k \in 1 .. n, New(i, k), NEW l \in 1 .. n, New(j, l)
          PROVE  Members(i)' \cap Members(j)' = {}
      <4>1. Members(i)' = ToSet(accepted[k]) /\ Members(j)' = ToSet(accepted[l]) /\ k # l
        BY <3>2 DEF New
      <4> QED BY <1>5, <1>6, <4>1 DEF Listing
    <3> SUFFICES ASSUME NEW i \in Ids', NEW j \in Ids', i # j PROVE Members(i)' \cap Members(j)' = {}
      OBVIOUS
    <3>3. CASE i \in Ids /\ j \in Ids BY <1>12, <2>1, <3>3
    <3>4. CASE i \in Ids /\ j \notin Ids BY <1>13, <3>1, <3>4
    <3>5. CASE i \notin Ids /\ j \in Ids
      <4>1. PICK k \in 1 .. n : New(i, k) BY <1>13, <3>5
      <4>2. Members(j)' \cap Members(i)' = {} BY <3>1, <3>5, <4>1
      <4> QED BY <4>2
    <3>6. CASE i \notin Ids /\ j \notin Ids
      <4>1. PICK k \in 1 .. n : New(i, k) BY <1>13, <3>6
      <4>2. PICK l \in 1 .. n : New(j, l) BY <1>13, <3>6
      <4> QED BY <3>2, <4>1, <4>2
    <3> QED BY <3>3, <3>4, <3>5, <3>6
  <2>5. \A a \in syndrome' \ residual' : \E i \in Ids' : a \in Members(i)'
    <3> SUFFICES ASSUME NEW a \in syndrome, a \notin residual' PROVE \E i \in Ids' : a \in Members(i)'
      BY <1>4
    <3>1. CASE a \notin residual BY <1>12, <2>1, <3>1
    <3>2. CASE a \in residual
      <4>1. PICK k \in 1 .. n : a \in ToSet(accepted[k]) BY <1>14, <3>2
      <4>2. m + k \in 1 .. m + n /\ clusters'[m + k] = news[k] BY <1>6, <1>7, <1>10
      <4>3. PICK j \in Ids' : clusters'[j] = news[k] BY <1>10, <4>2
      <4>4. Members(j)' = ToSet(accepted[k]) BY <1>8, <4>3 DEF Members
      <4> QED BY <4>1, <4>3, <4>4
    <3> QED BY <3>1, <3>2
  <2> QED BY <2>2, <2>3, <2>4, <2>5 DEF Owned
<1>17. Ascending'
  <2>1. \A i \in Ids : clusters[i].level < level /\ clusters[i].level \in Nat
    BY <1>1, <1>7 DEF IInv, Ascending
  <2>2. \A i, j \in Ids' : i < j => clusters'[i].level <= clusters'[j].level
    <3> SUFFICES ASSUME NEW i \in Ids', NEW j \in Ids', i < j
                 PROVE  clusters'[i].level <= clusters'[j].level
      OBVIOUS
    <3>1. CASE j \in Ids
      <4>1. i \in Ids BY <1>6, <1>7, <1>10, <3>1
      <4> QED BY <1>12, <3>1, <4>1 DEF IInv, Ascending
    <3>2. CASE i \in Ids /\ j \notin Ids
      <4>1. PICK l \in 1 .. n : New(j, l) BY <1>13, <3>2
      <4> QED BY <1>3, <1>12, <2>1, <3>2, <4>1 DEF New
    <3>3. CASE i \notin Ids /\ j \notin Ids
      <4>1. PICK k \in 1 .. n : New(i, k) BY <1>13, <3>3
      <4>2. PICK l \in 1 .. n : New(j, l) BY <1>13, <3>3
      <4> QED BY <1>3, <4>1, <4>2 DEF New
    <3> QED BY <3>1, <3>2, <3>3
  <2>3. \A i \in Ids' : clusters'[i].level <= level
    <3> SUFFICES ASSUME NEW i \in Ids' PROVE clusters'[i].level <= level OBVIOUS
    <3>1. CASE i \in Ids BY <1>3, <1>12, <2>1, <3>1
    <3>2. CASE i \notin Ids
      <4>1. PICK k \in 1 .. n : New(i, k) BY <1>13, <3>2
      <4> QED BY <1>3, <4>1 DEF New
    <3> QED BY <3>1, <3>2
  <2>4. ASSUME NEW i \in Ids', clusters'[i].full
        PROVE  residual' = {} /\ \A j \in Ids' \ {i} : clusters'[j].level < clusters'[i].level
    <3>1. i \notin Ids
      <4>1. \A j \in Ids : ~ clusters[j].full BY <1>1 DEF IInv, Ascending
      <4> QED BY <1>12, <2>4, <4>1
    <3>2. PICK k \in 1 .. n : New(i, k) BY <1>13, <3>1
    <3>3. CoversEach(BufferOf(level)) BY <2>4, <3>2 DEF New
    <3>4. n = 1 /\ ToSet(accepted[1]) = residual BY <1>5, <1>6, <3>2, <3>3 DEF n
    <3>5. residual' = {} BY <1>14, <3>4
    <3>6. \A j \in Ids' \ {i} : j \in Ids
      <4> SUFFICES ASSUME NEW j \in Ids' \ {i}, j \notin Ids PROVE FALSE OBVIOUS
      <4>1. PICK l \in 1 .. n : New(j, l) BY <1>13
      <4> QED BY <3>2, <3>4, <4>1 DEF New
    <3>7. clusters'[i].level = level BY <3>2 DEF New
    <3> QED BY <1>12, <2>1, <3>5, <3>6, <3>7
  <2> QED BY <1>1, <1>4, <2>2, <2>3, <2>4 DEF Ascending
<1>18. Bounded'
  <2>1. ASSUME NEW i \in Ids' PROVE clusters'[i].level <= MaxLevel + 1
    <3>1. CASE i \in Ids
      <4>1. clusters[i].level < level /\ clusters[i].level \in Nat
        BY <1>1, <1>7, <3>1 DEF IInv, Ascending
      <4> QED BY <1>3, <1>12, <3>1, <4>1
    <3>2. CASE i \notin Ids
      <4>1. PICK k \in 1 .. n : New(i, k) BY <1>13, <3>2
      <4> QED BY <1>3, <4>1 DEF New
    <3> QED BY <3>1, <3>2
  <2>2. \A i \in Ids' : clusters'[i].level \in Nat
    <3>1. PICK c : c = clusters' OBVIOUS
    <3>2. c \in Seq(ClusterRecords) /\ Ids' = DOMAIN c BY <1>10, <3>1 DEF Ids
    <3>3. \A i \in DOMAIN c : c[i] \in ClusterRecords BY ONLY <3>2
    <3> QED BY <3>1, <3>2, <3>3 DEF ClusterRecords
  <2> QED BY <1>3, <1>4, <2>1, <2>2 DEF Bounded
<1>19. Linked'
  <2>1. roots = {} /\ \A i \in Ids : clusters[i].parent = NoParent BY <1>1 DEF IInv, Linked
  <2>2. \A i \in Ids' : clusters'[i].parent = NoParent
    <3> SUFFICES ASSUME NEW i \in Ids' PROVE clusters'[i].parent = NoParent OBVIOUS
    <3>1. CASE i \in Ids BY <1>12, <2>1, <3>1
    <3>2. CASE i \notin Ids
      <4>1. PICK k \in 1 .. n : New(i, k) BY <1>13, <3>2
      <4> QED BY <4>1 DEF New
    <3> QED BY <3>1, <3>2
  <2> QED BY <1>1, <2>1, <2>2 DEF Linked
<1>20. AcceptedAreApart'
  <2> SUFFICES ASSUME NEW i \in Ids', clusters'[i].level <= MaxLevel,
                      NEW a \in Members(i)',
                      NEW b \in residual' \cup
                        UNION {Members(j)' : j \in {k \in Ids' \ {i} : clusters'[k].level >= clusters'[i].level}}
               PROVE  cache.dist[<<a, b>>] > BufferOf(clusters'[i].level)
    BY <1>4 DEF AcceptedAreApart, Members, BufferOf
  <2>1. b \in residual' \/ \E j \in Ids' \ {i} : clusters'[j].level >= clusters'[i].level /\ b \in Members(j)'
    OBVIOUS
  <2>2. \A j \in Ids : clusters[j].level < level /\ clusters[j].level \in Nat
    BY <1>1, <1>7 DEF IInv, Ascending
  <2>3. CASE i \in Ids
    <3>1. b \in residual \/ \E j \in Ids \ {i} : clusters[j].level >= clusters[i].level /\ b \in Members(j)
      <4>1. ASSUME NEW j \in Ids' \ {i}, clusters'[j].level >= clusters'[i].level, b \in Members(j)'
            PROVE  b \in residual \/ \E l \in Ids \ {i} : clusters[l].level >= clusters[i].level /\ b \in Members(l)
        <5>1. CASE j \in Ids BY <1>12, <2>3, <4>1, <5>1
        <5>2. CASE j \notin Ids
          <6>1. PICK k \in 1 .. n : New(j, k) BY <1>13, <5>2
          <6> QED BY <1>6, <4>1, <6>1 DEF New
        <5> QED BY <5>1, <5>2
      <4> QED BY <1>14, <2>1, <4>1
    <3>2. a \in Members(i) /\ clusters[i].level <= MaxLevel /\ clusters'[i].level = clusters[i].level
      BY <1>12, <2>3
    <3>3. b \in residual \cup
            UNION {Members(j) : j \in {k \in Ids \ {i} : clusters[k].level >= clusters[i].level}}
      BY <3>1
    <3>4. AcceptedAreApart BY DEF IInv
    <3> QED BY <2>3, <3>2, <3>3, <3>4 DEF AcceptedAreApart, Members, BufferOf
  <2>4. CASE i \notin Ids
    <3>1. PICK k \in 1 .. n : New(i, k) BY <1>13, <2>4
    <3>2. a \in ToSet(accepted[k]) /\ clusters'[i].level = level BY <3>1 DEF New
    <3>3. b \in residual \ ToSet(accepted[k])
      <4>1. CASE b \in residual' BY <1>14, <4>1
      <4>2. CASE \E j \in Ids' \ {i} : clusters'[j].level >= clusters'[i].level /\ b \in Members(j)'
        <5>1. PICK j \in Ids' \ {i} : clusters'[j].level >= clusters'[i].level /\ b \in Members(j)' BY <4>2
        <5>2. j \notin Ids
          <6> SUFFICES ASSUME j \in Ids PROVE FALSE OBVIOUS
          <6>1. clusters'[j].level < level /\ clusters'[j].level \in Nat BY <1>12, <2>2
          <6> QED BY <1>3, <3>2, <5>1, <6>1
        <5>3. PICK l \in 1 .. n : New(j, l) BY <1>13, <5>2
        <5>4. b \in ToSet(accepted[l]) /\ l # k BY <3>1, <5>1, <5>3 DEF New
        <5>5. ToSet(accepted[l]) \cap ToSet(accepted[k]) = {} BY <1>5, <1>6, <5>4 DEF Listing
        <5> QED BY <1>6, <5>4, <5>5
      <4> QED BY <2>1, <4>1, <4>2
    <3>4. Lonely(ToSet(accepted[k]), BufferOf(level)) BY <1>5, <1>6
    <3> QED BY <3>2, <3>3, <3>4 DEF Lonely
  <2> QED BY <2>3, <2>4
<1>21. RegionsNest' BY <1>1 DEF RegionsNest
<1> QED BY <1>4, <1>15, <1>16, <1>17, <1>18, <1>19, <1>20, <1>21 DEF IInv

-----------------------------------------------------------------------------
(* The other steps of the builder.                                         *)

\* A cluster of all that is left, at a level above, keeps the invariant.
LEMMA TakeKeeps ==
    ASSUME IInv, phase = "left", residual # {},
           NEW l \in Nat, l > level, l <= MaxLevel + 1, TakeResidual(l)
    PROVE  IInv'
<1> DEFINE c == FullCluster(l, Sorted(residual))
           m == Len(clusters)
<1>1. /\ clusters' = Append(clusters, c) /\ residual' = {} /\ UNCHANGED given
      /\ level' = level /\ roots' = roots /\ phase' = phase
  BY DEF TakeResidual
<1>2. CacheGiven /\ LevelGiven /\ ResidualGiven /\ IsFiniteSet(residual) /\ syndrome \in SUBSET Nat
  BY Given
<1>3. level \in 1 .. MaxLevel /\ MaxLevel \in Nat /\ level \in Nat BY <1>2 DEF LevelGiven
<1>4. /\ Scheduled' /\ Started' /\ Prepared' /\ MaxLevel' = MaxLevel /\ syndrome' = syndrome
      /\ cache' = cache /\ \A k : BufferOf(k)' = BufferOf(k)
  BY <1>1, <1>3, GivenKeeps DEF given
<1>5. Lists(Sorted(residual), residual)
  <2>1. residual \in SUBSET Nat BY <1>2 DEF IInv, Owned
  <2> QED BY <1>2, <2>1, SortedLists
<1>6. /\ c \in ClusterRecords /\ c.level = l /\ c.members = Sorted(residual) /\ c.full = TRUE
      /\ c.region = <<>> /\ c.parent = NoParent
  <2>1. Sorted(residual) \in Seq(Nodes)
    <3>1. Sorted(residual) \in Seq(residual) BY <1>5 DEF Lists
    <3> QED BY <1>2, <3>1 DEF ResidualGiven
  <2> QED BY <2>1 DEF FullCluster, Cluster, ClusterRecords, NoParent
<1> HIDE DEF c
<1>7. clusters \in Seq(ClusterRecords) /\ m \in Nat /\ Ids = 1 .. m
        /\ \A i \in Ids : clusters[i].level \in Nat
  <2>1. clusters \in Seq(ClusterRecords) BY DEF IInv, Shaped
  <2>2. m \in Nat /\ Ids = 1 .. m /\ \A i \in 1 .. m : clusters[i] \in ClusterRecords
    BY <2>1 DEF Ids
  <2> QED BY <2>1, <2>2 DEF ClusterRecords
<1>8. /\ clusters' \in Seq(ClusterRecords) /\ Ids' = 1 .. m + 1
      /\ \A i \in 1 .. m : clusters'[i] = clusters[i]
      /\ clusters'[m + 1] = c
  <2>1. PICK d, e : d = clusters /\ e = clusters' OBVIOUS
  <2>2. d \in Seq(ClusterRecords) /\ c \in ClusterRecords /\ e = Append(d, c)
    BY <1>1, <1>6, <1>7, <2>1
  <2>3. /\ e \in Seq(ClusterRecords) /\ DOMAIN e = 1 .. Len(d) + 1
        /\ \A i \in 1 .. Len(d) : e[i] = d[i]
        /\ e[Len(d) + 1] = c
    BY ONLY <2>2
  <2> QED BY <2>1, <2>3 DEF Ids
<1> HIDE DEF m
<1>9. PICK new : new = m + 1 OBVIOUS
<1>10. /\ Ids' = Ids \cup {new} /\ new \notin Ids /\ \A i \in Ids : i < new
       /\ \A i \in Ids : clusters'[i] = clusters[i] /\ Members(i)' = Members(i)
       /\ clusters'[new] = c /\ Members(new)' = residual
  <2>1. Ids' = Ids \cup {new} /\ new \notin Ids /\ \A i \in Ids : i < new BY <1>7, <1>8, <1>9
  <2>2. (\A i \in Ids : clusters'[i] = clusters[i]) /\ clusters'[new] = c BY <1>7, <1>8, <1>9
  <2>3. ToSet(c.members) = residual BY <1>5, <1>6 DEF Lists
  <2> QED BY <2>1, <2>2, <2>3 DEF Members
<1>11. Shaped'
  <2>1. IsInjective(c.members) /\ IsInjective(c.region) /\ c.level > 0
    <3>1. IsInjective(c.members) BY <1>5, <1>6 DEF Lists
    <3>2. IsInjective(c.region) BY <1>6 DEF IsInjective
    <3> QED BY <1>3, <1>6, <3>1, <3>2
  <2> QED BY <1>1, <1>8, <1>10, <2>1 DEF IInv, Shaped
<1>12. Owned'
  <2>1. /\ residual \subseteq syndrome
        /\ \A i \in Ids : Members(i) \subseteq syndrome \ residual
        /\ \A i, j \in Ids : i # j => Members(i) \cap Members(j) = {}
        /\ \A a \in syndrome \ residual : \E i \in Ids : a \in Members(i)
    BY DEF IInv, Owned
  <2>2. residual' \subseteq syndrome' BY <1>1
  <2>3. \A i \in Ids' : Members(i)' \subseteq syndrome' \ residual' BY <1>1, <1>4, <1>10, <2>1
  <2>4. \A i, j \in Ids' : i # j => Members(i)' \cap Members(j)' = {}
    <3> SUFFICES ASSUME NEW i \in Ids', NEW j \in Ids', i # j PROVE Members(i)' \cap Members(j)' = {}
      OBVIOUS
    <3>1. CASE i \in Ids /\ j \in Ids BY <1>10, <2>1, <3>1
    <3>2. CASE i \in Ids /\ j = new BY <1>10, <2>1, <3>2
    <3>3. CASE i = new /\ j \in Ids BY <1>10, <2>1, <3>3
    <3> QED BY <1>10, <3>1, <3>2, <3>3
  <2>5. \A a \in syndrome' \ residual' : \E i \in Ids' : a \in Members(i)' BY <1>4, <1>10, <2>1
  <2> QED BY <2>2, <2>3, <2>4, <2>5 DEF Owned
<1>13. \A i \in Ids : clusters[i].level < l /\ clusters[i].level \in Nat
  <2>1. \A i \in Ids : clusters[i].level <= level BY DEF IInv, Ascending
  <2> QED BY <1>3, <1>7, <2>1
<1>14. Ascending'
  <2>1. \A i, j \in Ids' : i < j => clusters'[i].level <= clusters'[j].level
    <3> SUFFICES ASSUME NEW i \in Ids', NEW j \in Ids', i < j
                 PROVE  clusters'[i].level <= clusters'[j].level
      OBVIOUS
    <3>1. CASE j \in Ids
      <4>1. i \in Ids BY <1>7, <1>9, <1>10, <3>1
      <4> QED BY <1>10, <3>1, <4>1 DEF IInv, Ascending
    <3>2. CASE i \in Ids /\ j = new BY <1>6, <1>10, <1>13, <3>2
    <3>3. CASE i = new /\ j = new BY <1>6, <1>10, <3>3
    <3> QED BY <1>10, <3>1, <3>2, <3>3
  <2>2. ASSUME NEW i \in Ids', clusters'[i].full
        PROVE  residual' = {} /\ \A j \in Ids' \ {i} : clusters'[j].level < clusters'[i].level
    <3>1. i \notin Ids
      <4>1. \A j \in Ids : ~ clusters[j].full BY DEF IInv, Ascending
      <4> QED BY <1>10, <2>2, <4>1
    <3> QED BY <1>1, <1>6, <1>10, <1>13, <3>1
  <2> QED BY <1>1, <2>1, <2>2 DEF Ascending
<1>15. Bounded'
  <2>1. \A i \in Ids' : clusters'[i].level \in Nat /\ clusters'[i].level <= MaxLevel + 1
    BY <1>3, <1>6, <1>10, <1>13
  <2> QED BY <1>3, <1>4, <2>1 DEF Bounded
<1>16. Linked' BY <1>1, <1>6, <1>10 DEF IInv, Linked
<1>17. AcceptedAreApart'
  <2> SUFFICES ASSUME NEW i \in Ids', clusters'[i].level <= MaxLevel,
                      NEW a \in Members(i)',
                      NEW b \in residual' \cup
                        UNION {Members(j)' : j \in {k \in Ids' \ {i} : clusters'[k].level >= clusters'[i].level}}
               PROVE  cache.dist[<<a, b>>] > BufferOf(clusters'[i].level)
    BY <1>4 DEF AcceptedAreApart, Members, BufferOf
  <2>1. \E j \in Ids' \ {i} : clusters'[j].level >= clusters'[i].level /\ b \in Members(j)'
    BY <1>1
  <2>2. i \in Ids
    <3> SUFFICES ASSUME i = new PROVE FALSE BY <1>10
    <3>1. \A j \in Ids : ~ (clusters'[j].level >= clusters'[i].level) BY <1>6, <1>10, <1>13
    <3> QED BY <1>10, <2>1, <3>1
  <2>3. a \in Members(i) /\ clusters[i].level <= MaxLevel /\ clusters'[i].level = clusters[i].level
    BY <1>10, <2>2
  <2>4. b \in residual \/ \E j \in Ids \ {i} : clusters[j].level >= clusters[i].level /\ b \in Members(j)
    BY <1>10, <2>1, <2>2
  <2>5. b \in residual \cup
          UNION {Members(j) : j \in {k \in Ids \ {i} : clusters[k].level >= clusters[i].level}}
    BY <2>4
  <2>6. AcceptedAreApart BY DEF IInv
  <2> QED BY <2>2, <2>3, <2>5, <2>6 DEF AcceptedAreApart, Members, BufferOf
<1>18. RegionsNest' BY <1>1 DEF RegionsNest
<1> QED BY <1>4, <1>11, <1>12, <1>14, <1>15, <1>16, <1>17, <1>18 DEF IInv

\* The last level that is listed is one of the levels.
LEMMA RadiusLevelsIs ==
    ASSUME LevelGiven
    PROVE  RadiusLevels \in 1 .. MaxLevel
<1> DEFINE covered == {l \in 1 .. MaxLevel : /\ CoversEach(setting.schedule[l].buffer)
                                            /\ CoversEach(setting.schedule[l].diameter)}
<1>1. covered \in SUBSET Nat /\ covered \subseteq 1 .. MaxLevel BY DEF LevelGiven
<1>2. RadiusLevels = IF covered = {} THEN MaxLevel ELSE Min(covered) BY DEF RadiusLevels
<1> HIDE DEF covered
<1>3. covered # {} => Min(covered) \in covered BY <1>1, LeastNatural
<1>4. MaxLevel \in 1 .. MaxLevel BY DEF LevelGiven
<1> QED BY <1>1, <1>2, <1>3, <1>4

\* Completing the root, or forcing a final one, takes all that is left.
LEMMA CompleteRootKeeps ==
    ASSUME IInv, CompleteRoot \/ ForceFinalRoot
    PROVE  IInv'
<1>1. phase = "left" /\ residual # {} BY DEF CompleteRoot, ForceFinalRoot
<1>2. LevelGiven BY <1>1, Given
<1>3. level \in Nat /\ MaxLevel \in Nat /\ level <= MaxLevel BY <1>2 DEF LevelGiven
<1>4. CASE CompleteRoot
  <2>1. TakeResidual(RadiusLevels) /\ RadiusLevels > level + 1 BY <1>4 DEF CompleteRoot, CompletesAt
  <2>2. PICK l \in 1 .. MaxLevel : l = RadiusLevels BY <1>2, RadiusLevelsIs
  <2>3. l \in Nat /\ l > level /\ l <= MaxLevel + 1 BY <1>3, <2>1, <2>2
  <2> QED BY <1>1, <2>1, <2>2, <2>3, TakeKeeps
<1>5. CASE ForceFinalRoot
  <2>1. TakeResidual(MaxLevel + 1) BY <1>5 DEF ForceFinalRoot
  <2>2. PICK l \in Nat : l = MaxLevel + 1 BY <1>3
  <2>3. l > level /\ l <= MaxLevel + 1 BY <1>3, <2>2
  <2> QED BY <1>1, <2>1, <2>2, <2>3, TakeKeeps
<1> QED BY <1>4, <1>5

\* Going to the next level keeps the invariant, and so does giving up.
LEMMA NextLevelKeeps ==
    ASSUME IInv, NextLevel \/ Fail
    PROVE  IInv'
<1>1. /\ phase = "left" /\ residual # {} /\ UNCHANGED given
      /\ residual' = residual /\ clusters' = clusters /\ roots' = roots
      /\ \/ phase' = "level" /\ level < MaxLevel /\ level' = level + 1
         \/ phase' = "thrown" /\ level' = level
  BY DEF NextLevel, Fail
<1>2. LevelGiven BY <1>1, Given
<1>3. level \in 1 .. MaxLevel /\ MaxLevel \in Nat /\ level \in Nat BY <1>2 DEF LevelGiven
<1>4. level' \in 1 .. MaxLevel BY <1>1, <1>3
<1>5. /\ Scheduled' /\ Started' /\ Prepared' /\ MaxLevel' = MaxLevel /\ syndrome' = syndrome
      /\ cache' = cache /\ \A k : BufferOf(k)' = BufferOf(k)
  BY <1>1, <1>4, GivenKeeps DEF given
<1>6. Shaped' BY <1>1 DEF IInv, Shaped, Ids
<1>7. Owned' BY <1>1, <1>5 DEF IInv, Owned, Members, Ids
<1>8. \A i \in Ids : clusters[i].level \in Nat /\ clusters[i].level <= level /\ clusters[i].level <= MaxLevel + 1
  <2>1. clusters \in Seq(ClusterRecords) BY DEF IInv, Shaped
  <2>2. \A i \in Ids : clusters[i] \in ClusterRecords BY <2>1 DEF Ids
  <2>3. \A i \in Ids : clusters[i].level <= level BY <1>1 DEF IInv, Ascending
  <2> QED BY <1>3, <2>2, <2>3 DEF ClusterRecords
<1>9. Ascending' BY <1>1, <1>3, <1>8 DEF IInv, Ascending, Ids
<1>10. Bounded' BY <1>1, <1>3, <1>5, <1>8 DEF Bounded, Ids
<1>11. Linked' BY <1>1 DEF IInv, Linked, Ids
<1>12. AcceptedAreApart'
  <2>1. AcceptedAreApart BY DEF IInv
  <2>2. setting' = setting /\ cache' = cache /\ clusters' = clusters /\ residual' = residual
    BY <1>1 DEF given
  <2>3. (AcceptedAreApart)' <=> AcceptedAreApart BY <2>2 DEF AcceptedAreApart, Ids, MaxLevel
  <2> QED BY <2>1, <2>3
<1>13. RegionsNest' BY <1>1 DEF RegionsNest
<1> QED BY <1>5, <1>6, <1>7, <1>9, <1>10, <1>11, <1>12, <1>13 DEF IInv

-----------------------------------------------------------------------------
(* Parents.                                                                *)

\* What the invariant says of the list of clusters.
LEMMA ClustersAre ==
    ASSUME IInv
    PROVE  /\ Len(clusters) \in Nat /\ Ids = 1 .. Len(clusters)
           /\ \A i \in Ids : clusters[i] \in ClusterRecords /\ clusters[i].level \in Nat
                             /\ clusters[i].members \in Seq(Nodes)
<1>1. clusters \in Seq(ClusterRecords) BY DEF IInv, Shaped
<1>2. Len(clusters) \in Nat /\ Ids = 1 .. Len(clusters) /\ \A i \in Ids : clusters[i] \in ClusterRecords
  BY <1>1 DEF Ids
<1> QED BY <1>2 DEF ClusterRecords

\* A first cluster above is after this one, and there is none above the last.
LEMMA FirstAboveIs ==
    ASSUME IInv, NEW i \in Ids
    PROVE  \/ FirstAbove(i) = NoParent
           \/ /\ FirstAbove(i) \in Ids /\ FirstAbove(i) > i
              /\ clusters[FirstAbove(i)].level > clusters[i].level
<1> DEFINE above == {j \in Ids : clusters[j].level > clusters[i].level /\ Intersect(clusters[i], clusters[j])}
           lowest == {j \in above : \A k \in above : clusters[j].level <= clusters[k].level}
           heights == {clusters[j].level : j \in above}
<1>1. FirstAbove(i) = IF above = {} THEN NoParent ELSE Min(lowest) BY DEF FirstAbove, Ids
<1>2. Len(clusters) \in Nat /\ Ids = 1 .. Len(clusters) /\ \A j \in Ids : clusters[j].level \in Nat
  BY ClustersAre
<1>3. above \subseteq Ids /\ \A j \in above : clusters[j].level > clusters[i].level OBVIOUS
<1> HIDE DEF above
<1>4. ASSUME above # {} PROVE lowest # {}
  <2>1. heights \in SUBSET Nat /\ heights # {} BY <1>2, <1>3, <1>4
  <2>2. \A j \in above : clusters[j].level \in heights OBVIOUS
  <2> HIDE DEF heights
  <2>3. Min(heights) \in heights /\ \A h \in heights : Min(heights) <= h BY <2>1, LeastNatural
  <2>4. PICK j \in above : clusters[j].level = Min(heights) BY <2>3 DEF heights
  <2> QED BY <2>2, <2>3, <2>4
<1>5. lowest \in SUBSET Nat /\ lowest \subseteq above
  <2>1. lowest \subseteq above OBVIOUS
  <2>2. \A j \in Ids : j \in Nat BY <1>2
  <2> HIDE DEF lowest
  <2> QED BY <1>3, <2>1, <2>2
<1> HIDE DEF lowest
<1>6. CASE above = {} BY <1>1, <1>6
<1>7. CASE above # {}
  <2>1. PICK p \in lowest : p = FirstAbove(i) BY <1>1, <1>4, <1>5, <1>7, LeastNatural
  <2>2. p \in Ids /\ clusters[p].level > clusters[i].level BY <1>3, <1>5
  <2>3. p > i
    <3> SUFFICES ASSUME ~ (p > i) PROVE FALSE OBVIOUS
    <3>1. p < i \/ p = i BY <1>2, <2>2
    <3>2. clusters[p].level <= clusters[i].level BY <1>2, <2>2, <3>1 DEF IInv, Ascending
    <3> QED BY <1>2, <2>2, <3>2
  <2> QED BY <2>1, <2>2, <2>3
<1> QED BY <1>6, <1>7

RootsOf(parents) == IF Cardinality(FullIds) = 1 THEN FullIds ELSE Orphans(parents)

\* Every cluster is a root without a parent, or has one after and above it.
LEMMA ParentsAre ==
    ASSUME IInv, phase \in {"level", "left"}, NEW parents, parents = Parents
    PROVE  /\ DOMAIN parents = Ids
           /\ RootsOf(parents) \subseteq Ids
           /\ Ids # {} => RootsOf(parents) # {}
           /\ \A i \in RootsOf(parents) : parents[i] = NoParent
           /\ \A i \in Ids \ RootsOf(parents) :
                parents[i] \in Ids /\ parents[i] > i /\ clusters[parents[i]].level > clusters[i].level
<1>1. Len(clusters) \in Nat /\ Ids = 1 .. Len(clusters) /\ \A j \in Ids : clusters[j].level \in Nat
  BY ClustersAre
<1>2. CASE Cardinality(FullIds) = 1
  <2>1. FullIds \subseteq Ids /\ IsFiniteSet(FullIds)
    <3>1. FullIds \subseteq Ids BY DEF FullIds, Ids
    <3>2. IsFiniteSet(1 .. Len(clusters)) BY <1>1, FS_Interval
    <3> QED BY <1>1, <3>1, <3>2, FS_Subset
  <2>2. PICK f : FullIds = {f} BY <1>2, <2>1, FS_Singleton
  <2>3. f \in Ids /\ clusters[f].full BY <2>1, <2>2 DEF FullIds
  <2>4. Min(FullIds) = f
    <3>1. {f} \in SUBSET Nat /\ {f} # {} BY <1>1, <2>3
    <3>2. Min({f}) \in {f} BY <3>1, LeastNatural
    <3> QED BY <2>2, <3>2
  <2>5. parents = [i \in Ids |-> IF clusters[i].level < clusters[f].level THEN f ELSE NoParent]
    BY <1>2, <2>4 DEF Parents, Ids
  <2>6. \A j \in Ids \ {f} : clusters[j].level < clusters[f].level BY <2>3 DEF IInv, Ascending
  <2>7. \A j \in Ids \ {f} : f > j
    <3> SUFFICES ASSUME NEW j \in Ids \ {f}, ~ (f > j) PROVE FALSE OBVIOUS
    <3>1. f < j BY <1>1, <2>3
    <3>2. clusters[f].level <= clusters[j].level BY <2>3, <3>1 DEF IInv, Ascending
    <3> QED BY <1>1, <2>3, <2>6, <3>2
  <2>8. RootsOf(parents) = {f} BY <1>2, <2>2 DEF RootsOf
  <2>9. parents[f] = NoParent BY <1>1, <2>3, <2>5
  <2>10. \A j \in Ids \ {f} : parents[j] = f BY <2>5, <2>6
  <2> QED BY <2>3, <2>5, <2>6, <2>7, <2>8, <2>9, <2>10
<1>3. CASE Cardinality(FullIds) # 1
  <2>1. parents = [i \in Ids |-> FirstAbove(i)] BY <1>3 DEF Parents, Ids
  <2>2. RootsOf(parents) = {i \in Ids : parents[i] = NoParent} BY <1>3, <2>1 DEF RootsOf, Orphans
  <2>3. ASSUME Ids # {} PROVE RootsOf(parents) # {}
    <3>1. PICK last \in Ids : last = Len(clusters) BY <1>1, <2>3
    <3>2. \A i \in Ids : ~ (i > last) BY <1>1, <3>1
    <3>3. FirstAbove(last) = NoParent BY <3>2, FirstAboveIs
    <3> QED BY <2>1, <2>2, <3>3
  <2>4. \A i \in Ids : parents[i] = FirstAbove(i) BY <2>1
  <2>5. \A i \in Ids \ RootsOf(parents) :
          parents[i] \in Ids /\ parents[i] > i /\ clusters[parents[i]].level > clusters[i].level
    BY <2>2, <2>4, FirstAboveIs
  <2> QED BY <2>1, <2>2, <2>3, <2>5
<1> QED BY <1>2, <1>3

\* Assigning parents keeps the invariant.
LEMMA AssignParentsKeeps ==
    ASSUME IInv, AssignParents
    PROVE  IInv'
<1>1. PICK parents :
        /\ parents = Parents
        /\ clusters' = [i \in DOMAIN clusters |-> [clusters[i] EXCEPT !.parent = parents[i]]]
        /\ roots' = RootsOf(parents)
  BY DEF AssignParents, RootsOf
<1>2. /\ phase \in {"level", "left"} /\ residual = {} /\ phase' = "assigned" /\ UNCHANGED given
      /\ level' = level /\ residual' = residual
  BY DEF AssignParents
<1>3. /\ DOMAIN parents = Ids
      /\ roots' \subseteq Ids
      /\ Ids # {} => roots' # {}
      /\ \A i \in roots' : parents[i] = NoParent
      /\ \A i \in Ids \ roots' :
           parents[i] \in Ids /\ parents[i] > i /\ clusters[parents[i]].level > clusters[i].level
  BY <1>1, <1>2, ParentsAre
<1>4. LevelGiven BY <1>2, Given
<1>5. level \in 1 .. MaxLevel /\ MaxLevel \in Nat BY <1>4 DEF LevelGiven
<1>6. /\ Scheduled' /\ Started' /\ Prepared' /\ MaxLevel' = MaxLevel /\ syndrome' = syndrome
      /\ cache' = cache /\ \A k : BufferOf(k)' = BufferOf(k)
  BY <1>2, <1>5, GivenKeeps DEF given
<1>7. /\ Len(clusters) \in Nat /\ Ids = 1 .. Len(clusters)
      /\ \A i \in Ids : clusters[i] \in ClusterRecords
  BY ClustersAre
<1>8. \A i \in Ids : parents[i] \in Nat
  <2>1. NoParent \in Nat BY DEF NoParent
  <2> QED BY <1>3, <1>7, <2>1
<1>9. \A i \in Ids : /\ clusters'[i] \in ClusterRecords
                     /\ clusters'[i].level = clusters[i].level
                     /\ clusters'[i].members = clusters[i].members
                     /\ clusters'[i].full = clusters[i].full
                     /\ clusters'[i].region = clusters[i].region
                     /\ clusters'[i].parent = parents[i]
  <2> SUFFICES ASSUME NEW i \in Ids
               PROVE  /\ clusters'[i] \in ClusterRecords
                      /\ clusters'[i].level = clusters[i].level
                      /\ clusters'[i].members = clusters[i].members
                      /\ clusters'[i].full = clusters[i].full
                      /\ clusters'[i].region = clusters[i].region
                      /\ clusters'[i].parent = parents[i]
    OBVIOUS
  <2>1. PICK c \in ClusterRecords, p \in Nat : c = clusters[i] /\ p = parents[i] BY <1>7, <1>8
  <2>2. clusters'[i] = [c EXCEPT !.parent = p] BY <1>1, <2>1 DEF Ids
  <2> QED BY <2>1, <2>2 DEF ClusterRecords
<1>10. Ids' = Ids /\ clusters' \in Seq(ClusterRecords)
  <2>1. DOMAIN clusters' = Ids BY <1>1 DEF Ids
  <2>2. clusters' = [i \in 1 .. Len(clusters) |-> clusters'[i]] BY <1>1, <1>7 DEF Ids
  <2>3. clusters' \in [1 .. Len(clusters) -> ClusterRecords] BY <1>7, <1>9, <2>2
  <2> QED BY <1>7, <2>1, <2>3 DEF Ids
<1>11. \A i \in Ids : Members(i)' = Members(i) BY <1>9 DEF Members
<1>12. Shaped' BY <1>2, <1>9, <1>10 DEF IInv, Shaped
<1>13. Owned' BY <1>2, <1>6, <1>10, <1>11 DEF IInv, Owned
<1>14. Ascending' BY <1>2, <1>9, <1>10 DEF IInv, Ascending
<1>15. Bounded'
  <2>1. \A i \in Ids : clusters[i].level <= MaxLevel + 2 /\ clusters[i].level <= MaxLevel + 1
    BY <1>2 DEF IInv, Bounded
  <2> QED BY <1>2, <1>6, <1>9, <1>10, <2>1 DEF Bounded
<1>16. Linked'
  <2>1. \A i \in roots' : clusters'[i].parent = NoParent BY <1>3, <1>9
  <2>2. \A i \in Ids \ roots' :
          /\ clusters'[i].parent \in Ids /\ clusters'[i].parent > i
          /\ clusters'[clusters'[i].parent].level > clusters'[i].level
    BY <1>3, <1>9
  <2> QED BY <1>2, <1>3, <1>10, <2>1, <2>2 DEF Linked
<1>17. AcceptedAreApart'
  <2>1. AcceptedAreApart BY DEF IInv
  <2>2. /\ \A i \in Ids : clusters'[i].level = clusters[i].level /\ clusters'[i].members = clusters[i].members
        /\ setting' = setting /\ cache' = cache /\ residual' = residual
    BY <1>2, <1>9 DEF given
  <2> SUFFICES ASSUME NEW i \in Ids, clusters[i].level <= MaxLevel,
                      NEW a \in ToSet(clusters[i].members),
                      NEW b \in residual \cup
                        UNION {ToSet(clusters'[j].members) : j \in {k \in Ids \ {i} :
                          clusters'[k].level >= clusters'[i].level}}
               PROVE  cache.dist[<<a, b>>] > setting.schedule[clusters[i].level].buffer
    BY <1>6, <1>10, <2>2 DEF AcceptedAreApart
  <2>3. b \in residual \cup
          UNION {ToSet(clusters[j].members) : j \in {k \in Ids \ {i} :
            clusters[k].level >= clusters[i].level}}
    BY <2>2
  <2> QED BY <2>1, <2>3 DEF AcceptedAreApart
<1>18. RegionsNest' BY <1>2 DEF RegionsNest
<1> QED BY <1>6, <1>12, <1>13, <1>14, <1>15, <1>16, <1>17, <1>18 DEF IInv

\* An empty root above the others keeps the invariant.
LEMMA AddFinalRootKeeps ==
    ASSUME IInv, AddFinalRoot
    PROVE  IInv'
<1> DEFINE heights == {clusters[i].level : i \in DOMAIN clusters}
           final == Len(clusters) + 1
           top == 1 + Max(heights)
           linked == [i \in DOMAIN clusters |->
                        IF i \in roots THEN [clusters[i] EXCEPT !.parent = final] ELSE clusters[i]]
           c == FullCluster(top, <<>>)
<1>1. /\ phase = "assigned" /\ Several /\ phase' = "assigned" /\ UNCHANGED given
      /\ clusters' = Append(linked, c) /\ roots' = {final}
      /\ level' = level /\ residual' = residual
  BY DEF AddFinalRoot
<1>2. LevelGiven BY <1>1, Given
<1>3. level \in 1 .. MaxLevel /\ MaxLevel \in Nat BY <1>2 DEF LevelGiven
<1>4. /\ Scheduled' /\ Started' /\ Prepared' /\ MaxLevel' = MaxLevel /\ syndrome' = syndrome
      /\ cache' = cache /\ \A k : BufferOf(k)' = BufferOf(k)
  BY <1>1, <1>3, GivenKeeps DEF given
<1>5. /\ Len(clusters) \in Nat /\ Ids = 1 .. Len(clusters)
      /\ \A i \in Ids : clusters[i] \in ClusterRecords /\ clusters[i].level \in Nat
  BY ClustersAre
<1>6. /\ residual = {} /\ roots \subseteq Ids
      /\ \A i \in Ids \ roots :
           /\ clusters[i].parent \in Ids /\ clusters[i].parent > i
           /\ clusters[clusters[i].parent].level > clusters[i].level
  BY <1>1 DEF IInv, Linked
<1>7. Ids # {}
  <2> SUFFICES ASSUME Ids = {} PROVE FALSE OBVIOUS
  <2>1. Cardinality(roots) = 0 BY <1>6, FS_EmptySet
  <2> QED BY <1>1, <2>1 DEF Several
<1>8. top \in Nat /\ top <= MaxLevel + 2 /\ \A i \in Ids : clusters[i].level < top
  <2>1. PICK last \in Ids : last = Len(clusters) BY <1>5, <1>7
  <2>2. clusters[last].level \in heights BY <2>1 DEF Ids
  <2>3. \A h \in heights : h <= clusters[last].level
    <3> SUFFICES ASSUME NEW i \in Ids PROVE clusters[i].level <= clusters[last].level BY DEF Ids
    <3>1. i < last \/ i = last BY <1>5, <2>1
    <3> QED BY <1>5, <3>1 DEF IInv, Ascending
  <2>4. heights \in SUBSET Nat BY <1>5 DEF Ids
  <2>5. clusters[last].level <= MaxLevel + 1 BY <1>1 DEF IInv, Bounded
  <2>6. \A i \in Ids : clusters[i].level \in heights BY DEF Ids
  <2> HIDE DEF heights
  <2>7. Max(heights) = clusters[last].level
    <3>1. \A h \in heights : h \in Nat BY <2>4
    <3>2. Max(heights) \in heights /\ \A h \in heights : Max(heights) >= h
      <4>1. \E x \in heights : \A y \in heights : x >= y BY <2>2, <2>3, <3>1
      <4> QED BY <4>1 DEF Max
    <3>3. Max(heights) >= clusters[last].level /\ Max(heights) <= clusters[last].level
      BY <2>2, <2>3, <3>2
    <3>4. Max(heights) \in Nat /\ clusters[last].level \in Nat BY <2>2, <3>1, <3>2
    <3> QED BY <3>3, <3>4
  <2>8. top = 1 + clusters[last].level BY <2>7
  <2> HIDE DEF top
  <2> QED BY <1>3, <1>5, <2>3, <2>5, <2>6, <2>8
<1> HIDE DEF heights, top
<1>9. /\ c \in ClusterRecords /\ c.level = top /\ c.members = <<>> /\ c.full = TRUE
      /\ c.region = <<>> /\ c.parent = NoParent
  <2>1. <<>> \in Seq(Nodes) OBVIOUS
  <2> QED BY <1>8, <2>1 DEF FullCluster, Cluster, ClusterRecords, NoParent
<1>10. final \in Nat /\ final \notin Ids /\ \A i \in Ids : i < final BY <1>5
<1> HIDE DEF c, final
<1>11. \A i \in Ids : /\ linked[i] \in ClusterRecords
                      /\ linked[i].level = clusters[i].level
                      /\ linked[i].members = clusters[i].members
                      /\ linked[i].full = clusters[i].full
                      /\ linked[i].region = clusters[i].region
                      /\ linked[i].parent = IF i \in roots THEN final ELSE clusters[i].parent
  <2> SUFFICES ASSUME NEW i \in Ids
               PROVE  /\ linked[i] \in ClusterRecords
                      /\ linked[i].level = clusters[i].level
                      /\ linked[i].members = clusters[i].members
                      /\ linked[i].full = clusters[i].full
                      /\ linked[i].region = clusters[i].region
                      /\ linked[i].parent = IF i \in roots THEN final ELSE clusters[i].parent
    OBVIOUS
  <2>1. PICK r \in ClusterRecords : r = clusters[i] BY <1>5
  <2>2. linked[i] = IF i \in roots THEN [r EXCEPT !.parent = final] ELSE r BY <2>1 DEF Ids
  <2> HIDE DEF linked
  <2> QED BY <1>10, <2>1, <2>2 DEF ClusterRecords
<1>12. linked \in Seq(ClusterRecords) /\ Len(linked) = Len(clusters)
  <2>1. linked \in [1 .. Len(clusters) -> ClusterRecords]
    <3>1. DOMAIN linked = 1 .. Len(clusters) BY <1>5 DEF Ids
    <3>2. linked = [i \in 1 .. Len(clusters) |-> linked[i]] BY <1>5 DEF Ids
    <3> HIDE DEF linked
    <3> QED BY <1>5, <1>11, <3>2
  <2> QED BY <1>5, <2>1
<1> HIDE DEF linked
<1>13. /\ clusters' \in Seq(ClusterRecords) /\ Ids' = Ids \cup {final}
       /\ \A i \in Ids : clusters'[i] = linked[i]
       /\ clusters'[final] = c
  <2>1. PICK e, n : e = clusters' /\ n = Len(clusters) OBVIOUS
  <2>2. linked \in Seq(ClusterRecords) /\ c \in ClusterRecords /\ e = Append(linked, c) /\ Len(linked) = n
    BY <1>1, <1>9, <1>12, <2>1
  <2>3. /\ e \in Seq(ClusterRecords) /\ DOMAIN e = 1 .. n + 1
        /\ \A i \in 1 .. n : e[i] = linked[i]
        /\ e[n + 1] = c
    BY ONLY <2>2
  <2>4. n \in Nat /\ Ids = 1 .. n /\ final = n + 1 BY <1>5, <2>1 DEF final
  <2>5. 1 .. n + 1 = 1 .. n \cup {n + 1} BY <2>4
  <2> QED BY <2>1, <2>3, <2>4, <2>5 DEF Ids
<1>14. (\A i \in Ids : Members(i)' = Members(i)) /\ \A j : j = final => Members(j)' = {}
  <2>1. \A i \in Ids : Members(i)' = Members(i) BY <1>11, <1>13 DEF Members
  <2>2. ASSUME NEW j, j = final PROVE Members(j)' = {}
    <3>1. clusters'[j].members = <<>> BY <1>9, <1>13, <2>2
    <3> QED BY <3>1 DEF Members, ToSet
  <2> QED BY <2>1, <2>2
<1>15. PICK new : new = final OBVIOUS
<1>16. Ids' = Ids \cup {new} /\ new \notin Ids /\ clusters'[new] = c /\ Members(new)' = {}
         /\ \A i \in Ids : i < new
  BY <1>10, <1>13, <1>14, <1>15
<1>17. Shaped'
  <2>1. IsInjective(<<>>) BY DEF IsInjective
  <2>2. c.level > 0
    <3>1. PICK i \in Ids : TRUE BY <1>7
    <3>2. clusters[i].level < top /\ clusters[i].level \in Nat BY <1>5, <1>8
    <3> QED BY <1>8, <1>9, <3>2
  <2>3. ASSUME NEW i \in Ids
        PROVE  /\ clusters'[i].level > 0
               /\ IsInjective(clusters'[i].members) /\ IsInjective(clusters'[i].region)
    <3>1. /\ clusters'[i].level = clusters[i].level /\ clusters'[i].members = clusters[i].members
          /\ clusters'[i].region = clusters[i].region
      BY <1>11, <1>13
    <3> QED BY <3>1 DEF IInv, Shaped
  <2>4. /\ clusters'[new].level > 0
        /\ IsInjective(clusters'[new].members) /\ IsInjective(clusters'[new].region)
    BY <1>9, <1>16, <2>1, <2>2
  <2>5. \A i \in Ids' : /\ clusters'[i].level > 0
                        /\ IsInjective(clusters'[i].members) /\ IsInjective(clusters'[i].region)
    BY <1>16, <2>3, <2>4
  <2> QED BY <1>1, <1>13, <2>5 DEF Shaped
<1>18. Owned'
  <2>1. /\ residual \subseteq syndrome
        /\ \A i \in Ids : Members(i) \subseteq syndrome \ residual
        /\ \A i, j \in Ids : i # j => Members(i) \cap Members(j) = {}
        /\ \A a \in syndrome \ residual : \E i \in Ids : a \in Members(i)
    BY DEF IInv, Owned
  <2>2. \A i, j \in Ids' : i # j => Members(i)' \cap Members(j)' = {} BY <1>14, <1>16, <2>1
  <2>3. \A i \in Ids' : Members(i)' \subseteq syndrome' \ residual' BY <1>1, <1>4, <1>14, <1>16, <2>1
  <2>4. \A a \in syndrome' \ residual' : \E i \in Ids' : a \in Members(i)'
    BY <1>1, <1>4, <1>14, <1>16, <2>1
  <2> QED BY <1>1, <1>4, <2>1, <2>2, <2>3, <2>4 DEF Owned
<1>19. \A i \in Ids : clusters'[i].level = clusters[i].level /\ clusters'[i].level < top
         /\ clusters'[i].level \in Nat
  BY <1>5, <1>8, <1>11, <1>13
<1>20. Ascending'
  <2>1. \A i, j \in Ids' : i < j => clusters'[i].level <= clusters'[j].level
    <3> SUFFICES ASSUME NEW i \in Ids', NEW j \in Ids', i < j
                 PROVE  clusters'[i].level <= clusters'[j].level
      OBVIOUS
    <3>1. CASE j \in Ids
      <4>1. i \in Ids BY <1>5, <1>10, <1>15, <1>16, <3>1
      <4> QED BY <1>19, <3>1, <4>1 DEF IInv, Ascending
    <3>2. CASE i \in Ids /\ j = new BY <1>8, <1>9, <1>16, <1>19, <3>2
    <3>3. CASE i = new /\ j = new BY <1>8, <1>9, <1>16, <3>3
    <3> QED BY <1>16, <3>1, <3>2, <3>3
  <2> QED BY <1>1, <2>1 DEF Ascending
<1>21. ~ Several'
  <2>1. Cardinality(roots') = 1 BY <1>1, FS_Singleton
  <2> QED BY <2>1 DEF Several
<1>22. Bounded'
  <2>1. \A i \in Ids' : clusters'[i].level <= MaxLevel + 2
    BY <1>3, <1>8, <1>9, <1>16, <1>19
  <2> QED BY <1>1, <1>4, <1>21, <2>1 DEF Bounded
<1>23. Linked'
  <2>1. \A i \in roots' : clusters'[i].parent = NoParent BY <1>1, <1>9, <1>15, <1>16
  <2>2. ASSUME NEW i \in Ids' \ roots'
        PROVE  /\ clusters'[i].parent \in Ids' /\ clusters'[i].parent > i
               /\ clusters'[clusters'[i].parent].level > clusters'[i].level
    <3>1. i \in Ids BY <1>1, <1>15, <1>16, <2>2
    <3>2. CASE i \in roots
      <4>1. clusters'[i].parent = new BY <1>11, <1>13, <1>15, <3>1, <3>2
      <4>2. new > i BY <1>5, <1>10, <1>15, <3>1
      <4>3. clusters'[new].level > clusters'[i].level BY <1>8, <1>9, <1>16, <1>19, <3>1
      <4> QED BY <1>16, <4>1, <4>2, <4>3
    <3>3. CASE i \notin roots
      <4>1. clusters'[i].parent = clusters[i].parent BY <1>11, <1>13, <3>1, <3>3
      <4> QED BY <1>6, <1>16, <1>19, <3>1, <3>3, <4>1
    <3> QED BY <3>2, <3>3
  <2> QED BY <1>1, <1>6, <1>15, <1>16, <2>1, <2>2 DEF Linked
<1>24. AcceptedAreApart'
  <2> SUFFICES ASSUME NEW i \in Ids', clusters'[i].level <= MaxLevel,
                      NEW a \in Members(i)',
                      NEW b \in residual' \cup
                        UNION {Members(j)' : j \in {k \in Ids' \ {i} : clusters'[k].level >= clusters'[i].level}}
               PROVE  cache.dist[<<a, b>>] > BufferOf(clusters'[i].level)
    BY <1>4 DEF AcceptedAreApart, Members, BufferOf
  <2>1. i \in Ids /\ a \in Members(i) /\ clusters'[i].level = clusters[i].level BY <1>14, <1>16, <1>19
  <2>2. b \in residual \cup
          UNION {Members(j) : j \in {k \in Ids \ {i} : clusters[k].level >= clusters[i].level}}
    BY <1>1, <1>14, <1>16, <1>19, <2>1
  <2>3. AcceptedAreApart BY DEF IInv
  <2> QED BY <2>1, <2>2, <2>3 DEF AcceptedAreApart, Members, BufferOf
<1>25. RegionsNest' BY <1>1 DEF RegionsNest
<1> QED BY <1>4, <1>17, <1>18, <1>20, <1>22, <1>23, <1>24, <1>25 DEF IInv

-----------------------------------------------------------------------------
(* The regions of parents.                                                 *)

\* The clusters, but for their regions.
Alike(made) ==
  /\ made \in Seq(ClusterRecords) /\ DOMAIN made = Ids
  /\ \A j \in Ids : /\ made[j].level = clusters[j].level
                    /\ made[j].members = clusters[j].members
                    /\ made[j].parent = clusters[j].parent
                    /\ IsInjective(made[j].region)

\* A cluster whose region goes to its parent changes no other, and no region shrinks.
LEMMA CoverIs ==
    ASSUME IInv, phase = "assigned", NEW made, Alike(made), NEW i \in Ids
    PROVE  /\ Alike(Cover(made, i))
           /\ \A j \in Ids : j # clusters[i].parent => Cover(made, i)[j] = made[j]
           /\ \A j \in Ids : KeptNodes(made[j]) \subseteq KeptNodes(Cover(made, i)[j])
           /\ i \notin roots =>
                KeptNodes(made[i]) \cup Members(i) \subseteq KeptNodes(Cover(made, i)[clusters[i].parent])
<1> DEFINE p == clusters[i].parent
           child == made[i]
           region == ToSet(made[p].region) \cup ToSet(child.region) \cup ToSet(child.members)
           full == child.full \/ region = Nodes
           list == IF full THEN <<>> ELSE Sorted(region)
           now == Cover(made, i)
<1>1. /\ made \in Seq(ClusterRecords) /\ DOMAIN made = Ids /\ Len(made) \in Nat
      /\ Ids = 1 .. Len(made)
      /\ \A j \in Ids : made[j] \in ClusterRecords
  <2>1. made \in Seq(ClusterRecords) /\ DOMAIN made = Ids BY DEF Alike
  <2>2. \A j \in DOMAIN made : made[j] \in ClusterRecords BY <2>1
  <2>3. Len(made) \in Nat /\ DOMAIN made = 1 .. Len(made) BY <2>1
  <2> QED BY <2>1, <2>2, <2>3
<1>2. \A j \in Ids : /\ made[j].region \in Seq(Nodes) /\ made[j].members \in Seq(Nodes)
                     /\ made[j].full \in BOOLEAN
                     /\ ToSet(made[j].region) \subseteq Nodes /\ ToSet(made[j].members) \subseteq Nodes
  <2> SUFFICES ASSUME NEW j \in Ids
               PROVE  /\ made[j].region \in Seq(Nodes) /\ made[j].members \in Seq(Nodes)
                      /\ made[j].full \in BOOLEAN
                      /\ ToSet(made[j].region) \subseteq Nodes /\ ToSet(made[j].members) \subseteq Nodes
    OBVIOUS
  <2>1. made[j].region \in Seq(Nodes) /\ made[j].members \in Seq(Nodes) /\ made[j].full \in BOOLEAN
    BY <1>1 DEF ClusterRecords
  <2>2. ASSUME NEW s \in Seq(Nodes) PROVE ToSet(s) \subseteq Nodes BY DEF ToSet
  <2> QED BY <2>1, <2>2
<1>3. child.parent = p /\ child.members = clusters[i].members BY DEF Alike
<1>4. now = IF p = NoParent \/ made[p].full THEN made
            ELSE [made EXCEPT ![p] = [made[p] EXCEPT !.full = full, !.region = list]]
  BY <1>3 DEF Cover
<1>5. \/ i \in roots /\ p = NoParent
      \/ i \notin roots /\ p \in Ids /\ p # NoParent
  <2>1. \A j \in Ids : j # 0 BY <1>1
  <2> QED BY <2>1 DEF IInv, Linked, NoParent
<1>6. \A j \in Ids : KeptNodes(made[j]) \subseteq Nodes BY <1>2 DEF KeptNodes
<1>7. Members(i) \subseteq Nodes /\ Members(i) = ToSet(child.members) BY <1>2, <1>3 DEF Members
<1> HIDE DEF now, full, region, list
<1>8. CASE p = NoParent
  <2>1. now = made /\ i \in roots BY <1>1, <1>4, <1>5, <1>8 DEF NoParent
  <2> QED BY <2>1 DEF now
<1>9. CASE p # NoParent /\ made[p].full
  <2>1. now = made /\ p \in Ids BY <1>4, <1>5, <1>9
  <2>2. KeptNodes(made[p]) = Nodes BY <1>9 DEF KeptNodes
  <2>3. KeptNodes(made[i]) \cup Members(i) \subseteq KeptNodes(made[p]) BY <1>6, <1>7, <2>2
  <2> QED BY <2>1, <2>3 DEF now
<1>10. CASE p # NoParent /\ ~ made[p].full
  <2>1. p \in Ids BY <1>5, <1>10
  <2>2. region \subseteq Nodes BY <1>2, <2>1 DEF region
  <2>3. full \in BOOLEAN BY DEF full
  <2>4. list \in Seq(Nodes) /\ IsInjective(list) /\ (~ full => ToSet(list) = region)
    <3>1. CASE full
      <4>1. list = <<>> BY <3>1 DEF list
      <4>2. <<>> \in Seq(Nodes) /\ IsInjective(<<>>) BY DEF IsInjective
      <4> QED BY <3>1, <4>1, <4>2
    <3>2. CASE ~ full
      <4>1. list = Sorted(region) BY <3>2 DEF list
      <4>2. region \in SUBSET Nat /\ IsFiniteSet(region) BY <2>2, GeometryAssumption, FS_Subset
      <4>3. Lists(list, region) BY <4>1, <4>2, SortedLists
      <4>4. PICK s : s = list OBVIOUS
      <4>5. s \in Seq(region) /\ ToSet(s) = region /\ IsInjective(s) BY <4>3, <4>4 DEF Lists
      <4>6. s \in Seq(Nodes) BY <2>2, <4>5
      <4> QED BY <4>4, <4>5, <4>6
    <3> QED BY <3>1, <3>2
  <2>5. PICK r \in ClusterRecords : r = made[p] BY <1>1, <2>1
  <2>6. PICK q : q = [r EXCEPT !.full = full, !.region = list] OBVIOUS
  <2>7. /\ q \in ClusterRecords /\ q.level = r.level /\ q.members = r.members /\ q.parent = r.parent
        /\ q.full = full /\ q.region = list
    BY <2>3, <2>4, <2>5, <2>6 DEF ClusterRecords
  <2>8. now = [made EXCEPT ![p] = q] BY <1>4, <1>10, <2>5, <2>6
  <2>9. now[p] = q /\ \A j \in Ids : j # p => now[j] = made[j] BY <1>1, <2>1, <2>8
  <2>10. now \in Seq(ClusterRecords) /\ DOMAIN now = Ids
    <3>1. made \in [1 .. Len(made) -> ClusterRecords] BY <1>1
    <3>2. now \in [1 .. Len(made) -> ClusterRecords] BY <1>1, <2>1, <2>7, <2>8, <3>1
    <3> QED BY <1>1, <3>2
  <2>11. Alike(now)
    <3> SUFFICES ASSUME NEW j \in Ids
                 PROVE  /\ now[j].level = clusters[j].level
                        /\ now[j].members = clusters[j].members
                        /\ now[j].parent = clusters[j].parent
                        /\ IsInjective(now[j].region)
      BY <2>10 DEF Alike
    <3>1. CASE j = p BY <2>1, <2>4, <2>5, <2>7, <2>9, <3>1 DEF Alike
    <3>2. CASE j # p BY <2>9, <3>2 DEF Alike
    <3> QED BY <3>1, <3>2
  <2>12. KeptNodes(q) = IF full THEN Nodes ELSE region
    BY <2>4, <2>7 DEF KeptNodes
  <2>13. KeptNodes(made[p]) \subseteq KeptNodes(q)
    <3>1. KeptNodes(made[p]) = ToSet(made[p].region) BY <1>10 DEF KeptNodes
    <3>2. ToSet(made[p].region) \subseteq region BY DEF region
    <3> QED BY <1>6, <2>1, <2>12, <3>1, <3>2
  <2>14. \A j \in Ids : KeptNodes(made[j]) \subseteq KeptNodes(now[j]) BY <2>9, <2>13
  <2>15. KeptNodes(made[i]) \cup Members(i) \subseteq KeptNodes(q)
    <3>1. CASE full BY <1>6, <1>7, <2>12, <3>1
    <3>2. CASE ~ full
      <4>1. KeptNodes(made[i]) = ToSet(child.region) BY <3>2 DEF KeptNodes, full
      <4> QED BY <1>7, <2>12, <3>2, <4>1 DEF region
    <3> QED BY <3>1, <3>2
  <2> QED BY <2>9, <2>11, <2>14, <2>15 DEF now
<1> QED BY <1>8, <1>9, <1>10

\* All regions of the clusters up to k are in those of their parents.
NestedUpTo(made, k) ==
  \A j \in Ids \ roots : j <= k =>
    KeptNodes(made[j]) \cup Members(j) \subseteq KeptNodes(made[clusters[j].parent])

\* No cluster keeps less than before.
Wider(made) == \A j \in Ids : KeptNodes(clusters[j]) \subseteq KeptNodes(made[j])

\* In the order of the ids, every cluster is covered after all that it covers.
LEMMA CoveredIs ==
    ASSUME IInv, phase = "assigned"
    PROVE  /\ Alike(Covered(Children)) /\ Wider(Covered(Children))
           /\ NestedUpTo(Covered(Children), Len(clusters))
<1> DEFINE n == Len(Children)
           Def(m, k) == Cover(m, Children[k])
           made == CHOOSE f : f = [k \in 0 .. n |-> IF k = 0 THEN clusters
                                                    ELSE Cover(f[k - 1], Children[k])]
<1>1. /\ n = Len(clusters) /\ n \in Nat /\ Ids = 1 .. n /\ \A k \in 1 .. n : Children[k] = k
  <2>1. Len(clusters) \in Nat /\ Ids = 1 .. Len(clusters) BY ClustersAre
  <2>2. Children = [i \in 1 .. Len(clusters) |-> i] BY <2>1 DEF Children, Ids
  <2> QED BY <2>1, <2>2
<1>2. made[0] = clusters /\ \A k \in 0 .. n - 1 : made[k + 1] = Cover(made[k], k + 1)
  <2>1. FiniteNatInductiveDefHypothesis(made, clusters, Def, 0, n)
    BY DEF FiniteNatInductiveDefHypothesis
  <2> HIDE DEF Def, made, n
  <2>2. FiniteNatInductiveDefConclusion(made, clusters, Def, 0, n)
    BY <1>1, <2>1, FiniteNatInductiveDef
  <2>3. made[0] = clusters /\ \A k \in 1 .. n : made[k] = Def(made[k - 1], k)
    BY <1>1, <2>2 DEF FiniteNatInductiveDefConclusion
  <2>4. \A k \in 0 .. n - 1 : k + 1 \in 1 .. n /\ (k + 1) - 1 = k BY <1>1
  <2>5. \A k \in 0 .. n - 1 : made[k + 1] = Def(made[k], k + 1) BY <2>3, <2>4
  <2> QED BY <1>1, <2>3, <2>4, <2>5 DEF Def
<1>3. Covered(Children) = made[n] BY DEF Covered
<1> HIDE DEF n, made
<1> DEFINE S == {k \in 0 .. n : Alike(made[k]) /\ Wider(made[k]) /\ NestedUpTo(made[k], k)}
<1>4. 0 \in S
  <2>1. Alike(clusters) BY DEF IInv, Shaped, Alike, Ids
  <2>2. NestedUpTo(clusters, 0) BY <1>1 DEF NestedUpTo
  <2>3. Wider(clusters) BY DEF Wider
  <2> QED BY <1>1, <1>2, <2>1, <2>2, <2>3
<1>5. \A k \in 0 .. n - 1 : k \in S => k + 1 \in S
  <2> SUFFICES ASSUME NEW k \in 0 .. n - 1, k \in S PROVE k + 1 \in S OBVIOUS
  <2>1. PICK i \in Ids : i = k + 1 BY <1>1
  <2>2. Alike(made[k]) /\ Wider(made[k]) /\ NestedUpTo(made[k], k) OBVIOUS
  <2> DEFINE now == Cover(made[k], i)
  <2>3. /\ Alike(now)
        /\ \A j \in Ids : j # clusters[i].parent => now[j] = made[k][j]
        /\ \A j \in Ids : KeptNodes(made[k][j]) \subseteq KeptNodes(now[j])
        /\ i \notin roots =>
             KeptNodes(made[k][i]) \cup Members(i) \subseteq KeptNodes(now[clusters[i].parent])
    BY <2>2, CoverIs
  <2> HIDE DEF now
  <2>4. NestedUpTo(now, k + 1)
    <3> SUFFICES ASSUME NEW j \in Ids \ roots, j <= k + 1
                 PROVE  KeptNodes(now[j]) \cup Members(j) \subseteq KeptNodes(now[clusters[j].parent])
      BY DEF NestedUpTo
    <3>1. j # clusters[i].parent
      <4>1. i \in roots => clusters[i].parent = 0 BY DEF IInv, Linked, NoParent
      <4>2. i \notin roots => clusters[i].parent \in Ids /\ clusters[i].parent > i BY DEF IInv, Linked
      <4> QED BY <1>1, <2>1, <4>1, <4>2
    <3>2. clusters[j].parent \in Ids BY DEF IInv, Linked
    <3>3. now[j] = made[k][j] BY <2>3, <3>1
    <3>4. CASE j = i BY <2>3, <3>3, <3>4
    <3>5. CASE j <= k
      <4>1. KeptNodes(made[k][j]) \cup Members(j) \subseteq KeptNodes(made[k][clusters[j].parent])
        BY <2>2, <3>5 DEF NestedUpTo
      <4> QED BY <2>3, <3>2, <3>3, <4>1
    <3> QED BY <1>1, <2>1, <3>4, <3>5
  <2>5. made[k + 1] = now BY <1>2, <2>1 DEF now
  <2>6. k + 1 \in 0 .. n BY <1>1
  <2>7. Wider(now) BY <2>2, <2>3 DEF Wider
  <2> QED BY <2>3, <2>4, <2>5, <2>6, <2>7
<1>6. n \in S
  <2> HIDE DEF S
  <2>1. n \in Nat BY <1>1
  <2>2. 0 .. n \subseteq S BY <1>4, <1>5, <2>1, Upwards
  <2> QED BY <2>1, <2>2
<1> QED BY <1>1, <1>3, <1>6

\* Expanding the regions of parents keeps the invariant.
LEMMA ExpandRegionsKeeps ==
    ASSUME IInv, ExpandRegions
    PROVE  IInv'
<1>1. /\ phase = "assigned" /\ phase' = "done" /\ UNCHANGED given
      /\ clusters' = Covered(Children) /\ ~ Several
      /\ level' = level /\ residual' = residual /\ roots' = roots
  BY DEF ExpandRegions
<1>2. LevelGiven BY <1>1, Given
<1>3. level \in 1 .. MaxLevel /\ MaxLevel \in Nat BY <1>2 DEF LevelGiven
<1>4. /\ Scheduled' /\ Started' /\ Prepared' /\ MaxLevel' = MaxLevel /\ syndrome' = syndrome
      /\ cache' = cache /\ setting' = setting
  BY <1>1, <1>3, GivenKeeps DEF given
<1>5. Alike(clusters') /\ NestedUpTo(clusters', Len(clusters)) BY <1>1, CoveredIs
<1>6. /\ clusters' \in Seq(ClusterRecords) /\ Ids' = Ids
      /\ \A i \in Ids : /\ clusters'[i].level = clusters[i].level
                        /\ clusters'[i].members = clusters[i].members
                        /\ clusters'[i].parent = clusters[i].parent
                        /\ IsInjective(clusters'[i].region)
  BY <1>5 DEF Alike, Ids
<1>7. \A i \in Ids : Members(i)' = Members(i) BY <1>6 DEF Members
<1>8. Shaped' BY <1>1, <1>6 DEF IInv, Shaped
<1>9. Owned' BY <1>1, <1>4, <1>6, <1>7 DEF IInv, Owned
<1>10. Ascending' BY <1>1, <1>6 DEF IInv, Ascending
<1>11. ~ Several' BY <1>1, <1>4 DEF Several
<1>12. Bounded'
  <2>1. \A i \in Ids : clusters[i].level <= MaxLevel + 2 BY <1>1 DEF IInv, Bounded
  <2> QED BY <1>1, <1>4, <1>6, <1>11, <2>1 DEF Bounded
<1>13. /\ residual = {} /\ roots \subseteq Ids
       /\ Ids # {} => roots # {}
       /\ \A i \in roots : clusters[i].parent = NoParent
       /\ \A i \in Ids \ roots : /\ clusters[i].parent \in Ids /\ clusters[i].parent > i
                                 /\ clusters[clusters[i].parent].level > clusters[i].level
  BY <1>1 DEF IInv, Linked
<1>14. Linked' BY <1>1, <1>6, <1>11, <1>13 DEF Linked
<1>15. AcceptedAreApart'
  <2>1. AcceptedAreApart BY DEF IInv
  <2> SUFFICES ASSUME NEW i \in Ids, clusters[i].level <= MaxLevel,
                      NEW a \in ToSet(clusters[i].members),
                      NEW b \in residual \cup
                        UNION {ToSet(clusters'[j].members) : j \in {k \in Ids \ {i} :
                          clusters'[k].level >= clusters'[i].level}}
               PROVE  cache.dist[<<a, b>>] > setting.schedule[clusters[i].level].buffer
    BY <1>1, <1>4, <1>6 DEF AcceptedAreApart
  <2>2. b \in residual \cup
          UNION {ToSet(clusters[j].members) : j \in {k \in Ids \ {i} :
            clusters[k].level >= clusters[i].level}}
    BY <1>6
  <2> QED BY <2>1, <2>2 DEF AcceptedAreApart
<1>16. RegionsNest'
  <2> SUFFICES ASSUME NEW i \in Ids, i \notin roots
               PROVE  KeptNodes(clusters'[i]) \cup ToSet(clusters'[i].members)
                        \subseteq KeptNodes(clusters'[clusters'[i].parent])
    BY <1>1, <1>6 DEF RegionsNest, KeptNodes
  <2>1. Len(clusters) \in Nat /\ Ids = 1 .. Len(clusters) BY ClustersAre
  <2>2. i <= Len(clusters) BY <2>1
  <2>3. KeptNodes(clusters'[i]) \cup Members(i) \subseteq KeptNodes(clusters'[clusters[i].parent])
    BY <1>5, <2>2 DEF NestedUpTo
  <2> QED BY <1>6, <2>3 DEF Members
<1> QED BY <1>4, <1>8, <1>9, <1>10, <1>12, <1>14, <1>15, <1>16 DEF IInv

-----------------------------------------------------------------------------
(* Fractions.                                                              *)

\* What the recursion of gcd says.
LEMMA GcdRecursion ==
    \A a, b \in Nat : gcd[<<a, b>>] = IF b = 0 THEN a ELSE gcd[<<b, a % b>>]
<1> DEFINE P == Nat \X Nat
           Def(f, p) == IF p[2] = 0 THEN p[1] ELSE f[<<p[2], p[1] % p[2]>>]
           R == {pq \in P \X P : pq[1][2] < pq[2][2]}
           g == gcd
<1>1. IsWellFoundedOn(R, P)
  <2> SUFFICES ASSUME NEW T \in SUBSET P, T # {}
               PROVE  \E x \in T : \A y \in T : ~ (<<y, x>> \in R)
    <3> HIDE DEF R, P
    <3> QED BY MinWF
  <2> DEFINE S == {p[2] : p \in T}
  <2>1. S \in SUBSET Nat /\ S # {} OBVIOUS
  <2>2. \A p \in T : p[2] \in S OBVIOUS
  <2> HIDE DEF S
  <2>3. Min(S) \in S /\ \A y \in S : Min(S) <= y /\ y \in Nat BY <2>1, LeastNatural
  <2>4. PICK x \in T : x[2] = Min(S) BY <2>3 DEF S
  <2>5. \A y \in T : ~ (y[2] < x[2]) BY <2>2, <2>3, <2>4
  <2>6. \A y \in T : <<y, x>> \in R => y[2] < x[2] OBVIOUS
  <2> QED BY <2>5, <2>6
<1>2. WFDefOn(R, P, Def)
  <2> SUFFICES ASSUME NEW f, NEW h, NEW x \in P, \A y \in SetLessThan(x, R, P) : f[y] = h[y]
               PROVE  Def(f, x) = Def(h, x)
    BY DEF WFDefOn
  <2>1. CASE x[2] = 0 BY <2>1
  <2>2. CASE x[2] # 0
    <3> DEFINE y == <<x[2], x[1] % x[2]>>
    <3>1. x[1] \in Nat /\ x[2] \in Nat \ {0} BY <2>2
    <3>2. x[1] % x[2] \in Nat /\ x[1] % x[2] < x[2] BY <3>1
    <3>3. y \in P /\ y[2] < x[2] BY <3>1, <3>2
    <3>4. y \in SetLessThan(x, R, P) BY <3>3 DEF SetLessThan
    <3>5. f[y] = h[y] BY <3>4
    <3> QED BY <2>2, <3>5
  <2> QED BY <2>1, <2>2
<1>3. OpDefinesFcn(g, P, Def) BY DEF OpDefinesFcn, gcd
<1> HIDE DEF Def, R, P, g
<1>4. WFInductiveDefines(g, P, Def) BY <1>1, <1>2, <1>3, WFInductiveDef
<1>5. \A p \in P : g[p] = Def(g, p) BY <1>4 DEF WFInductiveDefines
<1> SUFFICES ASSUME NEW a \in Nat, NEW b \in Nat
             PROVE  gcd[<<a, b>>] = IF b = 0 THEN a ELSE gcd[<<b, a % b>>]
  OBVIOUS
<1>6. <<a, b>> \in P /\ <<a, b>>[1] = a /\ <<a, b>>[2] = b BY DEF P
<1>7. g[<<a, b>>] = Def(g, <<a, b>>) BY <1>5, <1>6
<1> QED BY <1>6, <1>7 DEF Def, g

\* The greatest common divisor is positive and no more than either.
LEMMA GcdBounds ==
    \A a, b \in Nat : b > 0 => gcd[<<a, b>>] \in 1 .. b /\ (a > 0 => gcd[<<a, b>>] <= a)
<1> DEFINE Good(b) == \A a \in Nat : b > 0 => gcd[<<a, b>>] \in 1 .. b /\ (a > 0 => gcd[<<a, b>>] <= a)
           S == {n \in Nat : \A b \in 0 .. n : Good(b)}
<1>1. 0 \in S OBVIOUS
<1>2. ASSUME NEW n \in Nat, n \in S PROVE n + 1 \in S
  <2>1. Good(n + 1)
    <3> SUFFICES ASSUME NEW a \in Nat
                 PROVE  gcd[<<a, n + 1>>] \in 1 .. n + 1 /\ (a > 0 => gcd[<<a, n + 1>>] <= a)
      OBVIOUS
    <3>1. PICK m \in Nat : m = n + 1 /\ m > 0 OBVIOUS
    <3>2. PICK r : r = a % m OBVIOUS
    <3>3. r \in 0 .. m - 1 /\ r <= a /\ (r = 0 => a = 0 \/ m <= a)
      <4>1. a = m * (a \div m) + r /\ a \div m \in Nat /\ r \in 0 .. m - 1 BY <3>1, <3>2
      <4>2. PICK q : q = a \div m OBVIOUS
      <4>3. q \in Nat /\ a = m * q + r BY <4>1, <4>2
      <4>4. q = 0 \/ m * q >= m BY <3>1, <4>3
      <4> QED BY <3>1, <4>1, <4>3, <4>4
    <3>4. gcd[<<a, m>>] = gcd[<<m, r>>] BY <3>1, <3>2, GcdRecursion
    <3>5. r \in 0 .. n /\ r \in Nat BY <3>1, <3>3
    <3>6. CASE r = 0
      <4>1. gcd[<<m, r>>] = m BY <3>1, <3>6, GcdRecursion
      <4> QED BY <3>1, <3>3, <3>4, <3>6, <4>1
    <3>7. CASE r # 0
      <4>1. Good(r) BY <1>2, <3>5
      <4>2. gcd[<<m, r>>] \in 1 .. r BY <3>1, <3>5, <3>7, <4>1
      <4> QED BY <3>1, <3>3, <3>4, <4>2
    <3> QED BY <3>6, <3>7
  <2>2. \A b \in 0 .. n + 1 : b \in 0 .. n \/ b = n + 1 OBVIOUS
  <2> HIDE DEF Good
  <2>3. \A b \in 0 .. n + 1 : Good(b) BY <1>2, <2>1, <2>2
  <2> QED BY <2>3
<1> HIDE DEF S
<1>3. Nat \subseteq S BY <1>1, <1>2, SetInduction
<1> HIDE DEF Good
<1>4. \A b \in Nat : Good(b) BY <1>3 DEF S
<1> QED BY <1>4 DEF Good

\* A divisor that is no greater than what it divides.
LEMMA QuotientIs ==
    ASSUME NEW n \in Nat, NEW g \in Nat, g > 0, g <= n
    PROVE  n \div g \in Int /\ n \div g > 0
<1>1. PICK r : r = n % g OBVIOUS
<1>2. n = g * (n \div g) + r /\ n \div g \in Nat /\ r \in 0 .. g - 1 BY <1>1
<1>3. PICK q : q = n \div g OBVIOUS
<1>4. q \in Nat /\ n = g * q + r BY <1>2, <1>3
<1>5. q = 0 => g * q = 0 BY <1>4
<1> QED BY <1>2, <1>3, <1>4, <1>5

\* A fraction in its lowest terms is a fraction.
LEMMA FractionIs ==
    ASSUME NEW n \in Int, NEW m \in Int, m > 0
    PROVE  IsFraction(Fraction(n, m))
<1>1. PICK a \in Nat : a = IF n < 0 THEN -n ELSE n OBVIOUS
<1>2. PICK g : g = gcd[<<a, m>>] OBVIOUS
<1>3. g \in 1 .. m BY <1>2, GcdBounds
<1>4. Fraction(n, m) = <<n \div g, m \div g>> BY <1>1, <1>2 DEF Fraction
<1>5. n \div g \in Int BY <1>3
<1>6. m \div g \in Int /\ m \div g > 0
  <2>1. m \in Nat /\ g \in Nat /\ g > 0 /\ g <= m BY <1>3
  <2> QED BY <2>1, QuotientIs
<1> QED BY <1>4, <1>5, <1>6 DEF IsFraction

\* Products of positive numbers are positive.
LEMMA PositiveProduct ==
    ASSUME NEW x \in Int, NEW y \in Int, x > 0, y > 0
    PROVE  x * y \in Int /\ x * y > 0
OBVIOUS

\* Differences.
LEMMA SubtractIs ==
    ASSUME NEW p, IsFraction(p), NEW q, IsFraction(q)
    PROVE  IsFraction(Subtract(p, q))
<1>1. PICK a \in Int, b \in Int : p = <<a, b>> /\ b > 0 BY DEF IsFraction
<1>2. PICK c \in Int, d \in Int : q = <<c, d>> /\ d > 0 BY DEF IsFraction
<1>3. PICK g : g = gcd[<<b, d>>] OBVIOUS
<1>4. g \in 1 .. d /\ g <= b BY <1>1, <1>2, <1>3, GcdBounds
<1>5. PICK e \in Int, f \in Int : e = d \div g /\ f = b \div g BY <1>1, <1>2, <1>4
<1>6. f > 0
  <2>1. b \in Nat /\ g \in Nat /\ g > 0 BY <1>1, <1>4
  <2>2. b \div g > 0 BY <1>4, <2>1, QuotientIs
  <2> QED BY <1>5, <2>2
<1>7. Subtract(p, q) = Fraction(a * e - c * f, f * d) BY <1>1, <1>2, <1>3, <1>5 DEF Subtract
<1>8. f * d \in Int /\ f * d > 0 BY <1>2, <1>6, PositiveProduct
<1>9. a * e - c * f \in Int OBVIOUS
<1> QED BY <1>7, <1>8, <1>9, FractionIs

\* Sums and products.
LEMMA AddIs ==
    ASSUME NEW p, IsFraction(p), NEW q, IsFraction(q)
    PROVE  IsFraction(Add(p, q)) /\ IsFraction(Multiply(p, q))
<1>1. PICK a \in Int, b \in Int : p = <<a, b>> /\ b > 0 BY DEF IsFraction
<1>2. PICK c \in Int, d \in Int : q = <<c, d>> /\ d > 0 BY DEF IsFraction
<1>3. IsFraction(<<-c, d>>) BY <1>2 DEF IsFraction
<1>4. IsFraction(Add(p, q)) BY <1>2, <1>3, SubtractIs DEF Add
<1>5. Multiply(p, q) = Fraction(a * c, b * d) BY <1>1, <1>2 DEF Multiply
<1>6. b * d \in Int /\ b * d > 0 /\ a * c \in Int BY <1>1, <1>2, PositiveProduct
<1> QED BY <1>4, <1>5, <1>6, FractionIs

\* Powers.
LEMMA PowerIs ==
    ASSUME NEW q, IsFraction(q), NEW n \in Nat
    PROVE  IsFraction(Power(q, n))
<1> DEFINE Def(r, k) == <<r[1] * q[1], r[2] * q[2]>>
           power == CHOOSE f : f = [k \in 0 .. n |-> IF k = 0 THEN One
                                                     ELSE <<f[k - 1][1] * q[1], f[k - 1][2] * q[2]>>]
           S == {k \in 0 .. n : IsFraction(power[k])}
<1>1. power[0] = One /\ \A k \in 0 .. n - 1 : power[k + 1] = <<power[k][1] * q[1], power[k][2] * q[2]>>
  <2>1. FiniteNatInductiveDefHypothesis(power, One, Def, 0, n)
    BY DEF FiniteNatInductiveDefHypothesis
  <2> HIDE DEF Def, power
  <2>2. FiniteNatInductiveDefConclusion(power, One, Def, 0, n)
    BY <2>1, FiniteNatInductiveDef
  <2>3. power[0] = One /\ \A k \in 1 .. n : power[k] = Def(power[k - 1], k)
    BY <2>2 DEF FiniteNatInductiveDefConclusion
  <2>4. \A k \in 0 .. n - 1 : k + 1 \in 1 .. n /\ (k + 1) - 1 = k OBVIOUS
  <2>5. \A k \in 0 .. n - 1 : power[k + 1] = Def(power[k], k + 1) BY <2>3, <2>4
  <2> QED BY <2>3, <2>5 DEF Def
<1>2. Power(q, n) = power[n] BY DEF Power
<1> HIDE DEF power
<1>3. 0 \in S BY <1>1 DEF One, IsFraction
<1>4. ASSUME NEW k \in 0 .. n - 1, k \in S PROVE k + 1 \in S
  <2>1. PICK a \in Int, b \in Int : power[k] = <<a, b>> /\ b > 0 BY <1>4 DEF IsFraction
  <2>2. PICK c \in Int, d \in Int : q = <<c, d>> /\ d > 0 BY DEF IsFraction
  <2>3. power[k + 1] = <<a * c, b * d>> BY <1>1, <2>1, <2>2
  <2>4. b * d \in Int /\ b * d > 0 /\ a * c \in Int BY <2>1, <2>2, PositiveProduct
  <2>5. IsFraction(power[k + 1]) BY <2>3, <2>4 DEF IsFraction
  <2>6. k + 1 \in 0 .. n OBVIOUS
  <2> QED BY <2>5, <2>6
<1> HIDE DEF S
<1>5. n \in S
  <2>1. 0 .. n \subseteq S BY <1>3, <1>4, Upwards
  <2> QED BY <2>1
<1> QED BY <1>2, <1>5 DEF S

\* What the policies are made of.
LEMMA PolicyIs ==
    ASSUME policy \in Policies, policy.kind # "given"
    PROVE  /\ policy.levels \in Nat /\ policy.first \in Nat /\ policy.additive \in Nat
           /\ policy.candidates \in Seq(Nat)
           /\ IsFraction(policy.ratio) /\ IsFraction(policy.floor)
           /\ IsFraction(policy.phi2) /\ IsFraction(policy.decay)
           /\ \A k \in DOMAIN policy.budgets : IsFraction(policy.budgets[k]) /\ policy.budgets[k][1] > 0
<1>1. \A q \in {policy.ratio, policy.floor, policy.phi2, policy.decay} : IsFraction(q)
  BY PolicyAssumption
<1> QED BY <1>1, PolicyAssumption

\* The envelope that phi is to stay above.
LEMMA TargetIs ==
    ASSUME policy \in Policies, policy.kind # "given", NEW k \in Nat
    PROVE  IsFraction(Target(k))
<1>1. CASE k <= 1 BY <1>1 DEF Target, One, IsFraction
<1>2. CASE k > 1
  <2>1. k - 2 \in Nat BY <1>2
  <2>2. IsFraction(Power(policy.decay, k - 2)) BY <2>1, PolicyIs, PowerIs
  <2>3. IsFraction(Subtract(policy.phi2, policy.floor)) BY PolicyIs, SubtractIs
  <2>4. IsFraction(Multiply(Subtract(policy.phi2, policy.floor), Power(policy.decay, k - 2)))
    BY <2>2, <2>3, AddIs
  <2>5. IsFraction(Add(policy.floor,
                       Multiply(Subtract(policy.phi2, policy.floor), Power(policy.decay, k - 2))))
    BY <2>4, PolicyIs, AddIs
  <2> QED BY <1>2, <2>5 DEF Target
<1> QED BY <1>1, <1>2

\* A level consumes a fraction of phi.
LEMMA ConsumptionIs ==
    ASSUME NEW l \in LevelRecords
    PROVE  IsFraction(Consumption(l))
<1>1. PICK d \in Nat, b \in Nat : d = l.d /\ b = l.b /\ b >= d + 2 BY DEF LevelRecords
<1>2. PICK n \in Int, m \in Int : n = l.phi[1] /\ m = l.phi[2] /\ n > 0 /\ m > 0 BY DEF LevelRecords
<1>3. PICK x \in Int : x = n + m /\ x > 0 BY <1>2
<1>4. PICK y \in Int : y = d + 1 /\ y > 0 BY <1>1
<1>5. PICK z \in Int : z = b - 1 /\ z > 0 BY <1>1
<1>6. x * y \in Int /\ x * y > 0 BY <1>3, <1>4, PositiveProduct
<1>7. n * z \in Int /\ n * z > 0 BY <1>2, <1>5, PositiveProduct
<1>8. (n + 2 * m) * y \in Int BY <1>2, <1>4
<1>9. Consumption(l) = Fraction((n + 2 * m) * y, x * y + n * z)
  BY <1>1, <1>2, <1>3, <1>4, <1>5 DEF Consumption
<1>10. PICK u \in Int, v \in Int : u = x * y /\ v = n * z /\ u > 0 /\ v > 0 BY <1>6, <1>7
<1>11. u + v \in Int /\ u + v > 0 BY <1>10
<1> QED BY <1>8, <1>9, <1>10, <1>11, FractionIs

\* So what is left of phi above levels is a fraction.
LEMMA PhiAboveIs ==
    ASSUME NEW levels \in Seq(LevelRecords)
    PROVE  IsFraction(PhiAbove(levels))
<1> DEFINE n == Len(levels)
           Def(q, k) == Subtract(q, Consumption(levels[k]))
           phi == CHOOSE f : f = [k \in 0 .. n |-> IF k = 0 THEN One
                                                   ELSE Subtract(f[k - 1], Consumption(levels[k]))]
           S == {k \in 0 .. n : IsFraction(phi[k])}
<1>0. n \in Nat /\ \A k \in 1 .. n : levels[k] \in LevelRecords OBVIOUS
<1>1. phi[0] = One /\ \A k \in 0 .. n - 1 : phi[k + 1] = Subtract(phi[k], Consumption(levels[k + 1]))
  <2>1. FiniteNatInductiveDefHypothesis(phi, One, Def, 0, n)
    BY DEF FiniteNatInductiveDefHypothesis
  <2> HIDE DEF Def, phi, n
  <2>2. FiniteNatInductiveDefConclusion(phi, One, Def, 0, n)
    BY <1>0, <2>1, FiniteNatInductiveDef
  <2>3. phi[0] = One /\ \A k \in 1 .. n : phi[k] = Def(phi[k - 1], k)
    BY <1>0, <2>2 DEF FiniteNatInductiveDefConclusion
  <2>4. \A k \in 0 .. n - 1 : k + 1 \in 1 .. n /\ (k + 1) - 1 = k BY <1>0
  <2>5. \A k \in 0 .. n - 1 : phi[k + 1] = Def(phi[k], k + 1) BY <2>3, <2>4
  <2> QED BY <2>3, <2>5 DEF Def
<1>2. PhiAbove(levels) = phi[n] BY DEF PhiAbove
<1> HIDE DEF phi, n
<1>3. 0 \in S
  <2>1. 0 \in 0 .. n BY <1>0
  <2>2. IsFraction(One) BY DEF One, IsFraction
  <2> QED BY <1>1, <2>1, <2>2
<1>4. ASSUME NEW k \in 0 .. n - 1, k \in S PROVE k + 1 \in S
  <2>1. k + 1 \in 1 .. n /\ k + 1 \in 0 .. n BY <1>0
  <2>2. IsFraction(Consumption(levels[k + 1])) BY <1>0, <2>1, ConsumptionIs
  <2>3. IsFraction(phi[k]) BY <1>4
  <2>4. IsFraction(phi[k + 1]) BY <1>1, <2>2, <2>3, SubtractIs
  <2> QED BY <2>1, <2>4
<1> HIDE DEF S
<1>5. n \in S
  <2>1. 0 .. n \subseteq S BY <1>0, <1>3, <1>4, Upwards
  <2> QED BY <1>0, <2>1
<1> QED BY <1>2, <1>5 DEF S

\* The portions are integers.
LEMMA PortionIs ==
    ASSUME NEW a \in Int, NEW n \in Int, NEW m \in Int, m > 0
    PROVE  Portion(a, n, m) \in Int
<1>1. PICK rest \in Int : rest = n % m OBVIOUS
<1>2. PICK u \in Int, v \in Int : u = a \div 1000 /\ v = a % 1000 OBVIOUS
<1>3. PICK w \in Int : w = u * rest BY <1>1, <1>2
<1>4. n \div m \in Int /\ w \div m \in Int /\ w % m \in Int BY <1>3
<1>5. PICK x \in Int, y \in Int, z \in Int : x = n \div m /\ y = w \div m /\ z = w % m BY <1>4
<1>6. PICK t \in Int : t = 1000 * z + v * rest BY <1>1, <1>2, <1>5
<1>7. t \div m \in Int BY <1>6
<1>8. Portion(a, n, m) = a * x + 1000 * y + (t \div m)
  BY <1>1, <1>2, <1>3, <1>5, <1>6 DEF Portion
<1>9. a * x \in Int BY <1>5
<1> QED BY <1>5, <1>7, <1>8, <1>9

-----------------------------------------------------------------------------
(* The values of fractions and their order.                                *)

\* The greatest common divisor divides both.
LEMMA GcdDivides ==
    \A a, b \in Nat : b > 0 =>
      \E x, y \in Nat : a = gcd[<<a, b>>] * x /\ b = gcd[<<a, b>>] * y
<1> DEFINE Good(b) == \A a \in Nat : b > 0 =>
                        \E x, y \in Nat : a = gcd[<<a, b>>] * x /\ b = gcd[<<a, b>>] * y
           S == {n \in Nat : \A b \in 0 .. n : Good(b)}
<1>1. 0 \in S OBVIOUS
<1>2. ASSUME NEW n \in Nat, n \in S PROVE n + 1 \in S
  <2>1. Good(n + 1)
    <3> SUFFICES ASSUME NEW a \in Nat
                 PROVE  \E x, y \in Nat : a = gcd[<<a, n + 1>>] * x /\ n + 1 = gcd[<<a, n + 1>>] * y
      OBVIOUS
    <3>1. PICK m \in Nat : m = n + 1 /\ m > 0 OBVIOUS
    <3>2. PICK r \in Nat, q \in Nat : r = a % m /\ r <= n /\ a = m * q + r
      <4>1. a = m * (a \div m) + (a % m) /\ a \div m \in Nat /\ a % m \in 0 .. m - 1 BY <3>1
      <4> QED BY <3>1, <4>1
    <3>3. gcd[<<a, m>>] = gcd[<<m, r>>] BY <3>1, <3>2, GcdRecursion
    <3>4. CASE r = 0
      <4>1. gcd[<<m, r>>] = m BY <3>1, <3>4, GcdRecursion
      <4>2. a = m * q /\ m = m * 1 BY <3>1, <3>2, <3>4
      <4> QED BY <3>1, <3>3, <4>1, <4>2
    <3>5. CASE r # 0
      <4>1. Good(r) BY <1>2, <3>2
      <4>2. PICK x \in Nat, y \in Nat : m = gcd[<<m, r>>] * x /\ r = gcd[<<m, r>>] * y
        BY <3>1, <3>2, <3>5, <4>1
      <4>3. PICK g : g = gcd[<<m, r>>] OBVIOUS
      <4>4. g \in Nat BY <3>1, <3>2, <3>5, <4>3, GcdBounds
      <4>5. m = g * x /\ r = g * y BY <4>2, <4>3
      <4>6. PICK z \in Nat : z = x * q + y OBVIOUS
      <4>7. a = g * z
        <5>1. m * q = g * (x * q) BY <4>4, <4>5
        <5>2. g * (x * q + y) = g * (x * q) + g * y BY <4>4
        <5> QED BY <3>2, <4>5, <4>6, <5>1, <5>2
      <4> QED BY <3>1, <3>3, <4>3, <4>5, <4>7
    <3> QED BY <3>4, <3>5
  <2>2. \A b \in 0 .. n + 1 : b \in 0 .. n \/ b = n + 1 OBVIOUS
  <2> HIDE DEF Good
  <2>3. \A b \in 0 .. n + 1 : Good(b) BY <1>2, <2>1, <2>2
  <2> QED BY <2>3
<1> HIDE DEF S
<1>3. Nat \subseteq S BY <1>1, <1>2, SetInduction
<1> HIDE DEF Good
<1>4. \A b \in Nat : Good(b) BY <1>3 DEF S
<1> QED BY <1>4 DEF Good

\* A factor can be cancelled.
LEMMA ExactQuotient ==
    ASSUME NEW g \in Int, g > 0, NEW z \in Int
    PROVE  (g * z) \div g = z
<1>1. PICK n \in Int : n = g * z OBVIOUS
<1>2. n = g * (n \div g) + (n % g) /\ n \div g \in Int /\ n % g \in 0 .. g - 1 BY <1>1
<1>3. PICK q \in Int, r \in Int : q = n \div g /\ r = n % g /\ n = g * q + r /\ 0 <= r /\ r < g
  BY <1>2
<1>4. g * (z - q) = r BY <1>1, <1>3
<1>5. PICK w \in Int : w = z - q OBVIOUS
<1>6. g * w = r BY <1>4, <1>5
<1>7. w >= 1 => g * w >= g BY <1>5
<1>8. w <= -1 => g * w <= -g BY <1>5
<1>9. w = 0 BY <1>3, <1>6, <1>7, <1>8
<1> QED BY <1>1, <1>3, <1>5, <1>9

\* A fraction in its lowest terms has the value of the fraction it comes from.
LEMMA FractionValue ==
    ASSUME NEW n \in Int, NEW m \in Int, m > 0
    PROVE  \E g, x, y \in Int : g > 0 /\ y > 0 /\ n = g * x /\ m = g * y /\ Fraction(n, m) = <<x, y>>
<1>1. PICK a \in Nat : a = IF n < 0 THEN -n ELSE n OBVIOUS
<1>2. PICK g : g = gcd[<<a, m>>] OBVIOUS
<1>3. g \in Int /\ g > 0 BY <1>2, GcdBounds
<1>4. PICK u \in Nat, y \in Nat : a = g * u /\ m = g * y
  <2>1. m \in Nat OBVIOUS
  <2> QED BY <1>2, <2>1, GcdDivides
<1>5. PICK x \in Int : n = g * x
  <2>1. n = a \/ n = -a BY <1>1
  <2>2. g * (-u) = -(g * u) /\ -u \in Int BY <1>3
  <2> QED BY <1>4, <2>1, <2>2
<1>6. y > 0
  <2>1. y = 0 => g * y = 0 BY <1>3
  <2> QED BY <1>4, <2>1
<1>7. n \div g = x /\ m \div g = y BY <1>3, <1>4, <1>5, ExactQuotient
<1>8. Fraction(n, m) = <<x, y>> BY <1>1, <1>2, <1>7 DEF Fraction
<1> QED BY <1>3, <1>4, <1>5, <1>6, <1>8

\* A difference has the value it should have.
LEMMA SubtractValue ==
    ASSUME NEW a \in Int, NEW b \in Int, b > 0, NEW c \in Int, NEW d \in Int, d > 0
    PROVE  \E x, y \in Int : /\ Subtract(<<a, b>>, <<c, d>>) = <<x, y>> /\ y > 0
                             /\ x * (b * d) = (a * d - c * b) * y
<1>1. PICK g : g = gcd[<<b, d>>] OBVIOUS
<1>2. g \in Int /\ g > 0 BY <1>1, GcdBounds
<1>3. PICK f \in Nat, e \in Nat : b = g * f /\ d = g * e
  <2>1. b \in Nat /\ d \in Nat OBVIOUS
  <2> QED BY <1>1, <2>1, GcdDivides
<1>4. b \div g = f /\ d \div g = e BY <1>2, <1>3, ExactQuotient
<1>5. f > 0
  <2>1. f = 0 => g * f = 0 BY <1>2
  <2> QED BY <1>3, <2>1
<1>6. Subtract(<<a, b>>, <<c, d>>) = Fraction(a * e - c * f, f * d)
  BY <1>1, <1>4 DEF Subtract
<1>7. PICK n \in Int, m \in Int : n = a * e - c * f /\ m = f * d /\ m > 0
  BY <1>5, PositiveProduct
<1>8. PICK h \in Int, x \in Int, y \in Int : h > 0 /\ y > 0 /\ n = h * x /\ m = h * y /\ Fraction(n, m) = <<x, y>>
  BY <1>7, FractionValue
<1>9. x * (b * d) = (a * d - c * b) * y
  <2>1. x * (b * d) = g * (x * (f * d)) BY <1>2, <1>3
  <2>2. g * (x * (f * d)) = g * (x * (h * y)) BY <1>7, <1>8
  <2>3. g * (x * (h * y)) = g * ((h * x) * y) BY <1>2
  <2>4. g * ((h * x) * y) = g * ((a * e - c * f) * y) BY <1>7, <1>8
  <2>5. g * ((a * e - c * f) * y) = (a * (g * e) - c * (g * f)) * y BY <1>2
  <2> QED BY <1>3, <2>1, <2>2, <2>3, <2>4, <2>5
<1> QED BY <1>6, <1>7, <1>8, <1>9

\* Numbers that are equal but for positive factors have the same sign.
LEMMA SameSign ==
    ASSUME NEW x \in Int, NEW y \in Int, NEW u \in Int, u > 0, NEW v \in Int, v > 0, x * u = y * v
    PROVE  x > 0 <=> y > 0
<1>1. x > 0 => x * u > 0 BY PositiveProduct
<1>2. y > 0 => y * v > 0 BY PositiveProduct
<1>3. x <= 0 => x * u <= 0
  <2>1. x <= 0 => (-x) * u >= 0 OBVIOUS
  <2> QED BY <2>1
<1>4. y <= 0 => y * v <= 0
  <2>1. y <= 0 => (-y) * v >= 0 OBVIOUS
  <2> QED BY <2>1
<1> QED BY <1>1, <1>2, <1>3, <1>4

\* Positive factors are cancelled from both sides of an inequality.
LEMMA FactorCancels ==
    ASSUME NEW x \in Int, NEW y \in Int, NEW u \in Int, u > 0
    PROVE  x * u < y * u <=> x < y
<1>1. (y - x) * u > 0 <=> y - x > 0
  <2>1. PICK w \in Int : w = y - x OBVIOUS
  <2>2. PICK p \in Int : p = w * u OBVIOUS
  <2>3. p * 1 = w * u BY <2>2
  <2>4. w > 0 <=> p > 0 BY <2>3, SameSign
  <2> QED BY <2>1, <2>2, <2>4
<1>2. (y - x) * u = y * u - x * u OBVIOUS
<1>3. x * u \in Int /\ y * u \in Int OBVIOUS
<1> QED BY <1>1, <1>2, <1>3

\* The sign of a difference tells the order.
LEMMA DifferenceSign ==
    ASSUME NEW p, IsFraction(p), NEW q, IsFraction(q)
    PROVE  /\ IsFraction(Subtract(p, q))
           /\ Subtract(p, q)[1] > 0 <=> Less(q, p)
           /\ NotLess(p, q) <=> ~ Less(p, q)
<1>1. PICK a \in Int, b \in Int : p = <<a, b>> /\ b > 0 BY DEF IsFraction
<1>2. PICK c \in Int, d \in Int : q = <<c, d>> /\ d > 0 BY DEF IsFraction
<1>3. PICK x \in Int, y \in Int : /\ Subtract(<<a, b>>, <<c, d>>) = <<x, y>> /\ y > 0
                                  /\ x * (b * d) = (a * d - c * b) * y
  BY <1>1, <1>2, SubtractValue
<1>4. PICK u \in Int, v \in Int : u = b * d /\ v = a * d - c * b /\ u > 0
  BY <1>1, <1>2, PositiveProduct
<1>5. x > 0 <=> v > 0 BY <1>3, <1>4, SameSign
<1>6. -x > 0 <=> -v > 0
  <2>1. (-x) * u = (-v) * y BY <1>3, <1>4
  <2>2. -x \in Int /\ -v \in Int OBVIOUS
  <2> QED BY <1>3, <1>4, <2>1, <2>2, SameSign
<1>7. a * d \in Int /\ c * b \in Int OBVIOUS
<1>8. Subtract(p, q) = <<x, y>> BY <1>1, <1>2, <1>3
<1>9. (Less(q, p) <=> c * b < a * d) /\ (Less(p, q) <=> a * d < c * b)
  BY <1>1, <1>2 DEF Less
<1>10. NotLess(p, q) <=> x >= 0 BY <1>8 DEF NotLess
<1>11. IsFraction(Subtract(p, q)) BY <1>3, <1>8 DEF IsFraction
<1> QED BY <1>4, <1>5, <1>6, <1>7, <1>8, <1>9, <1>10, <1>11

\* The order of fractions is transitive.
LEMMA LessTransitive ==
    ASSUME NEW p, IsFraction(p), NEW q, IsFraction(q), NEW t, IsFraction(t),
           ~ Less(p, q), Less(t, q)
    PROVE  Less(t, p)
<1>1. PICK a \in Int, b \in Int : p = <<a, b>> /\ b > 0 BY DEF IsFraction
<1>2. PICK c \in Int, d \in Int : q = <<c, d>> /\ d > 0 BY DEF IsFraction
<1>3. PICK e \in Int, f \in Int : t = <<e, f>> /\ f > 0 BY DEF IsFraction
<1>4. ~ (a * d < c * b) /\ e * d < c * f BY <1>1, <1>2, <1>3 DEF Less
<1>5. (e * d) * b < (c * f) * b
  <2>1. e * d \in Int /\ c * f \in Int OBVIOUS
  <2> QED BY <1>1, <1>4, <2>1, FactorCancels
<1>6. ~ ((a * d) * f < (c * b) * f)
  <2>1. a * d \in Int /\ c * b \in Int OBVIOUS
  <2> QED BY <1>3, <1>4, <2>1, FactorCancels
<1>7. (e * b) * d < (a * f) * d
  <2>1. (e * d) * b = (e * b) * d /\ (c * f) * b = (c * b) * f /\ (a * d) * f = (a * f) * d OBVIOUS
  <2>2. (e * b) * d \in Int /\ (c * b) * f \in Int /\ (a * f) * d \in Int OBVIOUS
  <2> QED BY <1>5, <1>6, <2>1, <2>2
<1>8. e * b < a * f
  <2>1. e * b \in Int /\ a * f \in Int OBVIOUS
  <2> QED BY <1>2, <1>7, <2>1, FactorCancels
<1> QED BY <1>1, <1>3, <1>8 DEF Less

\* Consuming no more than is left above something leaves no less than it.
LEMMA SubtractSwaps ==
    ASSUME NEW p, IsFraction(p), NEW q, IsFraction(q), NEW t, IsFraction(t),
           ~ Less(Subtract(p, t), q)
    PROVE  ~ Less(Subtract(p, q), t)
<1>1. PICK a \in Int, b \in Int : p = <<a, b>> /\ b > 0 BY DEF IsFraction
<1>2. PICK c \in Int, d \in Int : q = <<c, d>> /\ d > 0 BY DEF IsFraction
<1>3. PICK e \in Int, f \in Int : t = <<e, f>> /\ f > 0 BY DEF IsFraction
<1>4. PICK x \in Int, y \in Int : /\ Subtract(<<a, b>>, <<e, f>>) = <<x, y>> /\ y > 0
                                  /\ x * (b * f) = (a * f - e * b) * y
  BY <1>1, <1>3, SubtractValue
<1>5. PICK z \in Int, w \in Int : /\ Subtract(<<a, b>>, <<c, d>>) = <<z, w>> /\ w > 0
                                  /\ z * (b * d) = (a * d - c * b) * w
  BY <1>1, <1>2, SubtractValue
<1>6. ~ (x * d < c * y) BY <1>1, <1>2, <1>3, <1>4 DEF Less
<1>7. SUFFICES ~ (z * f < e * w) BY <1>1, <1>2, <1>3, <1>5 DEF Less
<1>8. PICK m \in Int : m = (a * f - e * b) * d - c * (b * f) OBVIOUS
<1>9. (x * d - c * y) * (b * f) = m * y
  <2>1. (x * d - c * y) * (b * f) = (x * (b * f)) * d - (c * (b * f)) * y OBVIOUS
  <2>2. m * y = ((a * f - e * b) * y) * d - (c * (b * f)) * y BY <1>8
  <2> QED BY <1>4, <2>1, <2>2
<1>10. (z * f - e * w) * (b * d) = m * w
  <2>1. (z * f - e * w) * (b * d) = (z * (b * d)) * f - (e * (b * d)) * w OBVIOUS
  <2>2. ((a * d - c * b) * w) * f - (e * (b * d)) * w = ((a * d - c * b) * f - e * (b * d)) * w OBVIOUS
  <2>3. (a * d - c * b) * f - e * (b * d) = m BY <1>8
  <2> QED BY <1>5, <2>1, <2>2, <2>3
<1>11. PICK u \in Int, v \in Int : u = b * f /\ v = b * d /\ u > 0 /\ v > 0
  BY <1>1, <1>2, <1>3, PositiveProduct
<1>12. PICK k \in Int, l \in Int : k = c * y - x * d /\ l = e * w - z * f OBVIOUS
<1>13. k > 0 <=> -m > 0
  <2>1. k * u = (-m) * y BY <1>9, <1>11, <1>12
  <2> QED BY <1>4, <1>11, <2>1, SameSign
<1>14. l > 0 <=> -m > 0
  <2>1. l * v = (-m) * w BY <1>10, <1>11, <1>12
  <2> QED BY <1>5, <1>11, <2>1, SameSign
<1>15. x * d \in Int /\ c * y \in Int /\ z * f \in Int /\ e * w \in Int OBVIOUS
<1> QED BY <1>6, <1>12, <1>13, <1>14, <1>15

\* The more is subtracted the less is left.
LEMMA SubtractOrders ==
    ASSUME NEW p, IsFraction(p), NEW q, IsFraction(q), NEW t, IsFraction(t), Less(q, t)
    PROVE  Less(Subtract(p, t), Subtract(p, q))
<1>1. PICK a \in Int, b \in Int : p = <<a, b>> /\ b > 0 BY DEF IsFraction
<1>2. PICK c \in Int, d \in Int : q = <<c, d>> /\ d > 0 BY DEF IsFraction
<1>3. PICK e \in Int, f \in Int : t = <<e, f>> /\ f > 0 BY DEF IsFraction
<1>4. PICK x \in Int, y \in Int : /\ Subtract(<<a, b>>, <<c, d>>) = <<x, y>> /\ y > 0
                                  /\ x * (b * d) = (a * d - c * b) * y
  BY <1>1, <1>2, SubtractValue
<1>5. PICK z \in Int, w \in Int : /\ Subtract(<<a, b>>, <<e, f>>) = <<z, w>> /\ w > 0
                                  /\ z * (b * f) = (a * f - e * b) * w
  BY <1>1, <1>3, SubtractValue
<1>6. c * f < e * d BY <1>2, <1>3 DEF Less
<1>7. SUFFICES z * y < x * w BY <1>1, <1>2, <1>3, <1>4, <1>5 DEF Less
<1>8. PICK k \in Int, l \in Int : k = x * w - z * y /\ l = e * d - c * f OBVIOUS
<1>9. PICK u \in Int, v \in Int : u = (b * d) * (b * f) /\ v = (y * w) * (b * b) /\ u > 0 /\ v > 0
  BY <1>1, <1>2, <1>3, <1>4, <1>5, PositiveProduct
<1>10. k * u = l * v
  <2>1. k * u = (x * (b * d)) * (w * (b * f)) - (z * (b * f)) * (y * (b * d)) BY <1>8, <1>9
  <2>2. k * u = ((a * d - c * b) * y) * (w * (b * f)) - ((a * f - e * b) * w) * (y * (b * d))
    BY <1>4, <1>5, <2>1
  <2>3. ((a * d - c * b) * y) * (w * (b * f)) - ((a * f - e * b) * w) * (y * (b * d))
          = (e * d - c * f) * ((y * w) * (b * b))
    OBVIOUS
  <2> QED BY <1>8, <1>9, <2>2, <2>3
<1>11. k > 0 <=> l > 0 BY <1>9, <1>10, SameSign
<1>12. x * w \in Int /\ z * y \in Int /\ e * d \in Int /\ c * f \in Int OBVIOUS
<1> QED BY <1>6, <1>8, <1>11, <1>12

\* The more is added the more it gets, and what is positive stays so.
LEMMA AddOrders ==
    ASSUME NEW p, IsFraction(p), NEW q, IsFraction(q)
    PROVE  /\ p[1] > 0 /\ q[1] > 0 => Add(p, q)[1] > 0
           /\ \A t : IsFraction(t) /\ Less(q, t) => Less(Add(p, q), Add(p, t))
<1> DEFINE Minus(t) == <<-t[1], t[2]>>
<1>1. \A t : IsFraction(t) => IsFraction(Minus(t)) BY DEF IsFraction
<1>2. \A t : Add(p, t) = Subtract(p, Minus(t)) BY DEF Add
<1>3. ASSUME p[1] > 0, q[1] > 0 PROVE Add(p, q)[1] > 0
  <2>1. PICK a \in Int, b \in Int : p = <<a, b>> /\ b > 0 BY DEF IsFraction
  <2>2. PICK c \in Int, d \in Int : q = <<c, d>> /\ d > 0 BY DEF IsFraction
  <2>3. a > 0 /\ c > 0 BY <1>3, <2>1, <2>2
  <2>4. a * d > 0 /\ c * b > 0 /\ a * d \in Int /\ c * b \in Int BY <2>1, <2>2, <2>3, PositiveProduct
  <2>5. (-c) * b = -(c * b) OBVIOUS
  <2>6. (-c) * b < a * d BY <2>4, <2>5
  <2>7. Minus(q) = <<-c, d>> BY <2>2
  <2>8. Less(Minus(q), p) BY <2>1, <2>6, <2>7 DEF Less
  <2> QED BY <1>1, <1>2, <2>8, DifferenceSign
<1>4. ASSUME NEW t, IsFraction(t), Less(q, t) PROVE Less(Add(p, q), Add(p, t))
  <2>1. Less(Minus(t), Minus(q))
    <3>1. PICK c \in Int, d \in Int : q = <<c, d>> /\ d > 0 BY DEF IsFraction
    <3>2. PICK e \in Int, f \in Int : t = <<e, f>> /\ f > 0 BY <1>4 DEF IsFraction
    <3>3. c * f < e * d BY <1>4, <3>1, <3>2 DEF Less
    <3>4. (-e) * d = -(e * d) /\ (-c) * f = -(c * f) /\ e * d \in Int /\ c * f \in Int OBVIOUS
    <3>5. (-e) * d < (-c) * f BY <3>3, <3>4
    <3> QED BY <3>1, <3>2, <3>5 DEF Less
  <2> QED BY <1>1, <1>2, <1>4, <2>1, SubtractOrders
<1> QED BY <1>3, <1>4

\* A positive factor keeps the order, and what is positive stays so.
LEMMA MultiplyOrders ==
    ASSUME NEW p, IsFraction(p), p[1] > 0, NEW q, IsFraction(q)
    PROVE  /\ q[1] > 0 => Multiply(p, q)[1] > 0
           /\ \A t : IsFraction(t) /\ Less(q, t) => Less(Multiply(p, q), Multiply(p, t))
<1>1. PICK a \in Int, b \in Int : p = <<a, b>> /\ b > 0 /\ a > 0 BY DEF IsFraction
<1>2. PICK c \in Int, d \in Int : q = <<c, d>> /\ d > 0 BY DEF IsFraction
<1>3. PICK n \in Int, m \in Int : n = a * c /\ m = b * d /\ m > 0 BY <1>1, <1>2, PositiveProduct
<1>4. PICK h \in Int, x \in Int, y \in Int : h > 0 /\ y > 0 /\ n = h * x /\ m = h * y /\ Fraction(n, m) = <<x, y>>
  BY <1>3, FractionValue
<1>5. Multiply(p, q) = <<x, y>> BY <1>1, <1>2, <1>3, <1>4 DEF Multiply
<1>6. ASSUME q[1] > 0 PROVE Multiply(p, q)[1] > 0
  <2>1. n > 0 BY <1>1, <1>2, <1>3, <1>6, PositiveProduct
  <2>2. n * 1 = x * h BY <1>3, <1>4
  <2>3. x > 0 BY <1>4, <2>1, <2>2, SameSign
  <2> QED BY <1>5, <2>3
<1>7. ASSUME NEW t, IsFraction(t), Less(q, t) PROVE Less(Multiply(p, q), Multiply(p, t))
  <2>1. PICK e \in Int, f \in Int : t = <<e, f>> /\ f > 0 BY <1>7 DEF IsFraction
  <2>2. PICK r \in Int, s \in Int : r = a * e /\ s = b * f /\ s > 0 BY <1>1, <2>1, PositiveProduct
  <2>3. PICK g \in Int, z \in Int, w \in Int : g > 0 /\ w > 0 /\ r = g * z /\ s = g * w /\ Fraction(r, s) = <<z, w>>
    BY <2>2, FractionValue
  <2>4. Multiply(p, t) = <<z, w>> BY <1>1, <2>1, <2>2, <2>3 DEF Multiply
  <2>5. c * f < e * d BY <1>2, <1>7, <2>1 DEF Less
  <2>6. PICK k \in Int, l \in Int : k = z * y - x * w /\ l = e * d - c * f OBVIOUS
  <2>7. PICK u \in Int, v \in Int : u = h * g /\ v = a * b /\ u > 0 /\ v > 0
    BY <1>1, <1>4, <2>3, PositiveProduct
  <2>8. k * u = l * v
    <3>1. k * u = (g * z) * (h * y) - (h * x) * (g * w) BY <2>6, <2>7
    <3>2. k * u = r * m - n * s BY <1>4, <2>3, <3>1
    <3>3. r * m - n * s = (a * e) * (b * d) - (a * c) * (b * f) BY <1>3, <2>2
    <3>4. (a * e) * (b * d) - (a * c) * (b * f) = (e * d - c * f) * (a * b) OBVIOUS
    <3> QED BY <2>6, <2>7, <3>2, <3>3, <3>4
  <2>9. k > 0 <=> l > 0 BY <2>7, <2>8, SameSign
  <2>10. z * y \in Int /\ x * w \in Int /\ e * d \in Int /\ c * f \in Int OBVIOUS
  <2>11. x * w < z * y BY <2>5, <2>6, <2>9, <2>10
  <2> QED BY <1>5, <2>4, <2>11 DEF Less
<1> QED BY <1>6, <1>7

\* What is added to a smaller number to get a larger one leads to the larger one.
LEMMA AddsBackBelow ==
    ASSUME NEW p, IsFraction(p), NEW q, IsFraction(q), p[1] < p[2]
    PROVE  Less(Add(q, Multiply(Subtract(p, q), One)), One)
<1>1. PICK a \in Int, b \in Int : p = <<a, b>> /\ b > 0 /\ a < b BY DEF IsFraction
<1>2. PICK c \in Int, d \in Int : q = <<c, d>> /\ d > 0 BY DEF IsFraction
<1>3. PICK x \in Int, y \in Int : /\ Subtract(<<a, b>>, <<c, d>>) = <<x, y>> /\ y > 0
                                  /\ x * (b * d) = (a * d - c * b) * y
  BY <1>1, <1>2, SubtractValue
<1>4. PICK h \in Int, z \in Int, w \in Int : h > 0 /\ w > 0 /\ x = h * z /\ y = h * w /\ Fraction(x, y) = <<z, w>>
  BY <1>3, FractionValue
<1>5. Multiply(Subtract(p, q), One) = <<z, w>>
  <2>1. x * 1 = x /\ y * 1 = y OBVIOUS
  <2> QED BY <1>1, <1>2, <1>3, <1>4, <2>1 DEF Multiply, One
<1>6. PICK s \in Int, t \in Int : /\ Subtract(<<c, d>>, <<-z, w>>) = <<s, t>> /\ t > 0
                                  /\ s * (d * w) = (c * w - (-z) * d) * t
  <2>1. PICK r \in Int : r = -z OBVIOUS
  <2>2. PICK s \in Int, t \in Int : /\ Subtract(<<c, d>>, <<r, w>>) = <<s, t>> /\ t > 0
                                    /\ s * (d * w) = (c * w - r * d) * t
    <3>1. d > 0 /\ w > 0 BY <1>2, <1>4
    <3> QED BY <3>1, SubtractValue
  <2> QED BY <2>1, <2>2
<1>7. Add(q, <<z, w>>) = <<s, t>> BY <1>2, <1>6 DEF Add
<1>8. SUFFICES s < t BY <1>5, <1>7 DEF Less, One
<1>9. PICK k \in Int, l \in Int : k = t - s /\ l = b - a OBVIOUS
<1>10. PICK u \in Int, v \in Int : u = (d * w) * (h * b) /\ v = t * (d * y) /\ u > 0 /\ v > 0
  BY <1>1, <1>2, <1>3, <1>4, <1>6, PositiveProduct
<1>11. k * u = l * v
  <2>1. s * u = ((c * w + z * d) * t) * (h * b)
    <3>1. s * u = (s * (d * w)) * (h * b) BY <1>10
    <3>2. c * w - (-z) * d = c * w + z * d OBVIOUS
    <3> QED BY <1>6, <3>1, <3>2
  <2>2. ((c * w + z * d) * t) * (h * b) = t * (c * (h * w) * b + (h * z) * (b * d)) OBVIOUS
  <2>3. s * u = t * (c * y * b + x * (b * d)) BY <1>4, <2>1, <2>2
  <2>4. t * (c * y * b + (a * d - c * b) * y) = t * (a * d * y) OBVIOUS
  <2>5. s * u = t * (a * d * y) BY <1>3, <2>3, <2>4
  <2>6. t * u = t * (b * (d * (h * w))) BY <1>10
  <2>7. t * u = t * (b * (d * y)) BY <1>4, <2>6
  <2>8. k * u = t * u - s * u BY <1>9
  <2>9. l * v = t * (b * (d * y)) - t * (a * d * y) BY <1>9, <1>10
  <2> QED BY <2>5, <2>7, <2>8, <2>9
<1>12. k > 0 <=> l > 0 BY <1>10, <1>11, SameSign
<1> QED BY <1>1, <1>9, <1>12

\* Powers, one by one.
LEMMA PowerUp ==
    ASSUME NEW q, NEW n \in Nat
    PROVE  /\ Power(q, 0) = One
           /\ Power(q, n + 1) = <<Power(q, n)[1] * q[1], Power(q, n)[2] * q[2]>>
<1> DEFINE Def(r, k) == <<r[1] * q[1], r[2] * q[2]>>
           f(m) == CHOOSE g : g = [k \in 0 .. m |-> IF k = 0 THEN One
                                                    ELSE <<g[k - 1][1] * q[1], g[k - 1][2] * q[2]>>]
           S == {k \in 0 .. n : f(n + 1)[k] = f(n)[k]}
<1>1. ASSUME NEW m \in Nat
      PROVE  f(m)[0] = One /\ \A k \in 0 .. m - 1 : f(m)[k + 1] = Def(f(m)[k], k + 1)
  <2> DEFINE g == f(m)
  <2>1. FiniteNatInductiveDefHypothesis(g, One, Def, 0, m)
    BY DEF FiniteNatInductiveDefHypothesis
  <2> HIDE DEF Def, f
  <2>2. FiniteNatInductiveDefConclusion(g, One, Def, 0, m)
    BY <2>1, FiniteNatInductiveDef
  <2>3. g[0] = One /\ \A k \in 1 .. m : g[k] = Def(g[k - 1], k)
    BY <2>2 DEF FiniteNatInductiveDefConclusion
  <2>4. \A k \in 0 .. m - 1 : k + 1 \in 1 .. m /\ (k + 1) - 1 = k OBVIOUS
  <2> QED BY <2>3, <2>4
<1>2. \A m \in Nat : Power(q, m) = f(m)[m] BY DEF Power
<1>3. Power(q, 0) = One BY <1>1, <1>2
<1> HIDE DEF f
<1>4. 0 \in S BY <1>1
<1>5. ASSUME NEW k \in 0 .. n - 1, k \in S PROVE k + 1 \in S
  <2>1. f(n + 1)[k] = f(n)[k] /\ k \in 0 .. (n + 1) - 1 /\ k + 1 \in 0 .. n BY <1>5
  <2>2. f(n + 1)[k + 1] = Def(f(n + 1)[k], k + 1) /\ f(n)[k + 1] = Def(f(n)[k], k + 1) BY <1>1, <2>1
  <2> QED BY <2>1, <2>2
<1> HIDE DEF S
<1>6. n \in S
  <2>1. 0 .. n \subseteq S BY <1>4, <1>5, Upwards
  <2> QED BY <2>1
<1>7. f(n + 1)[n] = f(n)[n] BY <1>6 DEF S
<1>8. f(n + 1)[n + 1] = Def(f(n + 1)[n], n + 1) BY <1>1
<1>9. Power(q, n) = f(n)[n] /\ Power(q, n + 1) = f(n + 1)[n + 1] BY <1>2
<1> QED BY <1>3, <1>7, <1>8, <1>9

\* The powers of a fraction between 0 and 1 are positive and fall.
LEMMA PowersFall ==
    ASSUME NEW q, IsFraction(q), q[1] > 0, q[1] < q[2], NEW n \in Nat
    PROVE  Power(q, n)[1] > 0 /\ Less(Power(q, n + 1), Power(q, n))
<1> DEFINE S == {k \in 0 .. n : Power(q, k)[1] > 0}
<1>1. PICK c \in Int, d \in Int : q = <<c, d>> /\ c > 0 /\ d > 0 /\ c < d BY DEF IsFraction
<1>2. 0 \in S BY PowerUp DEF One
<1>3. ASSUME NEW k \in 0 .. n - 1, k \in S PROVE k + 1 \in S
  <2>1. k \in Nat /\ k + 1 \in 0 .. n OBVIOUS
  <2>2. PICK x \in Int : x = Power(q, k)[1] BY <2>1, PowerIs DEF IsFraction
  <2>3. x > 0 BY <1>3, <2>2
  <2>4. Power(q, k + 1) = <<x * c, Power(q, k)[2] * d>> BY <1>1, <2>1, <2>2, PowerUp
  <2>5. x * c > 0 BY <1>1, <2>3, PositiveProduct
  <2> QED BY <2>1, <2>4, <2>5
<1> HIDE DEF S
<1>4. n \in S
  <2>1. 0 .. n \subseteq S BY <1>2, <1>3, Upwards
  <2> QED BY <2>1
<1>5. PICK x \in Int, y \in Int : Power(q, n) = <<x, y>> /\ y > 0
  <2>1. PICK p : p = Power(q, n) OBVIOUS
  <2>2. IsFraction(p) BY <2>1, PowerIs
  <2>3. p = <<p[1], p[2]>> /\ p[1] \in Int /\ p[2] \in Int /\ p[2] > 0 BY <2>2 DEF IsFraction
  <2> QED BY <2>1, <2>3
<1>6. x > 0 BY <1>4, <1>5 DEF S
<1>7. Power(q, n + 1) = <<x * c, y * d>> BY <1>1, <1>5, PowerUp
<1>8. (x * c) * y < x * (y * d)
  <2>1. (x * c) * y = c * (x * y) /\ x * (y * d) = d * (x * y) OBVIOUS
  <2>2. x * y > 0 /\ x * y \in Int BY <1>5, <1>6, PositiveProduct
  <2>3. c * (x * y) < d * (x * y) BY <1>1, <2>2, FactorCancels
  <2> QED BY <2>1, <2>3
<1> QED BY <1>5, <1>6, <1>7, <1>8 DEF Less

\* The envelope is positive and falls, from 1 on.
LEMMA TargetsFall ==
    ASSUME policy \in Policies, policy.kind = "sequence", NEW k \in Nat \ {0}
    PROVE  Target(k)[1] > 0 /\ Less(Target(k + 1), Target(k))
<1> DEFINE lift == Subtract(policy.phi2, policy.floor)
           Curve(n) == Add(policy.floor, Multiply(lift, Power(policy.decay, n)))
<1>1. /\ IsFraction(policy.floor) /\ IsFraction(policy.phi2) /\ IsFraction(policy.decay)
      /\ policy.floor[1] > 0 /\ Less(policy.floor, policy.phi2) /\ policy.phi2[1] < policy.phi2[2]
      /\ policy.decay[1] > 0 /\ policy.decay[1] < policy.decay[2]
  BY PolicyIs, PolicyAssumption
<1>2. IsFraction(lift) /\ lift[1] > 0 BY <1>1, DifferenceSign
<1>3. \A n \in Nat : n > 1 => Target(n) = Curve(n - 2) BY DEF Target
<1> HIDE DEF lift
<1>4. ASSUME NEW n \in Nat
      PROVE  Curve(n)[1] > 0 /\ Less(Curve(n + 1), Curve(n))
  <2>1. /\ IsFraction(Power(policy.decay, n)) /\ IsFraction(Power(policy.decay, n + 1))
        /\ Power(policy.decay, n)[1] > 0
        /\ Less(Power(policy.decay, n + 1), Power(policy.decay, n))
    <3>1. n + 1 \in Nat OBVIOUS
    <3> QED BY <1>1, <3>1, PowerIs, PowersFall
  <2>2. PICK r, s : r = Multiply(lift, Power(policy.decay, n)) /\ s = Multiply(lift, Power(policy.decay, n + 1))
    OBVIOUS
  <2>3. IsFraction(r) /\ IsFraction(s) BY <1>2, <2>1, <2>2, AddIs
  <2>4. r[1] > 0 /\ Less(s, r) BY <1>2, <2>1, <2>2, MultiplyOrders
  <2>5. Add(policy.floor, r)[1] > 0 /\ Less(Add(policy.floor, s), Add(policy.floor, r))
    BY <1>1, <2>3, <2>4, AddOrders
  <2> QED BY <2>2, <2>5
<1>5. CASE k = 1
  <2>1. Target(k) = One BY <1>5 DEF Target
  <2>2. Target(k + 1) = Curve(0) BY <1>3, <1>5
  <2>3. Power(policy.decay, 0) = One BY PowerUp
  <2>4. Less(Curve(0), One) BY <1>1, <2>3, AddsBackBelow DEF lift
  <2> QED BY <2>1, <2>2, <2>4 DEF One
<1>6. CASE k > 1
  <2>1. k - 2 \in Nat /\ (k + 1) - 2 = (k - 2) + 1 BY <1>6
  <2>2. Target(k) = Curve(k - 2) /\ Target(k + 1) = Curve((k - 2) + 1) BY <1>3, <1>6, <2>1
  <2> HIDE DEF Curve
  <2> QED BY <1>4, <1>6, <2>1, <2>2
<1> QED BY <1>5, <1>6

\* A portion is the floor of what it is a portion of.
LEMMA PortionAbove ==
    ASSUME NEW a \in Int, NEW n \in Int, NEW m \in Int, m > 0
    PROVE  a * n < m * (Portion(a, n, m) + 1)
<1>1. PICK rest \in Int, x \in Int : rest = n % m /\ x = n \div m /\ n = m * x + rest
  OBVIOUS
<1>2. PICK u \in Int, v \in Int : u = a \div 1000 /\ v = a % 1000 /\ a = 1000 * u + v OBVIOUS
<1>3. PICK w \in Int : w = u * rest BY <1>1, <1>2
<1>4. PICK y \in Int, z \in Int : y = w \div m /\ z = w % m /\ w = m * y + z OBVIOUS
<1>5. PICK t \in Int : t = 1000 * z + v * rest OBVIOUS
<1>6. PICK k \in Int, r \in Int : k = t \div m /\ t = m * k + r /\ r < m
  <2>1. t = m * (t \div m) + (t % m) /\ t \div m \in Int /\ t % m \in 0 .. m - 1 OBVIOUS
  <2> QED BY <2>1
<1>7. Portion(a, n, m) = a * x + 1000 * y + k
  BY <1>1, <1>2, <1>3, <1>4, <1>5, <1>6 DEF Portion
<1>8. m * (a * x + 1000 * y + k) = a * n - r
  <2>1. m * (a * x + 1000 * y + k) = a * (m * x) + 1000 * (m * y) + m * k OBVIOUS
  <2>2. a * (m * x) = a * n - a * rest
    <3>1. a * n = a * (m * x + rest) BY <1>1
    <3> QED BY <3>1
  <2>3. 1000 * (m * y) = 1000 * w - 1000 * z BY <1>4
  <2>4. a * rest = 1000 * w + v * rest
    <3>1. a * rest = (1000 * u + v) * rest BY <1>2
    <3>2. (1000 * u + v) * rest = 1000 * (u * rest) + v * rest OBVIOUS
    <3> QED BY <1>3, <3>1, <3>2
  <2>5. m * k = 1000 * z + v * rest - r BY <1>5, <1>6
  <2>6. PICK A \in Int, B \in Int, C \in Int, D \in Int :
          A = a * (m * x) /\ B = a * n /\ C = a * rest /\ D = v * rest OBVIOUS
  <2>7. PICK E \in Int : E = m * k OBVIOUS
  <2>8. PICK F \in Int : F = 1000 * (m * y) OBVIOUS
  <2>9. A = B - C /\ F = 1000 * w - 1000 * z /\ C = 1000 * w + D /\ E = 1000 * z + D - r
    BY <2>2, <2>3, <2>4, <2>5, <2>6, <2>7, <2>8
  <2>10. A + F + E = B - r BY <2>9
  <2> QED BY <2>1, <2>6, <2>7, <2>8, <2>10
<1>9. PICK p \in Int : p = a * x + 1000 * y + k OBVIOUS
<1>10. m * (p + 1) = m * p + m OBVIOUS
<1>11. a * n \in Int /\ m * p \in Int OBVIOUS
<1> QED BY <1>6, <1>7, <1>8, <1>9, <1>10, <1>11

\* A level whose buffer is beyond the threshold of a budget consumes no more than the budget.
LEMMA WithinBudget ==
    ASSUME NEW l \in LevelRecords, NEW p \in Int, p > 0, NEW q \in Int, q > 0,
           l.b - 1 > Portion(l.d + 1, (l.phi[1] + 2 * l.phi[2]) * q - (l.phi[1] + l.phi[2]) * p,
                             l.phi[1] * p)
    PROVE  ~ Less(<<p, q>>, Consumption(l))
<1>1. PICK d \in Nat, b \in Nat : d = l.d /\ b = l.b /\ b >= d + 2 BY DEF LevelRecords
<1>2. PICK n \in Int, m \in Int : n = l.phi[1] /\ m = l.phi[2] /\ n > 0 /\ m > 0 BY DEF LevelRecords
<1>3. PICK D \in Int, B \in Int : D = d + 1 /\ B = b - 1 /\ D > 0 /\ B > 0 BY <1>1
<1>4. PICK R \in Int : R = (n + 2 * m) * q - (n + m) * p OBVIOUS
<1>5. PICK M \in Int : M = n * p /\ M > 0 BY <1>2, PositiveProduct
<1>6. PICK P \in Int : P = Portion(D, R, M) BY <1>5, PortionIs
<1>7. B > P BY <1>1, <1>2, <1>3, <1>4, <1>5, <1>6
<1>8. D * R < M * B
  <2>1. D * R < M * (P + 1) BY <1>5, <1>6, PortionAbove
  <2>2. M * (P + 1) <= M * B
    <3>1. PICK e \in Int : e = B - (P + 1) /\ e >= 0 BY <1>7
    <3>2. M * e >= 0 BY <1>5, <3>1
    <3>3. M * B = M * (P + 1) + M * e BY <3>1
    <3>4. M * e \in Int /\ M * (P + 1) \in Int OBVIOUS
    <3> QED BY <3>2, <3>3, <3>4
  <2>3. D * R \in Int /\ M * (P + 1) \in Int /\ M * B \in Int OBVIOUS
  <2> QED BY <2>1, <2>2, <2>3
<1>9. PICK X \in Int, Y \in Int : X = (n + 2 * m) * D /\ Y = (n + m) * D + n * B /\ Y > 0
  <2>1. (n + m) * D > 0 /\ n * B > 0 /\ (n + m) * D \in Int /\ n * B \in Int
    <3>1. n + m \in Int /\ n + m > 0 BY <1>2
    <3> QED BY <1>2, <1>3, <3>1, PositiveProduct
  <2> QED BY <2>1
<1>10. Consumption(l) = Fraction(X, Y) BY <1>1, <1>2, <1>3, <1>9 DEF Consumption
<1>11. PICK g \in Int, x \in Int, y \in Int : g > 0 /\ y > 0 /\ X = g * x /\ Y = g * y /\ Fraction(X, Y) = <<x, y>>
  BY <1>9, FractionValue
<1>12. SUFFICES ~ (p * y < x * q) BY <1>10, <1>11 DEF Less
<1>13. SUFFICES ~ ((p * y) * g < (x * q) * g)
  <2>1. p * y \in Int /\ x * q \in Int OBVIOUS
  <2> QED BY <1>11, <2>1, FactorCancels
<1>14. (p * y) * g = p * Y /\ (x * q) * g = X * q BY <1>11
<1>15. p * Y - X * q = M * B - D * R
  <2>1. p * Y = p * ((n + m) * D) + (n * p) * B BY <1>9
  <2>2. X * q = D * ((n + 2 * m) * q) BY <1>9
  <2>3. D * R = D * ((n + 2 * m) * q) - p * ((n + m) * D) BY <1>4
  <2>4. M * B = (n * p) * B BY <1>5
  <2>5. PICK U \in Int, V \in Int, W \in Int :
          U = p * ((n + m) * D) /\ V = (n * p) * B /\ W = D * ((n + 2 * m) * q) OBVIOUS
  <2> QED BY <2>1, <2>2, <2>3, <2>4, <2>5
<1>16. p * Y \in Int /\ X * q \in Int /\ M * B \in Int /\ D * R \in Int OBVIOUS
<1> QED BY <1>8, <1>14, <1>15, <1>16

\* What a level consumes is taken from what the levels below it leave.
LEMMA PhiAboveUp ==
    ASSUME NEW levels \in Seq(LevelRecords), NEW l \in LevelRecords
    PROVE  /\ PhiAbove(<<>>) = One
           /\ PhiAbove(Append(levels, l)) = Subtract(PhiAbove(levels), Consumption(l))
<1> DEFINE f(s) == CHOOSE g : g = [k \in 0 .. Len(s) |-> IF k = 0 THEN One
                                     ELSE Subtract(g[k - 1], Consumption(s[k]))]
           n == Len(levels)
           more == Append(levels, l)
           S == {k \in 0 .. n : f(more)[k] = f(levels)[k]}
<1>1. ASSUME NEW s \in Seq(LevelRecords)
      PROVE  /\ f(s)[0] = One
             /\ \A k \in 0 .. Len(s) - 1 : f(s)[k + 1] = Subtract(f(s)[k], Consumption(s[k + 1]))
  <2> DEFINE g == f(s)
             m == Len(s)
             Def(q, k) == Subtract(q, Consumption(s[k]))
  <2>0. m \in Nat OBVIOUS
  <2>1. FiniteNatInductiveDefHypothesis(g, One, Def, 0, m)
    BY DEF FiniteNatInductiveDefHypothesis
  <2> HIDE DEF Def, f, m
  <2>2. FiniteNatInductiveDefConclusion(g, One, Def, 0, m)
    BY <2>0, <2>1, FiniteNatInductiveDef
  <2>3. g[0] = One /\ \A k \in 1 .. m : g[k] = Def(g[k - 1], k)
    BY <2>0, <2>2 DEF FiniteNatInductiveDefConclusion
  <2>4. \A k \in 0 .. m - 1 : k + 1 \in 1 .. m /\ (k + 1) - 1 = k BY <2>0
  <2>5. \A k \in 0 .. m - 1 : g[k + 1] = Def(g[k], k + 1) BY <2>3, <2>4
  <2> QED BY <2>3, <2>5 DEF Def, m
<1>2. \A s : PhiAbove(s) = f(s)[Len(s)] BY DEF PhiAbove
<1> HIDE DEF f
<1>3. PhiAbove(<<>>) = One
  <2>1. <<>> \in Seq(LevelRecords) /\ Len(<<>>) = 0 OBVIOUS
  <2> QED BY <1>1, <1>2, <2>1
<1>4. /\ n \in Nat /\ more \in Seq(LevelRecords) /\ Len(more) = n + 1 /\ more[n + 1] = l
      /\ \A k \in 1 .. n : more[k] = levels[k]
  OBVIOUS
<1> HIDE DEF more, n
<1>5. 0 \in S BY <1>1, <1>4
<1>6. ASSUME NEW k \in 0 .. n - 1, k \in S PROVE k + 1 \in S
  <2>1. f(more)[k] = f(levels)[k] BY <1>6
  <2>2. k \in 0 .. Len(more) - 1 /\ k \in 0 .. Len(levels) - 1 /\ k + 1 \in 1 .. n /\ k + 1 \in 0 .. n
    BY <1>4 DEF n
  <2>3. f(more)[k + 1] = Subtract(f(more)[k], Consumption(more[k + 1])) BY <1>1, <1>4, <2>2
  <2>4. f(levels)[k + 1] = Subtract(f(levels)[k], Consumption(levels[k + 1])) BY <1>1, <2>2
  <2>5. more[k + 1] = levels[k + 1] BY <1>4, <2>2
  <2> QED BY <2>1, <2>2, <2>3, <2>4, <2>5
<1> HIDE DEF S
<1>7. n \in S
  <2>1. 0 .. n \subseteq S BY <1>4, <1>5, <1>6, Upwards
  <2> QED BY <1>4, <2>1
<1>8. f(more)[n] = f(levels)[n] BY <1>7 DEF S
<1>9. n \in 0 .. Len(more) - 1 BY <1>4
<1>10. f(more)[n + 1] = Subtract(f(more)[n], Consumption(more[n + 1])) BY <1>1, <1>4, <1>9
<1>11. PhiAbove(levels) = f(levels)[n] /\ PhiAbove(more) = f(more)[n + 1] BY <1>2, <1>4 DEF n
<1> QED BY <1>3, <1>4, <1>8, <1>10, <1>11 DEF more

-----------------------------------------------------------------------------
(* Schedules.                                                              *)

\* Phi and the budget of the next level are fractions.
LEMMA BudgetIs ==
    ASSUME Scheduled, policy.kind # "given"
    PROVE  /\ IsFraction(Phi) /\ IsFraction(Budget)
           /\ \A d \in Nat : Usable(d) /\ Budget # Unbounded => Phi[1] > 0 /\ Budget[1] > 0
<1>1. policy \in Policies /\ bounds \in Seq(LevelRecords) BY DEF Scheduled
<1>2. IsFraction(Phi) BY <1>1, PhiAboveIs DEF Phi
<1>3. CASE policy.kind = "sequence"
  <2>1. Level + 1 \in Nat BY <1>1 DEF Level
  <2>2. IsFraction(Target(Level + 1)) BY <1>1, <2>1, TargetIs
  <2>3. IsFraction(Budget) BY <1>2, <1>3, <2>2, SubtractIs DEF Budget
  <2> QED BY <1>2, <1>3, <2>3 DEF Usable
<1>4. CASE policy.kind # "sequence"
  <2>1. CASE Level \in DOMAIN policy.budgets
    <3>1. Budget = policy.budgets[Level] BY <1>4, <2>1 DEF Budget
    <3> QED BY <1>1, <1>2, <2>1, <3>1, PolicyIs DEF Usable
  <2>2. CASE Level \notin DOMAIN policy.budgets
    <3>1. Budget = Unbounded BY <1>4, <2>2 DEF Budget
    <3> QED BY <1>2, <3>1 DEF Unbounded, IsFraction
  <2> QED BY <2>1, <2>2
<1> QED BY <1>3, <1>4

\* The thresholds of a buffer are integers.
LEMMA ThresholdsAre ==
    ASSUME Scheduled, policy.kind # "given", NEW d \in Nat, Usable(d)
    PROVE  /\ StrictThreshold(d) \in Int /\ RatioRequired(d) \in Int
           /\ Budget # Unbounded => BudgetThreshold(d) \in Int
<1>1. PICK n \in Int, m \in Int : n = Phi[1] /\ m = Phi[2] /\ m > 0 /\ n > 0
  BY BudgetIs DEF IsFraction, Usable
<1>2. StrictThreshold(d) \in Int
  <2>1. PICK a \in Int : a = 2 * (d + 1) OBVIOUS
  <2>2. Portion(a, m, n) \in Int BY <1>1, PortionIs
  <2> QED BY <1>1, <2>1, <2>2 DEF StrictThreshold
<1>3. ASSUME Budget # Unbounded PROVE BudgetThreshold(d) \in Int
  <2>1. PICK p \in Int, q \in Int : p = Budget[1] /\ q = Budget[2] /\ p > 0
    BY <1>3, BudgetIs DEF IsFraction
  <2>2. PICK a \in Int : a = d + 1 OBVIOUS
  <2>3. n * p \in Int /\ n * p > 0 BY <1>1, <2>1, PositiveProduct
  <2>4. (n + 2 * m) * q - (n + m) * p \in Int
    <3>1. PICK x \in Int, y \in Int : x = n + 2 * m /\ y = n + m OBVIOUS
    <3>2. x * q \in Int /\ y * p \in Int OBVIOUS
    <3>3. x * q - y * p \in Int BY <3>2
    <3> QED BY <3>1, <3>3
  <2>5. Portion(a, (n + 2 * m) * q - (n + m) * p, n * p) \in Int BY <2>3, <2>4, PortionIs
  <2>6. BudgetThreshold(d) = 1 + Portion(a, (n + 2 * m) * q - (n + m) * p, n * p)
    BY <1>1, <1>3, <2>1, <2>2 DEF BudgetThreshold
  <2> QED BY <2>5, <2>6
<1>4. RatioRequired(d) \in Int
  <2>1. PICK x \in Int, y \in Int : x = policy.ratio[1] /\ y = policy.ratio[2] /\ y > 0
    BY PolicyIs DEF Scheduled, IsFraction
  <2>2. PICK z \in Int : z = d * x OBVIOUS
  <2>3. CeilTimes(d, policy.ratio) = -((-z) \div y) BY <2>1, <2>2 DEF CeilTimes
  <2>4. (-z) \div y \in Int BY <2>1
  <2>5. CeilTimes(d, policy.ratio) \in Int BY <2>3, <2>4
  <2> QED BY <2>5 DEF RatioRequired
<1> QED BY <1>2, <1>3, <1>4

\* The buffer of the next level leaves room around its diameter, exceeds its thresholds and is
\* no smaller than the buffers below.
LEMMA BufferIs ==
    ASSUME Scheduled, policy.kind # "given", NEW d \in Nat, Usable(d)
    PROVE  /\ Buffer(d) \in Nat /\ Buffer(d) >= d + 2
           /\ Buffer(d) >= Above(StrictThreshold(d))
           /\ Budget # Unbounded => Buffer(d) >= Above(BudgetThreshold(d))
           /\ \A k \in DOMAIN bounds : Buffer(d) >= bounds[k].b
<1> DEFINE below == {l.b : l \in ToSet(bounds)}
           budget == IF Budget = Unbounded THEN {} ELSE {Above(BudgetThreshold(d))}
           ratio == IF policy.kind = "sequence" THEN RatioRequired(d) ELSE Above(RatioRequired(d))
           all == {Above(StrictThreshold(d)), d + 2} \cup budget \cup {ratio} \cup below
<1>1. bounds \in Seq(LevelRecords) BY DEF Scheduled
<1>2. \A l \in ToSet(bounds) : l.b \in Int
  <2>1. \A i \in DOMAIN bounds : bounds[i] \in LevelRecords BY <1>1
  <2> QED BY <2>1 DEF ToSet, LevelRecords
<1>3. IsFiniteSet(below)
  <2>1. IsFiniteSet(DOMAIN bounds)
    <3>1. DOMAIN bounds = 1 .. Len(bounds) /\ Len(bounds) \in Nat BY <1>1
    <3> QED BY <3>1, FS_Interval
  <2> DEFINE D == DOMAIN bounds
             f == [i \in D |-> bounds[i].b]
  <2>2. below = {f[i] : i \in D} BY DEF ToSet
  <2>3. f \in [D -> below] BY <2>2
  <2>4. f \in Surjection(D, below) BY <2>2, <2>3 DEF Surjection
  <2>5. IsFiniteSet(D) BY <2>1
  <2> HIDE DEF f, D, below
  <2> QED BY <2>4, <2>5, FS_Surjection
<1>4. below \in SUBSET Int BY <1>2
<1>5. budget \in SUBSET Int /\ IsFiniteSet(budget)
  <2>1. Budget # Unbounded => Above(BudgetThreshold(d)) \in Int BY ThresholdsAre DEF Above
  <2> QED BY <2>1, FS_EmptySet, FS_Singleton
<1>6. ratio \in Int BY ThresholdsAre DEF Above
<1>7. PICK x \in Int : x = Above(StrictThreshold(d)) BY ThresholdsAre DEF Above
<1>8. IsFiniteSet({x}) /\ IsFiniteSet({d + 2}) /\ IsFiniteSet({ratio}) BY FS_Singleton
<1>9. Buffer(d) = Max(all) BY DEF Buffer
<1>10. all = (({x} \cup {d + 2}) \cup budget) \cup ({ratio} \cup below) BY <1>7
<1>16. /\ Above(StrictThreshold(d)) \in all
       /\ Budget # Unbounded => Above(BudgetThreshold(d)) \in all
       /\ \A k \in DOMAIN bounds : bounds[k].b \in all
  BY DEF ToSet
<1> HIDE DEF below, budget, ratio, all
<1>11. IsFiniteSet(all) BY <1>3, <1>5, <1>8, <1>10, FS_Union
<1>12. all \in SUBSET Int BY <1>4, <1>5, <1>6, <1>10
<1>13. d + 2 \in all BY <1>10
<1>14. Max(all) \in all /\ \A y \in all : Max(all) >= y BY <1>11, <1>12, <1>13, GreatestInteger
<1>15. Max(all) \in Int BY <1>12, <1>14
<1>17. Max(all) \in Nat /\ Max(all) >= d + 2 BY <1>13, <1>14, <1>15
<1> QED BY <1>9, <1>14, <1>16, <1>17

\* The diameter of the next level.
LEMMA NextDiameterIs ==
    ASSUME Scheduled, policy.kind # "given", More
    PROVE  NextDiameter \in Nat
<1>1. bounds \in Seq(LevelRecords) /\ candidate \in Nat \ {0} BY DEF Scheduled
<1>2. CASE policy.kind = "candidates"
  <2>1. policy.candidates \in Seq(Nat) BY PolicyIs DEF Scheduled
  <2>2. candidate \in 1 .. Len(policy.candidates) BY <1>1, <1>2, <2>1 DEF More
  <2>3. policy.candidates[candidate] \in Nat BY <2>1, <2>2
  <2> QED BY <1>2, <2>3 DEF NextDiameter
<1>3. CASE policy.kind # "candidates" /\ bounds = <<>>
  <2>1. policy.first \in Nat BY PolicyIs DEF Scheduled
  <2> QED BY <1>3, <2>1 DEF NextDiameter
<1>4. CASE policy.kind # "candidates" /\ bounds # <<>>
  <2>1. Len(bounds) \in 1 .. Len(bounds) BY <1>1, <1>4
  <2>2. Last(bounds) \in LevelRecords BY <1>1, <2>1 DEF Last
  <2>3. PICK d \in Nat, b \in Nat : d = Last(bounds).d /\ b = Last(bounds).b
    BY <2>2 DEF LevelRecords
  <2>4. Gap = 3 * d + 4 * b BY <2>3 DEF Gap
  <2>5. policy.additive \in Nat BY PolicyIs DEF Scheduled
  <2>6. NextDiameter = Gap + policy.additive BY <1>4 DEF NextDiameter
  <2> QED BY <2>3, <2>4, <2>5, <2>6
<1> QED BY <1>2, <1>3, <1>4

\* A step of the schedule keeps it a schedule in the making.
LEMMA ScheduledStep ==
    ASSUME Scheduled, ScheduleNext
    PROVE  Scheduled'
<1>1. built = "no" /\ policy' = policy BY DEF ScheduleNext, SkipCandidate, SelectLevel, EndSchedule
<1>2. policy.kind # "given" BY <1>1 DEF Scheduled
<1>3. policy \in Policies /\ bounds \in Seq(LevelRecords) /\ candidate \in Nat \ {0}
  BY <1>2 DEF Scheduled
<1>4. CASE SkipCandidate
  <2>1. candidate' = candidate + 1 /\ bounds' = bounds /\ built' = built BY <1>4 DEF SkipCandidate
  <2>2. candidate' \in Nat \ {0} BY <1>3, <2>1
  <2> QED BY <1>1, <1>2, <1>3, <2>1, <2>2 DEF Scheduled
<1>5. CASE SelectLevel
  <2> DEFINE d == NextDiameter
             l == [d |-> d, b |-> Buffer(d), phi |-> Phi]
  <2>1. More /\ Usable(d) /\ bounds' = Append(bounds, l) /\ candidate' = candidate + 1 /\ built' = built
    BY <1>5 DEF SelectLevel
  <2>2. d \in Nat BY <1>2, <2>1, NextDiameterIs
  <2>3. Buffer(d) \in Nat /\ Buffer(d) >= d + 2 BY <1>2, <2>1, <2>2, BufferIs
  <2>4. Phi \in Int \X Int /\ Phi[2] > 0 BY <1>2, BudgetIs DEF IsFraction
  <2>5. Phi[1] > 0 BY <2>1 DEF Usable
  <2>6. l \in LevelRecords BY <2>2, <2>3, <2>4, <2>5 DEF LevelRecords
  <2> HIDE DEF l
  <2>7. bounds' \in Seq(LevelRecords) BY <1>3, <2>1, <2>6
  <2>8. candidate' \in Nat \ {0} BY <1>3, <2>1
  <2> QED BY <1>1, <1>2, <1>3, <2>1, <2>7, <2>8 DEF Scheduled
<1>6. CASE EndSchedule
  <2>1. bounds' = Kept(bounds) /\ candidate' = candidate
        /\ (bounds = <<>> => built' # "done")
    BY <1>6 DEF EndSchedule
  <2> DEFINE clamped == {k \in DOMAIN bounds : bounds[k].d > MaxDistance \/ bounds[k].b > MaxDistance}
             last == Min(clamped)
  <2>2. clamped \in SUBSET Nat BY <1>3
  <2>3. clamped # {} => last \in 1 .. Len(bounds)
    <3>1. DOMAIN bounds = 1 .. Len(bounds) BY <1>3
    <3>2. clamped \subseteq 1 .. Len(bounds) BY <3>1
    <3> HIDE DEF clamped
    <3> QED BY <2>2, <3>2, LeastNatural
  <2>4. bounds' = bounds \/ (clamped # {} /\ bounds' = SubSeq(bounds, 1, last))
    BY <2>1 DEF Kept
  <2> HIDE DEF clamped, last
  <2>5. bounds' \in Seq(LevelRecords) /\ (bounds # <<>> => bounds' # <<>>)
    <3>1. CASE bounds' = bounds BY <1>3, <3>1
    <3>2. CASE clamped # {} /\ bounds' = SubSeq(bounds, 1, last)
      <4>1. PICK k \in Nat : k = last /\ k \in 1 .. Len(bounds) BY <1>3, <2>3, <3>2
      <4>2. bounds' = SubSeq(bounds, 1, k) BY <3>2, <4>1
      <4>3. SubSeq(bounds, 1, k) \in Seq(LevelRecords) /\ Len(SubSeq(bounds, 1, k)) = k
        BY <1>3, <4>1
      <4> QED BY <4>1, <4>2, <4>3
    <3> QED BY <2>4, <3>1, <3>2
  <2> QED BY <1>1, <1>2, <1>3, <2>1, <2>5 DEF Scheduled
<1> QED BY <1>4, <1>5, <1>6 DEF ScheduleNext

\* A schedule that is built has levels, whose bounds are no longer than a distance may be.
LEMMA ScheduleGives ==
    ASSUME Scheduled, built = "done"
    PROVE  /\ Len(Schedule) \in Nat \ {0}
           /\ \A l \in 1 .. Len(Schedule) : /\ Schedule[l].buffer \in 0 .. MaxDistance
                                             /\ Schedule[l].diameter \in 0 .. MaxDistance
<1>1. CASE policy.kind = "given"
  <2>1. policy.given \in Seq(Bound) /\ policy.given # <<>> BY <1>1, PolicyAssumption DEF Scheduled
  <2>2. Schedule = policy.given BY <1>1 DEF Schedule
  <2>3. Len(policy.given) \in Nat \ {0} BY <2>1
  <2>4. \A l \in 1 .. Len(policy.given) : policy.given[l] \in Bound BY <2>1
  <2> QED BY <2>2, <2>3, <2>4 DEF Bound
<1>2. CASE policy.kind # "given"
  <2>1. bounds \in Seq(LevelRecords) /\ bounds # <<>> BY <1>2 DEF Scheduled
  <2>2. PICK n : n = Len(bounds) OBVIOUS
  <2>3. n \in Nat \ {0} /\ DOMAIN bounds = 1 .. n BY <2>1, <2>2
  <2>4. DOMAIN Schedule = 1 .. n
          /\ \A l \in 1 .. n : /\ Schedule[l].buffer = Clamped(bounds[l].b)
                                /\ Schedule[l].diameter = Clamped(bounds[l].d)
    BY <1>2, <2>3 DEF Schedule
  <2>5. Len(Schedule) = n
    <3>1. Schedule = [k \in 1 .. n |->
             [diameter |-> Clamped(bounds[k].d), buffer |-> Clamped(bounds[k].b),
              cap |-> IF policy.evenCaps THEN 2 * k ELSE 0]]
      BY <1>2, <2>3 DEF Schedule
    <3> QED BY <2>3, <3>1
  <2>6. ASSUME NEW x \in Nat PROVE Clamped(x) \in 0 .. MaxDistance
    <3>1. {x, MaxDistance} \in SUBSET Nat /\ MaxDistance \in Nat BY PolicyAssumption
    <3>2. Min({x, MaxDistance}) \in {x, MaxDistance} /\ Min({x, MaxDistance}) <= MaxDistance
      BY <3>1, LeastNatural
    <3>3. Min({x, MaxDistance}) \in Nat BY <3>1, <3>2
    <3> QED BY <3>1, <3>2, <3>3 DEF Clamped
  <2>7. \A l \in 1 .. n : bounds[l].b \in Nat /\ bounds[l].d \in Nat
    <3>1. \A l \in 1 .. n : bounds[l] \in LevelRecords BY <2>1, <2>2
    <3> QED BY <3>1 DEF LevelRecords
  <2> QED BY <2>3, <2>4, <2>5, <2>6, <2>7
<1> QED BY <1>1, <1>2

-----------------------------------------------------------------------------
(* The theorems.                                                           *)

\* While there are no clusters, most of the invariant says nothing.
LEMMA NoClusters ==
    ASSUME clusters = <<>>, roots = {}, residual = syndrome,
           phase \in {"schedule", "level"}
    PROVE  Shaped /\ Owned /\ Ascending /\ Bounded /\ Linked /\ AcceptedAreApart /\ RegionsNest
<1>1. Ids = {} /\ clusters \in Seq(ClusterRecords) BY DEF Ids
<1>2. Shaped BY <1>1 DEF Shaped
<1>3. Owned BY <1>1 DEF Owned
<1>4. Ascending BY <1>1 DEF Ascending
<1>5. Bounded BY <1>1 DEF Bounded
<1>6. Linked BY <1>1 DEF Linked
<1>7. AcceptedAreApart BY <1>1 DEF AcceptedAreApart
<1>8. RegionsNest BY DEF RegionsNest
<1> QED BY <1>2, <1>3, <1>4, <1>5, <1>6, <1>7, <1>8

\* The invariant holds before the first level of a schedule is selected.
LEMMA InitHolds == Init => IInv
<1> SUFFICES ASSUME Init PROVE IInv OBVIOUS
<1>1. /\ clusters = <<>> /\ roots = {} /\ residual = {} /\ syndrome = {} /\ phase = "schedule"
      /\ level = 1 /\ ScheduleInit
  BY DEF Init
<1>2. Scheduled BY <1>1 DEF ScheduleInit, Scheduled
<1>3. Started /\ Prepared BY <1>1 DEF Started, Prepared
<1> QED BY <1>1, <1>2, <1>3, NoClusters DEF IInv

\* A step of the schedule touches nothing else.
LEMMA BuildScheduleKeeps ==
    ASSUME IInv, BuildSchedule
    PROVE  IInv'
<1>1. /\ phase = "schedule" /\ phase' = phase /\ ScheduleNext
      /\ level' = level /\ residual' = residual /\ syndrome' = syndrome
      /\ clusters' = clusters /\ roots' = roots
  BY DEF BuildSchedule
<1>2. Scheduled' BY <1>1, ScheduledStep DEF IInv
<1>3. level = 1 /\ residual = {} /\ syndrome = {} /\ clusters = <<>> /\ roots = {}
  BY <1>1 DEF IInv, Started
<1>4. Started' /\ Prepared' BY <1>1, <1>3 DEF Started, Prepared
<1>5. Ids' = {} /\ clusters' \in Seq(ClusterRecords) BY <1>1, <1>3 DEF Ids
<1>6. Shaped' BY <1>1, <1>5 DEF Shaped
<1>7. Owned' BY <1>1, <1>3, <1>5 DEF Owned
<1>8. Ascending' BY <1>5 DEF Ascending
<1>9. Bounded' BY <1>1 DEF Bounded
<1>10. Linked' BY <1>1, <1>3, <1>5 DEF Linked
<1>11. AcceptedAreApart' BY <1>5 DEF AcceptedAreApart
<1>12. RegionsNest' BY <1>1 DEF RegionsNest
<1> QED BY <1>2, <1>4, <1>6, <1>7, <1>8, <1>9, <1>10, <1>11, <1>12 DEF IInv

\* A shot begins with a schedule whose buffers are no longer than a distance may be.
LEMMA BeginKeeps ==
    ASSUME IInv, Begin
    PROVE  IInv'
<1>1. /\ phase = "schedule" /\ phase' = "level" /\ built = "done"
      /\ setting' \in [schedule : {Schedule}, force : Forcing, single : SingleRoots]
      /\ cache' \in UNION {GraphCaches(g) : g \in Graphs}
      /\ syndrome' \in SUBSET Nodes /\ residual' = syndrome'
      /\ policy' = policy /\ bounds' = bounds /\ candidate' = candidate /\ built' = built
      /\ level' = level /\ clusters' = clusters /\ roots' = roots
  BY DEF Begin, scheduleVars
<1>2. Scheduled' BY <1>1 DEF IInv, Scheduled
<1>3. level = 1 /\ clusters = <<>> /\ roots = {} BY <1>1 DEF IInv, Started
<1>4. Started' BY <1>1 DEF Started
<1>5. Prepared'
  <2>1. setting'.schedule = Schedule BY <1>1
  <2>2. /\ Len(Schedule) \in Nat \ {0}
        /\ \A l \in 1 .. Len(Schedule) : Schedule[l].buffer \in 0 .. MaxDistance
    BY <1>1, ScheduleGives DEF IInv
  <2>3. MaxLevel' = Len(Schedule) BY <2>1 DEF MaxLevel
  <2>4. level' \in 1 .. Len(Schedule) BY <1>1, <1>3, <2>2
  <2>5. \A l : BufferOf(l)' = Schedule[l].buffer BY <2>1 DEF BufferOf
  <2>6. LevelGiven' BY <2>2, <2>3, <2>4, <2>5 DEF LevelGiven
  <2>7. CacheGiven' BY <1>1 DEF CacheGiven
  <2> QED BY <1>1, <2>6, <2>7 DEF Prepared
<1>6. Ids' = {} /\ clusters' \in Seq(ClusterRecords) BY <1>1, <1>3 DEF Ids
<1>7. Shaped' BY <1>1, <1>6 DEF Shaped
<1>8. Owned' BY <1>1, <1>6 DEF Owned
<1>9. Ascending' BY <1>6 DEF Ascending
<1>10. Bounded' BY <1>6 DEF Bounded
<1>11. Linked' BY <1>1, <1>3, <1>6 DEF Linked
<1>12. AcceptedAreApart' BY <1>6 DEF AcceptedAreApart
<1>13. RegionsNest' BY <1>1 DEF RegionsNest
<1> QED BY <1>2, <1>4, <1>5, <1>7, <1>8, <1>9, <1>10, <1>11, <1>12, <1>13 DEF IInv

\* A step that changes nothing keeps the invariant.
LEMMA StutterKeeps ==
    ASSUME IInv, UNCHANGED vars
    PROVE  IInv'
<1>1. /\ policy' = policy /\ bounds' = bounds /\ candidate' = candidate /\ built' = built
      /\ setting' = setting /\ cache' = cache /\ syndrome' = syndrome /\ level' = level
      /\ residual' = residual /\ clusters' = clusters /\ roots' = roots /\ phase' = phase
  BY DEF vars, scheduleVars
<1>2. Scheduled' /\ Started' BY <1>1 DEF IInv, Scheduled, Started
<1>3. Prepared' BY <1>1 DEF IInv, Prepared, CacheGiven, LevelGiven, MaxLevel, BufferOf
<1>4. Shaped' BY <1>1 DEF IInv, Shaped, Ids
<1>5. Owned' BY <1>1 DEF IInv, Owned, Members, Ids
<1>6. Ascending' BY <1>1 DEF IInv, Ascending, Ids
<1>7. Bounded' BY <1>1 DEF IInv, Bounded, Ids, MaxLevel, Several
<1>8. Linked' BY <1>1 DEF IInv, Linked, Ids, Several
<1>9. AcceptedAreApart'
  <2>1. (AcceptedAreApart)' <=> AcceptedAreApart BY <1>1 DEF AcceptedAreApart, Ids, MaxLevel
  <2> QED BY <2>1 DEF IInv
<1>10. RegionsNest'
  <2>1. (RegionsNest)' <=> RegionsNest BY <1>1 DEF RegionsNest, Ids, KeptNodes
  <2> QED BY <2>1 DEF IInv
<1> QED BY <1>2, <1>3, <1>4, <1>5, <1>6, <1>7, <1>8, <1>9, <1>10 DEF IInv

\* The inductive invariant holds in every state: of the schedule in the making, of the way
\* detectors become members of clusters, and of the parents they get.
THEOREM InvariantHolds == Spec => []IInv
<1>1. Init => IInv BY InitHolds
<1>2. IInv /\ [Next]_vars => IInv'
  <2> SUFFICES ASSUME IInv, [Next]_vars PROVE IInv' OBVIOUS
  <2>1. CASE BuildSchedule BY <2>1, BuildScheduleKeeps
  <2>2. CASE Begin BY <2>2, BeginKeeps
  <2>3. CASE CloseLevel BY <2>3, CloseLevelKeeps
  <2>4. CASE CompleteRoot \/ ForceFinalRoot BY <2>4, CompleteRootKeeps
  <2>5. CASE NextLevel \/ Fail BY <2>5, NextLevelKeeps
  <2>6. CASE AssignParents BY <2>6, AssignParentsKeeps
  <2>7. CASE AddFinalRoot BY <2>7, AddFinalRootKeeps
  <2>8. CASE ExpandRegions BY <2>8, ExpandRegionsKeeps
  <2>9. CASE UNCHANGED vars BY <2>9, StutterKeeps
  <2> QED BY <2>1, <2>2, <2>3, <2>4, <2>5, <2>6, <2>7, <2>8, <2>9 DEF Next
<1> QED BY <1>1, <1>2, PTL DEF Spec

\* What the builder makes of clusters: each with a level of the schedule or one of the two
\* above, with members of the syndrome and a region that names no vertex twice, and with a
\* parent that exists.
THEOREM TypesHold == Spec => []TypeOK
<1>1. IInv => TypeOK
  <2> SUFFICES ASSUME IInv PROVE TypeOK OBVIOUS
  <2>1. residual \subseteq syndrome BY DEF IInv, Owned
  <2>2. phase # "schedule" => level \in 1 .. MaxLevel BY DEF IInv, Prepared, LevelGiven
  <2>3. phase \in {"schedule", "level", "left", "assigned", "done", "thrown"} BY DEF IInv, Shaped
  <2>4. ASSUME NEW i \in Ids
        PROVE  /\ clusters[i].level \in 1 .. MaxLevel + 2
               /\ clusters[i].members \in Seq(syndrome) /\ IsInjective(clusters[i].members)
               /\ clusters[i].region \in Seq(Nodes) /\ IsInjective(clusters[i].region)
               /\ clusters[i].parent \in {NoParent} \cup Ids
    <3>1. PICK c \in ClusterRecords : c = clusters[i] BY ClustersAre
    <3>2. phase # "schedule" BY DEF IInv, Started, Ids
    <3>3. MaxLevel \in Nat /\ clusters[i].level <= MaxLevel + 2 /\ clusters[i].level > 0
      BY <3>2 DEF IInv, Prepared, LevelGiven, Bounded, Shaped
    <3>4. c.level \in 1 .. MaxLevel + 2 BY <3>1, <3>3 DEF ClusterRecords
    <3>5. c.members \in Seq(Nodes) /\ ToSet(c.members) \subseteq syndrome
      BY <3>1 DEF IInv, Owned, Members, ClusterRecords
    <3>6. c.members \in Seq(syndrome)
      <4>1. PICK s : s = c.members OBVIOUS
      <4>2. s \in Seq(Nodes) /\ \A k \in DOMAIN s : s[k] \in syndrome BY <3>5, <4>1 DEF ToSet
      <4>3. s \in Seq(syndrome) BY ONLY <4>2
      <4> QED BY <4>1, <4>3
    <3>7. IsInjective(clusters[i].members) /\ IsInjective(clusters[i].region) BY DEF IInv, Shaped
    <3>8. clusters[i].parent \in {NoParent} \cup Ids BY DEF IInv, Linked
    <3> QED BY <3>1, <3>4, <3>6, <3>7, <3>8 DEF ClusterRecords
  <2>5. roots \subseteq Ids BY DEF IInv, Linked
  <2> QED BY <2>1, <2>2, <2>3, <2>4, <2>5 DEF TypeOK
<1> QED BY <1>1, InvariantHolds, PTL

\* Whatever the graph, the schedule and the syndrome, a hierarchy that is finished gives every
\* active detector to exactly one cluster, and every cluster that is not a root a parent above
\* and after it, under one root if one is asked for.
THEOREM OneRootOwns == Spec => []OneRootOwnsAll
<1>1. IInv => OneRootOwnsAll
  <2> SUFFICES ASSUME IInv, phase = "done" PROVE OneRootOwnsAll BY DEF OneRootOwnsAll
  <2>1. /\ residual = {} /\ roots \subseteq Ids
        /\ \A i \in roots : clusters[i].parent = NoParent
        /\ \A i \in Ids \ roots :
             /\ clusters[i].parent \in Ids /\ clusters[i].parent > i
             /\ clusters[clusters[i].parent].level > clusters[i].level
        /\ Ids # {} => roots # {}
        /\ ~ Several
    BY DEF IInv, Linked
  <2>2. ASSUME NEW a \in syndrome
        PROVE  Cardinality({i \in Ids : a \in ToSet(clusters[i].members)}) = 1
    <3>1. PICK i \in Ids : a \in Members(i) BY <2>1 DEF IInv, Owned
    <3>2. \A j \in Ids : a \in Members(j) => j = i BY <3>1 DEF IInv, Owned
    <3>3. {j \in Ids : a \in ToSet(clusters[j].members)} = {i} BY <3>1, <3>2 DEF Members
    <3> QED BY <3>3, FS_Singleton
  <2>3. ASSUME NEW i \in Ids \ roots PROVE clusters[i].parent # NoParent
    <3>1. clusters[i].parent \in 1 .. Len(clusters) BY <2>1, ClustersAre
    <3> QED BY <3>1 DEF NoParent
  <2>4. syndrome # {} => roots # {}
    <3>1. syndrome # {} => Ids # {} BY <2>1 DEF IInv, Owned
    <3> QED BY <2>1, <3>1
  <2>5. setting.single => Cardinality(roots) <= 1
    <3>1. IsFiniteSet(roots)
      <4>1. Ids = 1 .. Len(clusters) /\ Len(clusters) \in Nat BY ClustersAre
      <4>2. IsFiniteSet(Ids) BY <4>1, FS_Interval
      <4> QED BY <2>1, <4>2, FS_Subset
    <3>2. Cardinality(roots) \in Nat BY <3>1, FS_CardinalityType
    <3> QED BY <2>1, <3>2 DEF Several
  <2> QED BY <2>1, <2>2, <2>3, <2>4, <2>5 DEF OneRootOwnsAll
<1> QED BY <1>1, InvariantHolds, PTL

\* Whichever of the four ways finds the components of a level, no cluster accepted at a level is
\* within its buffer of a detector that is left, or in a cluster of its level or above.
THEOREM AcceptedApart == Spec => []AcceptedAreApart
<1>1. IInv => AcceptedAreApart BY DEF IInv
<1> QED BY <1>1, InvariantHolds, PTL

\* In a finished hierarchy the region of a parent contains the regions and members of all its
\* children, whatever regions they were accepted with.
THEOREM RegionsAreNested == Spec => []RegionsNest
<1>1. IInv => RegionsNest BY DEF IInv
<1> QED BY <1>1, InvariantHolds, PTL

-----------------------------------------------------------------------------
(* Perfect matchings.                                                      *)

DiameterOf(l) == setting.schedule[l].diameter

\* The clusters that SolvableWhereItRuns is about.
Promised(s, c) ==
  /\ c.level < Len(s.schedule) \/ (c.level = Len(s.schedule) /\ ~ s.force)
  /\ s.schedule[c.level].diameter <= s.schedule[c.level].buffer

\* A cluster is decoded in all of the graph, or in what is around members that are close to each
\* other, and, if they are odd, to the boundary.
Whole(k, c) == KeptNodes(c) = Nodes /\ Solvable(k, ToSet(c.members))

Close(s, k, c) ==
  LET M == ToSet(c.members)
      buffer == s.schedule[c.level].buffer
  IN /\ \A a, b \in M : k.dist[<<a, b>>] <= buffer
     /\ \A a \in M, v \in Nodes : k.dist[<<a, v>>] <= buffer => v \in KeptNodes(c)
     /\ Even(M) \/ \A a \in M : k.near[a] <= buffer

Housed(c, s, k, S) == Promised(s, c) /\ Solvable(k, S) => Whole(k, c) \/ Close(s, k, c)

Housing == \A i \in Ids : Housed(clusters[i], setting, cache, syndrome)

\* What a level that is not the last leaves has a perfect matching if the shot has one.
LeftSolvable ==
  phase = "level" \/ (phase = "left" /\ level < MaxLevel) =>
    (Solvable(cache, syndrome) => Solvable(cache, residual))

DiametersGiven == phase # "schedule" => \A l \in 1 .. MaxLevel : DiameterOf(l) \in 0 .. MaxDistance

Matched == DiametersGiven /\ LeftSolvable /\ Housing

\* A component of the graph is near the boundary or not as a whole.
LEMMA NearAlike ==
    ASSUME CacheGiven, NEW a \in Nodes, NEW b \in Nodes, cache.id[a] = cache.id[b], cache.near[b] < Inf
    PROVE  cache.near[a] < Inf
<1>1. PICK g \in Graphs : /\ IsGraph(g) /\ Short(g)
                          /\ cache.near = NearestBoundary(g, cache.dist)
                          /\ cache.id = ComponentIds(cache.dist)
  BY CacheIs
<1>2. Metric(cache.dist) /\ 0 < Inf BY CacheIs
<1>3. cache.dist[<<b, a>>] < Inf BY <1>1, <1>2, SameComponent
<1> QED BY <1>1, <1>2, <1>3, NearTogether

\* A set inside a component of the graph has one id.
LEMMA TogetherAlike ==
    ASSUME CacheGiven, NEW S \in SUBSET Nodes, Together(S), NEW a \in S, NEW b \in S
    PROVE  cache.id[a] = cache.id[b]
<1>1. Metric(cache.dist) /\ 0 < Inf /\ cache.id = ComponentIds(cache.dist) BY CacheIs
<1>2. cache.dist[<<a, b>>] < Inf BY DEF Together
<1> QED BY <1>1, <1>2, SameComponent

\* A cluster of whatever is around its members has a perfect matching, and so has one of all of
\* the graph if its members have one at all.
LEMMA HousedMatches ==
    ASSUME CacheGiven, NEW c, KeptNodes(c) \subseteq Nodes, ToSet(c.members) \subseteq Nodes,
           setting.schedule[c.level].buffer \in 0 .. MaxDistance,
           Whole(cache, c) \/ Close(setting, cache, c)
    PROVE  Matchable(Subgraph(c), ToSet(c.members))
<1> DEFINE K == KeptNodes(c)
           M == ToSet(c.members)
           buffer == setting.schedule[c.level].buffer
           graph == Subgraph(c)
           Joined == {p \in graph.nodes \X graph.nodes : {p[1], p[2]} \in graph.edges}
           Piece(a) == ReachFrom(a, K, Joined)
           edges == DOMAIN cache.edge
           coast == DOMAIN cache.boundary
<1>1. /\ graph.nodes = K
      /\ \A e : e \in graph.edges <=> e \in edges /\ e \subseteq K
      /\ \A v : v \in graph.boundary <=> v \in coast /\ v \in K
  BY DEF Subgraph
<1>2. \A u, v \in K : <<u, v>> \in Joined <=> {u, v} \in edges
  <2> SUFFICES ASSUME NEW u \in K, NEW v \in K PROVE <<u, v>> \in Joined <=> {u, v} \in edges
    OBVIOUS
  <2>1. <<u, v>> \in Joined <=> {u, v} \in graph.edges BY <1>1
  <2>2. {u, v} \subseteq K OBVIOUS
  <2> QED BY <1>1, <2>1, <2>2
<1>3. ASSUME \A a \in M : a \in K /\ (Even(Piece(a) \cap M) \/ \E u \in coast : u \in Piece(a))
      PROVE  Matchable(graph, M)
  <2>1. \A a : Piece(a) \subseteq K BY DEF ReachFrom
  <2>2. \A a \in M : Piece(a) \cap graph.boundary # {} \/ Even(Piece(a) \cap M) BY <1>1, <1>3, <2>1
  <2>3. \A a : ReachFrom(a, graph.nodes, Joined) = Piece(a) BY <1>1
  <2> HIDE DEF graph
  <2> QED BY <1>1, <1>3, <2>2, <2>3 DEF Matchable, Even
<1> HIDE DEF graph, Joined
<1> SUFFICES ASSUME NEW a \in M
             PROVE  a \in K /\ (Even(Piece(a) \cap M) \/ \E u \in coast : u \in Piece(a))
  BY <1>3 DEF graph
<1>4. a \in Nodes /\ 0 < Inf /\ Inf \in Nat /\ Metric(cache.dist)
        /\ buffer \in Nat /\ buffer < Inf
  <2>1. a \in Nodes OBVIOUS
  <2>2. 0 < Inf /\ Inf \in Nat /\ Metric(cache.dist) BY <2>1, CacheIs
  <2>3. buffer \in Nat /\ buffer < Inf
    <3>1. MaxDistance \in Nat /\ MaxDistance < Inf BY BoundsAssumption, PolicyAssumption
    <3> QED BY <2>2, <3>1
  <2> QED BY <2>1, <2>2, <2>3
<1>5. PICK g \in Graphs :
        /\ IsGraph(g) /\ Short(g)
        /\ edges = DOMAIN g.edge /\ coast = DOMAIN g.boundary
        /\ \A v, w \in Nodes : cache.dist[<<v, w>>] = Shortest(g, v, w)
        /\ cache.near = NearestBoundary(g, cache.dist)
        /\ cache.id = ComponentIds(cache.dist)
  BY <1>4, CacheIs
<1>6. /\ cache.near[a] \in 0 .. Inf
      /\ cache.near[a] < Inf =>
           \E u \in coast : u \in Nodes /\ cache.dist[<<a, u>>] <= cache.near[a]
  BY <1>4, <1>5, NearIs
<1>7. \A v \in Nodes : cache.dist[<<a, v>>] \in 0 .. Inf BY <1>4 DEF Metric, Tables
<1>8. ASSUME NEW bound \in Nat, bound < Inf,
             \A v \in Nodes : cache.dist[<<a, v>>] <= bound => v \in K
      PROVE  \A v \in Nodes : cache.dist[<<a, v>>] <= bound => v \in Piece(a)
  <2>1. \A v \in Nodes : Shortest(g, a, v) <= bound => v \in K BY <1>4, <1>5, <1>8
  <2>2. \A u, v \in K : {u, v} \in DOMAIN g.edge => <<u, v>> \in Joined BY <1>2, <1>5
  <2>3. K \in SUBSET Nodes OBVIOUS
  <2> HIDE DEF K
  <2>4. \A v \in Nodes : Shortest(g, a, v) <= bound => v \in ReachFrom(a, K, Joined)
    BY <1>4, <1>5, <1>8, <2>1, <2>2, <2>3, WayInside
  <2> QED BY <1>4, <1>5, <2>4
<1>9. CASE Close(setting, cache, c)
  <2>1. /\ \A b \in M : cache.dist[<<a, b>>] <= buffer
        /\ \A v \in Nodes : cache.dist[<<a, v>>] <= buffer => v \in K
        /\ Even(M) \/ cache.near[a] <= buffer
    BY <1>9 DEF Close
  <2>2. \A v \in Nodes : cache.dist[<<a, v>>] <= buffer => v \in Piece(a) BY <1>4, <1>8, <2>1
  <2>3. a \in K BY <1>4, <2>1
  <2>4. Piece(a) \cap M = M BY <2>1, <2>2
  <2>5. CASE Even(M) BY <2>3, <2>4, <2>5
  <2>6. CASE cache.near[a] <= buffer
    <3>1. cache.near[a] < Inf BY <1>4, <1>6, <2>6
    <3>2. PICK u \in coast : u \in Nodes /\ cache.dist[<<a, u>>] <= cache.near[a] BY <1>6, <3>1
    <3>3. cache.dist[<<a, u>>] <= buffer BY <1>4, <1>6, <1>7, <2>6, <3>2
    <3> QED BY <2>2, <2>3, <3>2, <3>3
  <2> QED BY <2>1, <2>5, <2>6
<1>10. CASE Whole(cache, c)
  <2>1. K = Nodes /\ Solvable(cache, M) BY <1>10 DEF Whole
  <2>2. \A v \in Nodes : cache.dist[<<a, v>>] < Inf => v \in Piece(a)
    <3>1. PICK bound \in Nat : bound = Inf - 1 BY <1>4
    <3>2. \A v \in Nodes : cache.dist[<<a, v>>] <= bound => v \in Piece(a)
      <4>1. bound < Inf BY <1>4, <3>1
      <4> HIDE DEF K, Piece
      <4> QED BY <1>8, <2>1, <4>1
    <3>3. \A v \in Nodes : cache.dist[<<a, v>>] < Inf => cache.dist[<<a, v>>] <= bound
      BY <1>4, <1>7, <3>1
    <3> QED BY <3>2, <3>3
  <2>3. \A v \in Piece(a) : cache.dist[<<a, v>>] < Inf
    <3> DEFINE T == {v \in Nodes : cache.dist[<<a, v>>] < Inf}
    <3>1. a \in T BY <1>4 DEF Metric
    <3>2. ASSUME NEW x \in T, NEW y \in K, <<x, y>> \in Joined PROVE y \in T
      <4>1. x \in K /\ y \in Nodes /\ x \in Nodes BY <2>1
      <4>2. {x, y} \in DOMAIN g.edge BY <1>2, <1>5, <3>2, <4>1
      <4>3. Shortest(g, x, y) < Inf BY <1>5, <4>1, <4>2, EdgeConnects
      <4>4. cache.dist[<<x, y>>] < Inf BY <1>5, <4>1, <4>3
      <4> QED BY <1>4, <4>1, <4>4, ConnectedOn
    <3>3. T \in SUBSET K BY <2>1
    <3>4. \A v \in Piece(a) : v \in T
      <4> HIDE DEF T, K
      <4> QED BY <3>1, <3>2, <3>3 DEF ReachFrom
    <3> QED BY <3>4
  <2>4. Piece(a) \cap M = Mates(cache, M, a)
    <3>1. \A v \in Nodes : cache.dist[<<a, v>>] < Inf <=> cache.id[v] = cache.id[a]
      BY <1>4, <1>5, SameComponent
    <3>2. Piece(a) \subseteq K BY DEF ReachFrom
    <3> HIDE DEF Piece
    <3> QED BY <2>1, <2>2, <2>3, <3>1, <3>2 DEF Mates
  <2>5. Even(Mates(cache, M, a)) \/ \E b \in Mates(cache, M, a) : cache.near[b] < Inf
    BY <2>1, SolvableMates
  <2>6. CASE Even(Mates(cache, M, a)) BY <1>4, <2>1, <2>4, <2>6
  <2>7. CASE \E b \in Mates(cache, M, a) : cache.near[b] < Inf
    <3>1. PICK b \in M : cache.id[b] = cache.id[a] /\ cache.near[b] < Inf BY <2>7 DEF Mates
    <3>2. cache.near[a] < Inf BY <1>4, <3>1, NearAlike
    <3>3. PICK u \in coast : u \in Nodes /\ cache.dist[<<a, u>>] <= cache.near[a] BY <1>6, <3>2
    <3>4. cache.dist[<<a, u>>] < Inf BY <1>4, <1>6, <1>7, <3>2, <3>3
    <3> QED BY <1>4, <2>1, <2>2, <3>3, <3>4
  <2> QED BY <2>5, <2>6, <2>7
<1> QED BY <1>9, <1>10

\* No cluster keeps more than the nodes of the graph.
LEMMA KeptInside ==
    ASSUME NEW c \in ClusterRecords
    PROVE  KeptNodes(c) \subseteq Nodes
<1>1. PICK s \in Seq(Nodes) : s = c.region BY DEF ClusterRecords
<1>2. ToSet(s) \subseteq Nodes BY DEF ToSet
<1> QED BY <1>1, <1>2 DEF KeptNodes

\* A level that is not forced accepts parts that are even or near the boundary, and no wider than
\* its diameter if its buffer does not cover the graph and is not shorter.
LEMMA StopsNear ==
    ASSUME LevelGiven, ~ Forced, NEW S \in SUBSET Nodes, MayStop(S)
    PROVE  /\ Narrow(S, DiameterOf(level))
           /\ Even(S) \/ \A a \in S : cache.near[a] <= DiameterOf(level)
BY DEF MayStop, NearBoundary, Even, DiameterOf

LEMMA NarrowIs ==
    ASSUME CacheGiven, NEW S \in SUBSET Nodes, NEW bound \in Nat, Narrow(S, bound),
           ~ CoversEach(bound), NEW a \in S, NEW b \in S
    PROVE  cache.dist[<<a, b>>] <= bound
<1> DEFINE D == {0} \cup {cache.dist[p] : p \in S \X S}
<1>1. Diameter(cache.dist, S) = Max(D) /\ Max(D) <= bound BY DEF Narrow, Diameter
<1>2. Metric(cache.dist) /\ Inf \in Nat BY CacheIs
<1>3. D \in SUBSET (0 .. Inf)
  <2>1. \A p \in S \X S : cache.dist[p] \in 0 .. Inf
    <3>1. \A p \in S \X S : p \in Nodes \X Nodes OBVIOUS
    <3> QED BY <1>2, <3>1 DEF Metric, Tables
  <2>2. 0 \in 0 .. Inf BY <1>2
  <2> QED BY <2>1, <2>2
<1>4. cache.dist[<<a, b>>] \in D
  <2>1. <<a, b>> \in S \X S OBVIOUS
  <2> QED BY <2>1
<1> HIDE DEF D
<1>5. Max(D) \in D /\ Max(D) \in Nat /\ \A y \in D : y <= Max(D) BY <1>2, <1>3, <1>4, GreatestNatural
<1>6. cache.dist[<<a, b>>] \in Nat BY CacheDistances
<1> QED BY <1>1, <1>4, <1>5, <1>6

\* What a level accepts is housed.
LEMMA AcceptedHoused ==
    ASSUME CacheGiven, LevelGiven, ResidualGiven, DiameterOf(level) \in 0 .. MaxDistance,
           Solvable(cache, syndrome) => Forced \/ Solvable(cache, residual),
           NEW members \in Seq(residual), MayStop(ToSet(members)),
           CoversEach(BufferOf(level)) => ToSet(members) = residual
    PROVE  Housed(Accepted(members), setting, cache, syndrome)
<1> DEFINE c == Accepted(members)
           M == ToSet(members)
           d == DiameterOf(level)
           buffer == BufferOf(level)
<1>1. /\ c.level = level /\ c.members = members /\ (c.full <=> CoversEach(buffer))
  BY AcceptedIs
<1>2. /\ level \in 1 .. MaxLevel /\ MaxLevel \in Nat /\ d \in Nat /\ buffer \in Nat
      /\ MaxDistance \in Nat /\ MaxDistance < Inf /\ Inf \in Nat /\ d < Inf
  <2>1. buffer \in 0 .. MaxDistance /\ level \in 1 .. MaxLevel /\ MaxLevel \in Nat BY DEF LevelGiven
  <2>2. MaxDistance \in Nat /\ MaxDistance < Inf /\ Inf \in Nat
    BY BoundsAssumption, PolicyAssumption, GeometryAssumption
  <2> QED BY <2>1, <2>2
<1>3. M \in SUBSET residual /\ M \in SUBSET Nodes BY DEF ToSet, ResidualGiven
<1>4. \A a \in M, v \in Nodes : ~ CoversEach(buffer) /\ cache.dist[<<a, v>>] <= buffer => v \in ToSet(c.region)
  BY AcceptedReaches
<1> HIDE DEF c
<1> SUFFICES ASSUME Promised(setting, c), Solvable(cache, syndrome)
             PROVE  Whole(cache, c) \/ Close(setting, cache, c)
  BY DEF Housed, c
<1>5. ~ Forced /\ d <= buffer
  <2>1. level < MaxLevel \/ (level = MaxLevel /\ ~ setting.force) BY <1>1 DEF Promised, MaxLevel
  <2>2. d <= buffer BY <1>1 DEF Promised, DiameterOf, BufferOf
  <2> QED BY <1>2, <2>1, <2>2 DEF Forced
<1>6. CASE CoversEach(buffer)
  <2>1. KeptNodes(c) = Nodes BY <1>1, <1>6 DEF KeptNodes
  <2> QED BY <1>1, <1>5, <1>6, <2>1 DEF Whole
<1>7. CASE ~ CoversEach(buffer)
  <2>1. KeptNodes(c) = ToSet(c.region) BY <1>1, <1>7 DEF KeptNodes
  <2>2. Narrow(M, d) /\ (Even(M) \/ \A a \in M : cache.near[a] <= d)
    BY <1>3, <1>5, StopsNear
  <2>3. ASSUME NEW a \in M, NEW b \in M PROVE cache.dist[<<a, b>>] <= buffer
    <3>1. a \in Nodes /\ b \in Nodes BY <1>3
    <3>2. cache.upper \in Nat BY <3>1, CacheIs
    <3>3. ~ CoversEach(d) BY <1>2, <1>5, <1>7, <3>2 DEF CoversEach
    <3>4. cache.dist[<<a, b>>] <= d BY <1>2, <1>3, <2>2, <3>3, NarrowIs
    <3>5. cache.dist[<<a, b>>] \in Nat BY <3>1, CacheDistances
    <3> QED BY <1>2, <1>5, <3>4, <3>5
  <2>4. ASSUME NEW a \in M, cache.near[a] <= d PROVE cache.near[a] <= buffer
    <3>1. a \in Nodes BY <1>3
    <3>2. PICK g : IsGraph(g) /\ Metric(cache.dist) /\ cache.near = NearestBoundary(g, cache.dist)
      BY <3>1, CacheIs
    <3>3. cache.near[a] \in 0 .. Inf BY <3>1, <3>2, NearIs
    <3> QED BY <1>2, <1>5, <2>4, <3>3
  <2>5. Even(M) \/ \A a \in M : cache.near[a] <= buffer BY <2>2, <2>4
  <2> QED BY <1>1, <1>4, <1>7, <2>1, <2>3, <2>5 DEF Close, BufferOf
<1> QED BY <1>6, <1>7

\* What a level that is not forced leaves has a perfect matching if it had one.
LEMMA LeavesSolvable ==
    ASSUME CacheGiven, LevelGiven, ResidualGiven, residual # {}, ~ Forced,
           DiameterOf(level) \in 0 .. MaxDistance, Solvable(cache, residual),
           NEW accepted, Listing(accepted),
           \A i \in DOMAIN accepted :
             /\ MayStop(ToSet(accepted[i]))
             /\ ~ CoversEach(BufferOf(level)) => Together(ToSet(accepted[i]))
             /\ CoversEach(BufferOf(level)) => ToSet(accepted[i]) = residual,
           NEW rest, rest = {a \in residual : \A i \in DOMAIN accepted : a \notin ToSet(accepted[i])}
    PROVE  Solvable(cache, rest)
<1>1. CASE CoversEach(BufferOf(level))
  <2>1. rest = {} \/ rest = residual BY <1>1
  <2>2. Solvable(cache, {}) BY SolvableMates
  <2> QED BY <2>1, <2>2
<1>2. CASE ~ CoversEach(BufferOf(level))
  <2> DEFINE out == {ToSet(accepted[i]) : i \in DOMAIN accepted}
  <2>1. rest = residual \ UNION out OBVIOUS
  <2>2. \A C \in out : \E i \in DOMAIN accepted : C = ToSet(accepted[i]) OBVIOUS
  <2> HIDE DEF out
  <2>3. residual \in SUBSET Nodes /\ Nodes # {} BY DEF ResidualGiven
  <2>4. out \in SUBSET SUBSET residual
    <3> SUFFICES ASSUME NEW C \in out PROVE C \subseteq residual OBVIOUS
    <3>1. PICK i \in DOMAIN accepted : C = ToSet(accepted[i]) BY <2>2
    <3>2. accepted \in Seq(Seq(residual)) BY DEF Listing
    <3>3. accepted[i] \in Seq(residual) BY <3>2
    <3> QED BY <3>1, <3>3 DEF ToSet
  <2>5. \A A, B \in out : A # B => A \cap B = {}
    <3> SUFFICES ASSUME NEW A \in out, NEW B \in out, A # B PROVE A \cap B = {} OBVIOUS
    <3>1. PICK i \in DOMAIN accepted : A = ToSet(accepted[i]) BY <2>2
    <3>2. PICK j \in DOMAIN accepted : B = ToSet(accepted[j]) BY <2>2
    <3> QED BY <3>1, <3>2 DEF Listing
  <2>6. \A C \in out : \A a, b \in C : cache.id[a] = cache.id[b]
    <3> SUFFICES ASSUME NEW C \in out, NEW a \in C, NEW b \in C PROVE cache.id[a] = cache.id[b]
      OBVIOUS
    <3>1. C \in SUBSET Nodes /\ Together(C) BY <1>2, <2>2, <2>3, <2>4
    <3> QED BY <3>1, TogetherAlike
  <2>7. \A C \in out : Even(C) \/ \A a \in C : cache.near[a] < Inf
    <3> SUFFICES ASSUME NEW C \in out, ~ Even(C), NEW a \in C PROVE cache.near[a] < Inf
      OBVIOUS
    <3>1. C \in SUBSET Nodes /\ MayStop(C) /\ a \in Nodes BY <2>2, <2>3, <2>4
    <3>2. cache.near[a] <= DiameterOf(level) BY <3>1, StopsNear
    <3>3. PICK g : IsGraph(g) /\ Metric(cache.dist) /\ cache.near = NearestBoundary(g, cache.dist)
      BY <3>1, CacheIs
    <3>4. cache.near[a] \in 0 .. Inf BY <3>1, <3>3, NearIs
    <3>5. MaxDistance \in Nat /\ MaxDistance < Inf /\ Inf \in Nat
      BY BoundsAssumption, PolicyAssumption, GeometryAssumption
    <3> QED BY <3>2, <3>4, <3>5
  <2>8. \A a, b \in residual : cache.id[a] = cache.id[b] /\ cache.near[b] < Inf => cache.near[a] < Inf
    BY <2>3, NearAlike
  <2>9. PICK r \in SUBSET Nodes : r = residual BY <2>3
  <2>10. PICK k : k = cache OBVIOUS
  <2>11. Solvable(k, r \ UNION out)
    <3>1. Solvable(k, r) /\ out \in SUBSET SUBSET r BY <2>4, <2>9, <2>10
    <3>2. \A a, b \in r : k.id[a] = k.id[b] /\ k.near[b] < Inf => k.near[a] < Inf
      BY <2>8, <2>9, <2>10
    <3>3. /\ \A C \in out : \A a, b \in C : k.id[a] = k.id[b]
          /\ \A C \in out : Even(C) \/ \A a \in C : k.near[a] < Inf
      BY <2>6, <2>7, <2>10
    <3> QED BY ONLY <2>5, <3>1, <3>2, <3>3, PartsSolvable
  <2> QED BY <2>1, <2>9, <2>10, <2>11
<1> QED BY <1>1, <1>2

\* A cluster that keeps more stays housed.
LEMMA StaysHoused ==
    ASSUME NEW s, NEW k, NEW S, NEW c, NEW d, Housed(c, s, k, S),
           d.level = c.level, d.members = c.members,
           KeptNodes(c) \subseteq KeptNodes(d), KeptNodes(d) \subseteq Nodes
    PROVE  Housed(d, s, k, S)
<1>1. Promised(s, d) <=> Promised(s, c) BY DEF Promised
<1>2. Whole(k, c) => Whole(k, d) BY DEF Whole
<1>3. Close(s, k, c) => Close(s, k, d) BY DEF Close
<1> QED BY <1>1, <1>2, <1>3 DEF Housed

\* What is to be shown of a step that is not the first of a shot.
LEMMA MatchedKeeps ==
    ASSUME IInv, Matched, UNCHANGED given, phase # "schedule",
           \A i \in Ids' : Housed(clusters'[i], setting, cache, syndrome),
           phase' = "level" \/ (phase' = "left" /\ level' < MaxLevel) =>
             (Solvable(cache, syndrome) => Solvable(cache, residual'))
    PROVE  Matched'
<1>1. setting' = setting /\ cache' = cache /\ syndrome' = syndrome BY DEF given
<1>2. DiametersGiven' BY <1>1 DEF Matched, DiametersGiven, DiameterOf, MaxLevel
<1>3. LeftSolvable' BY <1>1 DEF LeftSolvable, MaxLevel
<1>4. Housing' BY <1>1 DEF Housing
<1> QED BY <1>2, <1>3, <1>4 DEF Matched

\* What there is of the clusters, before a step and after it.
LEMMA ClustersKeep ==
    ASSUME IInv, IInv'
    PROVE  /\ \A i \in Ids : clusters[i] \in ClusterRecords /\ KeptNodes(clusters[i]) \subseteq Nodes
           /\ \A i \in Ids' : clusters'[i] \in ClusterRecords /\ KeptNodes(clusters'[i]) \subseteq Nodes
<1>1. PICK c, d : c = clusters /\ d = clusters' OBVIOUS
<1>2. c \in Seq(ClusterRecords) /\ d \in Seq(ClusterRecords) /\ Ids = DOMAIN c /\ Ids' = DOMAIN d
  BY <1>1 DEF IInv, Shaped, Ids
<1>3. (\A i \in DOMAIN c : c[i] \in ClusterRecords) /\ \A i \in DOMAIN d : d[i] \in ClusterRecords
  BY ONLY <1>2
<1> QED BY <1>1, <1>2, <1>3, KeptInside

LEMMA CloseLevelMatched ==
    ASSUME IInv, IInv', Matched, CloseLevel
    PROVE  Matched'
<1>1. phase = "level" /\ residual # {} /\ phase' = "left" /\ UNCHANGED given /\ level' = level
  BY DEF CloseLevel
<1>2. CacheGiven /\ LevelGiven /\ ResidualGiven BY <1>1, Given
<1>3. /\ level \in 1 .. MaxLevel /\ MaxLevel \in Nat
      /\ DiameterOf(level) \in 0 .. MaxDistance
      /\ Solvable(cache, syndrome) => Solvable(cache, residual)
  BY <1>1, <1>2 DEF LevelGiven, Matched, DiametersGiven, LeftSolvable
<1>4. PICK accepted :
        /\ Listing(accepted)
        /\ CoversEach(BufferOf(level)) =>
             Len(accepted) <= 1 /\ \A i \in DOMAIN accepted : ToSet(accepted[i]) = residual
        /\ \A i \in DOMAIN accepted :
             /\ MayStop(ToSet(accepted[i]))
             /\ ~ CoversEach(BufferOf(level)) => Together(ToSet(accepted[i]))
        /\ clusters' = clusters \o [i \in DOMAIN accepted |-> Accepted(accepted[i])]
        /\ residual' = {a \in residual : \A i \in DOMAIN accepted : a \notin ToSet(accepted[i])}
  BY <1>2, CloseLevelIs
<1>5. ASSUME level < MaxLevel, Solvable(cache, syndrome) PROVE Solvable(cache, residual')
  <2>1. ~ Forced BY <1>3, <1>5 DEF Forced
  <2>2. PICK rest : rest = residual' OBVIOUS
  <2>3. \A i \in DOMAIN accepted :
          /\ MayStop(ToSet(accepted[i]))
          /\ ~ CoversEach(BufferOf(level)) => Together(ToSet(accepted[i]))
          /\ CoversEach(BufferOf(level)) => ToSet(accepted[i]) = residual
    BY <1>4
  <2>4. rest = {a \in residual : \A i \in DOMAIN accepted : a \notin ToSet(accepted[i])}
    BY <1>4, <2>2
  <2>5. Solvable(cache, rest) BY <1>1, <1>2, <1>3, <1>4, <1>5, <2>1, <2>3, <2>4, LeavesSolvable
  <2> QED BY <2>2, <2>5
<1>6. accepted \in Seq(Seq(residual)) BY <1>4 DEF Listing
<1> DEFINE news == [i \in DOMAIN accepted |-> Accepted(accepted[i])]
<1>7. Len(accepted) \in Nat /\ DOMAIN accepted = 1 .. Len(accepted)
        /\ \A k \in DOMAIN accepted : accepted[k] \in Seq(residual)
  BY <1>6
<1>8. \A k \in DOMAIN accepted : /\ news[k] \in ClusterRecords
                                 /\ Housed(news[k], setting, cache, syndrome)
  <2> SUFFICES ASSUME NEW k \in DOMAIN accepted
               PROVE  /\ Accepted(accepted[k]) \in ClusterRecords
                      /\ Housed(Accepted(accepted[k]), setting, cache, syndrome)
    OBVIOUS
  <2>1. accepted[k] \in Seq(residual) /\ MayStop(ToSet(accepted[k]))
          /\ (CoversEach(BufferOf(level)) => ToSet(accepted[k]) = residual)
    BY <1>4, <1>7
  <2> QED BY <1>2, <1>3, <2>1, AcceptedIs, AcceptedHoused
<1>9. \A j \in Ids' : \/ j \in Ids /\ clusters'[j] = clusters[j]
                      \/ \E k \in DOMAIN accepted : clusters'[j] = news[k]
  <2>1. news \in Seq(ClusterRecords) /\ DOMAIN news = DOMAIN accepted
    <3>1. news \in [1 .. Len(accepted) -> ClusterRecords] BY <1>7, <1>8
    <3> QED BY <1>7, <3>1
  <2>2. clusters' = clusters \o news /\ clusters \in Seq(ClusterRecords)
    BY <1>4 DEF IInv, Shaped
  <2>3. PICK c, d, e : c = clusters /\ d = news /\ e = clusters' OBVIOUS
  <2>4. c \in Seq(ClusterRecords) /\ d \in Seq(ClusterRecords) /\ e = c \o d BY <2>1, <2>2, <2>3
  <2>5. \A j \in DOMAIN e : \/ j \in DOMAIN c /\ e[j] = c[j]
                            \/ j - Len(c) \in DOMAIN d /\ e[j] = d[j - Len(c)]
    BY ONLY <2>4
  <2> HIDE DEF news
  <2>6. \A j \in Ids' : \/ j \in Ids /\ clusters'[j] = clusters[j]
                        \/ j - Len(c) \in DOMAIN accepted /\ clusters'[j] = news[j - Len(c)]
    BY <2>1, <2>3, <2>5 DEF Ids
  <2> QED BY <2>6
<1> HIDE DEF news
<1>10. \A j \in Ids' : Housed(clusters'[j], setting, cache, syndrome)
  BY <1>8, <1>9 DEF Matched, Housing
<1> QED BY <1>1, <1>5, <1>10, MatchedKeeps

\* A cluster that takes all that is left is decoded in all of the graph.
LEMMA TakeMatched ==
    ASSUME IInv, IInv', Matched, CompleteRoot \/ ForceFinalRoot
    PROVE  Matched'
<1>1. PICK l : /\ TakeResidual(l) /\ phase = "left" /\ residual # {}
               /\ \/ level < MaxLevel
                  \/ l = MaxLevel + 1
  BY DEF CompleteRoot, ForceFinalRoot
<1>2. /\ clusters' = Append(clusters, FullCluster(l, Sorted(residual))) /\ residual' = {}
      /\ UNCHANGED given
  BY <1>1 DEF TakeResidual
<1> DEFINE c == FullCluster(l, Sorted(residual))
<1>3. KeptNodes(c) = Nodes /\ c.level = l /\ ToSet(c.members) = residual
  <2>1. ToSet(Sorted(residual)) = residual
    <3>1. IsFiniteSet(residual) /\ residual \in SUBSET Nat
      BY <1>1, Given, GeometryAssumption DEF ResidualGiven
    <3> QED BY <3>1, SortedLists DEF Lists
  <2> QED BY <2>1 DEF FullCluster, Cluster, KeptNodes
<1> HIDE DEF c
<1>4. Housed(c, setting, cache, syndrome)
  <2>1. CASE level < MaxLevel
    <3>1. Solvable(cache, syndrome) => Solvable(cache, residual)
      BY <1>1, <2>1 DEF Matched, LeftSolvable
    <3> QED BY <1>3, <3>1 DEF Housed, Whole
  <2>2. CASE l = MaxLevel + 1
    <3>1. MaxLevel \in Nat BY <1>1, Given DEF LevelGiven
    <3>2. ~ Promised(setting, c) BY <1>3, <2>2, <3>1 DEF Promised, MaxLevel
    <3> QED BY <3>2 DEF Housed
  <2> QED BY <1>1, <2>1, <2>2
<1>5. \A j \in Ids' : (j \in Ids /\ clusters'[j] = clusters[j]) \/ clusters'[j] = c
  <2>1. PICK d, e : d = clusters /\ e = clusters' OBVIOUS
  <2>2. d \in Seq(ClusterRecords) /\ e = Append(d, c) BY <1>2, <2>1 DEF IInv, Shaped, c
  <2>3. \A j \in DOMAIN e : (j \in DOMAIN d /\ e[j] = d[j]) \/ e[j] = c BY ONLY <2>2
  <2> QED BY <2>1, <2>3 DEF Ids
<1>6. \A j \in Ids' : Housed(clusters'[j], setting, cache, syndrome)
  BY <1>4, <1>5 DEF Matched, Housing
<1>7. Solvable(cache, residual') BY <1>2, SolvableMates
<1> QED BY <1>1, <1>2, <1>6, <1>7, MatchedKeeps

LEMMA NextLevelMatched ==
    ASSUME IInv, IInv', Matched, NextLevel \/ Fail
    PROVE  Matched'
<1>1. /\ phase = "left" /\ UNCHANGED given /\ residual' = residual /\ clusters' = clusters
      /\ phase' = "thrown" \/ (phase' = "level" /\ level < MaxLevel)
  BY DEF NextLevel, Fail
<1>2. \A j \in Ids' : Housed(clusters'[j], setting, cache, syndrome)
  BY <1>1 DEF Matched, Housing, Ids
<1>3. phase' = "level" => (Solvable(cache, syndrome) => Solvable(cache, residual'))
  BY <1>1 DEF Matched, LeftSolvable
<1> QED BY <1>1, <1>2, <1>3, MatchedKeeps

\* Clusters get parents, an empty cluster for their parent, and wider regions.
LEMMA AssignParentsMatched ==
    ASSUME IInv, IInv', Matched, AssignParents
    PROVE  Matched'
<1>1. PICK parents :
        clusters' = [i \in DOMAIN clusters |-> [clusters[i] EXCEPT !.parent = parents[i]]]
  BY DEF AssignParents
<1>2. phase # "schedule" /\ phase' = "assigned" /\ UNCHANGED given
  BY DEF AssignParents
<1>3. Ids' = Ids BY <1>1 DEF Ids
<1>4. ASSUME NEW j \in Ids' PROVE Housed(clusters'[j], setting, cache, syndrome)
  <2>1. PICK c \in ClusterRecords : c = clusters[j] BY <1>3, ClustersKeep
  <2>2. clusters'[j] = [c EXCEPT !.parent = parents[j]] BY <1>1, <1>3, <2>1 DEF Ids
  <2>3. PICK d : d = clusters'[j] OBVIOUS
  <2>4. d.level = c.level /\ d.members = c.members /\ d.full = c.full /\ d.region = c.region
    BY <2>2, <2>3 DEF ClusterRecords
  <2>5. KeptNodes(d) = KeptNodes(c) /\ KeptNodes(c) \subseteq Nodes
    BY <2>4, KeptInside DEF KeptNodes
  <2>6. Housed(c, setting, cache, syndrome) BY <1>3, <2>1 DEF Matched, Housing
  <2> QED BY <2>3, <2>4, <2>5, <2>6, StaysHoused
<1> QED BY <1>2, <1>4, MatchedKeeps

LEMMA AddFinalRootMatched ==
    ASSUME IInv, IInv', Matched, AddFinalRoot
    PROVE  Matched'
<1> DEFINE final == Len(clusters) + 1
           linked == [i \in DOMAIN clusters |->
                        IF i \in roots THEN [clusters[i] EXCEPT !.parent = final] ELSE clusters[i]]
<1>1. phase # "schedule" /\ phase' = "assigned" /\ UNCHANGED given
  BY DEF AddFinalRoot
<1>2. PICK top : clusters' = Append(linked, FullCluster(top, <<>>))
  BY DEF AddFinalRoot
<1> DEFINE c == FullCluster(top, <<>>)
<1>3. Housed(c, setting, cache, syndrome)
  <2>1. KeptNodes(c) = Nodes /\ ToSet(c.members) = {}
    BY DEF FullCluster, Cluster, KeptNodes, ToSet
  <2>2. Solvable(cache, {}) BY SolvableMates
  <2> QED BY <2>1, <2>2 DEF Housed, Whole
<1> HIDE DEF c
<1>4. Len(clusters) \in Nat /\ Ids = 1 .. Len(clusters) BY ClustersAre
<1>5. ASSUME NEW j \in Ids PROVE Housed(linked[j], setting, cache, syndrome)
  <2>1. PICK b \in ClusterRecords : b = clusters[j] BY ClustersKeep
  <2>2. PICK d : d = linked[j] OBVIOUS
  <2>3. d = b \/ d = [b EXCEPT !.parent = final] BY <2>1, <2>2 DEF Ids
  <2>4. d.level = b.level /\ d.members = b.members /\ d.full = b.full /\ d.region = b.region
    BY <2>3 DEF ClusterRecords
  <2>5. KeptNodes(d) = KeptNodes(b) /\ KeptNodes(b) \subseteq Nodes
    BY <2>4, KeptInside DEF KeptNodes
  <2>6. Housed(b, setting, cache, syndrome) BY <2>1 DEF Matched, Housing
  <2> QED BY <2>2, <2>4, <2>5, <2>6, StaysHoused
<1>6. \A j \in Ids' : (j \in Ids /\ clusters'[j] = linked[j]) \/ clusters'[j] = c
  <2>1. PICK n \in Nat : n = Len(clusters) BY <1>4
  <2>2. DOMAIN linked = 1 .. n BY <1>4, <2>1 DEF Ids
  <2>3. PICK d, e : d = linked /\ e = clusters' OBVIOUS
  <2>4. d = [i \in 1 .. n |-> d[i]] /\ e = Append(d, c) BY <1>2, <2>2, <2>3 DEF c
  <2>5. \A j \in DOMAIN e : (j \in DOMAIN d /\ e[j] = d[j]) \/ e[j] = c
    <3>1. d \in Seq({d[i] : i \in 1 .. n}) BY <2>4
    <3> HIDE DEF linked
    <3> QED BY <2>4, <3>1
  <2> HIDE DEF linked
  <2> QED BY <1>4, <2>1, <2>2, <2>3, <2>5 DEF Ids
<1>7. \A j \in Ids' : Housed(clusters'[j], setting, cache, syndrome)
  <2> HIDE DEF linked
  <2> QED BY <1>3, <1>5, <1>6
<1> QED BY <1>1, <1>7, MatchedKeeps

LEMMA ExpandRegionsMatched ==
    ASSUME IInv, IInv', Matched, ExpandRegions
    PROVE  Matched'
<1>1. phase = "assigned" /\ phase' = "done" /\ UNCHANGED given /\ clusters' = Covered(Children)
  BY DEF ExpandRegions
<1>2. Alike(clusters') /\ Wider(clusters') BY <1>1, CoveredIs
<1>3. Ids' = Ids BY <1>2 DEF Alike, Ids
<1>4. ASSUME NEW j \in Ids' PROVE Housed(clusters'[j], setting, cache, syndrome)
  <2>1. PICK c, d : c = clusters[j] /\ d = clusters'[j] OBVIOUS
  <2>2. d.level = c.level /\ d.members = c.members /\ KeptNodes(c) \subseteq KeptNodes(d)
    BY <1>2, <1>3, <2>1 DEF Alike, Wider
  <2>3. KeptNodes(d) \subseteq Nodes BY <2>1, ClustersKeep
  <2>4. Housed(c, setting, cache, syndrome) BY <1>3, <2>1 DEF Matched, Housing
  <2> QED BY <2>1, <2>2, <2>3, <2>4, StaysHoused
<1> QED BY <1>1, <1>4, MatchedKeeps

LEMMA BeginMatched ==
    ASSUME IInv, Begin
    PROVE  Matched'
<1>1. /\ phase = "schedule" /\ phase' = "level" /\ built = "done"
      /\ setting' \in [schedule : {Schedule}, force : Forcing, single : SingleRoots]
      /\ residual' = syndrome' /\ clusters' = clusters
  BY DEF Begin
<1>2. clusters = <<>> BY <1>1 DEF IInv, Started
<1>3. setting'.schedule = Schedule BY <1>1
<1>4. \A l \in 1 .. Len(Schedule) : Schedule[l].diameter \in 0 .. MaxDistance
  BY <1>1, ScheduleGives DEF IInv
<1>5. DiametersGiven' BY <1>3, <1>4 DEF DiametersGiven, DiameterOf, MaxLevel
<1>6. LeftSolvable' BY <1>1 DEF LeftSolvable
<1>7. Housing' BY <1>1, <1>2 DEF Housing, Ids
<1> QED BY <1>5, <1>6, <1>7 DEF Matched

\* Before a shot there is nothing to be matched.
LEMMA NothingMatched ==
    ASSUME clusters = <<>>, phase = "schedule"
    PROVE  Matched
BY DEF Matched, DiametersGiven, LeftSolvable, Housing, Ids

LEMMA StutterMatched ==
    ASSUME Matched, UNCHANGED vars
    PROVE  Matched'
<1>1. /\ setting' = setting /\ cache' = cache /\ syndrome' = syndrome /\ level' = level
      /\ residual' = residual /\ clusters' = clusters /\ phase' = phase
  BY DEF vars
<1>2. DiametersGiven' BY <1>1 DEF Matched, DiametersGiven, DiameterOf, MaxLevel
<1>3. LeftSolvable' BY <1>1 DEF Matched, LeftSolvable, MaxLevel
<1>4. Housing' BY <1>1 DEF Matched, Housing, Ids
<1> QED BY <1>2, <1>3, <1>4 DEF Matched

\* Whatever the graph, the schedule and the syndrome, a cluster that no force has made has a
\* perfect matching in the graph it is decoded in, if the shot has one at all and the buffer of
\* its level is no shorter than the diameter.
THEOREM SolvableWhereTheyRun == Spec => []SolvableWhereItRuns
<1>1. Init => Matched BY NothingMatched DEF Init
<1>2. IInv /\ IInv' /\ Matched /\ [Next]_vars => Matched'
  <2> SUFFICES ASSUME IInv, IInv', Matched, [Next]_vars PROVE Matched' OBVIOUS
  <2>1. CASE BuildSchedule
    <3>1. phase' = "schedule" /\ clusters' = <<>> BY <2>1 DEF BuildSchedule, IInv, Started
    <3> QED BY <3>1 DEF Matched, DiametersGiven, LeftSolvable, Housing, Ids
  <2>2. CASE Begin BY <2>2, BeginMatched
  <2>3. CASE CloseLevel BY <2>3, CloseLevelMatched
  <2>4. CASE CompleteRoot \/ ForceFinalRoot BY <2>4, TakeMatched
  <2>5. CASE NextLevel \/ Fail BY <2>5, NextLevelMatched
  <2>6. CASE AssignParents BY <2>6, AssignParentsMatched
  <2>7. CASE AddFinalRoot BY <2>7, AddFinalRootMatched
  <2>8. CASE ExpandRegions BY <2>8, ExpandRegionsMatched
  <2>9. CASE UNCHANGED vars BY <2>9, StutterMatched
  <2> QED BY <2>1, <2>2, <2>3, <2>4, <2>5, <2>6, <2>7, <2>8, <2>9 DEF Next
<1>3. IInv /\ Matched => SolvableWhereItRuns
  <2> SUFFICES ASSUME IInv, Matched, Solvable(cache, syndrome), NEW i \in Ids,
                      Promised(setting, clusters[i])
               PROVE  Matchable(Subgraph(clusters[i]), ToSet(clusters[i].members))
    BY DEF SolvableWhereItRuns, Promised, MaxLevel
  <2>1. PICK c \in ClusterRecords : c = clusters[i] BY ClustersAre
  <2>2. phase # "schedule" BY DEF IInv, Started, Ids
  <2>3. CacheGiven /\ LevelGiven BY <2>2, Given
  <2>4. c.level \in 1 .. MaxLevel
    <3>1. c.level \in Nat /\ c.level > 0 BY <2>1 DEF ClusterRecords, IInv, Shaped
    <3>2. c.level <= MaxLevel BY <2>1, <3>1, <2>3 DEF Promised, MaxLevel, LevelGiven
    <3> QED BY <2>3, <3>1, <3>2 DEF LevelGiven
  <2>5. setting.schedule[c.level].buffer \in 0 .. MaxDistance BY <2>3, <2>4 DEF LevelGiven, BufferOf
  <2>6. Whole(cache, c) \/ Close(setting, cache, c) BY <2>1 DEF Matched, Housing, Housed
  <2>7. KeptNodes(c) \subseteq Nodes BY KeptInside
  <2>8. ToSet(c.members) \subseteq Nodes
    <3>1. PICK s \in Seq(Nodes) : s = c.members BY DEF ClusterRecords
    <3> QED BY <3>1 DEF ToSet
  <2> QED BY <2>1, <2>3, <2>5, <2>6, <2>7, <2>8, HousedMatches
<1>4. Spec => []Matched
  <2>1. Init /\ []IInv /\ [][Next]_vars => []Matched BY <1>1, <1>2, PTL
  <2> QED BY <2>1, InvariantHolds, PTL DEF Spec
<1> QED BY <1>3, <1>4, InvariantHolds, PTL

-----------------------------------------------------------------------------
(* What schedules promise.                                                 *)

\* What is true of a level from the moment it is selected: its phi is what the levels below it
\* leave, its buffer stops what it stops, it is no smaller than the level below and starts in the
\* distance that is asked for, and it consumes no more than its budget.
Promises(levels, k) ==
  /\ levels[k].phi = PhiAbove(SubSeq(levels, 1, k - 1))
  /\ levels[k].d > 0 /\ Certified(levels[k])
  /\ k > 1 => levels[k].d >= levels[k - 1].d /\ levels[k].b >= levels[k - 1].b
  /\ k > 1 /\ (policy.kind # "candidates" \/ policy.gap) =>
       levels[k].d >= 3 * levels[k - 1].d + 4 * levels[k - 1].b
  /\ policy.kind = "sequence" => ~ Less(PhiAbove(SubSeq(levels, 1, k)), Target(k + 1))
  /\ policy.kind # "sequence" /\ k \in DOMAIN policy.budgets =>
       ~ Less(policy.budgets[k], Consumption(levels[k]))

\* A schedule in the making has not passed over a candidate below its last diameter, one that
\* is built was not rejected, and a sequence is built up to its last level or to a clamped one.
Promising ==
  policy.kind # "given" =>
    /\ built # "rejected"
    /\ \A k \in DOMAIN bounds : Promises(bounds, k)
    /\ built = "no" /\ policy.kind = "candidates" /\ bounds # <<>> =>
         \A j \in DOMAIN policy.candidates : j >= candidate => Last(bounds).d <= policy.candidates[j]
    /\ built # "no" /\ policy.kind = "sequence" /\ Len(bounds) < policy.levels =>
         Last(bounds).d > MaxDistance \/ Last(bounds).b > MaxDistance

\* What the levels below a level leave does not depend on those above it.
LEMMA PrefixPromises ==
    ASSUME NEW s \in Seq(LevelRecords), NEW t \in Seq(LevelRecords), NEW n \in Nat,
           n <= Len(s), n <= Len(t), \A i \in 1 .. n : t[i] = s[i],
           NEW k \in 1 .. n, Promises(s, k)
    PROVE  Promises(t, k)
<1>1. \A m \in 0 .. n : SubSeq(t, 1, m) = SubSeq(s, 1, m)
  <2> SUFFICES ASSUME NEW m \in 0 .. n PROVE SubSeq(t, 1, m) = SubSeq(s, 1, m) OBVIOUS
  <2>1. /\ SubSeq(t, 1, m) \in Seq(LevelRecords) /\ SubSeq(s, 1, m) \in Seq(LevelRecords)
        /\ Len(SubSeq(t, 1, m)) = m /\ Len(SubSeq(s, 1, m)) = m
    OBVIOUS
  <2>2. \A i \in 1 .. m : SubSeq(t, 1, m)[i] = SubSeq(s, 1, m)[i] OBVIOUS
  <2> QED BY <2>1, <2>2
<1>2. SubSeq(t, 1, k - 1) = SubSeq(s, 1, k - 1) /\ SubSeq(t, 1, k) = SubSeq(s, 1, k) BY <1>1
<1>3. t[k] = s[k] /\ (k > 1 => t[k - 1] = s[k - 1]) OBVIOUS
<1> QED BY <1>2, <1>3 DEF Promises

\* Phi is on or above the envelope before a level of a sequence is selected.
LEMMA PhiOnTarget ==
    ASSUME Scheduled, Promising, policy.kind = "sequence"
    PROVE  ~ Less(Phi, Target(Level))
<1>1. policy \in Policies /\ bounds \in Seq(LevelRecords) BY DEF Scheduled
<1>2. CASE bounds = <<>>
  <2>1. Level = 1 BY <1>2 DEF Level
  <2>2. Target(Level) = One BY <2>1 DEF Target
  <2>3. <<>> \in Seq(LevelRecords) /\ \E l : l \in LevelRecords
    <3>1. [d |-> 0, b |-> 2, phi |-> <<1, 1>>] \in LevelRecords BY DEF LevelRecords
    <3> QED BY <3>1
  <2>4. Phi = One BY <1>2, <2>3, PhiAboveUp DEF Phi
  <2> QED BY <2>2, <2>4 DEF Less, One
<1>3. CASE bounds # <<>>
  <2>1. PICK n \in Nat \ {0} : n = Len(bounds) /\ DOMAIN bounds = 1 .. n BY <1>1, <1>3
  <2>2. Promises(bounds, n) BY <2>1 DEF Promising
  <2>3. ~ Less(PhiAbove(SubSeq(bounds, 1, n)), Target(n + 1)) BY <2>2 DEF Promises
  <2>4. SubSeq(bounds, 1, n) = bounds BY <1>1, <2>1
  <2> QED BY <2>1, <2>3, <2>4 DEF Phi, Level
<1> QED BY <1>2, <1>3

\* So a sequence never runs out of phi: its next level always has a budget.
LEMMA SequenceGoesOn ==
    ASSUME Scheduled, Promising, policy.kind = "sequence", NEW d \in Nat
    PROVE  Usable(d)
<1>1. policy \in Policies /\ bounds \in Seq(LevelRecords) BY DEF Scheduled
<1>2. PICK n \in Nat \ {0} : n = Level BY <1>1 DEF Level
<1>3. /\ IsFraction(Target(n)) /\ IsFraction(Target(n + 1)) /\ IsFraction(Phi)
      /\ Target(n)[1] > 0 /\ Less(Target(n + 1), Target(n))
  BY <1>1, <1>2, TargetIs, TargetsFall, BudgetIs
<1>4. ~ Less(Phi, Target(n)) BY <1>2, PhiOnTarget
<1>5. Less(Target(n + 1), Phi) BY <1>3, <1>4, LessTransitive
<1>6. Phi[1] > 0
  <2>1. PICK z : z = <<0, 1>> OBVIOUS
  <2>2. IsFraction(z) BY <2>1 DEF IsFraction
  <2>3. Less(z, Target(n)) BY <1>3, <2>1 DEF Less, IsFraction
  <2>4. Less(z, Phi) BY <1>3, <1>4, <2>2, <2>3, LessTransitive
  <2> QED BY <1>3, <2>1, <2>4 DEF Less, IsFraction
<1>7. NotLess(Phi, Target(Level)) BY <1>2, <1>3, <1>4, DifferenceSign
<1>8. Budget = Subtract(Phi, Target(n + 1)) BY <1>2 DEF Budget
<1>9. Budget[1] > 0 BY <1>3, <1>5, <1>8, DifferenceSign
<1> QED BY <1>6, <1>7, <1>9 DEF Usable

\* The level that is selected consumes no more than its budget.
LEMMA SelectedWithinBudget ==
    ASSUME Scheduled, policy.kind # "given", NEW d \in Nat, Usable(d), Budget # Unbounded,
           NEW l \in LevelRecords, l = [d |-> d, b |-> Buffer(d), phi |-> Phi]
    PROVE  ~ Less(Budget, Consumption(l))
<1>1. PICK p \in Int, q \in Int : Budget = <<p, q>> /\ p > 0 /\ q > 0
  <2>1. IsFraction(Budget) /\ Budget[1] > 0 BY BudgetIs
  <2> QED BY <2>1 DEF IsFraction
<1>2. PICK n \in Int, m \in Int : n = Phi[1] /\ m = Phi[2] /\ m > 0 /\ n > 0
  BY BudgetIs DEF IsFraction, Usable
<1>3. PICK P \in Int : P = Portion(d + 1, (n + 2 * m) * q - (n + m) * p, n * p)
  <2>1. n * p \in Int /\ n * p > 0 BY <1>1, <1>2, PositiveProduct
  <2>2. (n + 2 * m) * q - (n + m) * p \in Int /\ d + 1 \in Int OBVIOUS
  <2>3. PICK r \in Int, t \in Int, a \in Int :
          r = (n + 2 * m) * q - (n + m) * p /\ t = n * p /\ a = d + 1 /\ t > 0
    BY <2>1, <2>2
  <2>4. Portion(a, r, t) \in Int BY <2>3, PortionIs
  <2> QED BY <2>3, <2>4
<1>4. BudgetThreshold(d) = 1 + P BY <1>1, <1>2, <1>3 DEF BudgetThreshold
<1>5. Buffer(d) >= 2 + P
  <2>1. Buffer(d) >= Above(BudgetThreshold(d)) BY BufferIs
  <2>2. Above(BudgetThreshold(d)) = 2 + P BY <1>4 DEF Above
  <2> QED BY <2>1, <2>2
<1>6. Buffer(d) \in Nat BY BufferIs
<1>7. l.b - 1 > P BY <1>5, <1>6
<1>8. l.d + 1 = d + 1 /\ l.phi[1] = n /\ l.phi[2] = m BY <1>2
<1>9. l.b - 1 > Portion(l.d + 1, (l.phi[1] + 2 * l.phi[2]) * q - (l.phi[1] + l.phi[2]) * p,
                        l.phi[1] * p)
  BY <1>3, <1>7, <1>8
<1>10. ~ Less(<<p, q>>, Consumption(l)) BY <1>1, <1>9, WithinBudget
<1> QED BY <1>1, <1>10

\* A level that is selected keeps all promises.
LEMMA SelectedPromises ==
    ASSUME Scheduled, Promising, built = "no", More, ~ TooNear, Usable(NextDiameter),
           NEW l \in LevelRecords,
           l = [d |-> NextDiameter, b |-> Buffer(NextDiameter), phi |-> Phi],
           NEW levels, levels = Append(bounds, l), policy.kind # "given"
    PROVE  Promises(levels, Len(bounds) + 1)
<1> DEFINE n == Len(bounds)
           d == NextDiameter
<1>1. policy \in Policies /\ bounds \in Seq(LevelRecords) /\ candidate \in Nat \ {0} BY DEF Scheduled
<1>2. d \in Nat BY NextDiameterIs
<1>3. /\ n \in Nat /\ DOMAIN bounds = 1 .. n /\ levels \in Seq(LevelRecords) /\ Len(levels) = n + 1
      /\ levels[n + 1] = l /\ \A k \in 1 .. n : levels[k] = bounds[k]
  BY <1>1
<1>4. SubSeq(levels, 1, n) = bounds /\ SubSeq(levels, 1, n + 1) = levels
  <2>1. /\ SubSeq(levels, 1, n) \in Seq(LevelRecords) /\ Len(SubSeq(levels, 1, n)) = n
        /\ \A k \in 1 .. n : SubSeq(levels, 1, n)[k] = bounds[k]
    BY <1>3
  <2>2. SubSeq(levels, 1, n) = bounds BY <1>1, <1>3, <2>1
  <2>3. SubSeq(levels, 1, n + 1) = levels BY <1>3
  <2> QED BY <2>2, <2>3
<1>5. l.phi = PhiAbove(SubSeq(levels, 1, n)) BY <1>4 DEF Phi
<1>6. \A k \in 1 .. n : bounds[k] \in LevelRecords BY <1>1, <1>3
<1> HIDE DEF n, d
<1>7. ASSUME n > 0
      PROVE  /\ Last(bounds) = bounds[n] /\ bounds[n].d \in Nat /\ bounds[n].b \in Nat
             /\ Gap = 3 * bounds[n].d + 4 * bounds[n].b /\ bounds # <<>>
             /\ policy.kind # "candidates" \/ policy.gap => d >= Gap
  <2>1. Last(bounds) = bounds[n] BY DEF Last, n
  <2>2. bounds[n].d \in Nat /\ bounds[n].b \in Nat BY <1>3, <1>6, <1>7 DEF LevelRecords
  <2>3. bounds # <<>> BY <1>7 DEF n
  <2>4. Gap = 3 * bounds[n].d + 4 * bounds[n].b BY <2>1 DEF Gap
  <2>5. policy.additive \in Nat BY <1>1, PolicyIs
  <2>6. policy.kind # "candidates" => d = Gap + policy.additive BY <2>3 DEF NextDiameter, d
  <2>7. policy.kind = "candidates" /\ policy.gap => ~ (d < Gap) BY <2>3 DEF TooNear, d
  <2>8. Gap \in Nat BY <2>2, <2>4
  <2> QED BY <1>2, <2>1, <2>2, <2>3, <2>4, <2>5, <2>6, <2>7, <2>8
<1>8. ASSUME policy.kind = "candidates"
      PROVE  /\ d = policy.candidates[candidate] /\ candidate \in DOMAIN policy.candidates
             /\ d > 0
  <2>1. policy.candidates \in Seq(Nat) BY <1>1, PolicyIs
  <2>2. candidate \in 1 .. Len(policy.candidates) BY <1>1, <1>8, <2>1 DEF More
  <2>3. d = policy.candidates[candidate] BY <1>8 DEF NextDiameter, d
  <2>4. \A k \in DOMAIN policy.candidates : policy.candidates[k] > 0 BY <1>1, <1>8, PolicyAssumption
  <2> QED BY <2>1, <2>2, <2>3, <2>4
<1>9. l.d > 0
  <2>1. CASE policy.kind = "candidates" BY <1>8, <2>1 DEF d
  <2>2. CASE policy.kind # "candidates" /\ n = 0
    <3>1. bounds = <<>> BY <1>1, <2>2 DEF n
    <3>2. d = policy.first BY <2>2, <3>1 DEF NextDiameter, d
    <3>3. policy.first > 0 BY <1>1, <2>2, PolicyAssumption
    <3> QED BY <3>2, <3>3 DEF d
  <2>3. CASE policy.kind # "candidates" /\ n # 0
    <3>1. n > 0 BY <1>3, <2>3
    <3>2. bounds[n].b > 0 BY <1>3, <1>6, <3>1 DEF LevelRecords
    <3>3. d >= Gap /\ Gap = 3 * bounds[n].d + 4 * bounds[n].b /\ bounds[n].d \in Nat /\ bounds[n].b \in Nat
      BY <1>7, <2>3, <3>1
    <3>4. d > 0 BY <1>2, <3>2, <3>3
    <3> QED BY <3>4 DEF d
  <2> QED BY <2>1, <2>2, <2>3
<1>10. Certified(l)
  <2>1. Buffer(d) >= Above(StrictThreshold(d)) /\ Buffer(d) \in Nat BY <1>2, BufferIs DEF d
  <2>2. StrictThreshold(d) \in Int BY <1>2, ThresholdsAre DEF d
  <2>3. Phi[1] > 0 BY DEF Usable
  <2>4. PICK P : P = Portion(2 * (d + 1), Phi[2], Phi[1]) OBVIOUS
  <2>5. P \in Int
    <3>1. PICK x \in Int, y \in Int : x = Phi[1] /\ y = Phi[2] BY BudgetIs DEF IsFraction
    <3>2. PICK a \in Int : a = 2 * (d + 1) BY <1>2
    <3> QED BY <2>3, <2>4, <3>1, <3>2, PortionIs
  <2>6. StrictThreshold(d) = 1 + P BY <2>4 DEF StrictThreshold
  <2>7. Buffer(d) - 1 > P BY <2>1, <2>5, <2>6 DEF Above
  <2>8. l.d = d /\ l.b = Buffer(d) /\ l.phi = Phi BY DEF d
  <2> QED BY <2>3, <2>4, <2>7, <2>8 DEF Certified
<1>11. n > 0 => l.d >= bounds[n].d /\ l.b >= bounds[n].b
  <2> SUFFICES ASSUME n > 0 PROVE l.d >= bounds[n].d /\ l.b >= bounds[n].b OBVIOUS
  <2>1. n \in DOMAIN bounds BY <1>3
  <2>2. l.b >= bounds[n].b BY <1>2, <2>1, BufferIs DEF d
  <2>3. CASE policy.kind = "candidates"
    <3>1. Last(bounds).d <= policy.candidates[candidate] BY <1>1, <1>7, <1>8, <2>3 DEF Promising
    <3>2. bounds[n].d <= d BY <1>7, <1>8, <2>3, <3>1
    <3> QED BY <1>2, <1>7, <2>2, <3>2 DEF d
  <2>4. CASE policy.kind # "candidates"
    <3>1. d >= Gap /\ Gap = 3 * bounds[n].d + 4 * bounds[n].b /\ bounds[n].d \in Nat /\ bounds[n].b \in Nat
      BY <1>7, <2>4
    <3>2. d >= bounds[n].d BY <1>2, <3>1
    <3> QED BY <2>2, <3>2 DEF d
  <2> QED BY <2>3, <2>4
<1>12. n > 0 /\ (policy.kind # "candidates" \/ policy.gap) => l.d >= 3 * bounds[n].d + 4 * bounds[n].b
  BY <1>7 DEF d
<1>13. PhiAbove(levels) = Subtract(Phi, Consumption(l)) BY <1>1, PhiAboveUp DEF Phi
<1>14. IsFraction(Phi) /\ IsFraction(Consumption(l)) BY BudgetIs, ConsumptionIs
<1>15. ASSUME policy.kind = "sequence" PROVE ~ Less(PhiAbove(levels), Target(n + 2))
  <2>1. Level + 1 = n + 2 /\ n + 2 \in Nat BY <1>3 DEF Level, n
  <2>2. Budget = Subtract(Phi, Target(n + 2)) BY <1>15, <2>1 DEF Budget
  <2>3. Budget # Unbounded BY <1>15 DEF Usable, Unbounded
  <2>4. ~ Less(Budget, Consumption(l)) BY <1>2, <2>3, SelectedWithinBudget DEF d
  <2>5. IsFraction(Target(n + 2)) BY <1>1, <2>1, TargetIs
  <2> QED BY <1>13, <1>14, <2>2, <2>4, <2>5, SubtractSwaps
<1>16. ASSUME policy.kind # "sequence", n + 1 \in DOMAIN policy.budgets
       PROVE  ~ Less(policy.budgets[n + 1], Consumption(l))
  <2>1. Level = n + 1 BY DEF Level, n
  <2>2. Budget = policy.budgets[n + 1] BY <1>16, <2>1 DEF Budget
  <2>3. Budget # Unbounded BY <1>1, <1>16, <2>2, PolicyIs DEF Unbounded
  <2> QED BY <1>2, <2>2, <2>3, SelectedWithinBudget DEF d
<1>17. (n + 1) - 1 = n /\ (n + 1) + 1 = n + 2 /\ (n + 1 > 1 => n > 0 /\ levels[n] = bounds[n]) BY <1>3
<1>18. levels[n + 1] = l BY <1>3
<1>19. SubSeq(levels, 1, n + 1) = levels BY <1>4
<1>20. Promises(levels, n + 1)
  BY <1>5, <1>9, <1>10, <1>11, <1>12, <1>15, <1>16, <1>17, <1>18, <1>19 DEF Promises
<1> QED BY <1>20 DEF n

\* A step that leaves the schedule alone leaves its promises alone.
LEMMA ScheduleLeft ==
    ASSUME Promising, policy' = policy, bounds' = bounds, candidate' = candidate, built' = built
    PROVE  Promising'
BY DEF Promising, Promises, Target

\* Passing over a candidate passes over none that could still be selected.
LEMMA SkipPromises ==
    ASSUME Scheduled, Promising, SkipCandidate
    PROVE  Promising'
<1>1. /\ policy' = policy /\ bounds' = bounds /\ built' = built /\ candidate' = candidate + 1
      /\ candidate \in Nat
  BY DEF SkipCandidate, Scheduled
<1>2. SUFFICES ASSUME policy.kind # "given" PROVE Promising' BY <1>1 DEF Promising
<1>3. \A k \in DOMAIN bounds : Promises(bounds, k)' BY <1>1, <1>2 DEF Promising, Promises, Target
<1>4. ASSUME policy.kind = "candidates", bounds # <<>>, built = "no",
             NEW j \in DOMAIN policy.candidates, j >= candidate + 1
      PROVE  Last(bounds).d <= policy.candidates[j]
  <2>1. policy.candidates \in Seq(Nat) BY <1>4, PolicyIs DEF Scheduled
  <2>2. j \in Nat /\ j >= candidate BY <1>1, <1>4, <2>1
  <2> QED BY <1>4, <2>2 DEF Promising
<1> QED BY <1>1, <1>2, <1>3, <1>4 DEF Promising

\* Selecting a level keeps the promises of those below it and makes its own.
LEMMA SelectPromises ==
    ASSUME Scheduled, Promising, SelectLevel, policy.kind # "given"
    PROVE  Promising'
<1> DEFINE d == NextDiameter
           l == [d |-> d, b |-> Buffer(d), phi |-> Phi]
<1>1. /\ built = "no" /\ More /\ ~ TooNear /\ Usable(d) /\ bounds' = Append(bounds, l)
      /\ candidate' = candidate + 1 /\ policy' = policy /\ built' = built
  BY DEF SelectLevel
<1>2. policy \in Policies /\ bounds \in Seq(LevelRecords) /\ candidate \in Nat \ {0} BY DEF Scheduled
<1>3. l \in LevelRecords
  <2>1. d \in Nat BY <1>1, NextDiameterIs
  <2>2. Buffer(d) \in Nat /\ Buffer(d) >= d + 2 BY <1>1, <2>1, BufferIs
  <2>3. Phi \in Int \X Int /\ Phi[2] > 0 BY BudgetIs DEF IsFraction
  <2>4. Phi[1] > 0 BY <1>1 DEF Usable
  <2> QED BY <2>1, <2>2, <2>3, <2>4 DEF LevelRecords
<1>4. PICK r \in LevelRecords : r = l BY <1>3
<1>5. PICK s \in Seq(LevelRecords) : s = bounds' /\ s = Append(bounds, r) BY <1>1, <1>2, <1>4
<1>6. PICK n \in Nat : n = Len(bounds) /\ DOMAIN bounds = 1 .. n BY <1>2
<1>7. DOMAIN s = 1 .. n + 1 /\ Len(s) = n + 1 /\ s[n + 1] = r /\ \A k \in 1 .. n : s[k] = bounds[k]
  BY <1>2, <1>5, <1>6
<1>8. \A k \in 1 .. n : Promises(s, k)
  <2>1. \A k \in 1 .. n : Promises(bounds, k) BY <1>6 DEF Promising
  <2>2. n <= Len(bounds) /\ n <= Len(s) BY <1>6, <1>7
  <2> QED BY <1>2, <1>7, <2>1, <2>2, PrefixPromises
<1>9. Promises(s, n + 1)
  <2>1. r = [d |-> NextDiameter, b |-> Buffer(NextDiameter), phi |-> Phi] BY <1>4
  <2> HIDE DEF d, l
  <2>2. Usable(NextDiameter) BY <1>1 DEF d
  <2> QED BY <1>1, <1>5, <1>6, <2>1, <2>2, SelectedPromises
<1>10. \A k \in DOMAIN s : Promises(s, k) BY <1>7, <1>8, <1>9
<1>11. \A k \in DOMAIN bounds' : Promises(bounds, k)'
  <2> SUFFICES ASSUME NEW k \in DOMAIN s PROVE Promises(bounds, k)' BY <1>5
  <2>1. Promises(s, k) BY <1>10
  <2> QED BY <1>1, <1>5, <2>1 DEF Promises, Target
<1>12. ASSUME policy.kind = "candidates",
              NEW j \in DOMAIN policy.candidates, j >= candidate + 1
       PROVE  Last(bounds').d <= policy.candidates[j]
  <2>1. policy.candidates \in Seq(Nat) BY <1>2, PolicyIs
  <2>2. candidate \in 1 .. Len(policy.candidates) BY <1>1, <1>2, <1>12, <2>1 DEF More
  <2>3. r.d = policy.candidates[candidate] BY <1>4, <1>12 DEF NextDiameter
  <2>4. Last(bounds') = r BY <1>5, <1>7 DEF Last
  <2>5. candidate \in 1 .. j - 1 BY <1>2, <1>12, <2>1
  <2>6. policy.candidates[candidate] < policy.candidates[j] BY <1>2, <1>12, <2>5, PolicyAssumption
  <2>7. policy.candidates[candidate] \in Nat /\ policy.candidates[j] \in Nat BY <1>12, <2>1, <2>2
  <2> QED BY <2>3, <2>4, <2>6, <2>7
<1> QED BY <1>1, <1>11, <1>12 DEF Promising

\* The check of a schedule passes where the promises are kept.
LEMMA PromisedIsValid ==
    ASSUME Scheduled, Promising, policy.kind # "given"
    PROVE  Valid(bounds)
<1>1. bounds \in Seq(LevelRecords) BY DEF Scheduled
<1>2. ASSUME NEW x \in Nat, NEW y \in Nat, x <= y PROVE Clamped(x) <= Clamped(y)
  <2>1. MaxDistance \in Nat BY PolicyAssumption
  <2>2. ASSUME NEW z \in Nat PROVE Clamped(z) = IF z <= MaxDistance THEN z ELSE MaxDistance
    <3>1. {z, MaxDistance} \in SUBSET Nat BY <2>1
    <3>2. PICK m : m = Min({z, MaxDistance}) OBVIOUS
    <3>3. m \in {z, MaxDistance} /\ m <= z /\ m <= MaxDistance BY <3>1, <3>2, LeastNatural
    <3>4. m \in Nat BY <2>1, <3>3
    <3> QED BY <2>1, <3>2, <3>3, <3>4 DEF Clamped
  <2> QED BY <1>2, <2>1, <2>2
<1>3. SUFFICES ASSUME NEW k \in DOMAIN bounds
               PROVE  /\ bounds[k].d > 0 /\ bounds[k].b > 1
                      /\ k > 1 => /\ Clamped(bounds[k].d) >= Clamped(bounds[k - 1].d)
                                  /\ Clamped(bounds[k].b) >= Clamped(bounds[k - 1].b)
                      /\ Certified([bounds[k] EXCEPT !.phi = PhiAbove(SubSeq(bounds, 1, k - 1))])
  BY DEF Valid
<1>4. Promises(bounds, k) BY DEF Promising
<1>5. k \in 1 .. Len(bounds) /\ bounds[k] \in LevelRecords BY <1>1
<1>6. bounds[k].d > 0 /\ bounds[k].b > 1 BY <1>4, <1>5 DEF Promises, LevelRecords
<1>7. ASSUME k > 1
      PROVE  /\ Clamped(bounds[k].d) >= Clamped(bounds[k - 1].d)
             /\ Clamped(bounds[k].b) >= Clamped(bounds[k - 1].b)
  <2>1. bounds[k - 1] \in LevelRecords BY <1>1, <1>5, <1>7
  <2>2. PICK d \in Nat, b \in Nat, e \in Nat, c \in Nat :
          d = bounds[k].d /\ b = bounds[k].b /\ e = bounds[k - 1].d /\ c = bounds[k - 1].b
    BY <1>5, <2>1 DEF LevelRecords
  <2>3. e <= d /\ c <= b BY <1>4, <1>7, <2>2 DEF Promises
  <2>4. Clamped(e) <= Clamped(d) /\ Clamped(c) <= Clamped(b) BY <1>2, <2>3
  <2>5. \A z \in Nat : Clamped(z) \in Int
    <3>1. \A z \in Nat : {z, MaxDistance} \in SUBSET Nat BY PolicyAssumption
    <3>2. \A z \in Nat : Min({z, MaxDistance}) \in {z, MaxDistance} BY <3>1, LeastNatural
    <3> QED BY <3>2, PolicyAssumption DEF Clamped
  <2> QED BY <2>2, <2>4, <2>5
<1>8. [bounds[k] EXCEPT !.phi = PhiAbove(SubSeq(bounds, 1, k - 1))] = bounds[k]
  <2>1. PICK r \in [d : Nat, b : Nat, phi : Int \X Int] : r = bounds[k] BY <1>5 DEF LevelRecords
  <2>2. r.phi = PhiAbove(SubSeq(bounds, 1, k - 1)) BY <1>4, <2>1 DEF Promises
  <2>3. [r EXCEPT !.phi = r.phi] = r OBVIOUS
  <2> QED BY <2>1, <2>2, <2>3
<1>9. Certified(bounds[k]) BY <1>4 DEF Promises
<1> QED BY <1>6, <1>7, <1>8, <1>9

\* A schedule that ends is one its check accepts, and one of a sequence has all its levels unless
\* it ends with a clamped one.
LEMMA EndPromises ==
    ASSUME Scheduled, Promising, EndSchedule, policy.kind # "given"
    PROVE  Promising'
<1> DEFINE clamped == {k \in DOMAIN bounds : bounds[k].d > MaxDistance \/ bounds[k].b > MaxDistance}
           last == Min(clamped)
<1>1. /\ built = "no" /\ (More => ~ TooNear /\ ~ Usable(NextDiameter))
      /\ bounds' = Kept(bounds) /\ policy' = policy /\ candidate' = candidate
  BY DEF EndSchedule
<1>2. built' # "rejected" /\ built' # "no" BY PromisedIsValid DEF EndSchedule
<1>3. policy \in Policies /\ bounds \in Seq(LevelRecords) /\ candidate \in Nat \ {0} BY DEF Scheduled
<1>4. PICK n \in Nat : n = Len(bounds) /\ DOMAIN bounds = 1 .. n BY <1>3
<1>5. CASE bounds' = bounds
  <2>1. \A k \in DOMAIN bounds' : Promises(bounds, k)'
    BY <1>1, <1>5 DEF Promising, Promises, Target
  <2>2. ~ (policy.kind = "sequence" /\ Len(bounds) < policy.levels)
    <3> SUFFICES ASSUME policy.kind = "sequence", Len(bounds) < policy.levels PROVE FALSE OBVIOUS
    <3>1. More BY DEF More
    <3>2. NextDiameter \in Nat BY <3>1, NextDiameterIs
    <3>3. Usable(NextDiameter) BY <3>2, SequenceGoesOn
    <3> QED BY <1>1, <3>1, <3>3
  <2> QED BY <1>1, <1>2, <1>5, <2>1, <2>2 DEF Promising
<1>6. CASE clamped # {} /\ bounds' = SubSeq(bounds, 1, last)
  <2>1. clamped \in SUBSET Nat BY <1>3, <1>4
  <2>2. last \in clamped BY <1>6, <2>1, LeastNatural
  <2>3. PICK m \in 1 .. n : m = last /\ (bounds[m].d > MaxDistance \/ bounds[m].b > MaxDistance)
    BY <1>4, <2>2
  <2> HIDE DEF clamped, last
  <2>4. PICK s \in Seq(LevelRecords) :
          /\ s = bounds' /\ Len(s) = m /\ DOMAIN s = 1 .. m /\ \A k \in 1 .. m : s[k] = bounds[k]
    <3>1. bounds' = SubSeq(bounds, 1, m) BY <1>6, <2>3
    <3>2. /\ SubSeq(bounds, 1, m) \in Seq(LevelRecords) /\ Len(SubSeq(bounds, 1, m)) = m
          /\ DOMAIN SubSeq(bounds, 1, m) = 1 .. m
          /\ \A k \in 1 .. m : SubSeq(bounds, 1, m)[k] = bounds[k]
      BY <1>3, <1>4
    <3> QED BY <3>1, <3>2
  <2>5. \A k \in 1 .. m : Promises(s, k)
    <3>1. \A k \in 1 .. m : Promises(bounds, k) BY <1>4 DEF Promising
    <3>2. m \in Nat /\ m <= Len(bounds) /\ m <= Len(s) BY <1>4, <2>4
    <3> QED BY <1>3, <2>4, <3>1, <3>2, PrefixPromises
  <2>6. \A k \in DOMAIN bounds' : Promises(bounds, k)'
    <3> SUFFICES ASSUME NEW k \in 1 .. m PROVE Promises(bounds, k)' BY <2>4
    <3>1. Promises(s, k) BY <2>5
    <3> QED BY <1>1, <2>4, <3>1 DEF Promises, Target
  <2>7. Last(bounds') = bounds[m] BY <2>4 DEF Last
  <2> QED BY <1>1, <1>2, <2>3, <2>6, <2>7 DEF Promising
<1>7. bounds' = bounds \/ (clamped # {} /\ bounds' = SubSeq(bounds, 1, last)) BY <1>1 DEF Kept
<1> QED BY <1>5, <1>6, <1>7

\* Whatever a schedule is made from, within what the makers accept: what they build passes their
\* own check, each level consumes no more of phi than its budget or leaves phi on or above the
\* envelope, starts beyond three diameters and four buffers of the one below, and a sequence has
\* as many levels as were asked for unless it ends with a clamped one.
THEOREM ScheduleKeepsPromise == Spec => []ScheduleKeepsItsPromise
<1>1. Init => Promising
  <2> SUFFICES ASSUME Init PROVE Promising OBVIOUS
  <2>1. bounds = <<>> /\ (policy.kind # "given" => built = "no") BY DEF Init, ScheduleInit
  <2> QED BY <2>1 DEF Promising
<1>2. IInv /\ Promising /\ [Next]_vars => Promising'
  <2> SUFFICES ASSUME IInv, Promising, [Next]_vars PROVE Promising' OBVIOUS
  <2>1. CASE BuildSchedule
    <3>1. ScheduleNext /\ Scheduled BY <2>1 DEF BuildSchedule, IInv
    <3>2. policy.kind # "given"
      BY <3>1 DEF ScheduleNext, SkipCandidate, SelectLevel, EndSchedule, Scheduled
    <3> QED BY <3>1, <3>2, SkipPromises, SelectPromises, EndPromises DEF ScheduleNext
  <2>2. CASE ~ BuildSchedule
    <3>1. UNCHANGED scheduleVars
      <4>1. CASE Begin \/ UNCHANGED vars BY <4>1 DEF Begin, vars
      <4>2. CASE CloseLevel \/ NextLevel \/ Fail BY <4>2 DEF CloseLevel, NextLevel, Fail, given
      <4>3. CASE CompleteRoot \/ ForceFinalRoot
        BY <4>3 DEF CompleteRoot, ForceFinalRoot, TakeResidual, given
      <4>4. CASE AssignParents BY <4>4 DEF AssignParents, given
      <4>5. CASE AddFinalRoot \/ ExpandRegions BY <4>5 DEF AddFinalRoot, ExpandRegions, given
      <4> QED BY <2>2, <4>1, <4>2, <4>3, <4>4, <4>5 DEF Next
    <3>2. policy' = policy /\ bounds' = bounds /\ candidate' = candidate /\ built' = built
      BY <3>1 DEF scheduleVars
    <3> QED BY <3>2, ScheduleLeft
  <2> QED BY <2>1, <2>2
<1>3. IInv /\ Promising => ScheduleKeepsItsPromise
  <2> SUFFICES ASSUME IInv, Promising, built # "no", policy.kind # "given"
               PROVE  ScheduleKeepsItsPromise
    BY DEF ScheduleKeepsItsPromise
  <2>1. policy \in Policies /\ bounds \in Seq(LevelRecords) BY DEF IInv, Scheduled
  <2>2. ASSUME NEW k \in DOMAIN bounds
        PROVE  /\ policy.kind = "sequence" => NotLess(PhiAbove(SubSeq(bounds, 1, k)), Target(k + 1))
               /\ policy.kind # "sequence" /\ k \in DOMAIN policy.budgets =>
                    NotLess(policy.budgets[k], Consumption(bounds[k]))
               /\ k > 1 /\ (policy.kind # "candidates" \/ policy.gap) =>
                    bounds[k].d >= 3 * bounds[k - 1].d + 4 * bounds[k - 1].b
    <3>1. Promises(bounds, k) BY DEF Promising
    <3>2. k \in 1 .. Len(bounds) /\ bounds[k] \in LevelRecords BY <2>1
    <3>3. SubSeq(bounds, 1, k) \in Seq(LevelRecords) BY <2>1, <3>2
    <3>4. IsFraction(PhiAbove(SubSeq(bounds, 1, k))) BY <3>3, PhiAboveIs
    <3>5. k + 1 \in Nat BY <3>2
    <3>6. IsFraction(Target(k + 1)) BY <2>1, <3>5, TargetIs
    <3>7. IsFraction(Consumption(bounds[k])) BY <3>2, ConsumptionIs
    <3>8. k \in DOMAIN policy.budgets => IsFraction(policy.budgets[k]) BY <2>1, PolicyIs
    <3> QED BY <3>1, <3>4, <3>6, <3>7, <3>8, DifferenceSign DEF Promises
  <2>3. /\ built # "rejected"
        /\ policy.kind = "sequence" /\ Len(bounds) < policy.levels =>
             Last(bounds).d > MaxDistance \/ Last(bounds).b > MaxDistance
    BY DEF Promising
  <2> QED BY <2>2, <2>3 DEF ScheduleKeepsItsPromise
<1> QED BY <1>1, <1>2, <1>3, InvariantHolds, PTL DEF Spec

=============================================================================
