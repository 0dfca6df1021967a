------------------------ MODULE ClusterGeometry_proofs ------------------------
(***************************************************************************)
(* Facts about components and distances that the proofs about both         *)
(* hierarchy builders use, for any graph.                                  *)
(***************************************************************************)
EXTENDS ClusterGeometry, FiniteSetTheorems, NaturalsInduction, TLAPS

-----------------------------------------------------------------------------
(* Divisions of a set into components.                                     *)

\* The sets of a division are disjoint and contain exactly the members of S.
Divides(division, S) ==
  /\ \A A \in division : A \subseteq S
  /\ \A a \in S : \E A \in division : a \in A
  /\ \A A, B \in division : A # B => A \cap B = {}

\* What connects a set in both directions connects its members in both directions.
LEMMA ReachBack ==
    ASSUME NEW S, NEW R, NEW a \in S, NEW b \in ReachFrom(a, S, R),
           \A x, y \in S : <<x, y>> \in R => <<y, x>> \in R
    PROVE  a \in ReachFrom(b, S, R)
<1> SUFFICES ASSUME NEW T \in SUBSET S, b \in T,
                    \A x \in T, y \in S : <<x, y>> \in R => y \in T
             PROVE  a \in T
  BY DEF ReachFrom
<1> SUFFICES ASSUME a \notin T PROVE FALSE
  OBVIOUS
<1>1. \A x \in S \ T, y \in S : <<x, y>> \in R => y \in S \ T
  OBVIOUS
<1>2. b \in S \ T
  BY <1>1 DEF ReachFrom
<1> QED BY <1>2

\* What is reached from b is reached from where b is reached.
LEMMA ReachOn ==
    ASSUME NEW S, NEW R, NEW a \in S, NEW b \in ReachFrom(a, S, R)
    PROVE  ReachFrom(b, S, R) \subseteq ReachFrom(a, S, R)
<1> SUFFICES ASSUME NEW c \in ReachFrom(b, S, R), NEW T \in SUBSET S, a \in T,
                    \A x \in T, y \in S : <<x, y>> \in R => y \in T
             PROVE  c \in T
  BY DEF ReachFrom
<1>1. b \in T
  BY DEF ReachFrom
<1> QED BY <1>1 DEF ReachFrom

\* What R connects the members of S to.
Reached(S, R) == {ReachFrom(a, S, R) : a \in S}

\* What R connects divides S, if R goes in both directions.
LEMMA ReachDivides ==
    ASSUME NEW S, NEW R, \A x, y \in S : <<x, y>> \in R => <<y, x>> \in R
    PROVE  Divides(Reached(S, R), S)
<1>1. \A a \in S : a \in ReachFrom(a, S, R) /\ ReachFrom(a, S, R) \subseteq S
  BY DEF ReachFrom
<1>2. ASSUME NEW a \in S, NEW b \in S, NEW c \in ReachFrom(a, S, R) \cap ReachFrom(b, S, R)
      PROVE  ReachFrom(a, S, R) \subseteq ReachFrom(b, S, R)
  <2>1. c \in S
    BY <1>1
  <2>2. a \in ReachFrom(c, S, R)
    BY ReachBack
  <2>3. a \in ReachFrom(b, S, R)
    BY <2>2, ReachOn
  <2> QED BY <2>3, ReachOn
<1>3. \A a, b \in S : ReachFrom(a, S, R) # ReachFrom(b, S, R)
                        => ReachFrom(a, S, R) \cap ReachFrom(b, S, R) = {}
  BY <1>2
<1> QED BY <1>1, <1>3 DEF Divides, Reached

\* The threshold components divide the detectors.
LEMMA ThresholdDivides ==
    ASSUME NEW dist, NEW S \in SUBSET Nat, NEW buffer
    PROVE  Divides(ThresholdComponents(dist, S, buffer), S)
<1> DEFINE R == Links(dist, S, buffer)
<1>1. \A x, y \in S : <<x, y>> \in R => <<y, x>> \in R
  <2> SUFFICES ASSUME NEW x \in S, NEW y \in S, <<x, y>> \in R PROVE <<y, x>> \in R
    OBVIOUS
  <2>1. Apart(dist, x, y) <= buffer
    BY DEF Links
  <2>2. Apart(dist, x, y) = Apart(dist, y, x)
    <3>1. x \in Nat /\ y \in Nat
      OBVIOUS
    <3>2. (x <= y /\ ~ (y <= x)) \/ (y <= x /\ ~ (x <= y)) \/ x = y
      BY <3>1
    <3> QED BY <3>2 DEF Apart
  <2> QED BY <2>1, <2>2 DEF Links
<1> HIDE DEF R
<1>2. Divides(Reached(S, R), S)
  BY <1>1, ReachDivides
<1> QED BY <1>2 DEF ThresholdComponents, Reached, R

\* So do the components of the graph, the detectors themselves, and the whole.
LEMMA InteriorDivides ==
    ASSUME NEW id, NEW S
    PROVE  Divides(InteriorComponents(id, S), S)
<1> DEFINE Of(a) == {b \in S : id[b] = id[a]}
<1>1. \A a \in S : a \in Of(a) /\ Of(a) \subseteq S
  OBVIOUS
<1>2. \A a, b \in S : Of(a) # Of(b) => Of(a) \cap Of(b) = {}
  OBVIOUS
<1>3. InteriorComponents(id, S) = {Of(a) : a \in S}
  BY DEF InteriorComponents
<1> HIDE DEF Of
<1> QED BY <1>1, <1>2, <1>3 DEF Divides

\* The whole is one component, and the detectors one by one are components.
LEMMA SimplyDivides ==
    ASSUME NEW S
    PROVE  Divides({S}, S) /\ Divides({{a} : a \in S}, S)
BY DEF Divides

-----------------------------------------------------------------------------
(* Natural numbers.                                                        *)

\* A set with zero and all successors has all naturals.
LEMMA SetInduction ==
    ASSUME NEW S, 0 \in S, \A n \in Nat : n \in S => n + 1 \in S
    PROVE  Nat \subseteq S
<1> DEFINE T == Nat \ S
<1> SUFFICES ASSUME T # {} PROVE FALSE OBVIOUS
<1>1. PICK x \in T : \A y \in T : <<y, x>> \notin OpToRel(<, Nat)
  <2>1. T \subseteq Nat OBVIOUS
  <2> HIDE DEF T
  <2> QED BY <2>1, NatLessThanWellFounded, WFMin
<1>2. x # 0 /\ x - 1 \in Nat OBVIOUS
<1>3. <<x - 1, x>> \in OpToRel(<, Nat) BY <1>2 DEF OpToRel
<1>4. x - 1 \in S BY <1>1, <1>2, <1>3
<1> QED BY <1>2, <1>4

\* A set with zero and all successors up to n has all numbers up to n.
LEMMA Upwards ==
    ASSUME NEW n \in Nat, NEW S, 0 \in S, \A k \in 0 .. n - 1 : k \in S => k + 1 \in S
    PROVE  0 .. n \subseteq S
<1> DEFINE T == S \cup {k \in Nat : k > n}
<1>1. 0 \in T OBVIOUS
<1>2. \A k \in Nat : k \in T => k + 1 \in T OBVIOUS
<1> HIDE DEF T
<1>3. Nat \subseteq T BY <1>1, <1>2, SetInduction
<1> QED BY <1>3 DEF T

\* A set of natural numbers has a least one.
LEMMA LeastNatural ==
    ASSUME NEW S \in SUBSET Nat, S # {}
    PROVE  Min(S) \in S /\ \A y \in S : Min(S) <= y
<1>1. PICK x \in S : \A y \in S : <<y, x>> \notin OpToRel(<, Nat)
  BY NatLessThanWellFounded, WFMin
<1>2. \A y \in S : x <= y
  <2> SUFFICES ASSUME NEW y \in S, y < x PROVE FALSE OBVIOUS
  <2>1. <<y, x>> \in OpToRel(<, Nat) BY DEF OpToRel
  <2> QED BY <1>1, <2>1
<1> QED BY <1>2 DEF Min

\* A finite set of integers has a greatest member.
LEMMA GreatestInteger ==
    ASSUME NEW S \in SUBSET Int, IsFiniteSet(S), S # {}
    PROVE  Max(S) \in S /\ \A y \in S : Max(S) >= y
<1> DEFINE Ends(T) == \E x \in T : \A y \in T : x >= y
           G == {n \in Nat : \A T \in SUBSET S : Cardinality(T) = n => T = {} \/ Ends(T)}
<1>0. \A T \in SUBSET S : IsFiniteSet(T) /\ Cardinality(T) \in Nat
  BY FS_Subset, FS_CardinalityType
<1>1. 0 \in G
  <2>1. \A T \in SUBSET S : Cardinality(T) = 0 => T = {} BY <1>0, FS_EmptySet
  <2> QED BY <2>1
<1>2. ASSUME NEW n \in Nat, n \in G PROVE n + 1 \in G
  <2> SUFFICES ASSUME NEW T \in SUBSET S, Cardinality(T) = n + 1, T # {} PROVE Ends(T)
    OBVIOUS
  <2>1. PICK e \in T : TRUE OBVIOUS
  <2>2. Cardinality(T \ {e}) = n /\ T \ {e} \in SUBSET S
    <3>1. Cardinality(T \ {e}) = Cardinality(T) - 1 BY <1>0, <2>1, FS_RemoveElement
    <3> QED BY <3>1
  <2>3. CASE T \ {e} = {}
    <3>1. \A y \in T : y = e BY <2>3
    <3>2. e \in Int OBVIOUS
    <3> QED BY <3>1, <3>2
  <2>4. CASE T \ {e} # {}
    <3>1. PICK x \in T \ {e} : \A y \in T \ {e} : x >= y BY <1>2, <2>2, <2>4
    <3>2. x \in Int /\ e \in Int /\ T \subseteq Int OBVIOUS
    <3>3. x >= e => \A y \in T : x >= y BY <3>1
    <3>4. e > x => \A y \in T : e >= y BY <3>1, <3>2
    <3> QED BY <3>2, <3>3, <3>4
  <2> QED BY <2>3, <2>4
<1> HIDE DEF G
<1>3. Nat \subseteq G BY <1>1, <1>2, SetInduction
<1>4. Ends(S)
  <2>1. Cardinality(S) \in G BY <1>0, <1>3
  <2> QED BY <2>1 DEF G
<1> QED BY <1>4 DEF Max

\* The sum that does not exceed Inf.
LEMMA PlusIs ==
    ASSUME NEW a \in Nat, NEW b \in Nat
    PROVE  Plus(a, b) = IF a + b <= Inf THEN a + b ELSE Inf
<1>1. {Inf, a + b} \in SUBSET Nat BY GeometryAssumption
<1>2. Min({Inf, a + b}) \in {Inf, a + b} /\ \A y \in {Inf, a + b} : Min({Inf, a + b}) <= y
  BY <1>1, LeastNatural
<1> QED BY <1>1, <1>2 DEF Plus

-----------------------------------------------------------------------------
(* Ways of more and more edges.                                            *)

NoWay == [p \in Nodes \X Nodes |-> IF p[1] = p[2] THEN 0 ELSE Inf]

Adjacent(g, v) == {n \in Nodes : {n, v} \in DOMAIN g.edge}

Longer(g, d) ==
  [p \in Nodes \X Nodes |->
     Min({d[p]} \cup {Plus(d[<<p[1], m>>], Weight(g, m, p[2])) : m \in Adjacent(g, p[2])})]

\* Within for any number of edges.
Ways(g) == LET d[k \in Nat] == IF k = 0 THEN NoWay ELSE Longer(g, d[k - 1]) IN d

\* What the recursion of Ways says, and that of Within.
LEMMA WaysRecursion ==
    ASSUME NEW g
    PROVE  Ways(g)[0] = NoWay /\ \A k \in Nat : Ways(g)[k + 1] = Longer(g, Ways(g)[k])
<1> DEFINE Def(d, k) == Longer(g, d)
           f == Ways(g)
<1>1. NatInductiveDefHypothesis(f, NoWay, Def) BY DEF NatInductiveDefHypothesis, Ways
<1> HIDE DEF Def, f
<1>2. NatInductiveDefConclusion(f, NoWay, Def) BY <1>1, NatInductiveDef
<1>3. f[0] = NoWay /\ \A k \in Nat : f[k + 1] = Def(f[k], k + 1)
  <2>1. \A k \in Nat : k + 1 # 0 /\ k + 1 \in Nat /\ (k + 1) - 1 = k OBVIOUS
  <2> QED BY <1>2, <2>1 DEF NatInductiveDefConclusion
<1> QED BY <1>3 DEF Def, f

LEMMA WithinRecursion ==
    ASSUME NEW g
    PROVE  /\ Within(g)[0] = NoWay
           /\ \A k \in 0 .. Cardinality(Nodes) - 1 : Within(g)[k + 1] = Longer(g, Within(g)[k])
<1> DEFINE Def(d, k) == Longer(g, d)
           f == Within(g)
           n == Cardinality(Nodes)
<1>0. n \in Nat BY FS_CardinalityType, GeometryAssumption
<1>1. FiniteNatInductiveDefHypothesis(f, NoWay, Def, 0, n)
  BY DEF FiniteNatInductiveDefHypothesis, Within, Longer, Adjacent, NoWay
<1> HIDE DEF Def, f, n
<1>2. FiniteNatInductiveDefConclusion(f, NoWay, Def, 0, n) BY <1>0, <1>1, FiniteNatInductiveDef
<1>3. f[0] = NoWay /\ \A k \in 0 .. n - 1 : f[k + 1] = Def(f[k], k + 1)
  <2>1. 0 \in 0 .. n BY <1>0
  <2>2. \A k \in 0 .. n - 1 : k + 1 # 0 /\ k + 1 \in 0 .. n /\ (k + 1) - 1 = k BY <1>0
  <2> QED BY <1>2, <2>1, <2>2 DEF FiniteNatInductiveDefConclusion
<1> QED BY <1>3 DEF Def, f, n

\* Within is Ways as far as it goes.
LEMMA WithinIsWays ==
    ASSUME NEW g
    PROVE  \A k \in 0 .. Cardinality(Nodes) : Within(g)[k] = Ways(g)[k]
<1> DEFINE n == Cardinality(Nodes)
           S == {k \in Nat : Within(g)[k] = Ways(g)[k]}
<1>0. n \in Nat BY FS_CardinalityType, GeometryAssumption
<1> HIDE DEF n
<1>1. 0 \in S BY WithinRecursion, WaysRecursion
<1>2. \A k \in 0 .. n - 1 : k \in S => k + 1 \in S BY <1>0, WithinRecursion, WaysRecursion DEF n
<1> HIDE DEF S
<1>3. 0 .. n \subseteq S BY <1>0, <1>1, <1>2, Upwards
<1> QED BY <1>3 DEF S, n

\* What a table of distances may be.
Tables == [Nodes \X Nodes -> 0 .. Inf]

\* One edge more: no way gets longer, each edge is taken into account, and nothing else is.
LEMMA LongerIs ==
    ASSUME NEW g, IsGraph(g), NEW d \in Tables
    PROVE  /\ Longer(g, d) \in Tables
           /\ \A a, v \in Nodes :
                /\ Longer(g, d)[<<a, v>>] <= d[<<a, v>>]
                /\ \A m \in Adjacent(g, v) : /\ Weight(g, m, v) \in Nat
                                             /\ Longer(g, d)[<<a, v>>] <= d[<<a, m>>] + Weight(g, m, v)
                /\ \/ Longer(g, d)[<<a, v>>] = d[<<a, v>>]
                   \/ \E m \in Adjacent(g, v) :
                        Longer(g, d)[<<a, v>>] = d[<<a, m>>] + Weight(g, m, v)
<1> DEFINE Options(a, v) ==
             {d[<<a, v>>]} \cup {Plus(d[<<a, m>>], Weight(g, m, v)) : m \in Adjacent(g, v)}
<1>1. \A v \in Nodes : \A m \in Adjacent(g, v) : m \in Nodes /\ Weight(g, m, v) \in Nat
  BY DEF Adjacent, Weight, IsGraph
<1>2. \A a, v \in Nodes : d[<<a, v>>] \in 0 .. Inf BY DEF Tables
<1>3. ASSUME NEW a \in Nodes, NEW v \in Nodes, NEW m \in Adjacent(g, v)
      PROVE  Plus(d[<<a, m>>], Weight(g, m, v))
               = IF d[<<a, m>>] + Weight(g, m, v) <= Inf THEN d[<<a, m>>] + Weight(g, m, v) ELSE Inf
  <2>1. d[<<a, m>>] \in Nat /\ Weight(g, m, v) \in Nat BY <1>1, <1>2
  <2> QED BY <2>1, PlusIs
<1>4. \A a, v \in Nodes : Longer(g, d)[<<a, v>>] = Min(Options(a, v)) BY DEF Longer
<1>5. Inf \in Nat BY GeometryAssumption
<1>6. ASSUME NEW a \in Nodes, NEW v \in Nodes
      PROVE  Min(Options(a, v)) \in Options(a, v) /\ \A y \in Options(a, v) : Min(Options(a, v)) <= y
  <2>1. \A m \in Adjacent(g, v) : Plus(d[<<a, m>>], Weight(g, m, v)) \in Nat BY <1>1, <1>2, <1>3, <1>5
  <2>2. d[<<a, v>>] \in Nat BY <1>2, <1>5
  <2>3. Options(a, v) \in SUBSET Nat /\ Options(a, v) # {} BY <2>1, <2>2
  <2> HIDE DEF Options
  <2> QED BY <2>3, LeastNatural
<1>7. ASSUME NEW a \in Nodes, NEW v \in Nodes
      PROVE  /\ Min(Options(a, v)) \in 0 .. Inf
             /\ Min(Options(a, v)) <= d[<<a, v>>]
             /\ \A m \in Adjacent(g, v) : Min(Options(a, v)) <= d[<<a, m>>] + Weight(g, m, v)
             /\ \/ Min(Options(a, v)) = d[<<a, v>>]
                \/ \E m \in Adjacent(g, v) : Min(Options(a, v)) = d[<<a, m>>] + Weight(g, m, v)
  <2> DEFINE x == Min(Options(a, v))
  <2>1. x \in Options(a, v) /\ \A y \in Options(a, v) : x <= y BY <1>6
  <2> HIDE DEF x
  <2>2. x <= d[<<a, v>>] /\ \A m \in Adjacent(g, v) : x <= Plus(d[<<a, m>>], Weight(g, m, v)) BY <2>1
  <2>3. x = d[<<a, v>>] \/ \E m \in Adjacent(g, v) : x = Plus(d[<<a, m>>], Weight(g, m, v)) BY <2>1
  <2>4. \A m \in Adjacent(g, v) : d[<<a, m>>] + Weight(g, m, v) \in Nat BY <1>1, <1>2, <1>5
  <2>5. d[<<a, v>>] \in 0 .. Inf BY <1>2
  <2>6. \A m \in Adjacent(g, v) :
          Plus(d[<<a, m>>], Weight(g, m, v))
            = IF d[<<a, m>>] + Weight(g, m, v) <= Inf THEN d[<<a, m>>] + Weight(g, m, v) ELSE Inf
    BY <1>3
  <2>7. x \in 0 .. Inf
    <3>1. ASSUME NEW m \in Adjacent(g, v), x = Plus(d[<<a, m>>], Weight(g, m, v)) PROVE x \in 0 .. Inf
      BY <1>5, <2>4, <2>6, <3>1
    <3> QED BY <2>3, <2>5, <3>1
  <2>8. \A m \in Adjacent(g, v) : x <= d[<<a, m>>] + Weight(g, m, v)
    <3> SUFFICES ASSUME NEW m \in Adjacent(g, v) PROVE x <= d[<<a, m>>] + Weight(g, m, v) OBVIOUS
    <3>1. x <= Plus(d[<<a, m>>], Weight(g, m, v)) BY <2>2
    <3> QED BY <1>5, <2>4, <2>6, <2>7, <3>1
  <2>9. x = d[<<a, v>>] \/ \E m \in Adjacent(g, v) : x = d[<<a, m>>] + Weight(g, m, v)
    <3> SUFFICES ASSUME NEW m \in Adjacent(g, v), x = Plus(d[<<a, m>>], Weight(g, m, v)),
                        x # d[<<a, v>>]
                 PROVE  x = d[<<a, m>>] + Weight(g, m, v)
      BY <2>3
    <3> QED BY <1>5, <2>2, <2>4, <2>5, <2>6, <2>7
  <2> QED BY <2>2, <2>7, <2>8, <2>9 DEF x
<1>8. Longer(g, d) \in Tables
  <2>1. \A p \in Nodes \X Nodes : Longer(g, d)[p] \in 0 .. Inf
    <3> SUFFICES ASSUME NEW p \in Nodes \X Nodes PROVE Longer(g, d)[p] \in 0 .. Inf OBVIOUS
    <3>1. PICK a \in Nodes, v \in Nodes : p = <<a, v>> OBVIOUS
    <3> QED BY <1>4, <1>7, <3>1
  <2>2. Longer(g, d) = [p \in Nodes \X Nodes |-> Longer(g, d)[p]] BY DEF Longer
  <2> QED BY <2>1, <2>2 DEF Tables
<1> HIDE DEF Options
<1> QED BY <1>1, <1>4, <1>7, <1>8

\* The tables of Ways.
LEMMA WaysType ==
    ASSUME NEW g, IsGraph(g)
    PROVE  \A k \in Nat : Ways(g)[k] \in Tables
<1> DEFINE S == {k \in Nat : Ways(g)[k] \in Tables}
<1>1. NoWay \in Tables BY GeometryAssumption DEF NoWay, Tables
<1>2. 0 \in S BY <1>1, WaysRecursion
<1>3. \A k \in Nat : k \in S => k + 1 \in S BY WaysRecursion, LongerIs
<1> HIDE DEF S
<1>4. Nat \subseteq S BY <1>2, <1>3, SetInduction
<1> QED BY <1>4 DEF S

-----------------------------------------------------------------------------
(* Shortest ways.                                                          *)

Lengths(g, a, v) == {Ways(g)[k][<<a, v>>] : k \in Nat}
Shortest(g, a, v) == Min(Lengths(g, a, v))

\* What Shortest is.
LEMMA ShortestIs ==
    ASSUME NEW g, IsGraph(g), NEW a \in Nodes, NEW v \in Nodes
    PROVE  /\ Shortest(g, a, v) \in 0 .. Inf
           /\ \A k \in Nat : Shortest(g, a, v) <= Ways(g)[k][<<a, v>>]
           /\ \E k \in Nat : Shortest(g, a, v) = Ways(g)[k][<<a, v>>]
<1>1. \A k \in Nat : Ways(g)[k][<<a, v>>] \in 0 .. Inf BY WaysType DEF Tables
<1>2. Lengths(g, a, v) \in SUBSET Nat BY <1>1 DEF Lengths
<1>3. Ways(g)[0][<<a, v>>] \in Lengths(g, a, v) BY DEF Lengths
<1>4. Shortest(g, a, v) \in Lengths(g, a, v)
        /\ \A y \in Lengths(g, a, v) : Shortest(g, a, v) <= y
  BY <1>2, <1>3, LeastNatural DEF Shortest
<1> QED BY <1>1, <1>4 DEF Lengths

\* A way is no longer for ending with an edge.
LEMMA ShortestExtends ==
    ASSUME NEW g, IsGraph(g), NEW a \in Nodes, NEW v \in Nodes, NEW m \in Adjacent(g, v)
    PROVE  Shortest(g, a, v) <= Shortest(g, a, m) + Weight(g, m, v)
<1>1. m \in Nodes BY DEF Adjacent
<1>2. PICK k \in Nat : Shortest(g, a, m) = Ways(g)[k][<<a, m>>] BY <1>1, ShortestIs
<1>3. Ways(g)[k] \in Tables BY WaysType
<1>4. Weight(g, m, v) \in Nat /\ Ways(g)[k + 1][<<a, v>>] <= Ways(g)[k][<<a, m>>] + Weight(g, m, v)
  BY <1>3, LongerIs, WaysRecursion
<1>5. Shortest(g, a, v) <= Ways(g)[k + 1][<<a, v>>] BY ShortestIs
<1>6. Ways(g)[k + 1][<<a, v>>] \in Nat /\ Shortest(g, a, v) \in Nat /\ Ways(g)[k][<<a, m>>] \in Nat
  <2>1. Ways(g)[k + 1] \in Tables BY WaysType
  <2> QED BY <1>1, <1>3, <2>1, ShortestIs DEF Tables
<1> QED BY <1>2, <1>4, <1>5, <1>6

\* From a node to itself.
LEMMA ShortestSelf ==
    ASSUME NEW g, IsGraph(g), NEW a \in Nodes
    PROVE  Shortest(g, a, a) = 0
<1>1. Ways(g)[0][<<a, a>>] = 0 BY WaysRecursion DEF NoWay
<1> QED BY <1>1, ShortestIs

\* A way over b is no shorter.
LEMMA ShortestTriangle ==
    ASSUME NEW g, IsGraph(g), NEW a \in Nodes, NEW b \in Nodes
    PROVE  \A c \in Nodes : Shortest(g, a, c) <= Shortest(g, a, b) + Shortest(g, b, c)
<1> DEFINE S == {k \in Nat : \A c \in Nodes : Shortest(g, a, c) <= Shortest(g, a, b) + Ways(g)[k][<<b, c>>]}
<1>0. \A c \in Nodes : Shortest(g, a, c) \in 0 .. Inf BY ShortestIs
<1>1. 0 \in S
  <2> SUFFICES ASSUME NEW c \in Nodes
               PROVE  Shortest(g, a, c) <= Shortest(g, a, b) + Ways(g)[0][<<b, c>>]
    OBVIOUS
  <2>1. Ways(g)[0][<<b, c>>] = IF b = c THEN 0 ELSE Inf BY WaysRecursion DEF NoWay
  <2> QED BY <1>0, <2>1, GeometryAssumption
<1>2. ASSUME NEW k \in Nat, k \in S PROVE k + 1 \in S
  <2> SUFFICES ASSUME NEW c \in Nodes
               PROVE  Shortest(g, a, c) <= Shortest(g, a, b) + Ways(g)[k + 1][<<b, c>>]
    OBVIOUS
  <2>1. Ways(g)[k] \in Tables BY WaysType
  <2>2. CASE Ways(g)[k + 1][<<b, c>>] = Ways(g)[k][<<b, c>>] BY <1>2, <2>2
  <2>3. CASE \E m \in Adjacent(g, c) : Ways(g)[k + 1][<<b, c>>] = Ways(g)[k][<<b, m>>] + Weight(g, m, c)
    <3>1. PICK m \in Adjacent(g, c) :
            Ways(g)[k + 1][<<b, c>>] = Ways(g)[k][<<b, m>>] + Weight(g, m, c)
      BY <2>3
    <3>2. m \in Nodes BY DEF Adjacent
    <3>3. Shortest(g, a, m) <= Shortest(g, a, b) + Ways(g)[k][<<b, m>>] BY <1>2, <3>2
    <3>4. Shortest(g, a, c) <= Shortest(g, a, m) + Weight(g, m, c) BY ShortestExtends
    <3>5. Weight(g, m, c) \in Nat BY <2>1, LongerIs
    <3>6. Ways(g)[k][<<b, m>>] \in Nat BY <2>1, <3>2 DEF Tables
    <3> QED BY ONLY <1>0, <3>1, <3>2, <3>3, <3>4, <3>5, <3>6, GeometryAssumption
  <2>4. Ways(g)[k + 1] = Longer(g, Ways(g)[k]) BY WaysRecursion
  <2> QED BY <2>1, <2>2, <2>3, <2>4, LongerIs
<1> HIDE DEF S
<1>3. Nat \subseteq S BY <1>1, <1>2, SetInduction
<1> SUFFICES ASSUME NEW c \in Nodes
             PROVE  Shortest(g, a, c) <= Shortest(g, a, b) + Shortest(g, b, c)
  OBVIOUS
<1>4. PICK k \in Nat : Shortest(g, b, c) = Ways(g)[k][<<b, c>>] BY ShortestIs
<1> QED BY <1>3, <1>4 DEF S

\* Ways go in both directions.
LEMMA ShortestSymmetric ==
    ASSUME NEW g, IsGraph(g), NEW a \in Nodes
    PROVE  \A b \in Nodes : Shortest(g, b, a) <= Shortest(g, a, b)
<1> DEFINE S == {k \in Nat : \A b \in Nodes : Shortest(g, b, a) <= Ways(g)[k][<<a, b>>]}
<1>0. \A b, c \in Nodes : Shortest(g, b, c) \in 0 .. Inf BY ShortestIs
<1>1. 0 \in S
  <2> SUFFICES ASSUME NEW b \in Nodes PROVE Shortest(g, b, a) <= Ways(g)[0][<<a, b>>]
    OBVIOUS
  <2>1. Ways(g)[0][<<a, b>>] = IF a = b THEN 0 ELSE Inf BY WaysRecursion DEF NoWay
  <2> QED BY <1>0, <2>1, ShortestSelf, GeometryAssumption
<1>2. ASSUME NEW k \in Nat, k \in S PROVE k + 1 \in S
  <2> SUFFICES ASSUME NEW b \in Nodes PROVE Shortest(g, b, a) <= Ways(g)[k + 1][<<a, b>>]
    OBVIOUS
  <2>1. Ways(g)[k] \in Tables BY WaysType
  <2>2. CASE Ways(g)[k + 1][<<a, b>>] = Ways(g)[k][<<a, b>>] BY <1>2, <2>2
  <2>3. CASE \E m \in Adjacent(g, b) : Ways(g)[k + 1][<<a, b>>] = Ways(g)[k][<<a, m>>] + Weight(g, m, b)
    <3>1. PICK m \in Adjacent(g, b) :
            Ways(g)[k + 1][<<a, b>>] = Ways(g)[k][<<a, m>>] + Weight(g, m, b)
      BY <2>3
    <3>2. m \in Nodes /\ b \in Adjacent(g, m) /\ Weight(g, m, b) = Weight(g, b, m)
      <4>1. {m, b} = {b, m} OBVIOUS
      <4> QED BY <4>1 DEF Adjacent, Weight
    <3>3. Shortest(g, m, a) <= Ways(g)[k][<<a, m>>] BY <1>2, <3>2
    <3>4. Shortest(g, b, m) <= Shortest(g, b, b) + Weight(g, b, m) BY <3>2, ShortestExtends
    <3>5. Shortest(g, b, b) = 0 BY ShortestSelf
    <3>6. Shortest(g, b, a) <= Shortest(g, b, m) + Shortest(g, m, a) BY <3>2, ShortestTriangle
    <3>7. Weight(g, m, b) \in Nat BY <2>1, LongerIs
    <3>8. Ways(g)[k][<<a, m>>] \in Nat BY <2>1, <3>2 DEF Tables
    <3> QED BY ONLY <1>0, <3>1, <3>2, <3>3, <3>4, <3>5, <3>6, <3>7, <3>8, GeometryAssumption
  <2>4. Ways(g)[k + 1] = Longer(g, Ways(g)[k]) BY WaysRecursion
  <2> QED BY <2>1, <2>2, <2>3, <2>4, LongerIs
<1> HIDE DEF S
<1>3. Nat \subseteq S BY <1>1, <1>2, SetInduction
<1> SUFFICES ASSUME NEW b \in Nodes PROVE Shortest(g, b, a) <= Shortest(g, a, b)
  OBVIOUS
<1>4. PICK k \in Nat : Shortest(g, a, b) = Ways(g)[k][<<a, b>>] BY ShortestIs
<1> QED BY <1>3, <1>4 DEF S

-----------------------------------------------------------------------------
(* Ways of as many edges as there are other nodes are enough.              *)

\* The nodes to which a way of k edges is a shortest one.
Settled(g, a, k) == {v \in Nodes : Ways(g)[k][<<a, v>>] = Shortest(g, a, v)}

\* A way of more edges is no longer.
LEMMA SettledStay ==
    ASSUME NEW g, IsGraph(g), NEW a \in Nodes, NEW k \in Nat
    PROVE  Settled(g, a, k) \subseteq Settled(g, a, k + 1)
<1> SUFFICES ASSUME NEW v \in Nodes, Ways(g)[k][<<a, v>>] = Shortest(g, a, v)
             PROVE  Ways(g)[k + 1][<<a, v>>] = Shortest(g, a, v)
  BY DEF Settled
<1>1. Ways(g)[k] \in Tables /\ Ways(g)[k + 1] \in Tables BY WaysType
<1>2. Ways(g)[k + 1] = Longer(g, Ways(g)[k]) BY WaysRecursion
<1>3. Ways(g)[k + 1][<<a, v>>] <= Ways(g)[k][<<a, v>>] BY <1>1, <1>2, LongerIs
<1>4. Shortest(g, a, v) <= Ways(g)[k + 1][<<a, v>>] /\ Shortest(g, a, v) \in Nat BY ShortestIs
<1>5. Ways(g)[k + 1][<<a, v>>] \in Nat BY <1>1 DEF Tables
<1> QED BY <1>3, <1>4, <1>5

\* Of the nodes not yet settled, the nearest that needs the fewest edges is settled next.
LEMMA OneMoreSettled ==
    ASSUME NEW g, IsGraph(g), NEW a \in Nodes, NEW k \in Nat, Settled(g, a, k) # Nodes
    PROVE  \E v \in Settled(g, a, k + 1) : v \notin Settled(g, a, k)
<1> DEFINE D(v) == Shortest(g, a, v)
           W(j, v) == Ways(g)[j][<<a, v>>]
           Open == Nodes \ Settled(g, a, k)
           near == Min({D(v) : v \in Open})
           steps == {j \in Nat : \E v \in Open : D(v) = near /\ W(j, v) = near}
           first == Min(steps)
<1>1. Open # {} BY DEF Settled
<1>2. \A v \in Nodes : D(v) \in 0 .. Inf /\ (\A j \in Nat : W(j, v) \in 0 .. Inf /\ D(v) <= W(j, v))
  <2>1. \A j \in Nat : Ways(g)[j] \in Tables BY WaysType
  <2> QED BY <2>1, ShortestIs DEF Tables
<1>3. near \in {D(v) : v \in Open} /\ \A v \in Open : near <= D(v)
  <2>1. {D(v) : v \in Open} \in SUBSET Nat /\ {D(v) : v \in Open} # {}
    <3>1. \A v \in Open : D(v) \in Nat
      <4> SUFFICES ASSUME NEW v \in Nodes PROVE D(v) \in Nat OBVIOUS
      <4>1. D(v) \in 0 .. Inf BY <1>2
      <4> QED BY <4>1, GeometryAssumption
    <3> HIDE DEF D, Open
    <3> QED BY <1>1, <3>1
  <2> HIDE DEF D, Open
  <2> QED BY <2>1, LeastNatural
<1>4. first \in steps /\ \A j \in steps : first <= j
  <2>1. PICK v \in Open : D(v) = near BY <1>3
  <2>2. PICK j \in Nat : D(v) = W(j, v) BY <2>1, ShortestIs
  <2>3. steps \in SUBSET Nat /\ steps # {} BY <2>1, <2>2
  <2> HIDE DEF steps
  <2> QED BY <2>3, LeastNatural
<1>5. PICK v \in Open : D(v) = near /\ W(first, v) = near BY <1>4
<1> HIDE DEF near, first
<1>6. first \in Nat BY <1>4
<1>7. \A j \in Nat : j < first => \A u \in Open : ~ (D(u) = near /\ W(j, u) = near) BY <1>4, <1>6
<1>8. first # 0
  <2>1. W(0, v) = IF v = a THEN 0 ELSE Inf BY WaysRecursion DEF NoWay
  <2>2. SUFFICES ASSUME first = 0 PROVE FALSE OBVIOUS
  <2>3. Ways(g)[k][<<a, v>>] <= W(0, v)
    <3> DEFINE S == {j \in Nat : W(j, v) <= W(0, v)}
    <3>1. 0 \in S BY <1>2
    <3>2. \A j \in Nat : j \in S => j + 1 \in S
      <4> SUFFICES ASSUME NEW j \in Nat, W(j, v) <= W(0, v) PROVE W(j + 1, v) <= W(0, v) OBVIOUS
      <4>1. Ways(g)[j] \in Tables BY WaysType
      <4>2. Ways(g)[j + 1] = Longer(g, Ways(g)[j]) BY WaysRecursion
      <4>3. W(j + 1, v) <= W(j, v) BY <4>1, <4>2, LongerIs
      <4>4. W(j + 1, v) \in Int /\ W(j, v) \in Int /\ W(0, v) \in Int BY <1>2
      <4> HIDE DEF W
      <4> QED BY <4>3, <4>4
    <3> HIDE DEF S
    <3>3. Nat \subseteq S BY <3>1, <3>2, SetInduction
    <3> QED BY <3>3 DEF S
  <2>4. W(0, v) = D(v) BY <1>5, <2>2
  <2>5. W(k, v) = D(v)
    <3>1. W(k, v) \in Nat /\ D(v) \in Nat /\ D(v) <= W(k, v) BY <1>2, GeometryAssumption
    <3>2. W(k, v) <= W(0, v) BY <2>3
    <3> HIDE DEF W, D
    <3> QED BY <2>4, <3>1, <3>2
  <2> QED BY <2>5 DEF Settled
<1> DEFINE j == first - 1
<1>9. j \in Nat /\ j + 1 = first /\ j < first BY <1>6, <1>8
<1> HIDE DEF j
<1>10. W(j, v) # near BY <1>5, <1>7, <1>9
<1>11. PICK m \in Adjacent(g, v) : W(first, v) = W(j, m) + Weight(g, m, v) /\ Weight(g, m, v) \in Nat
  <2>1. Ways(g)[j] \in Tables BY <1>9, WaysType
  <2>2. Ways(g)[first] = Longer(g, Ways(g)[j]) BY <1>9, WaysRecursion
  <2>3. v \in Nodes OBVIOUS
  <2> QED BY <1>5, <1>10, <2>1, <2>2, <2>3, LongerIs
<1>12. m \in Nodes /\ v \in Nodes BY DEF Adjacent
<1>13. W(j, m) \in Nat /\ D(m) \in Nat /\ D(m) <= W(j, m) /\ near \in Nat
  BY <1>2, <1>5, <1>9, <1>12
<1>14. m \in Settled(g, a, k)
  <2> SUFFICES ASSUME m \in Open PROVE FALSE BY <1>12
  <2>1. near <= D(m) BY <1>3
  <2>2. D(m) = near /\ W(j, m) = near
    <3> HIDE DEF W, D
    <3> QED BY <1>5, <1>11, <1>13, <2>1
  <2> QED BY <1>7, <1>9, <2>2
<1>15. W(k + 1, v) = D(v)
  <2>1. Ways(g)[k] \in Tables BY WaysType
  <2>2. Ways(g)[k + 1] = Longer(g, Ways(g)[k]) BY WaysRecursion
  <2>3. W(k + 1, v) <= W(k, m) + Weight(g, m, v) BY <1>12, <2>1, <2>2, LongerIs
  <2>4. W(k, m) = D(m) BY <1>14 DEF Settled
  <2>5. W(k + 1, v) \in Nat /\ D(v) <= W(k + 1, v) /\ D(v) \in Nat BY <1>2, <1>12
  <2> HIDE DEF W, D
  <2> QED BY ONLY <1>5, <1>11, <1>13, <2>3, <2>4, <2>5
<1> QED BY <1>12, <1>15 DEF Settled

\* So each step settles one more.
LEMMA SettledCount ==
    ASSUME NEW g, IsGraph(g), NEW a \in Nodes
    PROVE  Settled(g, a, Cardinality(Nodes) - 1) = Nodes
<1> DEFINE n == Cardinality(Nodes)
           Enough(k) == Cardinality(Settled(g, a, k)) > k \/ Settled(g, a, k) = Nodes
           S == {k \in Nat : Enough(k)}
<1>0. n \in Nat /\ n - 1 \in Nat
  <2>1. n \in Nat /\ (n = 0 <=> Nodes = {}) BY FS_CardinalityType, FS_EmptySet, GeometryAssumption
  <2> QED BY <2>1
<1>1. \A k : /\ Settled(g, a, k) \subseteq Nodes
             /\ IsFiniteSet(Settled(g, a, k))
             /\ Cardinality(Settled(g, a, k)) \in Nat
  <2> SUFFICES ASSUME NEW k
               PROVE  /\ Settled(g, a, k) \subseteq Nodes
                      /\ IsFiniteSet(Settled(g, a, k))
                      /\ Cardinality(Settled(g, a, k)) \in Nat
    OBVIOUS
  <2>1. Settled(g, a, k) \subseteq Nodes BY DEF Settled
  <2> QED BY <2>1, FS_Subset, FS_CardinalityType, GeometryAssumption
<1>2. 0 \in S
  <2>1. a \in Settled(g, a, 0)
    <3>1. Ways(g)[0][<<a, a>>] = 0 BY WaysRecursion DEF NoWay
    <3> QED BY <3>1, ShortestSelf DEF Settled
  <2>2. Cardinality(Settled(g, a, 0)) # 0 BY <1>1, <2>1, FS_EmptySet
  <2> QED BY <1>1, <2>2
<1>3. ASSUME NEW k \in Nat, k \in S PROVE k + 1 \in S
  <2>1. Settled(g, a, k) \subseteq Settled(g, a, k + 1) BY SettledStay
  <2>2. CASE Settled(g, a, k) = Nodes BY <1>1, <2>1, <2>2
  <2>3. CASE Settled(g, a, k) # Nodes
    <3>1. Settled(g, a, k) # Settled(g, a, k + 1) BY <2>3, OneMoreSettled
    <3>2. Cardinality(Settled(g, a, k)) <= Cardinality(Settled(g, a, k + 1))
            /\ Cardinality(Settled(g, a, k)) # Cardinality(Settled(g, a, k + 1))
      BY <1>1, <2>1, <3>1, FS_Subset
    <3>3. Cardinality(Settled(g, a, k)) > k BY <1>3, <2>3
    <3>4. Cardinality(Settled(g, a, k)) \in Nat /\ Cardinality(Settled(g, a, k + 1)) \in Nat BY <1>1
    <3> QED BY <3>2, <3>3, <3>4
  <2> QED BY <2>2, <2>3
<1>4. n - 1 \in S
  <2> HIDE DEF S, n
  <2>1. Nat \subseteq S BY <1>2, <1>3, SetInduction
  <2> QED BY <1>0, <2>1
<1>5. Settled(g, a, n - 1) \subseteq Nodes /\ Cardinality(Settled(g, a, n - 1)) \in Nat BY <1>1
<1>6. Cardinality(Settled(g, a, n - 1)) <= n
        /\ (n = Cardinality(Settled(g, a, n - 1)) => Nodes = Settled(g, a, n - 1))
  BY <1>5, FS_Subset, GeometryAssumption
<1>7. Cardinality(Settled(g, a, n - 1)) > n - 1 \/ Settled(g, a, n - 1) = Nodes BY <1>4
<1> HIDE DEF n
<1>8. ASSUME Cardinality(Settled(g, a, n - 1)) > n - 1 PROVE n = Cardinality(Settled(g, a, n - 1))
  BY <1>0, <1>5, <1>6, <1>8
<1> QED BY <1>6, <1>7, <1>8 DEF n

\* The distances the cache holds are those of shortest ways.
LEMMA DistancesAreShortest ==
    ASSUME NEW g, IsGraph(g), Nodes # {}
    PROVE  /\ Distances(g) \in Tables
           /\ \A a, b \in Nodes : Distances(g)[<<a, b>>] = Shortest(g, a, b)
<1> DEFINE n == Cardinality(Nodes)
<1>1. n - 1 \in Nat /\ n - 1 \in 0 .. n
  <2>1. n \in Nat /\ (n = 0 <=> Nodes = {}) BY FS_CardinalityType, FS_EmptySet, GeometryAssumption
  <2> QED BY <2>1
<1>2. Distances(g) = Ways(g)[n - 1] BY <1>1, WithinIsWays DEF Distances
<1> HIDE DEF n
<1>3. \A a \in Nodes : Settled(g, a, n - 1) = Nodes BY SettledCount DEF n
<1> QED BY <1>1, <1>2, <1>3, WaysType DEF Settled

-----------------------------------------------------------------------------
(* What connects sets, and how far.                                        *)

\* A set in an interval of the naturals has a greatest number.
LEMMA GreatestNatural ==
    ASSUME NEW n \in Nat, NEW S \in SUBSET (0 .. n), S # {}
    PROVE  Max(S) \in S /\ Max(S) \in Nat /\ \A y \in S : y <= Max(S)
<1>1. IsFiniteSet(S)
  <2>1. 0 \in Int /\ n \in Int OBVIOUS
  <2>2. IsFiniteSet(0 .. n) BY <2>1, FS_Interval
  <2> QED BY <2>2, FS_Subset
<1>2. S \in SUBSET Int OBVIOUS
<1>3. Max(S) \in S /\ \A y \in S : Max(S) >= y BY <1>1, <1>2, GreatestInteger
<1>4. \A y \in S : y \in Nat OBVIOUS
<1> QED BY <1>3, <1>4

\* More connections reach at least as far.
LEMMA ReachMore ==
    ASSUME NEW S, NEW R, NEW Q, NEW a,
           \A x, y \in S : <<x, y>> \in R => <<x, y>> \in Q
    PROVE  ReachFrom(a, S, R) \subseteq ReachFrom(a, S, Q)
BY DEF ReachFrom

\* One connection further.
LEMMA ReachNext ==
    ASSUME NEW S, NEW R, NEW a, NEW b \in ReachFrom(a, S, R), NEW c \in S, <<b, c>> \in R
    PROVE  c \in ReachFrom(a, S, R)
BY DEF ReachFrom

\* What is reached inside a part that nothing leads out of is what is reached at all.
LEMMA ReachWithin ==
    ASSUME NEW S, NEW U \in SUBSET S, NEW R, NEW Q, NEW a \in U,
           \A x \in U, y \in S : <<x, y>> \in R => y \in U,
           \A x, y \in U : <<x, y>> \in Q <=> <<x, y>> \in R
    PROVE  ReachFrom(a, U, Q) = ReachFrom(a, S, R)
<1>1. ASSUME NEW b \in ReachFrom(a, U, Q) PROVE b \in ReachFrom(a, S, R)
  <2>1. b \in U BY DEF ReachFrom
  <2> SUFFICES ASSUME NEW T \in SUBSET S, a \in T,
                      \A x \in T, y \in S : <<x, y>> \in R => y \in T
               PROVE  b \in T
    BY <2>1 DEF ReachFrom
  <2>2. \A x \in T \cap U, y \in U : <<x, y>> \in Q => y \in T \cap U OBVIOUS
  <2>3. T \cap U \in SUBSET U /\ a \in T \cap U OBVIOUS
  <2>4. b \in T \cap U BY <2>2, <2>3 DEF ReachFrom
  <2> QED BY <2>4
<1>2. ASSUME NEW b \in ReachFrom(a, S, R) PROVE b \in ReachFrom(a, U, Q)
  <2>1. b \in U BY DEF ReachFrom
  <2> SUFFICES ASSUME NEW T \in SUBSET U, a \in T,
                      \A x \in T, y \in U : <<x, y>> \in Q => y \in T
               PROVE  b \in T
    BY <2>1 DEF ReachFrom
  <2>2. \A x \in T, y \in S : <<x, y>> \in R => y \in T OBVIOUS
  <2> QED BY <2>2 DEF ReachFrom
<1> QED BY <1>1, <1>2

\* A division whose sets are not empty is given by sets of it that cover everything.
LEMMA WholeDivision ==
    ASSUME NEW S, NEW division, Divides(division, S), {} \notin division,
           NEW sets \in SUBSET division, \A a \in S : \E A \in sets : a \in A
    PROVE  sets = division
<1> SUFFICES ASSUME NEW B \in division PROVE B \in sets
  OBVIOUS
<1>1. PICK a \in B : TRUE OBVIOUS
<1>2. a \in S BY <1>1 DEF Divides
<1>3. PICK A \in sets : a \in A BY <1>2
<1> QED BY <1>1, <1>3 DEF Divides

\* Tables of distances that are symmetric.
LEMMA LinksAre ==
    ASSUME NEW S \in SUBSET Nat, NEW dist, NEW buffer,
           \A a, b \in S : dist[<<a, b>>] = dist[<<b, a>>]
    PROVE  \A a, b \in S : <<a, b>> \in Links(dist, S, buffer) <=> dist[<<a, b>>] <= buffer
BY DEF Links, Apart

\* Each detector is in its own threshold component.
LEMMA ThresholdNotEmpty ==
    ASSUME NEW dist, NEW S, NEW buffer
    PROVE  {} \notin ThresholdComponents(dist, S, buffer)
<1>1. \A a \in S : a \in ReachFrom(a, S, Links(dist, S, buffer)) BY DEF ReachFrom
<1> QED BY <1>1 DEF ThresholdComponents

\* Everything is one component if no two are further apart than the buffer.
LEMMA ThresholdWhole ==
    ASSUME NEW dist, NEW S, S # {}, NEW buffer,
           \A a, b \in S : <<a, b>> \in Links(dist, S, buffer)
    PROVE  ThresholdComponents(dist, S, buffer) = {S}
<1>1. ASSUME NEW a \in S PROVE ReachFrom(a, S, Links(dist, S, buffer)) = S
  <2>1. a \in ReachFrom(a, S, Links(dist, S, buffer)) BY DEF ReachFrom
  <2>2. ReachFrom(a, S, Links(dist, S, buffer)) \subseteq S BY DEF ReachFrom
  <2> QED BY <2>1, <2>2, ReachNext
<1> QED BY <1>1 DEF ThresholdComponents

\* The detectors are components one by one if all are further apart.
LEMMA ThresholdSingle ==
    ASSUME NEW dist, NEW S, NEW buffer,
           \A a, b \in S : a # b => <<a, b>> \notin Links(dist, S, buffer)
    PROVE  ThresholdComponents(dist, S, buffer) = {{a} : a \in S}
<1>1. ASSUME NEW a \in S PROVE ReachFrom(a, S, Links(dist, S, buffer)) = {a}
  <2>1. a \in ReachFrom(a, S, Links(dist, S, buffer)) BY DEF ReachFrom
  <2>2. {a} \in SUBSET S
          /\ \A x \in {a}, y \in S : <<x, y>> \in Links(dist, S, buffer) => y \in {a}
    OBVIOUS
  <2>3. \A b \in ReachFrom(a, S, Links(dist, S, buffer)) : b \in {a} BY <2>2 DEF ReachFrom
  <2> QED BY <2>1, <2>3
<1> QED BY <1>1 DEF ThresholdComponents

\* The components of the graph are the threshold components if the buffer covers each of them.
LEMMA ThresholdInterior ==
    ASSUME NEW dist, NEW S, NEW buffer, NEW id,
           \A a, b \in S : <<a, b>> \in Links(dist, S, buffer) <=> id[a] = id[b]
    PROVE  ThresholdComponents(dist, S, buffer) = InteriorComponents(id, S)
<1>1. ASSUME NEW a \in S
      PROVE  ReachFrom(a, S, Links(dist, S, buffer)) = {b \in S : id[b] = id[a]}
  <2> DEFINE C == {b \in S : id[b] = id[a]}
             R == Links(dist, S, buffer)
  <2>1. a \in ReachFrom(a, S, R) BY DEF ReachFrom
  <2>2. \A x \in C, y \in S : <<x, y>> \in R => y \in C OBVIOUS
  <2>3. C \in SUBSET S /\ a \in C OBVIOUS
  <2>4. \A b \in ReachFrom(a, S, R) : b \in C BY <2>2, <2>3 DEF ReachFrom
  <2>5. \A b \in C : <<a, b>> \in R OBVIOUS
  <2>6. \A b \in C : b \in ReachFrom(a, S, R) BY <2>1, <2>5, ReachNext
  <2> QED BY <2>4, <2>6
<1> QED BY <1>1 DEF ThresholdComponents, InteriorComponents

-----------------------------------------------------------------------------
(* The metric of a graph whose ways are shorter than Inf.                  *)

\* No shortest way is nearly as long as Inf.
LEMMA FiniteIsShort ==
    ASSUME NEW g, IsGraph(g), Short(g), NEW a \in Nodes, NEW b \in Nodes, Shortest(g, a, b) < Inf
    PROVE  2 * Shortest(g, a, b) < Inf
<1> DEFINE n == Cardinality(Nodes)
           W(k, v) == Ways(g)[k][<<a, v>>]
           P(k) == \A v \in Nodes : W(k, v) < Inf => 2 * n * W(k, v) <= k * (Inf - 1)
           K == {k \in Nat : P(k)}
<1>0. n \in Nat /\ n # 0 /\ Inf \in Nat
  <2>1. n \in Nat /\ (n = 0 <=> Nodes = {}) BY FS_CardinalityType, FS_EmptySet, GeometryAssumption
  <2> QED BY <2>1, GeometryAssumption
<1>1. \A k \in Nat, v \in Nodes : W(k, v) \in Nat
  <2> SUFFICES ASSUME NEW k \in Nat, NEW v \in Nodes PROVE W(k, v) \in Nat OBVIOUS
  <2>1. Ways(g)[k] \in Tables BY WaysType
  <2>2. W(k, v) \in 0 .. Inf BY <2>1 DEF Tables
  <2> QED BY <1>0, <2>2
<1>2. P(0)
  <2> SUFFICES ASSUME NEW v \in Nodes, W(0, v) < Inf PROVE 2 * n * W(0, v) <= 0 * (Inf - 1)
    OBVIOUS
  <2>1. W(0, v) = IF a = v THEN 0 ELSE Inf BY WaysRecursion DEF NoWay
  <2>2. W(0, v) = 0 BY <1>0, <2>1
  <2> HIDE DEF W, n
  <2> QED BY <1>0, <2>2
<1>3. ASSUME NEW k \in Nat, P(k) PROVE P(k + 1)
  <2> SUFFICES ASSUME NEW v \in Nodes, W(k + 1, v) < Inf
               PROVE  2 * n * W(k + 1, v) <= (k + 1) * (Inf - 1)
    OBVIOUS
  <2>1. Ways(g)[k] \in Tables BY WaysType
  <2>2. Ways(g)[k + 1] = Longer(g, Ways(g)[k]) BY WaysRecursion
  <2>3. CASE W(k + 1, v) = W(k, v)
    <3>1. 2 * n * W(k, v) <= k * (Inf - 1) BY <1>3, <2>3
    <3>2. k * (Inf - 1) <= (k + 1) * (Inf - 1)
      <4>1. Inf - 1 \in Nat BY <1>0, <1>1, <2>3
      <4>2. PICK i \in Nat : i = Inf - 1 BY <4>1
      <4> QED BY <4>2
    <3> HIDE DEF W, n
    <3>3. PICK x : x = 2 * n * W(k, v) OBVIOUS
    <3>4. x \in Int BY <1>0, <1>1, <3>3
    <3>5. PICK y \in Int, z \in Int : y = k * (Inf - 1) /\ z = (k + 1) * (Inf - 1) BY <1>0
    <3>6. x <= z BY <3>1, <3>2, <3>3, <3>4, <3>5
    <3> QED BY <2>3, <3>3, <3>5, <3>6
  <2>4. CASE \E m \in Adjacent(g, v) : W(k + 1, v) = W(k, m) + Weight(g, m, v)
    <3>1. PICK m \in Adjacent(g, v) : W(k + 1, v) = W(k, m) + Weight(g, m, v) BY <2>4
    <3>2. m \in Nodes /\ {m, v} \in DOMAIN g.edge /\ Weight(g, m, v) = g.edge[{m, v}]
      BY DEF Adjacent, Weight
    <3>3. PICK w \in Nat : w = Weight(g, m, v) BY <3>2 DEF IsGraph
    <3>4. 2 * n * w < Inf BY <3>2, <3>3 DEF Short
    <3>5. PICK x \in Nat : x = W(k, m) BY <1>1, <3>2
    <3>6. x < Inf BY <1>0, <3>1, <3>3, <3>5
    <3>7. 2 * n * x <= k * (Inf - 1) BY <1>3, <3>2, <3>5, <3>6
    <3>8. W(k + 1, v) = x + w BY <3>1, <3>3, <3>5
    <3> HIDE DEF W, n
    <3>9. 2 * n * (x + w) <= (k + 1) * (Inf - 1)
      <4>1. PICK p \in Int, q \in Int : p = 2 * n * x /\ q = 2 * n * w BY <1>0
      <4>2. 2 * n * (x + w) = p + q BY <1>0, <4>1
      <4>3. PICK r \in Int : r = k * (Inf - 1) BY <1>0
      <4>4. (k + 1) * (Inf - 1) = r + (Inf - 1) BY <1>0, <4>3
      <4>5. p <= r /\ q <= Inf - 1 BY <1>0, <3>4, <3>7, <4>1, <4>3
      <4>6. p + q <= r + (Inf - 1) BY <1>0, <4>1, <4>3, <4>5
      <4> QED BY <4>2, <4>4, <4>6
    <3> QED BY <3>8, <3>9
  <2> HIDE DEF n
  <2> QED BY <2>1, <2>2, <2>3, <2>4, LongerIs
<1> HIDE DEF P
<1>31. 0 \in K /\ \A k \in Nat : k \in K => k + 1 \in K BY <1>2, <1>3
<1> HIDE DEF K
<1>4. Nat \subseteq K BY <1>31, SetInduction
<1>5. n - 1 \in Nat BY <1>0
<1>6. b \in Settled(g, a, n - 1) BY SettledCount
<1>7. W(n - 1, b) = Shortest(g, a, b) BY <1>6 DEF Settled
<1>8. P(n - 1) BY <1>4, <1>5 DEF K
<1>9. 2 * n * Shortest(g, a, b) <= (n - 1) * (Inf - 1)
  <2>1. W(n - 1, b) < Inf BY <1>7
  <2> HIDE DEF W
  <2> QED BY <1>7, <1>8, <2>1 DEF P
<1>10. PICK x \in Nat : x = Shortest(g, a, b) BY <1>1, <1>5, <1>7
<1> HIDE DEF W
<1>11. PICK m \in Nat : m = n BY <1>0
<1>12. 2 * m * x <= (m - 1) * (Inf - 1) BY <1>9, <1>10, <1>11
<1>13. m > 0 /\ x < Inf BY <1>0, <1>10, <1>11
<1>14. ASSUME 2 * x >= Inf PROVE FALSE
  <2>1. PICK i \in Nat : Inf = i + 1 BY <1>0, <1>13
  <2>2. PICK y \in Nat : 2 * x = i + 1 + y
    <3>1. PICK z \in Nat : z = 2 * x OBVIOUS
    <3>2. z >= i + 1 BY <1>14, <2>1, <3>1
    <3>3. z - (i + 1) \in Nat /\ z = i + 1 + (z - (i + 1)) BY <3>2
    <3> QED BY <3>1, <3>3
  <2>3. m * (2 * x) = m * (i + 1 + y) BY <2>2
  <2>4. m * (2 * x) <= (m - 1) * i BY <1>12, <2>1
  <2>5. PICK j \in Nat : m = j + 1 BY <1>13
  <2>6. (j + 1) * (i + 1 + y) <= j * i BY <2>2, <2>4, <2>5
  <2>7. PICK u \in Nat, v \in Nat : u = j * i /\ v = j * y OBVIOUS
  <2>8. (j + 1) * (i + 1 + y) = u + j + v + i + 1 + y BY <2>7
  <2> QED BY <2>6, <2>7, <2>8
<1> QED BY <1>0, <1>10, <1>14

\* Nodes that are not the same are at least an edge apart.
LEMMA FarApart ==
    ASSUME NEW g, IsGraph(g), NEW m \in Nat, m <= Inf, \A e \in DOMAIN g.edge : m <= g.edge[e],
           NEW a \in Nodes, NEW b \in Nodes, a # b
    PROVE  m <= Shortest(g, a, b)
<1> DEFINE P(k) == \A v \in Nodes : v # a => m <= Ways(g)[k][<<a, v>>]
           K == {k \in Nat : P(k)}
<1>1. P(0)
  <2>1. \A v \in Nodes : Ways(g)[0][<<a, v>>] = IF a = v THEN 0 ELSE Inf BY WaysRecursion DEF NoWay
  <2> QED BY <2>1
<1>2. ASSUME NEW k \in Nat, P(k) PROVE P(k + 1)
  <2> SUFFICES ASSUME NEW v \in Nodes, v # a PROVE m <= Ways(g)[k + 1][<<a, v>>]
    OBVIOUS
  <2>1. Ways(g)[k] \in Tables BY WaysType
  <2>2. Ways(g)[k + 1] = Longer(g, Ways(g)[k]) BY WaysRecursion
  <2>3. CASE Ways(g)[k + 1][<<a, v>>] = Ways(g)[k][<<a, v>>] BY <1>2, <2>3
  <2>4. CASE \E n \in Adjacent(g, v) : Ways(g)[k + 1][<<a, v>>] = Ways(g)[k][<<a, n>>] + Weight(g, n, v)
    <3>1. PICK n \in Adjacent(g, v) : Ways(g)[k + 1][<<a, v>>] = Ways(g)[k][<<a, n>>] + Weight(g, n, v)
      BY <2>4
    <3>2. n \in Nodes /\ {n, v} \in DOMAIN g.edge /\ Weight(g, n, v) = g.edge[{n, v}]
      BY DEF Adjacent, Weight
    <3>3. PICK w \in Nat : w = Weight(g, n, v) /\ m <= w BY <3>2 DEF IsGraph
    <3>4. Ways(g)[k][<<a, n>>] \in 0 .. Inf BY <2>1, <3>2 DEF Tables
    <3>5. PICK x \in Nat : x = Ways(g)[k][<<a, n>>] BY <3>4, GeometryAssumption
    <3> QED BY <3>1, <3>3, <3>5
  <2> QED BY <2>1, <2>2, <2>3, <2>4, LongerIs
<1> HIDE DEF P
<1>21. 0 \in K /\ \A k \in Nat : k \in K => k + 1 \in K BY <1>1, <1>2
<1> HIDE DEF K
<1>3. Nat \subseteq K BY <1>21, SetInduction
<1>4. PICK k \in Nat : Shortest(g, a, b) = Ways(g)[k][<<a, b>>] BY ShortestIs
<1>5. P(k) BY <1>3 DEF K
<1> QED BY <1>4, <1>5 DEF P

\* What a table of shortest distances is like.
Metric(dist) ==
  /\ dist \in Tables
  /\ \A a, b \in Nodes : dist[<<a, a>>] = 0 /\ dist[<<a, b>>] = dist[<<b, a>>]
  /\ \A a, b, c \in Nodes : dist[<<a, c>>] <= dist[<<a, b>>] + dist[<<b, c>>]
  /\ \A a, b \in Nodes : dist[<<a, b>>] < Inf => 2 * dist[<<a, b>>] < Inf

LEMMA DistancesAreMetric ==
    ASSUME NEW g, IsGraph(g), Short(g), Nodes # {}
    PROVE  Metric(Distances(g))
<1>1. PICK dist \in Tables :
        /\ dist = Distances(g)
        /\ \A a, b \in Nodes : dist[<<a, b>>] = Shortest(g, a, b)
  BY DistancesAreShortest
<1>2. \A a, b \in Nodes : Shortest(g, a, b) \in Nat
  <2> SUFFICES ASSUME NEW a \in Nodes, NEW b \in Nodes PROVE Shortest(g, a, b) \in Nat OBVIOUS
  <2>1. Shortest(g, a, b) \in 0 .. Inf BY ShortestIs
  <2> QED BY <2>1
<1>3. \A a, b \in Nodes : dist[<<a, a>>] = 0 /\ dist[<<a, b>>] = dist[<<b, a>>]
  <2> SUFFICES ASSUME NEW a \in Nodes, NEW b \in Nodes
               PROVE  dist[<<a, a>>] = 0 /\ dist[<<a, b>>] = dist[<<b, a>>]
    OBVIOUS
  <2>1. Shortest(g, a, b) <= Shortest(g, b, a) /\ Shortest(g, b, a) <= Shortest(g, a, b)
    BY ShortestSymmetric
  <2>2. Shortest(g, a, b) = Shortest(g, b, a) BY <1>2, <2>1
  <2>3. Shortest(g, a, a) = 0 BY ShortestSelf
  <2> QED BY <1>1, <2>2, <2>3
<1>4. \A a, b, c \in Nodes : dist[<<a, c>>] <= dist[<<a, b>>] + dist[<<b, c>>]
  <2> SUFFICES ASSUME NEW a \in Nodes, NEW b \in Nodes, NEW c \in Nodes
               PROVE  dist[<<a, c>>] <= dist[<<a, b>>] + dist[<<b, c>>]
    OBVIOUS
  <2>1. Shortest(g, a, c) <= Shortest(g, a, b) + Shortest(g, b, c) BY ShortestTriangle
  <2> QED BY <1>1, <2>1
<1>5. \A a, b \in Nodes : dist[<<a, b>>] < Inf => 2 * dist[<<a, b>>] < Inf
  BY <1>1, FiniteIsShort
<1>6. Metric(dist) BY <1>3, <1>4, <1>5 DEF Metric
<1> QED BY <1>1, <1>6

\* To be connected is transitive, and the id tells whether nodes are.
LEMMA ConnectedOn ==
    ASSUME NEW dist, Metric(dist), NEW a \in Nodes, NEW b \in Nodes, NEW c \in Nodes,
           dist[<<a, b>>] < Inf, dist[<<b, c>>] < Inf
    PROVE  dist[<<a, c>>] < Inf
<1>1. dist[<<a, b>>] \in 0 .. Inf /\ dist[<<b, c>>] \in 0 .. Inf /\ dist[<<a, c>>] \in 0 .. Inf
  BY DEF Metric, Tables
<1>2. PICK x \in Nat, y \in Nat, z \in Nat :
        x = dist[<<a, b>>] /\ y = dist[<<b, c>>] /\ z = dist[<<a, c>>]
  BY <1>1, GeometryAssumption
<1>3. 2 * x < Inf /\ 2 * y < Inf /\ z <= x + y BY <1>2 DEF Metric
<1> QED BY <1>2, <1>3, GeometryAssumption

LEMMA SameComponent ==
    ASSUME NEW dist, Metric(dist), 0 < Inf, NEW a \in Nodes, NEW b \in Nodes
    PROVE  ComponentIds(dist)[a] = ComponentIds(dist)[b] <=> dist[<<a, b>>] < Inf
<1> DEFINE Around(v) == {u \in Nodes : dist[v, u] < Inf}
<1>1. \A v \in Nodes : ComponentIds(dist)[v] = Min(Around(v)) BY DEF ComponentIds
<1>2. \A v, u \in Nodes : dist[<<v, v>>] = 0 /\ dist[<<v, u>>] = dist[<<u, v>>] BY DEF Metric
<1>3. \A v \in Nodes : Min(Around(v)) \in Around(v)
  <2> SUFFICES ASSUME NEW v \in Nodes PROVE Min(Around(v)) \in Around(v) OBVIOUS
  <2>1. v \in Around(v) BY <1>2
  <2>2. Around(v) \in SUBSET Nat BY GeometryAssumption
  <2> HIDE DEF Around
  <2> QED BY <2>1, <2>2, LeastNatural
<1>4. ASSUME dist[<<a, b>>] < Inf PROVE Around(a) = Around(b)
  <2>1. dist[<<b, a>>] < Inf BY <1>2, <1>4
  <2>2. \A u \in Nodes : dist[<<a, u>>] < Inf => dist[<<b, u>>] < Inf BY <2>1, ConnectedOn
  <2>3. \A u \in Nodes : dist[<<b, u>>] < Inf => dist[<<a, u>>] < Inf BY <1>4, ConnectedOn
  <2> QED BY <2>2, <2>3
<1>5. ASSUME Min(Around(a)) = Min(Around(b)) PROVE dist[<<a, b>>] < Inf
  <2>1. PICK u \in Nodes : dist[<<a, u>>] < Inf /\ dist[<<b, u>>] < Inf
    <3>1. Min(Around(a)) \in Around(a) /\ Min(Around(a)) \in Around(b) BY <1>3, <1>5
    <3> QED BY <3>1
  <2>2. dist[<<u, b>>] < Inf BY <1>2, <2>1
  <2> QED BY <2>1, <2>2, ConnectedOn
<1> HIDE DEF Around
<1> QED BY <1>1, <1>4, <1>5

\* Within a component no two nodes are further apart than the bound of any landmarks.
LEMMA LandmarksBound ==
    ASSUME NEW dist, Metric(dist), 0 < Inf, NEW upper \in LandmarkBounds(dist),
           NEW a \in Nodes, NEW b \in Nodes, dist[<<a, b>>] < Inf
    PROVE  dist[<<a, b>>] <= upper
<1> DEFINE ids == ComponentIds(dist)
           Mark(c) == {v \in Nodes : ids[v] = c /\ Eccentricity(dist, v) <= Eccentricity(dist, c)}
<1>1. PICK mark \in [Range(ids) -> Nodes] :
        /\ \A c \in Range(ids) : mark[c] \in Mark(c)
        /\ upper = Max({2 * Eccentricity(dist, mark[c]) : c \in Range(ids)})
  BY DEF LandmarkBounds
<1>2. \A v, u \in Nodes : dist[<<v, u>>] \in 0 .. Inf /\ dist[<<v, v>>] = 0 /\ dist[<<v, u>>] = dist[<<u, v>>]
  BY DEF Metric, Tables
<1>3. \A v \in Nodes : /\ Eccentricity(dist, v) \in 0 .. Inf
                       /\ \A u \in Nodes : dist[<<v, u>>] < Inf => dist[<<v, u>>] <= Eccentricity(dist, v)
  <2> SUFFICES ASSUME NEW v \in Nodes
               PROVE  /\ Eccentricity(dist, v) \in 0 .. Inf
                      /\ \A u \in Nodes : dist[<<v, u>>] < Inf => dist[<<v, u>>] <= Eccentricity(dist, v)
    OBVIOUS
  <2> DEFINE E == {dist[v, u] : u \in {w \in Nodes : dist[v, w] < Inf}}
  <2>1. E \in SUBSET (0 .. Inf) BY <1>2
  <2>2. dist[<<v, v>>] \in E BY <1>2
  <2>3. \A u \in Nodes : dist[<<v, u>>] < Inf => dist[<<v, u>>] \in E OBVIOUS
  <2>4. Eccentricity(dist, v) = Max(E) BY DEF Eccentricity
  <2> HIDE DEF E
  <2>5. Max(E) \in E /\ \A y \in E : y <= Max(E) BY <2>1, <2>2, GreatestNatural, GeometryAssumption
  <2> QED BY <2>1, <2>3, <2>4, <2>5
<1> DEFINE T == {2 * Eccentricity(dist, mark[c]) : c \in Range(ids)}
           c == ids[a]
<1>4. ids \in [Nodes -> Range(ids)] /\ c \in Range(ids) BY DEF ComponentIds, Range
<1>5. T \in SUBSET (0 .. 2 * Inf) /\ 2 * Inf \in Nat
  <2> SUFFICES ASSUME NEW i \in Range(ids) PROVE 2 * Eccentricity(dist, mark[i]) \in 0 .. 2 * Inf
    BY GeometryAssumption
  <2>1. Eccentricity(dist, mark[i]) \in 0 .. Inf BY <1>1, <1>3
  <2> QED BY <2>1, GeometryAssumption
<1>6. 2 * Eccentricity(dist, mark[c]) \in T BY <1>4
<1>7. mark[c] \in Nodes /\ ids[mark[c]] = ids[a] BY <1>1, <1>4
<1>8. upper = Max(T) BY <1>1
<1> HIDE DEF T
<1>9. Max(T) \in Nat /\ \A y \in T : y <= Max(T) BY <1>5, <1>6, GreatestNatural
<1>10. PICK v \in Nodes : v = mark[c] BY <1>7
<1>11. dist[<<v, a>>] < Inf BY <1>7, <1>10, SameComponent
<1>12. dist[<<v, b>>] < Inf BY <1>11, ConnectedOn
<1>13. dist[<<a, b>>] <= dist[<<a, v>>] + dist[<<v, b>>] BY DEF Metric
<1>14. PICK e \in Nat : e = Eccentricity(dist, v) BY <1>3, GeometryAssumption
<1>15. dist[<<v, a>>] <= e /\ dist[<<v, b>>] <= e /\ 2 * e <= upper
  BY <1>3, <1>6, <1>8, <1>9, <1>10, <1>11, <1>12, <1>14
<1>16. PICK x \in Nat, y \in Nat, z \in Nat :
         x = dist[<<v, a>>] /\ y = dist[<<v, b>>] /\ z = dist[<<a, b>>]
  <2>1. dist[<<v, a>>] \in 0 .. Inf /\ dist[<<v, b>>] \in 0 .. Inf /\ dist[<<a, b>>] \in 0 .. Inf
    BY <1>2
  <2> QED BY <2>1, GeometryAssumption
<1>17. dist[<<a, v>>] = x BY <1>2, <1>16
<1>18. upper \in Nat BY <1>8, <1>9
<1> QED BY <1>13, <1>15, <1>16, <1>17, <1>18

\* The bounds of landmarks are numbers.
LEMMA LandmarksAre ==
    ASSUME NEW dist, Metric(dist), 0 < Inf, Nodes # {}, NEW upper \in LandmarkBounds(dist)
    PROVE  upper \in Nat
<1>1. PICK mark \in [Range(ComponentIds(dist)) -> Nodes] :
        upper = Max({2 * Eccentricity(dist, mark[c]) : c \in Range(ComponentIds(dist))})
  BY DEF LandmarkBounds
<1> DEFINE T == {2 * Eccentricity(dist, mark[c]) : c \in Range(ComponentIds(dist))}
<1>2. \A v, u \in Nodes : dist[<<v, u>>] \in 0 .. Inf /\ dist[<<v, v>>] = 0 BY DEF Metric, Tables
<1>3. ASSUME NEW v \in Nodes PROVE 2 * Eccentricity(dist, v) \in 0 .. 2 * Inf
  <2> DEFINE E == {dist[v, u] : u \in {w \in Nodes : dist[v, w] < Inf}}
  <2>1. E \in SUBSET (0 .. Inf) /\ dist[<<v, v>>] \in E BY <1>2
  <2>2. Eccentricity(dist, v) = Max(E) BY DEF Eccentricity
  <2> HIDE DEF E
  <2>3. Max(E) \in E BY <2>1, GreatestNatural, GeometryAssumption
  <2>4. PICK e \in 0 .. Inf : e = Eccentricity(dist, v) BY <2>1, <2>2, <2>3
  <2>5. 2 * e \in 0 .. 2 * Inf BY GeometryAssumption
  <2> QED BY <2>4, <2>5
<1>4. T \in SUBSET (0 .. 2 * Inf)
  <2>1. \A c \in Range(ComponentIds(dist)) : mark[c] \in Nodes OBVIOUS
  <2> QED BY <1>3, <2>1
<1>5. T # {}
  <2>1. Range(ComponentIds(dist)) # {} BY DEF Range, ComponentIds
  <2> QED BY <2>1
<1>6. 2 * Inf \in Nat BY GeometryAssumption
<1>7. upper = Max(T) BY <1>1
<1> HIDE DEF T
<1> QED BY <1>4, <1>5, <1>6, <1>7, GreatestNatural

-----------------------------------------------------------------------------
(* The boundary, and parity.                                               *)

\* The distance to the boundary is finite for all nodes of a component or for none.
LEMMA NearTogether ==
    ASSUME NEW g, IsGraph(g), Short(g), NEW dist, Metric(dist), NEW a \in Nodes, NEW b \in Nodes,
           dist[<<a, b>>] < Inf, NearestBoundary(g, dist)[a] < Inf
    PROVE  NearestBoundary(g, dist)[b] < Inf
<1> DEFINE To(v) == {Inf} \cup {Plus(dist[v, u], g.boundary[u]) : u \in DOMAIN g.boundary}
<1>1. \A v \in Nodes : NearestBoundary(g, dist)[v] = Min(To(v))
  BY DEF NearestBoundary
<1>2. \A v \in Nodes, u \in DOMAIN g.boundary :
        /\ u \in Nodes /\ g.boundary[u] \in Nat /\ 2 * g.boundary[u] < Inf
        /\ dist[<<v, u>>] \in Nat
        /\ Plus(dist[<<v, u>>], g.boundary[u]) \in Nat
        /\ Plus(dist[<<v, u>>], g.boundary[u]) < Inf => dist[<<v, u>>] < Inf
  <2> SUFFICES ASSUME NEW v \in Nodes, NEW u \in DOMAIN g.boundary
               PROVE  /\ u \in Nodes /\ g.boundary[u] \in Nat /\ 2 * g.boundary[u] < Inf
                      /\ dist[<<v, u>>] \in Nat
                      /\ Plus(dist[<<v, u>>], g.boundary[u]) \in Nat
                      /\ Plus(dist[<<v, u>>], g.boundary[u]) < Inf => dist[<<v, u>>] < Inf
    OBVIOUS
  <2>1. u \in Nodes /\ g.boundary[u] \in Nat /\ 2 * g.boundary[u] < Inf
    BY DEF IsGraph, Short
  <2>2. dist[<<v, u>>] \in 0 .. Inf
    BY <2>1 DEF Metric, Tables
  <2>3. PICK x, y \in Nat : x = dist[<<v, u>>] /\ y = g.boundary[u]
    BY <2>1, <2>2
  <2>4. Plus(x, y) = IF x + y <= Inf THEN x + y ELSE Inf
    BY PlusIs
  <2> QED BY <2>1, <2>3, <2>4, GeometryAssumption
<1>3. \A v \in Nodes : /\ To(v) \in SUBSET Nat /\ Inf \in To(v)
                       /\ \A u \in DOMAIN g.boundary : Plus(dist[<<v, u>>], g.boundary[u]) \in To(v)
                       /\ \A x \in To(v) : x = Inf \/ \E u \in DOMAIN g.boundary :
                                                        x = Plus(dist[<<v, u>>], g.boundary[u])
  BY <1>2, GeometryAssumption
<1> HIDE DEF To
<1>4. \A v \in Nodes : Min(To(v)) \in To(v) /\ \A y \in To(v) : Min(To(v)) <= y
  BY <1>3, LeastNatural
<1>5. PICK u \in DOMAIN g.boundary : Plus(dist[<<a, u>>], g.boundary[u]) < Inf
  <2>1. Min(To(a)) < Inf /\ Min(To(a)) \in To(a)
    BY <1>1, <1>4
  <2> QED BY <1>3, <2>1, GeometryAssumption
<1>6. u \in Nodes /\ dist[<<a, u>>] < Inf
  BY <1>2, <1>5
<1>7. dist[<<b, u>>] < Inf
  <2>1. dist[<<b, a>>] < Inf
    BY DEF Metric
  <2> QED BY <1>6, <2>1, ConnectedOn
<1>8. 2 * dist[<<b, u>>] < Inf
  BY <1>6, <1>7 DEF Metric
<1>9. Plus(dist[<<b, u>>], g.boundary[u]) < Inf
  <2>1. PICK x, y \in Nat : x = dist[<<b, u>>] /\ y = g.boundary[u]
    BY <1>2
  <2>2. 2 * x < Inf /\ 2 * y < Inf
    BY <1>2, <1>8, <2>1
  <2>3. x + y < Inf
    BY <2>2, GeometryAssumption
  <2>4. Plus(x, y) = IF x + y <= Inf THEN x + y ELSE Inf
    BY PlusIs
  <2> QED BY <2>1, <2>3, <2>4, GeometryAssumption
<1>10. PICK x, y \in Nat : x = Min(To(b)) /\ y = Plus(dist[<<b, u>>], g.boundary[u]) /\ x <= y
  BY <1>2, <1>3, <1>4
<1> QED BY <1>1, <1>9, <1>10, GeometryAssumption

Even(S) == Cardinality(S) % 2 = 0

\* What is left of an even set is even when an even part is taken out.
LEMMA EvenWithout ==
    ASSUME NEW S, IsFiniteSet(S), Even(S), NEW A \in SUBSET S, Even(A)
    PROVE  Even(S \ A)
<1>1. IsFiniteSet(A) /\ IsFiniteSet(S \ A) /\ S \cap A = A
  BY FS_Subset
<1>2. Cardinality(S \ A) = Cardinality(S) - Cardinality(A)
  BY <1>1, FS_Difference
<1>3. PICK m, n, k \in Nat : m = Cardinality(S) /\ n = Cardinality(A) /\ k = Cardinality(S \ A)
  BY <1>1, FS_CardinalityType
<1>4. k = m - n /\ m % 2 = 0 /\ n % 2 = 0
  BY <1>2, <1>3 DEF Even
<1> QED BY <1>3, <1>4 DEF Even

\* Nor do several parts that are disjoint and even change the parity.
LEMMA EvenRest ==
    ASSUME NEW S, IsFiniteSet(S), Even(S), NEW F \in SUBSET SUBSET S,
           \A A, B \in F : A # B => A \cap B = {}, \A A \in F : Even(A)
    PROVE  Even(S \ UNION F)
<1> DEFINE K == {n \in Nat : \A G \in SUBSET F : Cardinality(G) = n => Even(S \ UNION G)}
<1>1. \A G \in SUBSET F : IsFiniteSet(G) /\ Cardinality(G) \in Nat
  <2>1. IsFiniteSet(SUBSET S)
    BY FS_SUBSET
  <2>2. \A G \in SUBSET F : IsFiniteSet(G)
    BY <2>1, FS_Subset
  <2> QED BY <2>2, FS_CardinalityType
<1>2. 0 \in K
  <2> SUFFICES ASSUME NEW G \in SUBSET F, Cardinality(G) = 0 PROVE Even(S \ UNION G)
    OBVIOUS
  <2>1. G = {}
    BY <1>1, FS_EmptySet
  <2>2. S \ UNION G = S
    BY <2>1
  <2> QED BY <2>2
<1>3. \A n \in Nat : n \in K => n + 1 \in K
  <2> SUFFICES ASSUME NEW n \in Nat, n \in K, NEW G \in SUBSET F, Cardinality(G) = n + 1
               PROVE  Even(S \ UNION G)
    OBVIOUS
  <2>1. G # {}
    <3>1. n + 1 # 0
      OBVIOUS
    <3> QED BY Zenon, <3>1, FS_EmptySet
  <2>2. PICK A \in G : TRUE
    BY <2>1
  <2> DEFINE H == G \ {A}
  <2>3. Cardinality(H) = n
    <3>1. Cardinality(H) = Cardinality(G) - 1
      BY <1>1, <2>2, FS_RemoveElement
    <3> QED BY <3>1
  <2>4. H \in SUBSET F
    OBVIOUS
  <2>5. Even(S \ UNION H)
    BY <2>3, <2>4
  <2>6. A \subseteq S \ UNION H /\ S \ UNION G = (S \ UNION H) \ A
    BY <2>2
  <2>7. IsFiniteSet(S \ UNION H) /\ Even(A)
    BY <2>2, FS_Subset
  <2> HIDE DEF H
  <2> QED BY <2>5, <2>6, <2>7, EvenWithout
<1> HIDE DEF K
<1>4. Nat \subseteq K
  BY <1>2, <1>3, SetInduction
<1>5. Cardinality(F) \in K
  BY <1>1, <1>4
<1> QED BY <1>5 DEF K

-----------------------------------------------------------------------------
(* Parts of a graph.                                                       *)

\* What is within a bound of a node is reached from it inside any part of the graph that
\* contains all of that.
LEMMA WayInside ==
    ASSUME NEW g, IsGraph(g), NEW K \in SUBSET Nodes, NEW R, NEW bound \in Nat, bound < Inf,
           NEW a \in Nodes,
           \A v \in Nodes : Shortest(g, a, v) <= bound => v \in K,
           \A u, v \in K : {u, v} \in DOMAIN g.edge => <<u, v>> \in R
    PROVE  \A b \in Nodes : Shortest(g, a, b) <= bound => b \in ReachFrom(a, K, R)
<1> SUFFICES ASSUME NEW T \in SUBSET K, a \in T,
                    \A x \in T, y \in K : <<x, y>> \in R => y \in T
             PROVE  \A b \in Nodes : Shortest(g, a, b) <= bound => b \in T
  BY DEF ReachFrom
<1> DEFINE P(k) == \A v \in Nodes : Ways(g)[k][<<a, v>>] <= bound => v \in T
           S == {k \in Nat : P(k)}
<1>1. P(0)
  <2> SUFFICES ASSUME NEW v \in Nodes, Ways(g)[0][<<a, v>>] <= bound PROVE v \in T
    OBVIOUS
  <2>1. Ways(g)[0][<<a, v>>] = IF a = v THEN 0 ELSE Inf
    BY WaysRecursion DEF NoWay
  <2>2. Inf \in Nat
    BY GeometryAssumption
  <2> QED BY <2>1, <2>2
<1>2. ASSUME NEW k \in Nat, P(k) PROVE P(k + 1)
  <2> SUFFICES ASSUME NEW v \in Nodes, Ways(g)[k + 1][<<a, v>>] <= bound PROVE v \in T
    OBVIOUS
  <2>1. PICK d \in Tables : d = Ways(g)[k]
    BY WaysType
  <2>2. Ways(g)[k + 1] = Longer(g, d)
    BY <2>1, WaysRecursion
  <2>3. CASE Longer(g, d)[<<a, v>>] = d[<<a, v>>]
    BY <1>2, <2>1, <2>2, <2>3
  <2>4. ASSUME NEW m \in Adjacent(g, v), Longer(g, d)[<<a, v>>] = d[<<a, m>>] + Weight(g, m, v)
        PROVE  v \in T
    <3>1. m \in Nodes /\ {m, v} \in DOMAIN g.edge
      BY DEF Adjacent
    <3>2. Weight(g, m, v) \in Nat
      BY LongerIs
    <3>3. d[<<a, m>>] \in 0 .. Inf
      BY <3>1 DEF Tables
    <3>4. d[<<a, m>>] <= bound
      BY <2>2, <2>4, <3>2, <3>3, GeometryAssumption
    <3>5. m \in T
      BY <1>2, <2>1, <3>1, <3>4
    <3>6. Shortest(g, a, v) <= bound
      <4>1. Shortest(g, a, v) <= Ways(g)[k + 1][<<a, v>>]
        BY ShortestIs
      <4>2. Shortest(g, a, v) \in 0 .. Inf
        BY ShortestIs
      <4>3. Ways(g)[k + 1] \in Tables
        BY WaysType
      <4>4. Ways(g)[k + 1][<<a, v>>] \in 0 .. Inf
        BY <4>3 DEF Tables
      <4> QED BY <4>1, <4>2, <4>4, GeometryAssumption
    <3> QED BY <3>1, <3>5, <3>6
  <2> QED BY <2>3, <2>4, LongerIs
<1> HIDE DEF P
<1>3. 0 \in S /\ \A k \in Nat : k \in S => k + 1 \in S
  BY <1>1, <1>2
<1> HIDE DEF S
<1>4. Nat \subseteq S
  BY <1>3, SetInduction
<1> SUFFICES ASSUME NEW b \in Nodes, Shortest(g, a, b) <= bound PROVE b \in T
  OBVIOUS
<1>5. PICK k \in Nat : Shortest(g, a, b) = Ways(g)[k][<<a, b>>]
  BY ShortestIs
<1>6. P(k)
  BY <1>4 DEF S
<1> QED BY <1>5, <1>6 DEF P

\* The ends of an edge are connected.
LEMMA EdgeConnects ==
    ASSUME NEW g, IsGraph(g), Short(g), NEW u \in Nodes, NEW v \in Nodes, {u, v} \in DOMAIN g.edge
    PROVE  Shortest(g, u, v) < Inf
<1>1. u \in Adjacent(g, v)
  BY DEF Adjacent
<1>2. Shortest(g, u, v) <= Shortest(g, u, u) + Weight(g, u, v) /\ Shortest(g, u, u) = 0
  BY <1>1, ShortestExtends, ShortestSelf
<1>3. PICK w \in Nat : w = Weight(g, u, v) /\ 2 * Cardinality(Nodes) * w < Inf
  BY DEF Weight, IsGraph, Short
<1>4. PICK n \in Nat : n = Cardinality(Nodes) /\ n > 0
  <2>1. IsFiniteSet(Nodes)
    BY GeometryAssumption
  <2>2. Cardinality(Nodes) \in Nat
    BY <2>1, FS_CardinalityType
  <2>3. Cardinality(Nodes) # 0
    BY <2>1, FS_EmptySet
  <2> QED BY <2>2, <2>3
<1>5. w <= 2 * n * w
  <2>1. PICK m \in Nat : n = m + 1
    <3>1. n - 1 \in Nat /\ n = (n - 1) + 1
      BY <1>4
    <3> QED BY <3>1
  <2>2. PICK x \in Nat : x = m * w
    OBVIOUS
  <2>3. 2 * n * w = 2 * x + 2 * w
    BY <2>1, <2>2
  <2> QED BY <2>3
<1>6. w < Inf
  <2>1. PICK y \in Nat : y = 2 * n * w
    OBVIOUS
  <2> QED BY <1>3, <1>4, <1>5, <2>1, GeometryAssumption
<1>7. Shortest(g, u, v) \in 0 .. Inf
  BY ShortestIs
<1> QED BY <1>2, <1>3, <1>6, <1>7, GeometryAssumption

\* The way to the boundary passes a node that is no farther.
LEMMA NearIs ==
    ASSUME NEW g, IsGraph(g), NEW dist, Metric(dist), NEW a \in Nodes
    PROVE  /\ NearestBoundary(g, dist)[a] \in 0 .. Inf
           /\ NearestBoundary(g, dist)[a] < Inf =>
                \E u \in DOMAIN g.boundary :
                  u \in Nodes /\ dist[<<a, u>>] <= NearestBoundary(g, dist)[a]
<1> DEFINE To == {Inf} \cup {Plus(dist[a, u], g.boundary[u]) : u \in DOMAIN g.boundary}
<1>1. NearestBoundary(g, dist)[a] = Min(To)
  BY DEF NearestBoundary
<1>2. ASSUME NEW u \in DOMAIN g.boundary
      PROVE  /\ u \in Nodes
             /\ Plus(dist[<<a, u>>], g.boundary[u]) \in 0 .. Inf
             /\ Plus(dist[<<a, u>>], g.boundary[u]) < Inf =>
                  dist[<<a, u>>] <= Plus(dist[<<a, u>>], g.boundary[u])
  <2>1. u \in Nodes /\ g.boundary[u] \in Nat
    BY DEF IsGraph
  <2>2. dist[<<a, u>>] \in 0 .. Inf
    BY <2>1 DEF Metric, Tables
  <2>3. PICK x, y \in Nat : x = dist[<<a, u>>] /\ y = g.boundary[u]
    BY <2>1, <2>2
  <2>4. Plus(x, y) = IF x + y <= Inf THEN x + y ELSE Inf
    BY PlusIs
  <2> QED BY <2>1, <2>3, <2>4, GeometryAssumption
<1>3. To \in SUBSET Nat /\ Inf \in To
        /\ \A x \in To : x = Inf \/ \E u \in DOMAIN g.boundary : x = Plus(dist[<<a, u>>], g.boundary[u])
  <2>1. Inf \in Nat /\ \A u \in DOMAIN g.boundary : Plus(dist[<<a, u>>], g.boundary[u]) \in Nat
    <3>1. Inf \in Nat
      BY GeometryAssumption
    <3>2. ASSUME NEW u \in DOMAIN g.boundary PROVE Plus(dist[<<a, u>>], g.boundary[u]) \in Nat
      <4>1. Plus(dist[<<a, u>>], g.boundary[u]) \in 0 .. Inf
        BY <1>2
      <4> QED BY <3>1, <4>1
    <3> QED BY <3>1, <3>2
  <2> QED BY <2>1
<1> HIDE DEF To
<1>4. Min(To) \in To /\ \A y \in To : Min(To) <= y
  BY <1>3, LeastNatural
<1>5. Min(To) \in 0 .. Inf
  <2>1. Min(To) \in Nat /\ Min(To) <= Inf
    BY <1>3, <1>4
  <2>2. Inf \in Nat
    BY GeometryAssumption
  <2> QED BY <2>1, <2>2
<1>6. ASSUME Min(To) < Inf
      PROVE  \E u \in DOMAIN g.boundary : u \in Nodes /\ dist[<<a, u>>] <= Min(To)
  <2>1. Min(To) # Inf
    BY <1>5, <1>6, GeometryAssumption
  <2>2. PICK u \in DOMAIN g.boundary : Min(To) = Plus(dist[<<a, u>>], g.boundary[u])
    BY <1>3, <1>4, <2>1
  <2> QED BY <1>2, <1>6, <2>2
<1> QED BY <1>1, <1>5, <1>6

\* What S has of the component of the graph that a is in.
Mates(c, S, a) == {b \in S : c.id[b] = c.id[a]}

LEMMA SolvableMates ==
    ASSUME NEW c, NEW S
    PROVE  Solvable(c, S) <=>
             \A a \in S : Even(Mates(c, S, a)) \/ \E b \in Mates(c, S, a) : c.near[b] < Inf
<1>1. InteriorComponents(c.id, S) = {Mates(c, S, a) : a \in S}
  BY DEF InteriorComponents, Mates
<1> QED BY <1>1 DEF Solvable, Even

\* Parts that are each inside a component, and even or near the boundary, have a perfect
\* matching, and what is left when they are taken out has one if the whole has.
LEMMA PartsSolvable ==
    ASSUME NEW c, NEW S \in SUBSET Nodes, Solvable(c, S),
           \A a, b \in S : c.id[a] = c.id[b] /\ c.near[b] < Inf => c.near[a] < Inf,
           NEW out \in SUBSET SUBSET S, \A A, B \in out : A # B => A \cap B = {},
           \A C \in out : \A a, b \in C : c.id[a] = c.id[b],
           \A C \in out : Even(C) \/ \A a \in C : c.near[a] < Inf
    PROVE  (\A C \in out : Solvable(c, C)) /\ Solvable(c, S \ UNION out)
<1> DEFINE Fits(T, a) == Even(Mates(c, T, a)) \/ \E b \in Mates(c, T, a) : c.near[b] < Inf
           rest == S \ UNION out
<1>1. ASSUME NEW C \in out, NEW a \in C PROVE Fits(C, a)
  <2>1. Mates(c, C, a) = C
    BY DEF Mates
  <2> QED BY <2>1
<1>2. ASSUME NEW a \in rest PROVE Fits(rest, a)
  <2> DEFINE D == Mates(c, S, a)
             F == {C \in out : C \cap D # {}}
  <2>1. Fits(S, a) /\ a \in Mates(c, rest, a) /\ a \in S
    BY SolvableMates DEF Mates
  <2>2. CASE \E b \in D : c.near[b] < Inf
    <3>1. c.near[a] < Inf
      BY <2>1, <2>2 DEF Mates
    <3> QED BY <2>1, <3>1
  <2>3. CASE ~ (\E b \in D : c.near[b] < Inf)
    <3>1. Even(D) /\ IsFiniteSet(D)
      <4>1. D \in SUBSET Nodes
        BY DEF Mates
      <4>2. IsFiniteSet(D)
        BY <4>1, FS_Subset, GeometryAssumption
      <4> QED BY <2>1, <2>3, <4>2
    <3>2. ASSUME NEW C \in F PROVE C \subseteq D /\ Even(C)
      <4>1. PICK d \in C : d \in D
        OBVIOUS
      <4>2. \A b \in C : b \in S /\ c.id[b] = c.id[d]
        OBVIOUS
      <4>3. c.id[d] = c.id[a]
        BY <4>1 DEF Mates
      <4>4. C \subseteq D
        BY <4>2, <4>3 DEF Mates
      <4>5. ~ (c.near[d] < Inf)
        BY <2>3, <4>1
      <4> QED BY <4>4, <4>5
    <3>3. F \in SUBSET SUBSET D /\ (\A A \in F : Even(A)) /\ \A A, B \in F : A # B => A \cap B = {}
      BY <3>2
    <3>4. Mates(c, rest, a) = D \ UNION F
      BY DEF Mates
    <3> HIDE DEF F, D
    <3>5. Even(D \ UNION F)
      BY <3>1, <3>3, EvenRest
    <3> QED BY <3>4, <3>5
  <2> QED BY <2>2, <2>3
<1>3. \A C \in out : Solvable(c, C)
  BY <1>1, SolvableMates
<1>4. Solvable(c, rest)
  BY <1>2, SolvableMates
<1> QED BY <1>3, <1>4

===============================================================================
