-------------------------- MODULE FloodEvents_proofs --------------------------
(***************************************************************************)
(* Proofs about FloodEvents, for any objects, any width of the times, any  *)
(* clock and any number of events: the radix heap with its wrapping times  *)
(* returns the events in the order of the times they were meant for, and   *)
(* the trackers on top of it keep the promise of LookSchedule.             *)
(***************************************************************************)
EXTENDS FloodEvents, FiniteSetTheorems, NaturalsInduction, TLAPS

-----------------------------------------------------------------------------
(* Powers of two.                                                          *)

\* A set with zero and all successors has all naturals.
LEMMA SetInduction ==
    ASSUME NEW S, 0 \in S, \A n \in Nat : n \in S => n + 1 \in S
    PROVE  Nat \subseteq S
<1> DEFINE T == Nat \ S
<1> SUFFICES ASSUME T # {} PROVE FALSE OBVIOUS
<1>1. PICK x \in T : \A y \in T : <<y, x>> \notin OpToRel(<, Nat)
  <2>1. T \subseteq Nat OBVIOUS
  <2> HIDE DEF T
  <2> QED BY <2>1, NatLessThanWellFounded, WFMin
<1>2. x # 0 /\ x - 1 \in Nat OBVIOUS
<1>3. <<x - 1, x>> \in OpToRel(<, Nat) BY <1>2 DEF OpToRel
<1>4. x - 1 \in S BY <1>1, <1>2, <1>3
<1> QED BY <1>2, <1>4

\* What the recursion of Power says.
LEMMA PowerFacts ==
    /\ Power[0] = 1
    /\ \A n \in Nat : Power[n + 1] = 2 * Power[n]
    /\ \A n \in Nat : Power[n] \in Nat \ {0}
<1> DEFINE Double(v, n) == 2 * v
<1>1. NatInductiveDefHypothesis(Power, 1, Double)
  BY DEF NatInductiveDefHypothesis, Power
<1>2. NatInductiveDefConclusion(Power, 1, Double)
  <2> HIDE DEF Double
  <2> QED BY <1>1, NatInductiveDef
<1>3. Power[0] = 1 /\ \A n \in Nat : Power[n + 1] = 2 * Power[n]
  BY <1>2 DEF NatInductiveDefConclusion
<1>4. \A n \in Nat : Power[n] \in Nat \ {0}
  <2> DEFINE S == {n \in Nat : Power[n] \in Nat \ {0}}
  <2>1. 0 \in S BY <1>3
  <2>2. \A n \in Nat : n \in S => n + 1 \in S BY <1>3
  <2>3. Nat \subseteq S
    <3> HIDE DEF S
    <3> QED BY <2>1, <2>2, SetInduction
  <2> QED BY <2>3
<1> QED BY <1>3, <1>4

\* Powers of two multiply as their exponents add.
LEMMA PowerSum ==
    \A m, n \in Nat : Power[m + n] = Power[m] * Power[n]
<1> SUFFICES ASSUME NEW m \in Nat PROVE \A n \in Nat : Power[m + n] = Power[m] * Power[n]
  OBVIOUS
<1> DEFINE S == {n \in Nat : Power[m + n] = Power[m] * Power[n]}
<1>1. 0 \in S BY PowerFacts
<1>2. ASSUME NEW n \in Nat, n \in S PROVE n + 1 \in S
  <2>1. Power[m + (n + 1)] = 2 * Power[m + n] BY PowerFacts
  <2>2. Power[m + n] = Power[m] * Power[n] BY <1>2
  <2>3. 2 * (Power[m] * Power[n]) = Power[m] * (2 * Power[n]) BY PowerFacts
  <2> QED BY <2>1, <2>2, <2>3, PowerFacts
<1>3. Nat \subseteq S
  <2> HIDE DEF S
  <2> QED BY <1>1, <1>2, SetInduction
<1> QED BY <1>3

\* The cycle is twice its half, and a multiple of each smaller power.
LEMMA CycleFacts ==
    /\ Half \in Nat \ {0, 1} /\ Cycle = 2 * Half /\ Cycle \in Nat \ {0}
    /\ Width - 1 \in Nat \ {0}
<1>1. Width \in Nat \ {0, 1} /\ Width - 1 \in Nat /\ Width - 2 \in Nat
  BY EventAssumption
<1>2. Power[(Width - 1) + 1] = 2 * Power[Width - 1] BY <1>1, PowerFacts
<1>3. Power[(Width - 2) + 1] = 2 * Power[Width - 2] BY <1>1, PowerFacts
<1>4. (Width - 1) + 1 = Width /\ (Width - 2) + 1 = Width - 1 BY <1>1
<1> QED BY <1>1, <1>2, <1>3, <1>4, PowerFacts DEF Half, Cycle

-----------------------------------------------------------------------------
(* Division.                                                               *)

\* Quotient and remainder, and that they are the only ones.
LEMMA Divide ==
    ASSUME NEW x \in Int, NEW d \in Nat \ {0}
    PROVE  /\ x \div d \in Int /\ x % d \in 0..(d - 1)
           /\ x = (d * (x \div d)) + (x % d)
           /\ x \in Nat => x \div d \in Nat
OBVIOUS

\* A number is its quotient and remainder in one way only.
LEMMA DivideUnique ==
    ASSUME NEW d \in Nat \ {0}, NEW q \in Int, NEW m \in 0..(d - 1), NEW x \in Int,
           x = (d * q) + m
    PROVE  q = x \div d /\ m = x % d
OBVIOUS

\* Dividing twice is dividing by the product.
LEMMA DivideTwice ==
    ASSUME NEW x \in Int, NEW d \in Nat \ {0}, NEW e \in Nat \ {0}
    PROVE  (x \div d) \div e = x \div (d * e)
OBVIOUS

\* A larger number has a quotient that is no smaller.
LEMMA DivideMonotone ==
    ASSUME NEW x \in Int, NEW y \in Int, x =< y, NEW d \in Nat \ {0}
    PROVE  x \div d =< y \div d
OBVIOUS

\* A multiple of the divisor more is as many quotients more.
LEMMA DivideShift ==
    ASSUME NEW x \in Int, NEW d \in Nat \ {0}, NEW k \in Int
    PROVE  (x + (d * k)) \div d = (x \div d) + k /\ (x + (d * k)) % d = x % d
<1>1. PICK q \in Int : q = x \div d BY Divide
<1>2. PICK m \in 0..(d - 1) : m = x % d BY Divide
<1>3. x = (d * q) + m BY <1>1, <1>2, Divide
<1>4. d * (q + k) = (d * q) + (d * k) OBVIOUS
<1>5. d * q \in Int /\ d * k \in Int /\ q + k \in Int OBVIOUS
<1>6. x + (d * k) = (d * (q + k)) + m
  <2> HIDE <1>1, <1>2
  <2> QED BY <1>3, <1>4, <1>5
<1>7. x + (d * k) \in Int BY <1>5
<1>8. q + k = (x + (d * k)) \div d /\ m = (x + (d * k)) % d
  <2> HIDE <1>1, <1>2, <1>3
  <2> QED BY <1>5, <1>6, <1>7, DivideUnique
<1> QED BY <1>1, <1>2, <1>8

\* Less than a multiple ahead is at most as many quotients ahead.
LEMMA DivideAhead ==
    ASSUME NEW x \in Int, NEW y \in Int, NEW d \in Nat \ {0}, NEW k \in Nat,
           y < x + (d * k)
    PROVE  y \div d =< (x \div d) + k
<1>1. PICK z \in Int : z = x + (d * k) OBVIOUS
<1>2. y \div d =< z \div d BY <1>1, DivideMonotone
<1> QED BY <1>1, <1>2, DivideShift

\* Small numbers are their own remainders, small negative ones wrap once.
LEMMA SmallRemainder ==
    ASSUME NEW d \in Nat \ {0}, NEW v \in Int
    PROVE  /\ v \in 0..(d - 1) => v % d = v
           /\ v + d \in 0..(d - 1) => v % d = v + d
<1>1. ASSUME v \in 0..(d - 1) PROVE v % d = v
  <2>1. v = (d * 0) + v OBVIOUS
  <2> QED BY <1>1, <2>1, DivideUnique
<1>2. ASSUME v + d \in 0..(d - 1) PROVE v % d = v + d
  <2>1. v = (d * (-1)) + (v + d) OBVIOUS
  <2> QED BY <1>2, <2>1, DivideUnique
<1> QED BY <1>1, <1>2

\* A difference wraps as the difference of what has wrapped.
LEMMA WrapDifference ==
    ASSUME NEW x \in Int, NEW y \in Int, NEW e \in Int, NEW d \in Nat \ {0}
    PROVE  ((x % d) - (y % d) + e) % d = (x - y + e) % d
<1>a. PICK a \in Int : a = x % d BY Divide
<1>b. PICK b \in Int : b = y % d BY Divide
<1>1. PICK p \in Int : x = (d * p) + a BY <1>a, Divide
<1>2. PICK q \in Int : y = (d * q) + b BY <1>b, Divide
<1>3. d * (p - q) = (d * p) - (d * q) OBVIOUS
<1>4. PICK s \in Int, t \in Int : s = d * p /\ t = d * q OBVIOUS
<1>5. x - y + e = (a - b + e) + (d * (p - q))
  <2>1. x = s + a /\ y = t + b /\ d * (p - q) = s - t BY <1>1, <1>2, <1>3, <1>4
  <2> QED BY ONLY <2>1, a \in Int, b \in Int, s \in Int, t \in Int, e \in Int
<1>6. p - q \in Int /\ a - b + e \in Int OBVIOUS
<1>7. ((a - b + e) + (d * (p - q))) % d = (a - b + e) % d BY <1>6, DivideShift
<1> QED BY <1>a, <1>b, <1>5, <1>7

\* Numbers less than the divisor apart with the same remainder are the same.
LEMMA SameWrap ==
    ASSUME NEW x \in Int, NEW y \in Int, NEW d \in Nat \ {0},
           x =< y, y < x + d, (x % d) = (y % d)
    PROVE  x = y
<1>1. PICK a \in 0..(d - 1) : a = x % d /\ a = y % d BY Divide
<1>2. (a - a + 0) % d = (y - x + 0) % d
  <2>1. PICK o \in Int : o = 0 OBVIOUS
  <2>2. ((y % d) - (x % d) + o) % d = (y - x + o) % d BY WrapDifference
  <2> QED BY <1>1, <2>1, <2>2
<1>5. (a - a + 0) % d = 0
  <2>1. a - a + 0 = 0 OBVIOUS
  <2> QED BY <2>1, SmallRemainder
<1>3. y - x \in 0..(d - 1) OBVIOUS
<1>4. (y - x + 0) % d = y - x
  <2>1. y - x + 0 \in Int /\ y - x + 0 = y - x OBVIOUS
  <2> QED BY <1>3, <2>1, SmallRemainder
<1>6. y - x = 0 BY <1>2, <1>4, <1>5
<1> QED BY <1>6

\* Quotients that are the same for a power are the same for each larger one.
LEMMA AgreeUpwards ==
    ASSUME NEW x \in Nat, NEW y \in Nat, NEW j \in Nat, NEW k \in Nat, j =< k,
           x \div Power[j] = y \div Power[j]
    PROVE  x \div Power[k] = y \div Power[k]
<1>1. k - j \in Nat /\ k = j + (k - j) OBVIOUS
<1>2. Power[k] = Power[j] * Power[k - j] BY <1>1, PowerSum
<1>3. Power[j] \in Nat \ {0} /\ Power[k - j] \in Nat \ {0} BY <1>1, PowerFacts
<1>4. x \div Power[k] = (x \div Power[j]) \div Power[k - j] BY <1>2, <1>3, DivideTwice
<1>5. y \div Power[k] = (y \div Power[j]) \div Power[k - j] BY <1>2, <1>3, DivideTwice
<1> QED BY <1>4, <1>5

-----------------------------------------------------------------------------
(* Times.  A time is ahead of the clock if it is less than half a cycle    *)
(* after it; then its wrapped form stands for it.                          *)

IsAhead(t, now) == now =< t /\ t < now + Half

\* Wrapped times of up to half a cycle compare as the times do.
LEMMA AfterIsAfter ==
    ASSUME NEW a \in Int, NEW b \in Int, a < b + Half, b < a + Half
    PROVE  After(a % Cycle, b % Cycle) <=> a > b
<1>1. ((a % Cycle) - (b % Cycle) + (-1)) % Cycle = (a - b + (-1)) % Cycle
  BY CycleFacts, WrapDifference
<1>2. (a % Cycle) \in Int /\ (b % Cycle) \in Int BY CycleFacts, Divide
<1>3. (a % Cycle) - (b % Cycle) - 1 = (a % Cycle) - (b % Cycle) + (-1) BY <1>2
<1>4. PICK v \in Int : v = a - b + (-1) OBVIOUS
<1>5. After(a % Cycle, b % Cycle) <=> v % Cycle < Half - 1 BY <1>1, <1>3, <1>4 DEF After
<1>6. CASE a > b
  <2>1. v \in 0..(Cycle - 1) /\ v < Half - 1 BY <1>4, <1>6, CycleFacts
  <2> QED BY <1>5, <1>6, <2>1, CycleFacts, SmallRemainder
<1>7. CASE a =< b
  <2>1. v + Cycle \in 0..(Cycle - 1) /\ ~ (v + Cycle < Half - 1) BY <1>4, <1>7, CycleFacts
  <2>2. v % Cycle = v + Cycle BY <2>1, CycleFacts, SmallRemainder
  <2> QED BY <1>5, <1>7, <2>1, <2>2
<1> QED BY <1>6, <1>7

\* A time ahead is what its wrapped form widens to.
LEMMA WidenAhead ==
    ASSUME NEW now \in Nat, NEW t \in Nat, IsAhead(t, now)
    PROVE  Widen(t % Cycle, now) = t
<1>1. PICK c \in 0..(Cycle - 1) : c = t % Cycle
  <2>1. t \in Int /\ Cycle \in Nat \ {0} BY CycleFacts
  <2> QED BY <2>1, Divide
<1>2. (c % Cycle) = c BY CycleFacts, SmallRemainder
<1>3. (t - now + 0) % Cycle = (c - now) % Cycle
  <2>0. Cycle \in Nat \ {0} /\ t \in Int /\ now \in Int /\ 0 \in Int BY CycleFacts
  <2>1. ((t % Cycle) - (now % Cycle) + 0) % Cycle = (t - now + 0) % Cycle
    BY <2>0, WrapDifference
  <2>2. c \in Int BY <1>1, CycleFacts
  <2>3. ((c % Cycle) - (now % Cycle) + 0) % Cycle = (c - now + 0) % Cycle
    BY <2>0, <2>2, WrapDifference
  <2>4. c - now + 0 = c - now BY <2>2
  <2> QED BY <1>1, <1>2, <2>1, <2>3, <2>4
<1>4. t - now \in 0..(Cycle - 1) BY CycleFacts DEF IsAhead
<1>5. (t - now) % Cycle = t - now BY <1>4, CycleFacts, SmallRemainder
<1>6. t - now + 0 = t - now OBVIOUS
<1>7. (c - now) % Cycle = t - now BY <1>3, <1>5, <1>6
<1>8. ~ After(now % Cycle, c)
  <2>1. t \in Int /\ now \in Int /\ now < t + Half /\ t < now + Half /\ ~ (now > t)
    BY CycleFacts DEF IsAhead
  <2>2. After(now % Cycle, t % Cycle) <=> now > t BY <2>1, AfterIsAfter
  <2> QED BY <1>1, <2>1, <2>2
<1>9. Widen(c, now) = now + ((c - now) % Cycle) BY <1>8 DEF Widen
<1> QED BY <1>1, <1>7, <1>9

-----------------------------------------------------------------------------
(* Buckets.                                                                *)

\* A set of naturals that is not empty has its minimum.
LEMMA MinOfNaturals ==
    ASSUME NEW S \in SUBSET Nat, S # {}
    PROVE  Min(S) \in S /\ \A x \in S : Min(S) =< x
<1>1. PICK x \in S : \A y \in S : <<y, x>> \notin OpToRel(<, Nat)
  BY NatLessThanWellFounded, WFMin
<1>2. \A y \in S : x =< y
  <2> SUFFICES ASSUME NEW y \in S, y < x PROVE FALSE OBVIOUS
  <2>1. <<y, x>> \in OpToRel(<, Nat) BY DEF OpToRel
  <2> QED BY <1>1, <2>1
<1> QED BY <1>2 DEF Min

\* Whatever is below all others and one of them is the minimum.
LEMMA MinIs ==
    ASSUME NEW S \in SUBSET Nat, NEW m \in S, \A x \in S : m =< x
    PROVE  Min(S) = m
<1>1. PICK n \in S : n = Min(S) /\ n =< m BY MinOfNaturals
<1>2. m =< n /\ m \in Nat /\ n \in Nat OBVIOUS
<1> QED BY <1>1, <1>2

\* Quotients of wrapped times are wrapped quotients.
LEMMA DivideWrapped ==
    ASSUME NEW x \in Nat, NEW b \in 0..Width
    PROVE  (x % Cycle) \div Power[b] = (x \div Power[b]) % Power[Width - b]
<1>c. Cycle \in Nat \ {0} /\ x \in Int BY CycleFacts
<1>5. PICK q \in Int : q = x \div Cycle BY <1>c, Divide
<1>6. PICK c \in 0..(Cycle - 1) : c = x % Cycle BY <1>c, Divide
<1>1. b \in Nat /\ Width - b \in Nat /\ Width = b + (Width - b) BY EventAssumption
<1>2. PICK d \in Nat \ {0} : d = Power[b] BY <1>1, PowerFacts
<1>3. PICK k \in Nat \ {0} : k = Power[Width - b] BY <1>1, PowerFacts
<1>4. Cycle = d * k
  <2>1. Power[b + (Width - b)] = Power[b] * Power[Width - b] BY <1>1, PowerSum
  <2> QED BY <1>1, <1>2, <1>3, <2>1 DEF Cycle
<1>7. x = c + (d * (k * q))
  <2>1. x = (Cycle * (x \div Cycle)) + (x % Cycle) BY <1>c, Divide
  <2>2. Cycle * q = d * (k * q) BY <1>4
  <2>3. Cycle * q \in Int /\ c \in Int BY <1>c
  <2> QED BY <1>5, <1>6, <2>1, <2>2, <2>3
<1>8. k * q \in Int /\ c \in Nat BY <1>c
<1>9. PICK m \in Nat : m = c \div d
  <2>1. c \in Int /\ c \in Nat BY <1>8
  <2> QED BY <2>1, Divide
<1>10. x \div d = m + (k * q)
  <2>1. PICK j \in Int : j = k * q BY <1>8
  <2>2. c \in Int BY <1>8
  <2>3. (c + (d * j)) \div d = (c \div d) + j BY <2>2, DivideShift
  <2> QED BY <1>7, <1>9, <2>1, <2>3
<1>11. m < k
  <2> SUFFICES ASSUME m >= k PROVE FALSE OBVIOUS
  <2>1. c >= d * m
    <3>1. c = (d * m) + (c % d) /\ c % d \in Nat BY <1>8, <1>9, Divide
    <3> QED BY <1>8, <3>1
  <2>2. d * m >= d * k OBVIOUS
  <2> QED BY <1>4, <2>1, <2>2
<1>12. m = (x \div d) % k
  <2>1. PICK y \in Int : y = x \div d BY Divide
  <2>2. m \in 0..(k - 1) BY <1>11
  <2>3. y = (k * q) + m BY <1>8, <1>10, <2>1
  <2> QED
    <3>1. m = y % k BY ONLY <2>2, <2>3, DivideUnique, y \in Int, k \in Nat \ {0}, q \in Int
    <3> QED BY <2>1, <3>1
<1> QED BY <1>2, <1>3, <1>6, <1>9, <1>12

\* The wrapped times agree in the higher bits as the times do.
LEMMA AgreeWrapped ==
    ASSUME NEW now \in Nat, NEW t \in Nat, IsAhead(t, now), NEW b \in 0..(Width - 1)
    PROVE  (t % Cycle) \div Power[b] = (now % Cycle) \div Power[b]
             <=> t \div Power[b] = now \div Power[b]
<1>1. /\ b \in Nat /\ Width - 1 - b \in Nat /\ Width - 1 = b + (Width - 1 - b)
      /\ b \in 0..Width /\ Width - b = (Width - 1 - b) + 1
  BY EventAssumption
<1>2. PICK d \in Nat \ {0} : d = Power[b] BY <1>1, PowerFacts
<1>3. PICK k \in Nat \ {0} : k = Power[Width - 1 - b] BY <1>1, PowerFacts
<1>4. Half = d * k BY <1>1, <1>2, <1>3, PowerSum DEF Half
<1>5. Power[Width - b] = 2 * k BY <1>1, <1>3, PowerFacts
<1>6. t \div d =< (now \div d) + k BY <1>4, DivideAhead DEF IsAhead
<1>7. now \div d =< t \div d BY DivideMonotone DEF IsAhead
<1>8. t \div d \in Int /\ now \div d \in Int BY Divide
<1>9. t \div d < (now \div d) + (2 * k) BY <1>6, <1>8
<1>10. (t \div d) % (2 * k) = (now \div d) % (2 * k) => t \div d = now \div d
  <2>1. PICK e \in Nat \ {0} : e = 2 * k OBVIOUS
  <2>2. PICK x \in Int, y \in Int : x = now \div d /\ y = t \div d BY <1>8
  <2>3. x =< y /\ y < x + e BY <1>7, <1>9, <2>1, <2>2
  <2>4. x % e = y % e => x = y BY ONLY <2>3, SameWrap, x \in Int, y \in Int, e \in Nat \ {0}
  <2> QED BY <2>1, <2>2, <2>4
<1>11. /\ (t % Cycle) \div d = (t \div d) % (2 * k)
       /\ (now % Cycle) \div d = (now \div d) % (2 * k)
  BY <1>1, <1>2, <1>5, DivideWrapped
<1> QED BY <1>2, <1>10, <1>11

\* Which bucket a time ahead of the clock is put in: the highest bit in which
\* it differs from the clock, where times beyond differ in the top bit.
LEMMA BucketMeans ==
    ASSUME NEW now \in Nat, NEW t \in Nat, IsAhead(t, now)
    PROVE  /\ BitBucket(t % Cycle, now) \in 0..Width
           /\ \A b \in 0..Width :
                BitBucket(t % Cycle, now) = b <=>
                  /\ b # Width => t \div Power[b] = now \div Power[b]
                  /\ b # 0 => t \div Power[b - 1] # now \div Power[b - 1]
<1> DEFINE B == {b \in 0..Width : (t % Cycle) \div Power[b] = (now % Cycle) \div Power[b]}
<1>1. Width \in Nat \ {0, 1} BY EventAssumption
<1>2. Width \in B
  <2>1. (t % Cycle) \div Cycle = 0 /\ (now % Cycle) \div Cycle = 0
    <3>1. ASSUME NEW c \in 0..(Cycle - 1) PROVE c \div Cycle = 0
      <4>1. c = (Cycle * 0) + c BY CycleFacts
      <4> QED BY <4>1, CycleFacts, DivideUnique
    <3>2. t % Cycle \in 0..(Cycle - 1) /\ now % Cycle \in 0..(Cycle - 1)
      <4>1. Cycle \in Nat \ {0} /\ t \in Int /\ now \in Int BY CycleFacts
      <4> QED BY <4>1, Divide
    <3> QED BY <3>1, <3>2
  <2> QED BY <1>1, <2>1 DEF Cycle
<1>3. \A b \in 0..(Width - 1) : b \in B <=> t \div Power[b] = now \div Power[b]
  BY <1>1, AgreeWrapped
<1>4. BitBucket(t % Cycle, now) = Min(B) BY DEF BitBucket
<1>5. Min(B) \in B /\ \A b \in B : Min(B) =< b
  <2>1. B \in SUBSET Nat BY <1>1
  <2> HIDE DEF B
  <2> QED BY <1>2, <2>1, MinOfNaturals
<1>6. ASSUME NEW b \in 0..Width, b = Min(B)
      PROVE  /\ b # Width => t \div Power[b] = now \div Power[b]
             /\ b # 0 => t \div Power[b - 1] # now \div Power[b - 1]
  <2> HIDE DEF B
  <2>1. b # Width => b \in 0..(Width - 1) BY <1>1
  <2>2. b # 0 => b - 1 \in 0..(Width - 1) /\ b - 1 < b BY <1>1
  <2> QED BY <1>3, <1>5, <1>6, <2>1, <2>2
<1>7. ASSUME NEW b \in 0..Width,
             b # Width => t \div Power[b] = now \div Power[b],
             b # 0 => t \div Power[b - 1] # now \div Power[b - 1]
      PROVE  b = Min(B)
  <2>1. b \in B
    <3> HIDE DEF B
    <3> QED BY <1>1, <1>2, <1>3, <1>7
  <2>2. ASSUME NEW j \in B, j < b PROVE FALSE
    <3>1. j \in 0..(Width - 1) /\ b - 1 \in Nat /\ j =< b - 1 /\ b # 0 BY <1>1, <2>2
    <3>2. t \div Power[j] = now \div Power[j]
      <4> HIDE DEF B
      <4> QED BY <1>3, <2>2, <3>1
    <3>3. t \div Power[b - 1] = now \div Power[b - 1] BY <3>1, <3>2, AgreeUpwards
    <3> QED BY <1>7, <3>1, <3>3
  <2>3. B \in SUBSET Nat BY <1>1
  <2> HIDE DEF B
  <2> QED BY <2>1, <2>2, <2>3, MinIs
<1> QED
  <2>1. Min(B) \in 0..Width BY <1>5
  <2> HIDE DEF B
  <2> QED BY <1>4, <1>6, <1>7, <2>1

-----------------------------------------------------------------------------
(* The heap as a table of stacks.                                          *)

Event == [at : Objects, time : Cyclic]
Heap == [0..Width -> Seq(Event)]

\* What a stack holds with one event more, and with the last one less.
LEMMA StackContents ==
    ASSUME NEW q \in Seq(Event), NEW e \in Event
    PROVE  /\ Append(q, e) \in Seq(Event) /\ ToSet(Append(q, e)) = ToSet(q) \cup {e}
           /\ q # <<>> => /\ Last(q) \in Event /\ Last(q) \in ToSet(q)
                          /\ Front(q) \in Seq(Event)
                          /\ ToSet(q) = ToSet(Front(q)) \cup {Last(q)}
                          /\ Append(Front(q), Last(q)) = q
           /\ ToSet(q) \subseteq Event
           /\ ToSet(q) = {} <=> q = <<>>
<1>1. Append(q, e) \in Seq(Event) /\ ToSet(Append(q, e)) = ToSet(q) \cup {e}
  <2>1. /\ DOMAIN Append(q, e) = 1..(Len(q) + 1) /\ DOMAIN q = 1..Len(q) /\ Len(q) \in Nat
        /\ Append(q, e)[Len(q) + 1] = e /\ \A i \in 1..Len(q) : Append(q, e)[i] = q[i]
    OBVIOUS
  <2> QED BY <2>1 DEF ToSet
<1>2. ToSet(q) \subseteq Event BY DEF ToSet
<1>3. ToSet(q) = {} <=> q = <<>>
  <2>1. DOMAIN q = 1..Len(q) /\ Len(q) \in Nat OBVIOUS
  <2>2. ASSUME q # <<>> PROVE ToSet(q) # {}
    <3>1. Len(q) # 0 BY <2>2
    <3>2. 1 \in DOMAIN q BY <2>1, <3>1
    <3> QED BY <3>2 DEF ToSet
  <2>3. ASSUME q = <<>> PROVE ToSet(q) = {}
    <3>1. DOMAIN q = {} BY <2>3
    <3> QED BY <3>1 DEF ToSet
  <2> QED BY <2>2, <2>3
<1>4. ASSUME q # <<>>
      PROVE  /\ Last(q) \in Event /\ Last(q) \in ToSet(q)
             /\ Front(q) \in Seq(Event)
             /\ ToSet(q) = ToSet(Front(q)) \cup {Last(q)}
             /\ Append(Front(q), Last(q)) = q
  <2>1. Len(q) \in Nat \ {0} /\ DOMAIN q = 1..Len(q) BY <1>4
  <2>2. Last(q) = q[Len(q)] /\ Last(q) \in Event BY <2>1 DEF Last
  <2>3. /\ Front(q) \in Seq(Event) /\ DOMAIN Front(q) = 1..(Len(q) - 1)
        /\ \A i \in 1..(Len(q) - 1) : Front(q)[i] = q[i]
    BY <2>1 DEF Front
  <2>4. Last(q) \in ToSet(q) BY <2>1, <2>2 DEF ToSet
  <2>5. ToSet(q) = ToSet(Front(q)) \cup {Last(q)}
    <3>1. PICK n \in Nat \ {0} : n = Len(q) BY <2>1
    <3>2. \A i \in 1..n : i = n \/ i \in 1..(n - 1) OBVIOUS
    <3>3. n \in 1..n /\ \A i \in 1..(n - 1) : i \in 1..n OBVIOUS
    <3>4. DOMAIN q = 1..n /\ DOMAIN Front(q) = 1..(n - 1) BY <2>1, <2>3, <3>1
    <3>5. Last(q) = q[n] /\ \A i \in 1..(n - 1) : Front(q)[i] = q[i] BY <2>2, <2>3, <3>1
    <3> QED BY ONLY <3>2, <3>3, <3>4, <3>5 DEF ToSet
  <2>6. Append(Front(q), Last(q)) = q
    <3>1. PICK n \in Nat \ {0} : n = Len(q) BY <2>1
    <3>2. Len(Front(q)) = n - 1
      <4>1. Len(Front(q)) \in Nat /\ 1..Len(Front(q)) = 1..(n - 1) BY <2>3, <3>1
      <4> QED BY <4>1
    <3>3. /\ Append(Front(q), Last(q)) \in Seq(Event) /\ Len(Append(Front(q), Last(q))) = n
          /\ Append(Front(q), Last(q))[n] = Last(q)
          /\ \A i \in 1..(n - 1) : Append(Front(q), Last(q))[i] = Front(q)[i]
      BY <2>2, <2>3, <3>2
    <3>4. \A i \in 1..n : i = n \/ i \in 1..(n - 1) OBVIOUS
    <3>5. \A i \in 1..n : Append(Front(q), Last(q))[i] = q[i]
      BY <2>2, <2>3, <3>1, <3>3, <3>4
    <3> QED BY <3>1, <3>3, <3>5
  <2> QED BY <2>2, <2>3, <2>4, <2>5, <2>6
<1> QED BY <1>1, <1>2, <1>3, <1>4

\* An event is pushed onto one stack.
LEMMA PutFacts ==
    ASSUME NEW h \in Heap, NEW e \in Event, NEW now, NEW b \in 0..Width,
           b = BitBucket(e.time, now)
    PROVE  /\ Put(h, e, now) \in Heap
           /\ \A c \in 0..Width : ToSet(Put(h, e, now)[c]) =
                                    IF c = b THEN ToSet(h[c]) \cup {e} ELSE ToSet(h[c])
<1>1. Put(h, e, now) = [h EXCEPT ![b] = Append(h[b], e)] BY DEF Put, Heap
<1>2. h[b] \in Seq(Event) BY DEF Heap
<1>3. Append(h[b], e) \in Seq(Event) /\ ToSet(Append(h[b], e)) = ToSet(h[b]) \cup {e}
  BY <1>2, StackContents
<1> QED BY <1>1, <1>3 DEF Heap

\* The events in a heap are finitely many.
LEMMA PlacesFinite ==
    ASSUME NEW h \in Heap
    PROVE  IsFiniteSet(Places(h))
<1>0. Width \in Nat /\ IsFiniteSet(0..Width) BY EventAssumption, FS_Interval
<1> DEFINE F == {{c} \X DOMAIN h[c] : c \in 0..Width}
<1>1. IsFiniteSet(F)
  <2> DEFINE f == [c \in 0..Width |-> {c} \X DOMAIN h[c]]
  <2>1. F = {f[c] : c \in 0..Width} OBVIOUS
  <2>2. f \in [0..Width -> F] OBVIOUS
  <2>3. f \in Surjection(0..Width, F) BY <2>1, <2>2 DEF Surjection
  <2> HIDE DEF f, F
  <2> QED BY <1>0, <2>3, FS_Surjection
<1>2. ASSUME NEW T \in F PROVE IsFiniteSet(T)
  <2>1. PICK c \in 0..Width : T = {c} \X DOMAIN h[c] OBVIOUS
  <2>2. DOMAIN h[c] = 1..Len(h[c]) /\ Len(h[c]) \in Nat BY DEF Heap
  <2>3. IsFiniteSet(DOMAIN h[c]) BY <2>2, FS_Interval
  <2>4. IsFiniteSet({c}) BY FS_Singleton
  <2> QED BY <2>1, <2>3, <2>4, FS_Product
<1>3. Places(h) = UNION F BY DEF Places
<1> HIDE DEF F
<1> QED BY <1>1, <1>2, <1>3, FS_UNION

\* How many events there are: a stack that takes the place of an empty one adds
\* its length.
LEMMA CountWhole ==
    ASSUME NEW h \in Heap, NEW b \in 0..Width, h[b] = <<>>, NEW q \in Seq(Event)
    PROVE  /\ IsFiniteSet(Places(h))
           /\ Cardinality(Places([h EXCEPT ![b] = q])) = Cardinality(Places(h)) + Len(q)
<1> DEFINE new == [h EXCEPT ![b] = q]
           own == {b} \X (1..Len(q))
<1>1. Len(q) \in Nat /\ DOMAIN q = 1..Len(q) /\ DOMAIN h[b] = {} OBVIOUS
<1>3. IsFiniteSet(Places(h)) BY PlacesFinite
<1>4. Places(new) = Places(h) \cup own
  <2>1. \A c \in 0..Width : new[c] = IF c = b THEN q ELSE h[c] BY DEF Heap
  <2>2. \A c \in 0..Width : {c} \X DOMAIN new[c]
                              = IF c = b THEN own ELSE {c} \X DOMAIN h[c]
    BY <1>1, <2>1
  <2>3. {b} \X DOMAIN h[b] = {} BY <1>1
  <2> HIDE DEF new, own
  <2> QED BY <2>2, <2>3 DEF Places
<1>5. Places(h) \cap own = {}
  <2>1. \A p \in own : p[1] = b OBVIOUS
  <2>2. \A p \in Places(h) : p[1] # b BY <1>1 DEF Places
  <2> QED BY <2>1, <2>2
<1>6. IsFiniteSet(own) /\ Cardinality(own) = Len(q)
  <2>1. IsFiniteSet({b}) /\ Cardinality({b}) = 1 BY FS_Singleton
  <2>2. IsFiniteSet(1..Len(q)) /\ Cardinality(1..Len(q)) = Len(q)
    <3>1. PICK n \in Nat : n = Len(q) BY <1>1
    <3>2. 1 \in Int /\ n \in Int OBVIOUS
    <3>3. IsFiniteSet(1..n) /\ Cardinality(1..n) = IF 1 > n THEN 0 ELSE n - 1 + 1
      BY <3>2, FS_Interval
    <3> QED BY <3>1, <3>3
  <2>3. IsFiniteSet({b} \X (1..Len(q)))
        /\ Cardinality({b} \X (1..Len(q))) = Cardinality({b}) * Cardinality(1..Len(q))
    BY <2>1, <2>2, FS_Product
  <2> QED BY <1>1, <2>1, <2>2, <2>3
<1>7. Cardinality(Places(h) \cup own)
        = Cardinality(Places(h)) + Cardinality(own) - Cardinality(Places(h) \cap own)
  BY <1>3, <1>6, FS_Union
<1>8. Cardinality(Places(h) \cap own) = 0 BY <1>5, FS_EmptySet
<1>9. Cardinality(Places(h)) \in Nat BY <1>3, FS_CardinalityType
<1> QED
  <2> HIDE DEF new, own
  <2>1. Cardinality(Places(new)) = Cardinality(Places(h)) + Len(q)
    BY <1>1, <1>4, <1>6, <1>7, <1>8, <1>9
  <2> QED BY <1>3, <2>1 DEF new

\* Pushing onto a stack adds one event.
LEMMA CountPut ==
    ASSUME NEW h \in Heap, NEW b \in 0..Width, NEW e \in Event
    PROVE  /\ Cardinality(Places(h)) \in Nat
           /\ [h EXCEPT ![b] = Append(@, e)] \in Heap
           /\ Cardinality(Places([h EXCEPT ![b] = Append(@, e)])) = Cardinality(Places(h)) + 1
<1> DEFINE new == [h EXCEPT ![b] = Append(@, e)]
<1>1. PICK n \in Nat : n = Len(h[b]) /\ DOMAIN h[b] = 1..n BY DEF Heap
<1>2. h[b] \in Seq(Event) BY DEF Heap
<1>3. new \in Heap /\ \A c \in 0..Width : new[c] = IF c = b THEN Append(h[b], e) ELSE h[c]
  BY <1>2 DEF Heap
<1>4. DOMAIN Append(h[b], e) = 1..(n + 1) BY <1>1, <1>2
<1>5. 1..(n + 1) = (1..n) \cup {n + 1} /\ n + 1 \notin 1..n OBVIOUS
<1>6. Places(new) = Places(h) \cup {<<b, n + 1>>}
  <2>1. \A c \in 0..Width : DOMAIN new[c] = IF c = b THEN DOMAIN h[c] \cup {n + 1}
                                                       ELSE DOMAIN h[c]
    BY <1>1, <1>3, <1>4, <1>5
  <2> HIDE DEF new
  <2>2. \A c, i : <<c, i>> \in Places(new) <=> c \in 0..Width /\ i \in DOMAIN new[c]
    BY DEF Places
  <2>3. \A c, i : <<c, i>> \in Places(h) <=> c \in 0..Width /\ i \in DOMAIN h[c]
    BY DEF Places
  <2>4. \A p \in Places(new) \cup Places(h) : p = <<p[1], p[2]>> BY DEF Places
  <2>5. \A c, i : <<c, i>> \in Places(new) <=> <<c, i>> \in Places(h) \cup {<<b, n + 1>>}
    BY <2>1, <2>2, <2>3
  <2> QED BY <2>4, <2>5
<1>7. <<b, n + 1>> \notin Places(h) BY <1>1, <1>5 DEF Places
<1>8. IsFiniteSet(Places(h)) BY PlacesFinite
<1>9. Cardinality(Places(h)) \in Nat BY <1>8, FS_CardinalityType
<1>10. Cardinality(Places(new)) = Cardinality(Places(h)) + 1
  <2> HIDE DEF new
  <2> QED BY <1>6, <1>7, <1>8, FS_AddElement
<1> QED BY <1>3, <1>9, <1>10

\* Popping a stack takes one event away.
LEMMA CountPop ==
    ASSUME NEW h \in Heap, NEW b \in 0..Width, h[b] # <<>>
    PROVE  /\ [h EXCEPT ![b] = Front(@)] \in Heap
           /\ Cardinality(Places([h EXCEPT ![b] = Front(@)])) + 1 = Cardinality(Places(h))
<1> DEFINE new == [h EXCEPT ![b] = Front(@)]
<1>1. h[b] \in Seq(Event) BY DEF Heap
<1>2. /\ Front(h[b]) \in Seq(Event) /\ Last(h[b]) \in Event
      /\ Append(Front(h[b]), Last(h[b])) = h[b]
  <2>1. PICK e \in Event : e = h[b][1]
    <3>1. 1 \in DOMAIN h[b] BY <1>1
    <3> QED BY <1>1, <3>1
  <2> QED BY <1>1, <2>1, StackContents
<1>3. new \in Heap /\ new[b] = Front(h[b]) BY <1>2 DEF Heap
<1>4. [new EXCEPT ![b] = Append(@, Last(h[b]))] = h BY <1>2 DEF Heap
<1>5. Cardinality(Places(new)) \in Nat
      /\ Cardinality(Places([new EXCEPT ![b] = Append(@, Last(h[b]))]))
           = Cardinality(Places(new)) + 1
  <2> HIDE DEF new
  <2> QED BY <1>2, <1>3, CountPut
<1> QED BY <1>3, <1>4, <1>5

\* There is no event exactly if every stack is empty.
LEMMA CountNone ==
    ASSUME NEW h \in Heap
    PROVE  /\ Cardinality(Places(h)) \in Nat
           /\ Cardinality(Places(h)) = 0 <=> \A b \in 0..Width : h[b] = <<>>
<1>1. IsFiniteSet(Places(h)) BY PlacesFinite
<1>2. Cardinality(Places(h)) = 0 <=> Places(h) = {} BY <1>1, FS_EmptySet
<1>3. ASSUME NEW b \in 0..Width PROVE DOMAIN h[b] = {} <=> h[b] = <<>>
  <2>1. h[b] \in Seq(Event) BY DEF Heap
  <2>2. DOMAIN h[b] = 1..Len(h[b]) /\ Len(h[b]) \in Nat BY <2>1
  <2>3. Len(h[b]) # 0 => 1 \in 1..Len(h[b]) BY <2>2
  <2> QED BY <2>1, <2>2, <2>3
<1>4. Places(h) = {} <=> \A b \in 0..Width : DOMAIN h[b] = {}
  <2>1. \A b, i : <<b, i>> \in Places(h) <=> b \in 0..Width /\ i \in DOMAIN h[b]
    BY DEF Places
  <2>2. ASSUME NEW b \in 0..Width, Places(h) = {}, NEW i \in DOMAIN h[b] PROVE FALSE
    BY <2>1, <2>2
  <2>3. ASSUME NEW p \in Places(h) PROVE \E b \in 0..Width : DOMAIN h[b] # {}
    BY <2>3 DEF Places
  <2> QED BY <2>2, <2>3
<1> QED BY <1>1, <1>2, <1>3, <1>4, FS_CardinalityType

\* Each event of a bucket is moved to the bucket its time and the clock ask for,
\* and nothing else is.
LEMMA Redistributed ==
    ASSUME NEW source \in 0..Width, NEW now, buckets \in Heap,
           \A e \in ToSet(buckets[source]) : BitBucket(e.time, now) \in 0..Width
    PROVE  /\ Redistribute(source, now) \in Heap
           /\ Cardinality(Places(Redistribute(source, now))) = Cardinality(Places(buckets))
           /\ \A b \in 0..Width : ToSet(Redistribute(source, now)[b]) =
                (IF b = source THEN {} ELSE ToSet(buckets[b]))
                  \cup {e \in ToSet(buckets[source]) : BitBucket(e.time, now) = b}
<1> DEFINE q == buckets[source]
           h0 == [buckets EXCEPT ![source] = <<>>]
           Def(v, i) == Put(v, q[i], now)
           m == Moved(source, now)
<1>1. q \in Seq(Event) BY DEF Heap
<1>2. PICK n \in Nat : n = Len(q) /\ DOMAIN q = 1..n BY <1>1
<1>3. m = [i \in 0..n |-> IF i = 0 THEN h0 ELSE Def(m[i - 1], i)]
  <2>1. FiniteNatInductiveDefHypothesis(m, h0, Def, 0, n)
    BY <1>2 DEF FiniteNatInductiveDefHypothesis, Moved
  <2>2. FiniteNatInductiveDefConclusion(m, h0, Def, 0, n)
    <3> HIDE DEF m, h0, Def
    <3> QED BY <2>1, FiniteNatInductiveDef
  <2> QED BY <2>2 DEF FiniteNatInductiveDefConclusion
<1>4. m[0] = h0 /\ \A i \in 1..n : m[i] = Put(m[i - 1], q[i], now)
  <2> HIDE DEF m, q, h0
  <2>1. 0 \in 0..n /\ \A i \in 1..n : i \in 0..n /\ i # 0 OBVIOUS
  <2> QED BY <1>3, <2>1
<1>5. h0 \in Heap /\ \A b \in 0..Width : h0[b] = IF b = source THEN <<>> ELSE buckets[b]
  BY DEF Heap
<1> DEFINE Fine(i) ==
      /\ m[i] \in Heap
      /\ Cardinality(Places(m[i])) = Cardinality(Places(h0)) + i
      /\ \A b \in 0..Width : ToSet(m[i][b]) =
           ToSet(h0[b]) \cup {q[j] : j \in {k \in 1..i : BitBucket(q[k].time, now) = b}}
<1>6. Cardinality(Places(h0)) \in Nat
  <2> HIDE DEF h0
  <2> QED BY <1>5, CountNone
<1>7. Fine(0)
  <2>1. 1..0 = {} OBVIOUS
  <2> HIDE DEF h0, m, q
  <2> QED BY <1>4, <1>5, <1>6, <2>1
<1>8. ASSUME NEW i \in 1..n, Fine(i - 1) PROVE Fine(i)
  <2>1. q[i] \in Event /\ q[i] \in ToSet(q) BY <1>1, <1>2 DEF ToSet
  <2>2. PICK b \in 0..Width : b = BitBucket(q[i].time, now) BY <2>1
  <2> HIDE DEF m, q, h0
  <2>3. PICK v \in Heap : v = m[i - 1] BY <1>8
  <2>4. m[i] = Put(v, q[i], now) BY <1>4, <2>3
  <2>5. Put(v, q[i], now) \in Heap
        /\ \A c \in 0..Width : ToSet(Put(v, q[i], now)[c])
                                 = IF c = b THEN ToSet(v[c]) \cup {q[i]} ELSE ToSet(v[c])
    <3>1. PICK e \in Event : e = q[i] BY <2>1
    <3>2. b = BitBucket(e.time, now) BY <2>2, <3>1
    <3>3. Put(v, e, now) \in Heap
          /\ \A c \in 0..Width : ToSet(Put(v, e, now)[c])
                                   = IF c = b THEN ToSet(v[c]) \cup {e} ELSE ToSet(v[c])
      BY <3>2, PutFacts
    <3> QED BY <3>1, <3>3
  <2>6. Cardinality(Places(m[i])) = Cardinality(Places(h0)) + i
    <3>1. Put(v, q[i], now) = [v EXCEPT ![b] = Append(@, q[i])] BY <2>2 DEF Put
    <3>2. Cardinality(Places([v EXCEPT ![b] = Append(@, q[i])])) = Cardinality(Places(v)) + 1
      BY <2>1, CountPut
    <3>3. Cardinality(Places(v)) = Cardinality(Places(h0)) + (i - 1) BY <1>8, <2>3
    <3> QED BY <1>6, <2>4, <3>1, <3>2, <3>3
  <2>7. 1..i = (1..(i - 1)) \cup {i} /\ i \notin 1..(i - 1) OBVIOUS
  <2>8. ASSUME NEW c \in 0..Width
        PROVE  ToSet(m[i][c]) = ToSet(h0[c])
                 \cup {q[j] : j \in {k \in 1..i : BitBucket(q[k].time, now) = c}}
    <3>1. ToSet(v[c]) = ToSet(h0[c])
            \cup {q[j] : j \in {k \in 1..(i - 1) : BitBucket(q[k].time, now) = c}}
      BY <1>8, <2>3
    <3>2. {k \in 1..i : BitBucket(q[k].time, now) = c}
            = {k \in 1..(i - 1) : BitBucket(q[k].time, now) = c}
                \cup (IF c = b THEN {i} ELSE {})
      BY <2>2, <2>7
    <3>3. ToSet(m[i][c]) = IF c = b THEN ToSet(v[c]) \cup {q[i]} ELSE ToSet(v[c])
      BY <2>4, <2>5
    <3> DEFINE J == {k \in 1..(i - 1) : BitBucket(q[k].time, now) = c}
           K == {k \in 1..i : BitBucket(q[k].time, now) = c}
    <3>5. K = J \cup (IF c = b THEN {i} ELSE {}) /\ ToSet(v[c]) = ToSet(h0[c]) \cup {q[j] : j \in J}
      BY <3>1, <3>2
    <3> HIDE DEF J, K
    <3>6. CASE c = b
      <4>1. {q[j] : j \in K} = {q[j] : j \in J} \cup {q[i]} BY <3>5, <3>6
      <4>2. ToSet(m[i][c]) = ToSet(h0[c]) \cup {q[j] : j \in K} BY <3>3, <3>5, <3>6, <4>1
      <4> QED BY <4>2 DEF K
    <3>7. CASE c # b 
      <4>1. K = J BY <3>5, <3>7
      <4>2. ToSet(m[i][c]) = ToSet(h0[c]) \cup {q[j] : j \in K} BY <3>3, <3>5, <3>7, <4>1
      <4> QED BY <4>2 DEF K
    <3> QED BY <3>6, <3>7
  <2> QED BY <2>4, <2>5, <2>6, <2>8
<1>9. \A i \in 0..n : Fine(i)
  <2> DEFINE S == {i \in Nat : i \in 0..n => Fine(i)}
  <2>1. 0 \in S BY <1>7
  <2>2. ASSUME NEW i \in Nat, i \in S PROVE i + 1 \in S
    <3> HIDE DEF Fine
    <3>1. i + 1 \in 0..n => i \in 0..n /\ i + 1 \in 1..n /\ (i + 1) - 1 = i OBVIOUS
    <3> QED BY <1>8, <2>2, <3>1
  <2>3. Nat \subseteq S
    <3> HIDE DEF S
    <3> QED BY <2>1, <2>2, SetInduction
  <2> HIDE DEF Fine
  <2> QED BY <2>3
<1>10. Fine(n) 
  <2> HIDE DEF Fine
  <2> QED BY <1>9
<1>11. Redistribute(source, now) = m[n] BY <1>2 DEF Redistribute
<1>12. Cardinality(Places(buckets)) = Cardinality(Places(h0)) + n
  <2>1. [h0 EXCEPT ![source] = q] = buckets BY DEF Heap
  <2>2. h0[source] = <<>> BY <1>5
  <2> HIDE DEF h0, q
  <2> QED BY <1>1, <1>2, <1>5, <2>1, <2>2, CountWhole
<1>13. ASSUME NEW b \in 0..Width
       PROVE  ToSet(m[n][b]) = (IF b = source THEN {} ELSE ToSet(buckets[b]))
                 \cup {e \in ToSet(buckets[source]) : BitBucket(e.time, now) = b}
  <2>1. ToSet(h0[b]) = IF b = source THEN {} ELSE ToSet(buckets[b])
    <3>1. ToSet(<<>>) = {} BY DEF ToSet
    <3> HIDE DEF h0
    <3> QED BY <1>5, <3>1
  <2>2. ToSet(q) = {q[j] : j \in 1..n} BY <1>2 DEF ToSet
  <2>3. {q[j] : j \in {k \in 1..n : BitBucket(q[k].time, now) = b}}
          = {e \in ToSet(q) : BitBucket(e.time, now) = b}
    BY <2>2
  <2>4. ToSet(m[n][b]) = ToSet(h0[b])
          \cup {q[j] : j \in {k \in 1..n : BitBucket(q[k].time, now) = b}}
    BY <1>10
  <2> HIDE DEF m, h0
  <2> QED BY <2>1, <2>3, <2>4
<1> QED
  <2>1. m[n] \in Heap /\ Cardinality(Places(m[n])) = Cardinality(Places(h0)) + n BY <1>10
  <2> HIDE DEF m, h0
  <2> QED BY <1>11, <1>12, <1>13, <2>1

-----------------------------------------------------------------------------
(* The heap and the clock.                                                 *)

\* The wrapped form of a time that a look may be scheduled for.
Timely(c, now) == \E t \in now..MaxClock : t =< now + Ahead /\ c = t % Cycle

Queued(h) == UNION {ToSet(h[b]) : b \in 0..Width}

\* Every event is in the bucket that its time and the clock ask for.
Placed(h, now) ==
    \A b \in 0..Width : \A e \in ToSet(h[b]) :
        Timely(e.time, now) /\ BitBucket(e.time, now) = b

\* A timely time is the one that its wrapped form widens to.
LEMMA TimelyMeans ==
    ASSUME NEW now \in Nat, NEW c, Timely(c, now)
    PROVE  /\ Widen(c, now) \in now..MaxClock /\ Widen(c, now) =< now + Ahead
           /\ Widen(c, now) \in Nat /\ IsAhead(Widen(c, now), now)
           /\ c = Widen(c, now) % Cycle /\ c \in Cyclic
<1>1. PICK t \in now..MaxClock : t =< now + Ahead /\ c = t % Cycle BY DEF Timely
<1>2. MaxClock \in Nat /\ Ahead \in 0..(Half - 1) /\ Half \in Nat
  BY EventAssumption, CycleFacts
<1>3. t \in Nat /\ IsAhead(t, now) BY <1>1, <1>2 DEF IsAhead
<1>4. Widen(c, now) = t BY <1>1, <1>3, WidenAhead
<1>5. t % Cycle \in 0..(Cycle - 1)
  <2>1. t \in Int /\ Cycle \in Nat \ {0} BY <1>3, CycleFacts
  <2> QED BY <2>1, Divide
<1> QED BY <1>1, <1>3, <1>4, <1>5 DEF Cyclic

\* It stays timely, and means the same, until the clock passes it.
LEMMA TimelyLater ==
    ASSUME NEW now \in Nat, NEW c, Timely(c, now),
           NEW then \in Nat, now =< then, then =< Widen(c, now)
    PROVE  Timely(c, then) /\ Widen(c, then) = Widen(c, now)
<1>1. PICK t \in Nat : t = Widen(c, now) BY TimelyMeans
<1>2. t \in now..MaxClock /\ t =< now + Ahead /\ c = t % Cycle /\ IsAhead(t, now)
  BY <1>1, TimelyMeans
<1>3. MaxClock \in Nat /\ Ahead \in Nat /\ Half \in Nat BY EventAssumption, CycleFacts
<1>4. t \in then..MaxClock /\ t =< then + Ahead BY <1>1, <1>2, <1>3
<1>5. IsAhead(t, then) BY <1>1, <1>2, <1>3 DEF IsAhead
<1>6. Timely(c, then) BY <1>2, <1>4 DEF Timely
<1> QED BY <1>1, <1>2, <1>5, <1>6, WidenAhead

\* Two timely times compare, wrapped, as they do.
LEMMA TimelyCompare ==
    ASSUME NEW now \in Nat, NEW c, NEW d, Timely(c, now), Timely(d, now)
    PROVE  /\ After(c, d) <=> Widen(c, now) > Widen(d, now)
           /\ c = d <=> Widen(c, now) = Widen(d, now)
<1>1. PICK x \in Nat : x = Widen(c, now) /\ c = x % Cycle /\ IsAhead(x, now) BY TimelyMeans
<1>2. PICK y \in Nat : y = Widen(d, now) /\ d = y % Cycle /\ IsAhead(y, now) BY TimelyMeans
<1>3. x < y + Half /\ y < x + Half /\ x \in Int /\ y \in Int
  BY <1>1, <1>2, CycleFacts DEF IsAhead
<1>4. After(x % Cycle, y % Cycle) <=> x > y BY <1>3, AfterIsAfter
<1>5. c = d => x = y BY <1>1, <1>2
<1> QED BY <1>1, <1>2, <1>4, <1>5

\* A time in a bucket other than the first is in the next block of the bucket's
\* size after the clock's.
LEMMA NextBlock ==
    ASSUME NEW now \in Nat, NEW t \in Nat, IsAhead(t, now), NEW b \in 1..Width,
           BitBucket(t % Cycle, now) = b
    PROVE  t \div Power[b - 1] = (now \div Power[b - 1]) + 1
<1>1. /\ b \in 0..Width /\ b # 0 /\ b - 1 \in Nat /\ b = (b - 1) + 1 /\ Width \in Nat
  BY EventAssumption
<1>2. /\ b # Width => t \div Power[b] = now \div Power[b]
      /\ t \div Power[b - 1] # now \div Power[b - 1]
  BY <1>1, BucketMeans
<1>3. PICK d \in Nat \ {0} : d = Power[b - 1] BY <1>1, PowerFacts
<1>0. now \in Int /\ t \in Int OBVIOUS
<1>4. PICK x \in Int : x = now \div d BY <1>0, Divide
<1>5. PICK y \in Int : y = t \div d BY <1>0, Divide
<1>6. x =< y BY <1>4, <1>5, DivideMonotone DEF IsAhead
<1>7. CASE b = Width
  <2>1. d = Half BY <1>3, <1>7 DEF Half
  <2>2. t < now + (d * 1) BY <2>1 DEF IsAhead
  <2>3. t \div d =< (now \div d) + 1
    <3>1. 1 \in Nat /\ now \in Int /\ t \in Int OBVIOUS
    <3> QED BY <2>2, <3>1, DivideAhead
  <2> QED BY <1>2, <1>3, <1>4, <1>5, <1>6, <2>3
<1>8. CASE b # Width
  <2>1. Power[b] = d * 2 BY <1>1, <1>3, PowerFacts
  <2>2. t \div Power[b] = y \div 2 /\ now \div Power[b] = x \div 2
    BY <1>4, <1>5, <2>1, DivideTwice
  <2>3. y \div 2 = x \div 2 BY <1>2, <1>8, <2>2
  <2>4. x # y BY <1>2, <1>3, <1>4, <1>5
  <2>5. y = x + 1 BY ONLY <1>6, <2>3, <2>4, x \in Int, y \in Int
  <2> QED BY <1>3, <1>4, <1>5, <2>5
<1> QED BY <1>7, <1>8

\* The first bucket is for the time the clock shows.
LEMMA FirstBucket ==
    ASSUME NEW now \in Nat, NEW t \in Nat, IsAhead(t, now)
    PROVE  BitBucket(t % Cycle, now) = 0 <=> t = now
<1>1. Power[0] = 1 /\ Width \in Nat \ {0} BY PowerFacts, EventAssumption
<1>2. BitBucket(t % Cycle, now) = 0 <=> t \div Power[0] = now \div Power[0]
  BY <1>1, BucketMeans
<1> QED BY <1>1, <1>2

\* An event of a bucket beyond the one that the clock moves into keeps its
\* bucket, and comes later.
LEMMA BucketStays ==
    ASSUME NEW now \in Nat, NEW t \in Nat, IsAhead(t, now),
           NEW m \in Nat, IsAhead(m, now),
           NEW l \in 0..Width, BitBucket(m % Cycle, now) = l,
           NEW b \in 0..Width, BitBucket(t % Cycle, now) = b, l < b
    PROVE  m < t /\ BitBucket(t % Cycle, m) = b
<1>1. /\ Width \in Nat /\ l # Width /\ b \in 1..Width /\ b - 1 \in 0..Width /\ l =< b - 1
      /\ b # 0 /\ l \in Nat /\ b \in Nat /\ b - 1 \in Nat
  BY EventAssumption
<1>2. m \div Power[l] = now \div Power[l] BY <1>1, BucketMeans
<1>3. m \div Power[b - 1] = now \div Power[b - 1] /\ m \div Power[b] = now \div Power[b]
  BY <1>1, <1>2, AgreeUpwards
<1>4. t \div Power[b - 1] = (now \div Power[b - 1]) + 1 BY <1>1, NextBlock
<1>5. PICK d \in Nat \ {0} : d = Power[b - 1] BY <1>1, PowerFacts
<1>6. m \in Int /\ t \in Int /\ now \in Int OBVIOUS
<1>7. PICK x \in Int : x = m \div d BY <1>6, Divide
<1>8. t \div d = x + 1 BY <1>3, <1>4, <1>5, <1>7
<1>9. m < t
  <2> SUFFICES ASSUME t =< m PROVE FALSE BY <1>6
  <2>1. t \div d =< m \div d BY <1>6, DivideMonotone
  <2> QED BY <1>7, <1>8, <2>1
<1>10. IsAhead(t, m) BY <1>9, CycleFacts DEF IsAhead
<1>11. /\ b # Width => t \div Power[b] = m \div Power[b]
       /\ t \div Power[b - 1] # m \div Power[b - 1]
  <2>1. b # Width => t \div Power[b] = now \div Power[b] BY BucketMeans
  <2> QED BY <1>3, <1>5, <1>7, <1>8, <2>1
<1> QED BY <1>9, <1>10, <1>11, BucketMeans

\* An event of the bucket that the clock moves into moves to a lower bucket.
LEMMA BucketFalls ==
    ASSUME NEW now \in Nat, NEW t \in Nat, IsAhead(t, now),
           NEW m \in Nat, IsAhead(m, now), m =< t,
           NEW l \in 1..Width, BitBucket(m % Cycle, now) = l, BitBucket(t % Cycle, now) = l
    PROVE  BitBucket(t % Cycle, m) \in 0..(l - 1)
<1>1. Width \in Nat /\ l - 1 \in Nat /\ l \in 0..Width BY EventAssumption
<1>2. t \div Power[l - 1] = m \div Power[l - 1] BY NextBlock
<1>3. IsAhead(t, m) BY CycleFacts DEF IsAhead
<1>4. PICK b \in 0..Width : b = BitBucket(t % Cycle, m) BY <1>3, BucketMeans
<1>5. ASSUME l =< b PROVE FALSE
  <2>1. b # 0 /\ b - 1 \in Nat /\ l - 1 =< b - 1 BY <1>1, <1>5
  <2>2. t \div Power[b - 1] = m \div Power[b - 1] BY <1>1, <1>2, <2>1, AgreeUpwards
  <2>3. t \div Power[b - 1] # m \div Power[b - 1] BY <1>3, <1>4, <2>1, BucketMeans
  <2> QED BY <2>2, <2>3
<1> QED BY <1>1, <1>4, <1>5

\* The times of one bucket compare as their wrapped forms do, as numbers.
LEMMA OneBlock ==
    ASSUME NEW now \in Nat, NEW t \in Nat, IsAhead(t, now), NEW m \in Nat, IsAhead(m, now),
           NEW l \in 1..Width, BitBucket(m % Cycle, now) = l, BitBucket(t % Cycle, now) = l,
           m % Cycle =< t % Cycle
    PROVE  m =< t
<1>1. Width \in Nat /\ l - 1 \in Nat /\ l - 1 =< Width BY EventAssumption
<1>2. t \div Power[l - 1] = m \div Power[l - 1] BY NextBlock
<1>3. t \div Cycle = m \div Cycle BY <1>1, <1>2, AgreeUpwards DEF Cycle
<1>4. Cycle \in Nat \ {0} /\ t \in Int /\ m \in Int BY CycleFacts
<1>5. PICK q \in Int : q = m \div Cycle BY <1>4, Divide
<1>6. PICK s \in Int : s = Cycle * q BY <1>4
<1>7. PICK a \in Int : a = m % Cycle BY <1>4, Divide
<1>8. PICK c \in Int : c = t % Cycle BY <1>4, Divide
<1>9. m = s + a
  <2>1. m = (Cycle * (m \div Cycle)) + (m % Cycle) BY <1>4, Divide
  <2> QED BY <1>5, <1>6, <1>7, <2>1
<1>10. t = s + c
  <2>1. t = (Cycle * (t \div Cycle)) + (t % Cycle) BY <1>4, Divide
  <2> QED BY <1>3, <1>5, <1>6, <1>8, <2>1
<1> QED BY <1>7, <1>8, <1>9, <1>10

\* The lowest bucket that is not empty.
LEMMA LowestFacts ==
    ASSUME buckets \in Heap, ~ Empty
    PROVE  /\ LowestBucket \in 0..Width /\ buckets[LowestBucket] # <<>>
           /\ \A b \in 0..Width : b < LowestBucket => buckets[b] = <<>>
<1> DEFINE S == {b \in 0..Width : buckets[b] # <<>>}
<1>1. S # {} BY CountNone DEF Empty, Pending
<1>2. S \in SUBSET Nat BY EventAssumption
<1>3. Min(S) \in S /\ \A x \in S : Min(S) =< x
  <2> HIDE DEF S
  <2> QED BY <1>1, <1>2, MinOfNaturals
<1>4. LowestBucket = Min(S) BY DEF LowestBucket
<1>5. PICK l \in S : l = Min(S) /\ \A x \in S : l =< x BY <1>3
<1>6. \A b \in 0..Width : b < l => b \notin S
  <2> HIDE DEF S
  <2>1. l \in Nat /\ Width \in Nat BY <1>2, EventAssumption
  <2> QED BY <1>5, <2>1
<1> QED BY <1>4, <1>5, <1>6

\* The clock moves to the soonest time that an event is meant for: that of an
\* event in the lowest bucket.
LEMMA RefillClock ==
    ASSUME clock \in Nat, buckets \in Heap, Placed(buckets, clock), ~ Empty
    PROVE  /\ RefilledClock \in clock..MaxClock /\ RefilledClock =< clock + Ahead
           /\ \E e \in ToSet(buckets[LowestBucket]) : RefilledClock = Widen(e.time, clock)
           /\ \A e \in Queued(buckets) : RefilledClock =< Widen(e.time, clock)
<1>1. PICK l \in 0..Width : /\ l = LowestBucket /\ buckets[l] # <<>>
                            /\ \A b \in 0..Width : b < l => buckets[b] = <<>>
  BY LowestFacts
<1>2. \A b \in 0..Width : \A e \in ToSet(buckets[b]) :
        /\ Widen(e.time, clock) \in clock..MaxClock /\ Widen(e.time, clock) =< clock + Ahead
        /\ Widen(e.time, clock) \in Nat /\ IsAhead(Widen(e.time, clock), clock)
        /\ e.time = Widen(e.time, clock) % Cycle /\ e.time \in Cyclic
        /\ BitBucket(e.time, clock) = b
  BY TimelyMeans DEF Placed
<1>3. PICK some \in ToSet(buckets[l]) : TRUE
  <2>1. ToSet(buckets[l]) # {}
    <3>1. buckets[l] \in Seq(Event) BY DEF Heap
    <3> HIDE DEF Event
    <3>2. buckets[l][1] \in Event
      <4>1. 1 \in DOMAIN buckets[l] BY <1>1, <3>1
      <4> QED BY <3>1, <4>1
    <3> QED BY <1>1, <3>1, <3>2, StackContents
  <2> QED BY <2>1
<1>4. \E e \in ToSet(buckets[l]) : /\ RefilledClock = Widen(e.time, clock)
                                   /\ \A f \in ToSet(buckets[l]) :
                                        Widen(e.time, clock) =< Widen(f.time, clock)
  <2>1. CASE l = 0
    <3>1. RefilledClock = clock BY <1>1, <2>1 DEF RefilledClock
    <3>2. \A f \in ToSet(buckets[l]) : Widen(f.time, clock) = clock
      BY <1>2, <2>1, FirstBucket
    <3> QED BY <1>3, <3>1, <3>2
  <2>2. CASE l = 1
    <3>1. RefilledClock = clock + 1 BY <1>1, <2>2 DEF RefilledClock
    <3>2. ASSUME NEW f \in ToSet(buckets[l]) PROVE Widen(f.time, clock) = clock + 1
      <4>1. PICK t \in Nat : t = Widen(f.time, clock) /\ IsAhead(t, clock)
                             /\ f.time = t % Cycle /\ BitBucket(t % Cycle, clock) = 1
        BY <1>2, <2>2
      <4>2. t \div Power[1 - 1] = (clock \div Power[1 - 1]) + 1
        <5>1. 1 \in 1..Width BY EventAssumption
        <5> QED BY <4>1, <5>1, NextBlock
      <4>3. Power[1 - 1] = 1 BY PowerFacts
      <4> QED BY <4>1, <4>2, <4>3
    <3> QED BY <1>3, <3>1, <3>2
  <2>3. CASE l # 0 /\ l # 1
    <3> DEFINE S == {e.time : e \in ToSet(buckets[l])}
    <3>1. RefilledClock = Widen(Min(S), clock) BY <1>1, <2>3 DEF RefilledClock
    <3>2. S # {} /\ S \in SUBSET Nat BY <1>2, <1>3, CycleFacts DEF Cyclic
    <3>3. Min(S) \in S /\ \A x \in S : Min(S) =< x
      <4> HIDE DEF S
      <4> QED BY <3>2, MinOfNaturals
    <3>4. PICK e \in ToSet(buckets[l]) : e.time = Min(S) BY <3>3
    <3>5. ASSUME NEW f \in ToSet(buckets[l])
          PROVE  Widen(e.time, clock) =< Widen(f.time, clock)
      <4>1. e.time =< f.time BY <3>3, <3>4
      <4>2. PICK m \in Nat : m = Widen(e.time, clock) /\ IsAhead(m, clock)
                             /\ e.time = m % Cycle /\ BitBucket(m % Cycle, clock) = l
        BY <1>2
      <4>3. PICK t \in Nat : t = Widen(f.time, clock) /\ IsAhead(t, clock)
                             /\ f.time = t % Cycle /\ BitBucket(t % Cycle, clock) = l
        BY <1>2
      <4>4. l \in 1..Width BY <2>3
      <4> QED BY <4>1, <4>2, <4>3, <4>4, OneBlock
    <3> QED BY <3>1, <3>4, <3>5
  <2> QED BY <2>1, <2>2, <2>3
<1>5. PICK e \in ToSet(buckets[l]) : /\ RefilledClock = Widen(e.time, clock)
                                     /\ \A f \in ToSet(buckets[l]) :
                                          Widen(e.time, clock) =< Widen(f.time, clock)
  BY <1>4
<1>6. ASSUME NEW b \in 0..Width, NEW f \in ToSet(buckets[b])
      PROVE  Widen(e.time, clock) =< Widen(f.time, clock)
  <2>1. CASE b = l BY <1>5, <2>1
  <2>2. CASE b < l
    <3>1. ToSet(buckets[b]) = {} BY <1>1, <2>2 DEF ToSet
    <3> QED BY <3>1
  <2>3. CASE l < b
    <3>1. PICK m \in Nat : m = Widen(e.time, clock) /\ IsAhead(m, clock)
                           /\ e.time = m % Cycle /\ BitBucket(m % Cycle, clock) = l
      BY <1>2
    <3>2. PICK t \in Nat : t = Widen(f.time, clock) /\ IsAhead(t, clock)
                           /\ f.time = t % Cycle /\ BitBucket(t % Cycle, clock) = b
      BY <1>2
    <3>3. m < t BY <2>3, <3>1, <3>2, BucketStays
    <3> QED BY <3>1, <3>2, <3>3
  <2> QED BY <2>1, <2>2, <2>3, EventAssumption
<1>7. \A f \in Queued(buckets) : RefilledClock =< Widen(f.time, clock)
  BY <1>5, <1>6 DEF Queued
<1> QED BY <1>1, <1>2, <1>5, <1>7

\* Refilled for the new clock, the heap holds the same events, all in place, and
\* those of the soonest time are in the first bucket.
LEMMA RefillHeap ==
    ASSUME clock \in Nat, buckets \in Heap, Placed(buckets, clock), ~ Empty
    PROVE  /\ RefilledBuckets \in Heap
           /\ Cardinality(Places(RefilledBuckets)) = Pending
           /\ Queued(RefilledBuckets) = Queued(buckets)
           /\ Placed(RefilledBuckets, RefilledClock)
           /\ RefilledBuckets[0] # <<>>
<1> DEFINE l == LowestBucket
           now == RefilledClock
<1>1. /\ l \in 0..Width /\ buckets[l] # <<>>
      /\ \A b \in 0..Width : b < l => buckets[b] = <<>>
  BY LowestFacts
<1>2. /\ now \in clock..MaxClock /\ now =< clock + Ahead
      /\ \E e \in ToSet(buckets[l]) : now = Widen(e.time, clock)
      /\ \A e \in Queued(buckets) : now =< Widen(e.time, clock)
  BY RefillClock
<1>3. now \in Nat /\ clock =< now BY <1>2, EventAssumption
<1> HIDE DEF l, now
<1>w. Width \in Nat \ {0, 1} BY EventAssumption
<1>4. PICK first \in ToSet(buckets[l]) : now = Widen(first.time, clock) BY <1>2
<1>5. IsAhead(now, clock) /\ BitBucket(now % Cycle, clock) = l
      /\ first.time = now % Cycle
  BY <1>1, <1>4, TimelyMeans DEF Placed
<1>6. \A b \in 0..Width : \A e \in ToSet(buckets[b]) :
        /\ Timely(e.time, now) /\ Widen(e.time, clock) \in Nat
        /\ now =< Widen(e.time, clock) /\ IsAhead(Widen(e.time, clock), clock)
        /\ e.time = Widen(e.time, clock) % Cycle
        /\ BitBucket(Widen(e.time, clock) % Cycle, clock) = b
  <2> SUFFICES ASSUME NEW b \in 0..Width, NEW e \in ToSet(buckets[b])
      PROVE  /\ Timely(e.time, now) /\ Widen(e.time, clock) \in Nat
             /\ now =< Widen(e.time, clock) /\ IsAhead(Widen(e.time, clock), clock)
             /\ e.time = Widen(e.time, clock) % Cycle
             /\ BitBucket(Widen(e.time, clock) % Cycle, clock) = b
    OBVIOUS
  <2>1. Timely(e.time, clock) /\ BitBucket(e.time, clock) = b BY DEF Placed
  <2>2. now =< Widen(e.time, clock) BY <1>2 DEF Queued
  <2> QED BY <1>3, <2>1, <2>2, TimelyMeans, TimelyLater
<1>7. ASSUME NEW b \in 0..Width, l < b, NEW e \in ToSet(buckets[b])
      PROVE  BitBucket(e.time, now) = b
  <2>1. PICK t \in Nat : IsAhead(t, clock) /\ e.time = t % Cycle
                         /\ BitBucket(t % Cycle, clock) = b
    BY <1>6
  <2> QED BY <1>1, <1>3, <1>5, <1>7, <2>1, BucketStays
<1>8. ASSUME l # 0, NEW e \in ToSet(buckets[l]) PROVE BitBucket(e.time, now) \in 0..(l - 1)
  <2>1. PICK t \in Nat : IsAhead(t, clock) /\ e.time = t % Cycle /\ now =< t
                         /\ BitBucket(t % Cycle, clock) = l
    BY <1>1, <1>6
  <2>2. l \in 1..Width BY <1>1, <1>8
  <2> QED BY <1>3, <1>5, <2>1, <2>2, BucketFalls
<1>9. ASSUME NEW b \in 0..Width, b < l PROVE ToSet(buckets[b]) = {}
  BY <1>1, <1>9 DEF ToSet
<1>10. ASSUME NEW h \in Heap, NEW e \in ToSet(h[0]) PROVE h[0] # <<>>
  BY <1>10 DEF ToSet
<1>11. BitBucket(first.time, now) = 0
  <2>1. IsAhead(now, now) BY <1>3, CycleFacts DEF IsAhead
  <2> QED BY <1>3, <1>5, <2>1, FirstBucket
<1>12. CASE l = 0
  <2>1. RefilledBuckets = buckets /\ now = clock
    BY <1>12 DEF RefilledBuckets, RefilledClock, l, now
  <2> QED BY <1>1, <1>12, <2>1 DEF Pending, now
<1>13. CASE l = 1
  <2> DEFINE h0 == [buckets EXCEPT ![1] = <<>>]
             q == buckets[1]
             new == [h0 EXCEPT ![0] = q]
  <2>w. 0 \in 0..Width /\ 1 \in 0..Width BY <1>w
  <2>1. RefilledBuckets = [buckets EXCEPT ![0] = buckets[1], ![1] = <<>>]
    BY <1>13 DEF RefilledBuckets, l
  <2>2. buckets[0] = <<>> BY <1>1, <1>13, <2>w
  <2>3. /\ h0 \in Heap /\ h0[0] = <<>> /\ h0[1] = <<>> /\ q \in Seq(Event)
        /\ [h0 EXCEPT ![1] = q] = buckets
    BY <2>2, <2>w DEF Heap
  <2>4. new \in Heap /\ RefilledBuckets = new
    <3>1. new \in Heap BY <2>3, <2>w DEF Heap
    <3>2. [buckets EXCEPT ![0] = buckets[1], ![1] = <<>>] = new
      <4> DEFINE old == [buckets EXCEPT ![0] = buckets[1], ![1] = <<>>]
      <4>1. /\ old = [b \in 0..Width |-> old[b]] /\ new = [b \in 0..Width |-> new[b]]
            /\ \A b \in 0..Width : old[b] = IF b = 1 THEN <<>> ELSE
                                            IF b = 0 THEN buckets[1] ELSE buckets[b]
        BY <2>w DEF Heap
      <4>2. \A b \in 0..Width : new[b] = IF b = 1 THEN <<>> ELSE
                                         IF b = 0 THEN buckets[1] ELSE buckets[b]
        BY <2>w DEF Heap
      <4>3. \A b \in 0..Width : old[b] = new[b]
        <5> HIDE DEF old, new
        <5> QED BY <4>1, <4>2
      <4> HIDE DEF new
      <4> QED BY <4>1, <4>3
    <3> QED BY <2>1, <3>1, <3>2
  <2>5. Cardinality(Places(new)) = Cardinality(Places(buckets))
    <3> HIDE DEF h0, q
    <3>1. Cardinality(Places([h0 EXCEPT ![0] = q])) = Cardinality(Places(h0)) + Len(q)
      BY <2>3, <2>w, CountWhole
    <3>2. Cardinality(Places([h0 EXCEPT ![1] = q])) = Cardinality(Places(h0)) + Len(q)
      BY <2>3, <2>w, CountWhole
    <3> QED BY <2>3, <3>1, <3>2
  <2>6. \A b \in 0..Width : ToSet(new[b]) = IF b = 0 THEN ToSet(buckets[1])
                                            ELSE IF b = 1 THEN {} ELSE ToSet(buckets[b])
    <3>1. ToSet(<<>>) = {} BY DEF ToSet
    <3>2. \A b \in 0..Width : new[b] = IF b = 0 THEN buckets[1]
                                       ELSE IF b = 1 THEN <<>> ELSE buckets[b]
      BY DEF Heap
    <3> HIDE DEF new
    <3> QED BY <3>1, <3>2
  <2> HIDE DEF new
  <2>7. ToSet(buckets[0]) = {} BY <2>2 DEF ToSet
  <2>8. Queued(new) = Queued(buckets) BY <2>6, <2>7, <2>w DEF Queued
  <2>9. Placed(new, now)
    <3> SUFFICES ASSUME NEW b \in 0..Width, NEW e \in ToSet(new[b])
        PROVE  Timely(e.time, now) /\ BitBucket(e.time, now) = b
      BY DEF Placed
    <3>1. CASE b = 0
      <4>1. e \in ToSet(buckets[1]) BY <2>6, <3>1
      <4>2. BitBucket(e.time, now) \in 0..(l - 1) BY <1>8, <1>13, <4>1
      <4> QED BY <1>6, <1>13, <2>w, <3>1, <4>1, <4>2
    <3>2. CASE b # 0
      <4>1. b # 1 /\ l < b /\ e \in ToSet(buckets[b]) BY <1>13, <2>6, <3>2
      <4> QED BY <1>6, <1>7, <4>1
    <3> QED BY <3>1, <3>2
  <2>10. new[0] # <<>>
    <3>1. first \in ToSet(new[0]) BY <1>4, <1>13, <2>6, <2>w
    <3> QED BY <1>10, <2>4, <3>1
  <2> QED BY <2>4, <2>5, <2>8, <2>9, <2>10 DEF Pending, now
<1>14. CASE l # 0 /\ l # 1
  <2> DEFINE new == Redistribute(l, now)
  <2>1. RefilledBuckets = new BY <1>14 DEF RefilledBuckets, l, now
  <2>2. \A e \in ToSet(buckets[l]) : BitBucket(e.time, now) \in 0..(l - 1)
                                     /\ BitBucket(e.time, now) \in 0..Width
    BY <1>1, <1>8, <1>14, <1>w
  <2>3. /\ new \in Heap
        /\ Cardinality(Places(new)) = Cardinality(Places(buckets))
        /\ \A b \in 0..Width : ToSet(new[b]) =
             (IF b = l THEN {} ELSE ToSet(buckets[b]))
               \cup {e \in ToSet(buckets[l]) : BitBucket(e.time, now) = b}
    BY <1>1, <2>2, Redistributed
  <2> HIDE DEF new
  <2>4. Queued(new) = Queued(buckets)
    <3>1. ASSUME NEW b \in 0..Width, NEW e \in ToSet(new[b]) PROVE e \in Queued(buckets)
      BY <1>1, <2>3 DEF Queued
    <3>2. ASSUME NEW b \in 0..Width, NEW e \in ToSet(buckets[b]) PROVE e \in Queued(new)
      <4>1. CASE b = l
        <5>1. PICK c \in 0..Width : c = BitBucket(e.time, now) BY <2>2, <3>2, <4>1
        <5>2. e \in ToSet(new[c]) BY <2>3, <3>2, <4>1, <5>1
        <5> QED BY <5>2 DEF Queued
      <4>2. CASE b # l
        <5>1. e \in ToSet(new[b]) BY <2>3, <3>2, <4>2
        <5> QED BY <5>1 DEF Queued
      <4> QED BY <4>1, <4>2
    <3> QED BY <3>1, <3>2 DEF Queued
  <2>5. Placed(new, now)
    <3> SUFFICES ASSUME NEW b \in 0..Width, NEW e \in ToSet(new[b])
        PROVE  Timely(e.time, now) /\ BitBucket(e.time, now) = b
      BY DEF Placed
    <3>1. CASE e \in ToSet(buckets[l]) /\ BitBucket(e.time, now) = b BY <1>1, <1>6, <3>1
    <3>2. CASE b # l /\ e \in ToSet(buckets[b])
      <4>1. ~ (b < l) BY <1>9, <3>2
      <4>2. l < b BY <1>1, <1>w, <3>2, <4>1
      <4> QED BY <1>6, <1>7, <3>2, <4>2
    <3> QED BY <2>3, <3>1, <3>2
  <2>6. new[0] # <<>>
    <3>1. 0 \in 0..Width BY <1>w
    <3>2. first \in ToSet(new[0]) BY <1>4, <1>11, <2>3, <3>1
    <3> QED BY <1>10, <2>3, <3>2
  <2> QED BY <2>1, <2>3, <2>4, <2>5, <2>6 DEF Pending, now
<1> QED BY <1>12, <1>13, <1>14

\* The event that is dequeued is one of the soonest.
LEMMA PopFacts ==
    ASSUME clock \in Nat, buckets \in Heap, Placed(buckets, clock), ~ Empty
    PROVE  /\ Soonest \in Queued(buckets) /\ Soonest \in Event
           /\ Soonest.time = RefilledClock % Cycle
           /\ Widen(Soonest.time, clock) = RefilledClock
           /\ Popped \in Heap /\ Cardinality(Places(Popped)) + 1 = Pending
           /\ Placed(Popped, RefilledClock)
           /\ Queued(buckets) = Queued(Popped) \cup {Soonest}
<1> DEFINE new == RefilledBuckets
<1>1. /\ new \in Heap /\ Cardinality(Places(new)) = Pending
      /\ Queued(new) = Queued(buckets) /\ Placed(new, RefilledClock) /\ new[0] # <<>>
  BY RefillHeap
<1>2. Soonest = Last(new[0]) /\ Popped = [new EXCEPT ![0] = Front(@)] BY DEF Soonest, Popped
<1> HIDE DEF new
<1>3. 0 \in 0..Width BY EventAssumption
<1>4. new[0] \in Seq(Event) BY <1>1, <1>3 DEF Heap
<1>5. /\ Last(new[0]) \in Event /\ Last(new[0]) \in ToSet(new[0])
      /\ ToSet(new[0]) = ToSet(Front(new[0])) \cup {Last(new[0])}
  <2>1. PICK e \in Event : e = new[0][1]
    <3>1. 1 \in DOMAIN new[0] BY <1>1, <1>4
    <3> QED BY <1>4, <3>1
  <2> QED BY <1>1, <1>4, <2>1, StackContents
<1>6. Soonest \in Event /\ Soonest \in Queued(buckets)
  BY <1>1, <1>2, <1>3, <1>5 DEF Queued
<1>7. Timely(Soonest.time, RefilledClock) /\ BitBucket(Soonest.time, RefilledClock) = 0
  BY <1>1, <1>2, <1>3, <1>5 DEF Placed
<1>8. RefilledClock \in Nat /\ clock =< RefilledClock
      /\ \A e \in Queued(buckets) : RefilledClock =< Widen(e.time, clock)
  BY RefillClock, EventAssumption
<1>9. Soonest.time = RefilledClock % Cycle /\ Widen(Soonest.time, RefilledClock) = RefilledClock
  BY <1>7, <1>8, TimelyMeans, FirstBucket
<1>10. Widen(Soonest.time, clock) = RefilledClock
  <2>1. Timely(Soonest.time, clock) BY <1>6 DEF Queued, Placed
  <2>2. RefilledClock =< Widen(Soonest.time, clock) BY <1>6, <1>8
  <2> QED BY <1>8, <1>9, <2>1, <2>2, TimelyLater
<1>11. Popped \in Heap /\ Cardinality(Places(Popped)) + 1 = Pending
  BY <1>1, <1>2, <1>3, CountPop
<1>12. \A b \in 0..Width : Popped[b] = IF b = 0 THEN Front(new[0]) ELSE new[b]
  BY <1>1, <1>2 DEF Heap
<1>13. \A b \in 0..Width : ToSet(Popped[b]) \subseteq ToSet(new[b])
  BY <1>5, <1>12
<1>14. Placed(Popped, RefilledClock) BY <1>1, <1>13 DEF Placed
<1>15. Queued(new) = Queued(Popped) \cup {Soonest}
  <2>1. \A b \in 0..Width : ToSet(new[b]) = IF b = 0 THEN ToSet(Popped[b]) \cup {Soonest}
                                                      ELSE ToSet(Popped[b])
    BY <1>2, <1>5, <1>12
  <2> QED BY <1>3, <2>1 DEF Queued
<1> QED BY <1>1, <1>6, <1>9, <1>10, <1>11, <1>14, <1>15

\* An event for a timely look is put where it belongs.
LEMMA PutPlaced ==
    ASSUME NEW h \in Heap, NEW now \in Nat, Placed(h, now), NEW e \in Event,
           Timely(e.time, now)
    PROVE  /\ Put(h, e, now) \in Heap
           /\ Cardinality(Places(h)) \in Nat
           /\ Cardinality(Places(Put(h, e, now))) = Cardinality(Places(h)) + 1
           /\ Placed(Put(h, e, now), now)
           /\ Queued(Put(h, e, now)) = Queued(h) \cup {e}
<1>1. PICK t \in Nat : IsAhead(t, now) /\ e.time = t % Cycle BY TimelyMeans
<1>2. PICK b \in 0..Width : b = BitBucket(e.time, now) BY <1>1, BucketMeans
<1>3. /\ Put(h, e, now) \in Heap
      /\ \A c \in 0..Width : ToSet(Put(h, e, now)[c]) =
                               IF c = b THEN ToSet(h[c]) \cup {e} ELSE ToSet(h[c])
  BY <1>2, PutFacts
<1>4. Put(h, e, now) = [h EXCEPT ![b] = Append(@, e)] BY <1>2 DEF Put
<1>5. /\ Cardinality(Places(h)) \in Nat
      /\ Cardinality(Places([h EXCEPT ![b] = Append(@, e)])) = Cardinality(Places(h)) + 1
  BY CountPut
<1>6. Placed(Put(h, e, now), now)
  <2> SUFFICES ASSUME NEW c \in 0..Width, NEW f \in ToSet(Put(h, e, now)[c])
      PROVE  Timely(f.time, now) /\ BitBucket(f.time, now) = c
    BY DEF Placed
  <2>1. CASE f \in ToSet(h[c]) BY <2>1 DEF Placed
  <2>2. CASE c = b /\ f = e BY <1>2, <2>2
  <2> QED BY <1>3, <2>1, <2>2
<1>7. Queued(Put(h, e, now)) = Queued(h) \cup {e} BY <1>3 DEF Queued
<1> QED BY <1>3, <1>4, <1>5, <1>6, <1>7

-----------------------------------------------------------------------------
(* The inductive invariant: the heap is in order relative to the clock, an *)
(* object with a queued event has that event in the heap, and one that is  *)
(* wanted has an event no later than it is wanted.                         *)

Tracker == [desired : Cyclic, queued : Cyclic, hasDesired : BOOLEAN, hasQueued : BOOLEAN]

\* The event that a tracker believes to be in the heap.
OwnEvent(o) == [at |-> o, time |-> tracker[o].queued]

HeapInOrder ==
    /\ clock \in 0..MaxClock
    /\ buckets \in Heap
    /\ Pending <= MaxPending
    /\ Placed(buckets, clock)

QueuedIsThere ==
    \A o \in Objects : tracker[o].hasQueued => OwnEvent(o) \in Queued(buckets)

WantedIsQueued ==
    \A o \in Objects : tracker[o].hasDesired =>
        /\ tracker[o].hasQueued /\ Timely(tracker[o].desired, clock)
        /\ ~ After(tracker[o].queued, tracker[o].desired)

IInv ==
    /\ HeapInOrder
    /\ tracker \in [Objects -> Tracker]
    /\ QueuedIsThere
    /\ WantedIsQueued

\* What the invariant says of the times: an object's event comes no later than
\* the object is wanted.
LEMMA EventBeforeWish ==
    ASSUME IInv, NEW o \in Objects, tracker[o].hasDesired
    PROVE  /\ OwnEvent(o) \in Queued(buckets) /\ clock \in Nat
           /\ Timely(tracker[o].queued, clock) /\ Timely(tracker[o].desired, clock)
           /\ Widen(tracker[o].queued, clock) =< Widen(tracker[o].desired, clock)
           /\ Widen(tracker[o].desired, clock) \in clock..MaxClock
<1>1. tracker[o].hasQueued /\ Timely(tracker[o].desired, clock)
      /\ ~ After(tracker[o].queued, tracker[o].desired)
  BY DEF IInv, WantedIsQueued
<1>2. OwnEvent(o) \in Queued(buckets) BY <1>1 DEF IInv, QueuedIsThere
<1>3. Timely(tracker[o].queued, clock)
  <2>1. PICK b \in 0..Width : OwnEvent(o) \in ToSet(buckets[b]) BY <1>2 DEF Queued
  <2>2. Timely(OwnEvent(o).time, clock) BY <2>1 DEF IInv, HeapInOrder, Placed
  <2> QED BY <2>2 DEF OwnEvent
<1>4. clock \in Nat BY EventAssumption DEF IInv, HeapInOrder
<1>5. PICK x \in Nat : x = Widen(tracker[o].queued, clock) BY <1>3, <1>4, TimelyMeans
<1>6. PICK y \in Nat : y = Widen(tracker[o].desired, clock) /\ y \in clock..MaxClock
  BY <1>1, <1>4, TimelyMeans
<1>7. ~ (x > y) BY <1>1, <1>3, <1>4, <1>5, <1>6, TimelyCompare
<1> QED BY <1>1, <1>2, <1>3, <1>4, <1>5, <1>6, <1>7

\* When the soonest event has been popped: the clock has passed no wish, and the
\* events that the trackers rely on are still there but for the popped one.
LEMMA PopKeeps ==
    ASSUME IInv, ~ Empty
    PROVE  /\ Soonest.at \in Objects /\ Soonest.time \in Cyclic
           /\ RefilledClock \in clock..MaxClock /\ RefilledClock \in 0..MaxClock
           /\ Widen(Soonest.time, clock) = RefilledClock
           /\ Popped \in Heap /\ Cardinality(Places(Popped)) + 1 = Pending
           /\ Placed(Popped, RefilledClock)
           /\ \A p \in Objects : tracker[p].hasDesired =>
                /\ Timely(tracker[p].desired, RefilledClock)
                /\ Widen(tracker[p].desired, RefilledClock) = Widen(tracker[p].desired, clock)
                /\ RefilledClock =< Widen(tracker[p].desired, clock)
           /\ \A p \in Objects : tracker[p].hasQueued =>
                \/ p = Soonest.at /\ Soonest.time = tracker[p].queued
                \/ OwnEvent(p) \in Queued(Popped)
<1>1. clock \in Nat /\ clock \in 0..MaxClock /\ buckets \in Heap /\ Placed(buckets, clock)
  BY EventAssumption DEF IInv, HeapInOrder
<1>2. /\ Soonest \in Event /\ Widen(Soonest.time, clock) = RefilledClock
      /\ Popped \in Heap /\ Cardinality(Places(Popped)) + 1 = Pending
      /\ Placed(Popped, RefilledClock)
      /\ Queued(buckets) = Queued(Popped) \cup {Soonest}
  BY <1>1, PopFacts
<1>3. /\ RefilledClock \in clock..MaxClock
      /\ \A e \in Queued(buckets) : RefilledClock =< Widen(e.time, clock)
  BY <1>1, RefillClock
<1>4. RefilledClock \in Nat /\ clock =< RefilledClock /\ RefilledClock \in 0..MaxClock
  BY <1>1, <1>3, EventAssumption
<1>5. ASSUME NEW p \in Objects, tracker[p].hasDesired
      PROVE  /\ Timely(tracker[p].desired, RefilledClock)
             /\ Widen(tracker[p].desired, RefilledClock) = Widen(tracker[p].desired, clock)
             /\ RefilledClock =< Widen(tracker[p].desired, clock)
  <2>1. /\ OwnEvent(p) \in Queued(buckets) /\ Timely(tracker[p].desired, clock)
        /\ Timely(tracker[p].queued, clock)
        /\ Widen(tracker[p].queued, clock) =< Widen(tracker[p].desired, clock)
    BY <1>5, EventBeforeWish
  <2>2. RefilledClock =< Widen(tracker[p].queued, clock) BY <1>3, <2>1 DEF OwnEvent
  <2>3. Widen(tracker[p].queued, clock) \in Nat /\ Widen(tracker[p].desired, clock) \in Nat
    BY <1>1, <2>1, TimelyMeans
  <2>4. RefilledClock =< Widen(tracker[p].desired, clock) BY <1>4, <2>1, <2>2, <2>3
  <2> QED BY <1>1, <1>4, <2>1, <2>4, TimelyLater
<1>6. ASSUME NEW p \in Objects, tracker[p].hasQueued, OwnEvent(p) \notin Queued(Popped)
      PROVE  p = Soonest.at /\ Soonest.time = tracker[p].queued
  <2>1. OwnEvent(p) \in Queued(buckets) BY <1>6 DEF IInv, QueuedIsThere
  <2>2. OwnEvent(p) = Soonest BY <1>2, <1>6, <2>1
  <2> QED BY <2>2 DEF OwnEvent
<1>7. Soonest.at \in Objects /\ Soonest.time \in Cyclic BY <1>2 DEF Event
<1> QED BY <1>2, <1>3, <1>4, <1>5, <1>6, <1>7

\* No tracker relies on an empty heap.
LEMMA EmptyMeansIdle ==
    ASSUME IInv, Empty, NEW o \in Objects
    PROVE  ~ tracker[o].hasQueued /\ ~ tracker[o].hasDesired
<1>1. \A b \in 0..Width : buckets[b] = <<>>
  <2>1. buckets \in Heap BY DEF IInv, HeapInOrder
  <2>2. Cardinality(Places(buckets)) = 0 BY DEF Empty, Pending
  <2> QED BY <2>1, <2>2, CountNone
<1>2. Queued(buckets) = {} BY <1>1 DEF Queued, ToSet
<1> QED BY <1>2 DEF IInv, QueuedIsThere, WantedIsQueued

-----------------------------------------------------------------------------
(* One lemma per action: it preserves the invariant, and it is a step of   *)
(* LookSchedule.                                                           *)

\* The invariant holds at the start.
LEMMA InitInvariant == Init => IInv
<1> SUFFICES ASSUME Init PROVE IInv OBVIOUS
<1>1. clock \in 0..MaxClock BY EventAssumption DEF Init
<1>2. buckets \in Heap /\ \A b \in 0..Width : buckets[b] = <<>>
  BY DEF Init, EmptyBuckets, Heap
<1>3. Pending = 0 BY <1>2, CountNone DEF Pending
<1>4. \A b \in 0..Width : ToSet(buckets[b]) = {} BY <1>2 DEF ToSet
<1>5. HeapInOrder BY <1>1, <1>2, <1>3, <1>4, EventAssumption DEF HeapInOrder, Placed
<1>6. 0 \in Cyclic BY CycleFacts DEF Cyclic
<1>7. tracker \in [Objects -> Tracker] BY <1>6 DEF Init, Idle, Tracker
<1>8. \A o \in Objects : ~ tracker[o].hasQueued /\ ~ tracker[o].hasDesired
  BY DEF Init, Idle
<1> QED BY <1>5, <1>7, <1>8 DEF IInv, QueuedIsThere, WantedIsQueued

\* A time from the clock on, within the bounds, is timely.
LEMMA ScheduledIsTimely ==
    ASSUME clock \in Nat, clock =< MaxClock, NEW t \in clock..Min({clock + Ahead, MaxClock})
    PROVE  /\ t \in clock..MaxClock /\ t \in Nat
           /\ Timely(t % Cycle, clock) /\ Widen(t % Cycle, clock) = t /\ t % Cycle \in Cyclic
<1>1. Ahead \in Nat /\ MaxClock \in Nat /\ Ahead \in 0..(Half - 1) BY EventAssumption, CycleFacts
<1>2. PICK m \in Nat : m = Min({clock + Ahead, MaxClock}) /\ m =< clock + Ahead /\ m =< MaxClock
  <2> DEFINE S == {clock + Ahead, MaxClock}
  <2>1. S \in SUBSET Nat /\ S # {} /\ clock + Ahead \in S /\ MaxClock \in S BY <1>1
  <2>2. Min(S) \in S /\ \A x \in S : Min(S) =< x
    <3> HIDE DEF S
    <3> QED BY <2>1, MinOfNaturals
  <2> QED BY <2>1, <2>2
<1>3. t \in clock..MaxClock /\ t =< clock + Ahead /\ t \in Nat BY <1>1, <1>2
<1>4. Timely(t % Cycle, clock) BY <1>3 DEF Timely
<1>5. IsAhead(t, clock) BY <1>1, <1>3, CycleFacts DEF IsAhead
<1> QED BY <1>3, <1>4, <1>5, WidenAhead, TimelyMeans

\* A tracker is set to a timely wish.
LEMMA SetDesiredStep ==
    ASSUME IInv, NEW o \in Objects, NEW time \in Cyclic, Timely(time, clock),
           Pending < MaxPending, SetDesired(o, time), UNCHANGED clock
    PROVE  /\ IInv'
           /\ tracker'[o].hasDesired /\ tracker'[o].desired = time
           /\ \A p \in Objects : p # o => tracker'[p] = tracker[p]
<1>1. clock \in Nat /\ clock \in 0..MaxClock /\ buckets \in Heap /\ Placed(buckets, clock)
  BY EventAssumption DEF IInv, HeapInOrder
<1>2. tracker \in [Objects -> Tracker] /\ tracker[o] \in Tracker BY DEF IInv
<1>3. CASE ~ tracker[o].hasQueued \/ After(tracker[o].queued, time)
  <2> DEFINE e == [at |-> o, time |-> time]
  <2>1. /\ tracker' = [tracker EXCEPT ![o] = [desired |-> time, queued |-> time,
                                              hasDesired |-> TRUE, hasQueued |-> TRUE]]
        /\ buckets' = Put(buckets, e, clock)
    BY <1>3 DEF SetDesired
  <2>2. e \in Event BY DEF Event
  <2>3. /\ buckets' \in Heap /\ Pending' = Pending + 1
        /\ Placed(buckets', clock) /\ Queued(buckets') = Queued(buckets) \cup {e}
        /\ Pending \in Nat
    <3>1. Timely(e.time, clock) OBVIOUS
    <3> HIDE DEF e
    <3> QED BY <1>1, <2>1, <2>2, <3>1, PutPlaced DEF Pending
  <2>4. HeapInOrder'
    BY <1>1, <2>3, EventAssumption DEF HeapInOrder
  <2>5. tracker' \in [Objects -> Tracker] BY <1>2, <2>1 DEF Tracker
  <2>6. /\ tracker'[o] = [desired |-> time, queued |-> time,
                          hasDesired |-> TRUE, hasQueued |-> TRUE]
        /\ \A p \in Objects : p # o => tracker'[p] = tracker[p]
    BY <1>2, <2>1
  <2>7. QueuedIsThere'
    <3> SUFFICES ASSUME NEW p \in Objects, tracker'[p].hasQueued
        PROVE  [at |-> p, time |-> tracker'[p].queued] \in Queued(buckets')
      BY DEF QueuedIsThere, OwnEvent
    <3>1. CASE p = o BY <2>3, <2>6, <3>1
    <3>2. CASE p # o BY <2>3, <2>6, <3>2 DEF IInv, QueuedIsThere, OwnEvent
    <3> QED BY <3>1, <3>2
  <2>8. WantedIsQueued'
    <3> SUFFICES ASSUME NEW p \in Objects, tracker'[p].hasDesired
        PROVE  /\ tracker'[p].hasQueued /\ Timely(tracker'[p].desired, clock)
               /\ ~ After(tracker'[p].queued, tracker'[p].desired)
      BY DEF WantedIsQueued
    <3>1. CASE p = o
      <4>1. ~ After(time, time)
        <5>1. Widen(time, clock) \in Nat BY <1>1, TimelyMeans
        <5> QED BY <1>1, <5>1, TimelyCompare
      <4> QED BY <2>6, <3>1, <4>1
    <3>2. CASE p # o BY <2>6, <3>2 DEF IInv, WantedIsQueued
    <3> QED BY <3>1, <3>2
  <2> QED BY <2>4, <2>5, <2>6, <2>7, <2>8 DEF IInv
<1>4. CASE tracker[o].hasQueued /\ ~ After(tracker[o].queued, time)
  <2>1. /\ tracker' = [tracker EXCEPT ![o].desired = time, ![o].hasDesired = TRUE]
        /\ UNCHANGED buckets
    BY <1>4 DEF SetDesired
  <2>2. tracker' \in [Objects -> Tracker] BY <1>2, <2>1 DEF Tracker
  <2>3. /\ tracker'[o].desired = time /\ tracker'[o].hasDesired
        /\ tracker'[o].queued = tracker[o].queued /\ tracker'[o].hasQueued
        /\ \A p \in Objects : p # o => tracker'[p] = tracker[p]
    BY <1>2, <1>4, <2>1 DEF Tracker
  <2>4. HeapInOrder' BY <2>1 DEF IInv, HeapInOrder, Pending
  <2>5. QueuedIsThere'
    <3> SUFFICES ASSUME NEW p \in Objects, tracker'[p].hasQueued
        PROVE  [at |-> p, time |-> tracker'[p].queued] \in Queued(buckets)
      BY <2>1 DEF QueuedIsThere, OwnEvent
    <3>1. tracker[p].hasQueued /\ tracker'[p].queued = tracker[p].queued BY <1>4, <2>3
    <3> QED BY <3>1 DEF IInv, QueuedIsThere, OwnEvent
  <2>6. WantedIsQueued'
    <3> SUFFICES ASSUME NEW p \in Objects, tracker'[p].hasDesired
        PROVE  /\ tracker'[p].hasQueued /\ Timely(tracker'[p].desired, clock)
               /\ ~ After(tracker'[p].queued, tracker'[p].desired)
      BY DEF WantedIsQueued
    <3>1. CASE p = o BY <1>4, <2>3, <3>1
    <3>2. CASE p # o BY <2>3, <3>2 DEF IInv, WantedIsQueued
    <3> QED BY <3>1, <3>2
  <2> QED BY <2>2, <2>3, <2>4, <2>5, <2>6 DEF IInv
<1> QED BY <1>3, <1>4 DEF SetDesired

\* Trackers give up wishes and events of their own; the heap is as it was.
LEMMA GiveUp ==
    ASSUME IInv, UNCHANGED <<clock, buckets>>, tracker' \in [Objects -> Tracker],
           \A p \in Objects :
             \/ tracker'[p] = tracker[p]
             \/ /\ ~ tracker'[p].hasDesired
                /\ tracker'[p].hasQueued => /\ tracker[p].hasQueued
                                            /\ tracker'[p].queued = tracker[p].queued
    PROVE  IInv'
<1>1. HeapInOrder' BY DEF IInv, HeapInOrder, Pending
<1>2. QueuedIsThere'
  <2> SUFFICES ASSUME NEW p \in Objects, tracker'[p].hasQueued
      PROVE  [at |-> p, time |-> tracker'[p].queued] \in Queued(buckets)
    BY DEF QueuedIsThere, OwnEvent
  <2>1. tracker[p].hasQueued /\ tracker'[p].queued = tracker[p].queued OBVIOUS
  <2> QED BY <2>1 DEF IInv, QueuedIsThere, OwnEvent
<1>3. WantedIsQueued' BY DEF IInv, WantedIsQueued
<1> QED BY <1>1, <1>2, <1>3 DEF IInv

\* The soonest event is dequeued, and its object's tracker no longer relies on it.
LEMMA PopStep ==
    ASSUME IInv, ~ Empty, clock' = RefilledClock, buckets' = Popped,
           tracker' \in [Objects -> Tracker],
           \A p \in Objects : p # Soonest.at => tracker'[p] = tracker[p],
           LET t == tracker[Soonest.at]
               u == tracker'[Soonest.at] IN
           IF t.hasQueued /\ Soonest.time = t.queued
           THEN ~ u.hasQueued /\ ~ u.hasDesired ELSE u = t
    PROVE  IInv'
<1>1. /\ Soonest.at \in Objects /\ RefilledClock \in 0..MaxClock
      /\ Popped \in Heap /\ Cardinality(Places(Popped)) + 1 = Pending
      /\ Placed(Popped, RefilledClock)
      /\ \A p \in Objects : tracker[p].hasDesired => Timely(tracker[p].desired, RefilledClock)
      /\ \A p \in Objects : tracker[p].hasQueued =>
           \/ p = Soonest.at /\ Soonest.time = tracker[p].queued
           \/ OwnEvent(p) \in Queued(Popped)
  BY PopKeeps
<1>2. Cardinality(Places(Popped)) \in Nat BY <1>1, CountNone
<1>3. HeapInOrder'
  <2>1. Cardinality(Places(Popped)) =< MaxPending
    BY <1>1, <1>2, EventAssumption DEF IInv, HeapInOrder
  <2> QED BY <1>1, <2>1 DEF HeapInOrder, Pending
<1>4. ASSUME NEW p \in Objects, tracker'[p].hasQueued \/ tracker'[p].hasDesired
      PROVE  /\ tracker'[p] = tracker[p]
             /\ ~ (p = Soonest.at /\ tracker[p].hasQueued /\ Soonest.time = tracker[p].queued)
  BY <1>4
<1>5. QueuedIsThere'
  <2> SUFFICES ASSUME NEW p \in Objects, tracker'[p].hasQueued
      PROVE  [at |-> p, time |-> tracker'[p].queued] \in Queued(Popped)
    BY DEF QueuedIsThere, OwnEvent
  <2> QED BY <1>1, <1>4 DEF OwnEvent
<1>6. WantedIsQueued'
  <2> SUFFICES ASSUME NEW p \in Objects, tracker'[p].hasDesired
      PROVE  /\ tracker'[p].hasQueued /\ Timely(tracker'[p].desired, RefilledClock)
             /\ ~ After(tracker'[p].queued, tracker'[p].desired)
    BY DEF WantedIsQueued
  <2> QED BY <1>1, <1>4 DEF IInv, WantedIsQueued
<1> QED BY <1>3, <1>5, <1>6 DEF IInv

\* An event that is early is dequeued and queued again for the time wanted.
LEMMA DeferStep ==
    ASSUME IInv, Defer
    PROVE  IInv'
<1> DEFINE o == Soonest.at
           t == tracker[o]
           e == [at |-> o, time |-> t.desired]
<1>1. /\ ~ Empty /\ t.hasQueued /\ Soonest.time = t.queued /\ t.hasDesired
      /\ tracker' = [tracker EXCEPT ![o].queued = t.desired]
      /\ clock' = RefilledClock /\ buckets' = Put(Popped, e, RefilledClock)
  BY DEF Defer
<1>2. /\ o \in Objects /\ RefilledClock \in 0..MaxClock
      /\ Popped \in Heap /\ Cardinality(Places(Popped)) + 1 = Pending
      /\ Placed(Popped, RefilledClock)
      /\ \A p \in Objects : tracker[p].hasDesired => Timely(tracker[p].desired, RefilledClock)
      /\ \A p \in Objects : tracker[p].hasQueued =>
           \/ p = o /\ Soonest.time = tracker[p].queued
           \/ OwnEvent(p) \in Queued(Popped)
  BY <1>1, PopKeeps
<1>3. tracker \in [Objects -> Tracker] BY DEF IInv
<1>4. RefilledClock \in Nat BY <1>2, EventAssumption
<1>5. e \in Event /\ Timely(e.time, RefilledClock) BY <1>1, <1>2, <1>3 DEF Event, Tracker
<1>6. /\ buckets' \in Heap /\ Pending' = Pending
      /\ Placed(buckets', RefilledClock) /\ Queued(buckets') = Queued(Popped) \cup {e}
  <2> HIDE DEF e
  <2> QED BY <1>1, <1>2, <1>4, <1>5, PutPlaced DEF Pending
<1>7. /\ tracker' \in [Objects -> Tracker]
      /\ tracker'[o].queued = t.desired /\ tracker'[o].desired = t.desired
      /\ tracker'[o].hasQueued /\ tracker'[o].hasDesired
      /\ \A p \in Objects : p # o => tracker'[p] = tracker[p]
  <2>1. t \in Tracker BY <1>2, <1>3
  <2>2. tracker' = [tracker EXCEPT ![o] = [t EXCEPT !.queued = t.desired]] BY <1>1
  <2>3. [t EXCEPT !.queued = t.desired] \in Tracker BY <2>1 DEF Tracker
  <2>4. tracker'[o] = [t EXCEPT !.queued = t.desired] BY <1>2, <1>3, <2>2
  <2>5. /\ tracker' \in [Objects -> Tracker]
        /\ \A p \in Objects : p # o => tracker'[p] = tracker[p]
    BY <1>2, <1>3, <2>2, <2>3
  <2> HIDE DEF o
  <2> QED BY <1>1, <2>1, <2>4, <2>5 DEF Tracker
<1>8. HeapInOrder' BY <1>1, <1>2, <1>6 DEF IInv, HeapInOrder
<1>9. QueuedIsThere'
  <2> SUFFICES ASSUME NEW p \in Objects, tracker'[p].hasQueued
      PROVE  [at |-> p, time |-> tracker'[p].queued] \in Queued(buckets')
    BY DEF QueuedIsThere, OwnEvent
  <2>1. CASE p = o BY <1>6, <1>7, <2>1
  <2>2. CASE p # o BY <1>2, <1>6, <1>7, <2>2 DEF OwnEvent
  <2> QED BY <2>1, <2>2
<1>10. WantedIsQueued'
  <2> SUFFICES ASSUME NEW p \in Objects, tracker'[p].hasDesired
      PROVE  /\ tracker'[p].hasQueued /\ Timely(tracker'[p].desired, RefilledClock)
             /\ ~ After(tracker'[p].queued, tracker'[p].desired)
    BY <1>1 DEF WantedIsQueued
  <2>1. CASE p = o
    <3>1. Timely(t.desired, RefilledClock) BY <1>1, <1>2
    <3>2. ~ After(t.desired, t.desired)
      <4>1. Widen(t.desired, RefilledClock) \in Nat BY <1>4, <3>1, TimelyMeans
      <4> QED BY <1>4, <3>1, <4>1, TimelyCompare
    <3> QED BY <1>7, <2>1, <3>1, <3>2
  <2>2. CASE p # o BY <1>2, <1>7, <2>2 DEF IInv, WantedIsQueued
  <2> QED BY <2>1, <2>2
<1> QED BY <1>7, <1>8, <1>9, <1>10 DEF IInv

\* Dropping a superseded event changes no wish, and clears what relied on it.
LEMMA DiscardTracker ==
    ASSUME IInv, Discard
    PROVE  /\ ~ Empty /\ clock' = RefilledClock /\ buckets' = Popped
           /\ Soonest.at \in Objects /\ tracker' \in [Objects -> Tracker]
           /\ \A p \in Objects : p # Soonest.at => tracker'[p] = tracker[p]
           /\ LET t == tracker[Soonest.at]
                  u == tracker'[Soonest.at] IN
              /\ u.hasDesired = t.hasDesired /\ u.desired = t.desired
              /\ IF t.hasQueued /\ Soonest.time = t.queued
                 THEN ~ u.hasQueued /\ ~ u.hasDesired ELSE u = t
<1> DEFINE o == Soonest.at
           t == tracker[o]
<1>1. /\ ~ Empty /\ clock' = RefilledClock /\ buckets' = Popped
      /\ ~ (t.hasQueued /\ Soonest.time = t.queued /\ t.hasDesired)
      /\ tracker' = IF t.hasQueued /\ Soonest.time = t.queued
                    THEN [tracker EXCEPT ![o].hasQueued = FALSE] ELSE tracker
  BY DEF Discard
<1>2. o \in Objects BY <1>1, PopKeeps
<1>3. tracker \in [Objects -> Tracker] /\ t \in Tracker BY <1>2 DEF IInv
<1>4. CASE t.hasQueued /\ Soonest.time = t.queued
  <2>1. tracker' = [tracker EXCEPT ![o] = [t EXCEPT !.hasQueued = FALSE]] BY <1>1, <1>4
  <2>2. [t EXCEPT !.hasQueued = FALSE] \in Tracker BY <1>3 DEF Tracker
  <2>3. /\ tracker'[o] = [t EXCEPT !.hasQueued = FALSE]
        /\ tracker' \in [Objects -> Tracker]
        /\ \A p \in Objects : p # o => tracker'[p] = tracker[p]
    BY <1>2, <1>3, <2>1, <2>2
  <2>4. /\ ~ tracker'[o].hasQueued /\ tracker'[o].hasDesired = t.hasDesired
        /\ tracker'[o].desired = t.desired
    <3> HIDE DEF o
    <3> QED BY <1>3, <2>3 DEF Tracker
  <2> HIDE DEF o
  <2> QED BY <1>1, <1>2, <1>4, <2>3, <2>4 DEF o
<1>5. CASE ~ (t.hasQueued /\ Soonest.time = t.queued)
  BY <1>1, <1>2, <1>3, <1>5
<1> QED BY <1>4, <1>5

\* Looking at an object clears its tracker.
LEMMA ProcessTracker ==
    ASSUME IInv, Process
    PROVE  /\ ~ Empty /\ clock' = RefilledClock /\ buckets' = Popped
           /\ Soonest.at \in Objects /\ tracker' \in [Objects -> Tracker]
           /\ \A p \in Objects : p # Soonest.at => tracker'[p] = tracker[p]
           /\ tracker[Soonest.at].hasDesired
           /\ tracker[Soonest.at].hasQueued /\ Soonest.time = tracker[Soonest.at].queued
           /\ Soonest.time = tracker[Soonest.at].desired
           /\ ~ tracker'[Soonest.at].hasQueued /\ ~ tracker'[Soonest.at].hasDesired
<1> DEFINE o == Soonest.at
           t == tracker[o]
           u == [t EXCEPT !.hasQueued = FALSE, !.hasDesired = FALSE]
<1>1. /\ ~ Empty /\ clock' = RefilledClock /\ buckets' = Popped
      /\ t.hasQueued /\ Soonest.time = t.queued /\ t.hasDesired /\ Soonest.time = t.desired
      /\ tracker' = [tracker EXCEPT ![o].hasQueued = FALSE, ![o].hasDesired = FALSE]
  BY DEF Process
<1>2. o \in Objects BY <1>1, PopKeeps
<1>3. tracker \in [Objects -> Tracker] /\ t \in Tracker BY <1>2 DEF IInv
<1>4. u \in Tracker /\ ~ u.hasQueued /\ ~ u.hasDesired BY <1>3 DEF Tracker
<1>5. tracker' = [tracker EXCEPT ![o] = u] BY <1>1, <1>2, <1>3
<1>6. /\ tracker'[o] = u /\ tracker' \in [Objects -> Tracker]
      /\ \A p \in Objects : p # o => tracker'[p] = tracker[p]
  <2> HIDE DEF u
  <2> QED BY <1>2, <1>3, <1>4, <1>5
<1> QED
  <2> HIDE DEF u
  <2> QED BY <1>1, <1>2, <1>4, <1>6

\* Every step preserves the invariant.
LEMMA StepInvariant == IInv /\ [Next]_vars => IInv'
<1> SUFFICES ASSUME IInv, [Next]_vars PROVE IInv' OBVIOUS
<1>0. tracker \in [Objects -> Tracker] /\ clock \in 0..MaxClock /\ buckets \in Heap
      /\ clock \in Nat /\ clock =< MaxClock
  BY EventAssumption DEF IInv, HeapInOrder
<1>i. Idle \in Tracker /\ ~ Idle.hasDesired /\ ~ Idle.hasQueued
  BY CycleFacts DEF Idle, Tracker, Cyclic
<1>1. ASSUME NEW o \in Objects, Reschedule(o) PROVE IInv'
  <2>1. ASSUME Pending < MaxPending, UNCHANGED clock,
               NEW t \in clock..Min({clock + Ahead, MaxClock}), SetDesired(o, t % Cycle)
        PROVE  IInv'
    <3>1. Timely(t % Cycle, clock) /\ t % Cycle \in Cyclic BY <1>0, ScheduledIsTimely
    <3> QED BY <2>1, <3>1, SetDesiredStep
  <2>2. ASSUME SetNoDesired(o), UNCHANGED clock PROVE IInv'
    <3>1. tracker' = [tracker EXCEPT ![o] = [tracker[o] EXCEPT !.hasDesired = FALSE]]
          /\ UNCHANGED <<clock, buckets>>
      BY <2>2 DEF SetNoDesired
    <3>2. /\ [tracker[o] EXCEPT !.hasDesired = FALSE] \in Tracker
          /\ [tracker[o] EXCEPT !.hasDesired = FALSE].queued = tracker[o].queued
          /\ [tracker[o] EXCEPT !.hasDesired = FALSE].hasQueued = tracker[o].hasQueued
          /\ ~ [tracker[o] EXCEPT !.hasDesired = FALSE].hasDesired
      BY <1>0 DEF Tracker
    <3>3. /\ tracker' \in [Objects -> Tracker]
          /\ tracker'[o] = [tracker[o] EXCEPT !.hasDesired = FALSE]
          /\ \A p \in Objects : p # o => tracker'[p] = tracker[p]
      BY <1>0, <3>1, <3>2
    <3>4. ~ tracker'[o].hasDesired /\ tracker'[o].queued = tracker[o].queued
          /\ tracker'[o].hasQueued = tracker[o].hasQueued
      BY <3>2, <3>3
    <3> QED BY <3>1, <3>3, <3>4, GiveUp
  <2> QED BY <1>1, <2>1, <2>2 DEF Reschedule
<1>2. ASSUME NEW n \in Nodes, ResetNode(n) PROVE IInv'
  <2>1. n \in Objects BY DEF Objects
  <2> QED BY <1>0, <1>2, <1>i, <2>1, GiveUp DEF ResetNode
<1>3. ASSUME NEW r \in Regions, ReuseRegion(r) PROVE IInv'
  <2>1. r \in Objects BY DEF Objects
  <2> QED BY <1>0, <1>3, <1>i, <2>1, GiveUp DEF ReuseRegion
<1>4. CASE Discard
  <2>1. IInv /\ Discard BY <1>4
  <2> QED BY <2>1, DiscardTracker, PopStep
<1>5. CASE Defer BY <1>5, DeferStep
<1>6. CASE Process
  <2>1. IInv /\ Process BY <1>6
  <2> QED BY <2>1, ProcessTracker, PopStep
<1>7. ASSUME Empty, UNCHANGED <<buckets, tracker>>, clock' \in 0..MaxClock PROVE IInv'
  <2>1. \A o \in Objects : ~ tracker[o].hasQueued /\ ~ tracker[o].hasDesired
    BY <1>7, EmptyMeansIdle
  <2>2. \A b \in 0..Width : buckets[b] = <<>> BY <1>0, <1>7, CountNone DEF Empty, Pending
  <2>3. \A b \in 0..Width : ToSet(buckets[b]) = {} BY <2>2 DEF ToSet
  <2>4. HeapInOrder' BY <1>7, <2>3 DEF IInv, HeapInOrder, Pending, Placed
  <2> QED BY <1>7, <2>1, <2>4 DEF IInv, QueuedIsThere, WantedIsQueued
<1>8. CASE AdvanceClock BY <1>0, <1>7, <1>8, EventAssumption DEF AdvanceClock
<1>9. CASE ResetAll
  <2>1. buckets' \in Heap /\ \A b \in 0..Width : buckets'[b] = <<>>
    BY <1>9 DEF ResetAll, EmptyBuckets, Heap
  <2>2. Pending' = 0 BY <2>1, CountNone DEF Pending
  <2>3. \A b \in 0..Width : ToSet(buckets'[b]) = {} BY <2>1 DEF ToSet
  <2>4. HeapInOrder'
    BY <1>0, <1>9, <2>1, <2>2, <2>3, EventAssumption DEF ResetAll, HeapInOrder, Placed
  <2>5. \A o \in Objects : tracker'[o] = Idle BY <1>9 DEF ResetAll
  <2>6. tracker' \in [Objects -> Tracker] BY <1>9, <1>i DEF ResetAll
  <2> QED BY <1>i, <2>4, <2>5, <2>6 DEF IInv, QueuedIsThere, WantedIsQueued
<1>10. CASE Restart BY <1>0, <1>7, <1>10, EventAssumption DEF Restart
<1>11. CASE UNCHANGED vars BY <1>0, <1>11, GiveUp DEF vars
<1> QED BY <1>1, <1>2, <1>3, <1>4, <1>5, <1>6, <1>8, <1>9, <1>10, <1>11 DEF Next

-----------------------------------------------------------------------------
(* LookSchedule.                                                           *)

\* What the objects wish for: never, or a time that the clock has not passed.
LEMMA WishFacts ==
    ASSUME IInv, NEW o \in Objects
    PROVE  /\ Wanted[o] = IF tracker[o].hasDesired THEN Widen(tracker[o].desired, clock)
                                                   ELSE Schedule!Never
           /\ tracker[o].hasDesired => Wanted[o] \in clock..MaxClock
           /\ Schedule!Never = MaxClock + 1
           /\ tracker[o].hasDesired <=> Wanted[o] # Schedule!Never
           /\ clock \in Nat /\ clock =< MaxClock /\ MaxClock \in Nat
<1>1. Wanted[o] = IF tracker[o].hasDesired THEN Widen(tracker[o].desired, clock)
                                           ELSE MaxClock + 1
  BY DEF Wanted
<1>2. tracker[o].hasDesired => Widen(tracker[o].desired, clock) \in clock..MaxClock
  BY EventBeforeWish
<1>3. clock \in Nat /\ clock =< MaxClock /\ MaxClock \in Nat
  BY EventAssumption DEF IInv, HeapInOrder
<1> QED BY <1>1, <1>2, <1>3 DEF Schedule!Never

\* A step that leaves the wishes alone leaves what the objects wish for alone.
LEMMA SameWishes ==
    ASSUME \A p \in Objects :
             /\ tracker'[p].hasDesired = tracker[p].hasDesired
             /\ tracker[p].hasDesired =>
                  Widen(tracker'[p].desired, clock') = Widen(tracker[p].desired, clock)
    PROVE  Wanted' = Wanted
BY DEF Wanted

\* The soonest event is dequeued for an object that is not to be looked at now.
LEMMA WaitStep ==
    ASSUME IInv, ~ Empty, clock' = RefilledClock,
           \A p \in Objects : /\ tracker'[p].hasDesired = tracker[p].hasDesired
                              /\ tracker[p].hasDesired =>
                                   tracker'[p].desired = tracker[p].desired
    PROVE  Schedule!Wait
<1>1. /\ RefilledClock \in clock..MaxClock
      /\ \A p \in Objects : tracker[p].hasDesired =>
           /\ Widen(tracker[p].desired, RefilledClock) = Widen(tracker[p].desired, clock)
           /\ RefilledClock =< Widen(tracker[p].desired, clock)
  BY PopKeeps
<1>2. Wanted' = Wanted BY <1>1, SameWishes
<1>3. \A o \in Objects : RefilledClock =< Wanted[o]
  <2> SUFFICES ASSUME NEW o \in Objects PROVE RefilledClock =< Wanted[o] OBVIOUS
  <2>1. CASE tracker[o].hasDesired BY <1>1, <2>1, WishFacts
  <2>2. CASE ~ tracker[o].hasDesired
    <3>1. Wanted[o] = MaxClock + 1 /\ MaxClock \in Nat /\ clock \in Nat BY <2>2, WishFacts
    <3> QED BY <1>1, <3>1
  <2> QED BY <2>1, <2>2
<1> QED BY <1>1, <1>2, <1>3 DEF Schedule!Wait

\* Some objects give up their wishes, and the clock stands.
LEMMA WithdrawStep ==
    ASSUME IInv, NEW os \in SUBSET Objects, UNCHANGED clock,
           \A p \in os : ~ tracker'[p].hasDesired,
           \A p \in Objects \ os : /\ tracker'[p].hasDesired = tracker[p].hasDesired
                                   /\ tracker'[p].desired = tracker[p].desired
    PROVE  Schedule!Withdraw(os)
<1>1. Wanted' = [o \in Objects |-> IF o \in os THEN MaxClock + 1 ELSE Wanted[o]]
  BY DEF Wanted
<1> QED BY <1>1 DEF Schedule!Withdraw, Schedule!Never

\* At the start nothing is wanted.
LEMMA InitSchedule == Init => Schedule!SInit
<1> SUFFICES ASSUME Init PROVE Schedule!SInit OBVIOUS
<1>1. \A o \in Objects : ~ tracker[o].hasDesired BY DEF Init, Idle
<1>2. Wanted = [o \in Objects |-> MaxClock + 1] BY <1>1 DEF Wanted
<1> QED BY <1>2 DEF Init, Schedule!SInit, Schedule!Never

\* The step of the schedule that each action is.
LEMMA StepSchedule ==
    ASSUME IInv, [Next]_vars
    PROVE  [Schedule!SNext]_<<clock, Wanted>>
<1>0. tracker \in [Objects -> Tracker] /\ clock \in Nat /\ clock =< MaxClock
  BY EventAssumption DEF IInv, HeapInOrder
<1>i. ~ Idle.hasDesired BY DEF Idle
<1>w. ASSUME NEW os \in SUBSET Objects, Schedule!Withdraw(os) PROVE Schedule!SNext
  BY <1>w DEF Schedule!SNext
<1>1. ASSUME NEW o \in Objects, Reschedule(o) PROVE Schedule!SNext
  <2>1. ASSUME Pending < MaxPending, UNCHANGED clock,
               NEW t \in clock..Min({clock + Ahead, MaxClock}), SetDesired(o, t % Cycle)
        PROVE  Schedule!Want(o)
    <3>1. /\ t \in clock..MaxClock /\ Timely(t % Cycle, clock) /\ t % Cycle \in Cyclic
          /\ Widen(t % Cycle, clock) = t
      BY <1>0, ScheduledIsTimely
    <3>2. /\ tracker'[o].hasDesired /\ tracker'[o].desired = t % Cycle
          /\ \A p \in Objects : p # o => tracker'[p] = tracker[p]
      BY <2>1, <3>1, SetDesiredStep
    <3>3. Wanted' = [Wanted EXCEPT ![o] = t] BY <2>1, <3>1, <3>2 DEF Wanted
    <3> QED BY <2>1, <3>1, <3>3 DEF Schedule!Want
  <2>2. ASSUME SetNoDesired(o), UNCHANGED clock PROVE Schedule!Withdraw({o})
    <3>1. ~ tracker'[o].hasDesired /\ \A p \in Objects : p # o => tracker'[p] = tracker[p]
      BY <1>0, <2>2 DEF SetNoDesired, Tracker
    <3> QED BY <2>2, <3>1, WithdrawStep
  <2>3. Schedule!Want(o) \/ Schedule!Withdraw({o}) BY <1>1, <2>1, <2>2 DEF Reschedule
  <2> QED BY <2>3 DEF Schedule!SNext
<1>2. ASSUME NEW n \in Nodes, ResetNode(n) PROVE Schedule!SNext
  <2>1. n \in Objects BY DEF Objects
  <2>2. /\ tracker'[n] = Idle /\ UNCHANGED clock
        /\ \A p \in Objects : p # n => tracker'[p] = tracker[p]
    BY <1>0, <1>2, <2>1 DEF ResetNode
  <2>3. Schedule!Withdraw({n}) BY <1>i, <2>1, <2>2, WithdrawStep
  <2> QED BY <1>w, <2>1, <2>3
<1>3. ASSUME NEW r \in Regions, ReuseRegion(r) PROVE Schedule!SNext
  <2>1. r \in Objects BY DEF Objects
  <2>2. /\ tracker'[r] = Idle /\ UNCHANGED clock
        /\ \A p \in Objects : p # r => tracker'[p] = tracker[p]
    BY <1>0, <1>3, <2>1 DEF ReuseRegion
  <2>3. Schedule!Withdraw({r}) BY <1>i, <2>1, <2>2, WithdrawStep
  <2> QED BY <1>w, <2>1, <2>3
<1>4. CASE Discard
  <2>1. /\ ~ Empty /\ clock' = RefilledClock
        /\ \A p \in Objects : p # Soonest.at => tracker'[p] = tracker[p]
        /\ tracker'[Soonest.at].hasDesired = tracker[Soonest.at].hasDesired
        /\ tracker'[Soonest.at].desired = tracker[Soonest.at].desired
    BY <1>4, DiscardTracker
  <2>2. Schedule!Wait BY <2>1, WaitStep
  <2> QED BY <2>2 DEF Schedule!SNext
<1>5. CASE Defer
  <2>1. /\ ~ Empty /\ clock' = RefilledClock
        /\ tracker' = [tracker EXCEPT ![Soonest.at].queued = tracker[Soonest.at].desired]
    BY <1>5 DEF Defer
  <2>2. Soonest.at \in Objects BY <2>1, PopKeeps
  <2>3. \A p \in Objects : /\ tracker'[p].hasDesired = tracker[p].hasDesired
                           /\ tracker'[p].desired = tracker[p].desired
    BY <1>0, <2>1, <2>2 DEF Tracker
  <2>4. Schedule!Wait BY <2>1, <2>3, WaitStep
  <2> QED BY <2>4 DEF Schedule!SNext
<1>6. CASE Process
  <2> DEFINE o == Soonest.at
  <2>1. /\ ~ Empty /\ clock' = RefilledClock /\ o \in Objects
        /\ \A p \in Objects : p # o => tracker'[p] = tracker[p]
        /\ tracker[o].hasDesired /\ Soonest.time = tracker[o].desired
        /\ ~ tracker'[o].hasDesired
    BY <1>6, ProcessTracker
  <2>2. /\ RefilledClock \in clock..MaxClock /\ Widen(Soonest.time, clock) = RefilledClock
        /\ \A p \in Objects : tracker[p].hasDesired =>
             /\ Widen(tracker[p].desired, RefilledClock) = Widen(tracker[p].desired, clock)
             /\ RefilledClock =< Widen(tracker[p].desired, clock)
    BY <2>1, PopKeeps
  <2> HIDE DEF o
  <2>3. Wanted[o] = RefilledClock /\ Wanted[o] # Schedule!Never
    BY <2>1, <2>2, WishFacts
  <2>4. \A p \in Objects : Wanted[o] <= Wanted[p]
    <3> SUFFICES ASSUME NEW p \in Objects PROVE RefilledClock =< Wanted[p] BY <2>3
    <3>1. CASE tracker[p].hasDesired BY <2>2, <3>1, WishFacts
    <3>2. CASE ~ tracker[p].hasDesired
      <4>1. Wanted[p] = MaxClock + 1 /\ MaxClock \in Nat BY <3>2, WishFacts
      <4> QED BY <1>0, <2>2, <4>1
    <3> QED BY <3>1, <3>2
  <2>5. Wanted' = [Wanted EXCEPT ![o] = Schedule!Never]
    <3>1. \A p \in Objects : p # o => Wanted'[p] = Wanted[p] BY <2>1, <2>2 DEF Wanted
    <3>2. Wanted'[o] = MaxClock + 1 BY <2>1 DEF Wanted
    <3>3. DOMAIN Wanted = Objects /\ Wanted' = [p \in Objects |-> Wanted'[p]] BY DEF Wanted
    <3> HIDE DEF Wanted
    <3> QED BY <3>1, <3>2, <3>3 DEF Schedule!Never
  <2>6. Schedule!Look(o) BY <2>1, <2>3, <2>4, <2>5 DEF Schedule!Look
  <2> QED BY <2>1, <2>6 DEF Schedule!SNext
<1>7. ASSUME Empty PROVE \A o \in Objects : ~ tracker[o].hasDesired
  BY <1>7, EmptyMeansIdle
<1>8. CASE AdvanceClock
  <2>1. Empty /\ UNCHANGED tracker /\ clock' \in clock..MaxClock BY <1>8 DEF AdvanceClock
  <2>2. \A o \in Objects : Wanted[o] = MaxClock + 1 BY <1>7, <2>1 DEF Wanted
  <2>3. Wanted' = Wanted BY <1>7, <2>1, SameWishes
  <2>4. \A o \in Objects : clock' =< Wanted[o] BY <1>0, <2>1, <2>2, EventAssumption
  <2>5. Schedule!Wait BY <2>1, <2>3, <2>4 DEF Schedule!Wait
  <2> QED BY <2>5 DEF Schedule!SNext
<1>9. CASE ResetAll
  <2>1. UNCHANGED clock /\ \A o \in Objects : ~ tracker'[o].hasDesired
    BY <1>9, <1>i DEF ResetAll
  <2>2. Schedule!Withdraw(Objects) BY <2>1, WithdrawStep
  <2> QED BY <1>w, <2>2
<1>10. CASE Restart
  <2>1. Empty /\ UNCHANGED tracker /\ clock' = 0 BY <1>10 DEF Restart
  <2>2. \A o \in Objects : Wanted[o] = Schedule!Never
    BY <1>7, <2>1 DEF Wanted, Schedule!Never
  <2>3. Wanted' = Wanted BY <1>7, <2>1, SameWishes
  <2>4. Schedule!Rewind BY <2>1, <2>2, <2>3 DEF Schedule!Rewind
  <2> QED BY <2>4 DEF Schedule!SNext
<1>11. CASE UNCHANGED vars
  <2>1. UNCHANGED <<clock, Wanted>> BY <1>11 DEF vars, Wanted
  <2> QED BY <2>1
<1> QED BY <1>1, <1>2, <1>3, <1>4, <1>5, <1>6, <1>8, <1>9, <1>10, <1>11 DEF Next

-----------------------------------------------------------------------------
(* Theorems.                                                               *)

\* The invariant above holds in every state.
THEOREM InvariantHolds == Spec => []IInv
BY InitInvariant, StepInvariant, PTL DEF Spec

\* Times in the heap and the trackers are cyclic, the clock stays within its
\* bound, and so does the number of events.
THEOREM TypesHold == Spec => []TypeOK
<1>1. IInv => TypeOK
  BY DEF IInv, HeapInOrder, TypeOK, Heap, Event, Tracker
<1> QED BY <1>1, InvariantHolds, PTL

\* An object that is wanted has an event in the heap, no later than it is wanted,
\* and every event is in the bucket that its time and the clock ask for, for any
\* width of the times and however far the clock has run.
THEOREM NothingIsForgotten == Spec => []NothingForgotten
<1>1. IInv => NothingForgotten
  <2> SUFFICES ASSUME IInv PROVE NothingForgotten OBVIOUS
  <2>1. \A b \in 0..Width : \A e \in ToSet(buckets[b]) : BitBucket(e.time, clock) = b
    BY DEF IInv, HeapInOrder, Placed
  <2>2. ASSUME NEW o \in Objects, tracker[o].hasDesired
        PROVE  /\ tracker[o].hasQueued /\ ~ After(tracker[o].queued, tracker[o].desired)
               /\ [at |-> o, time |-> tracker[o].queued]
                    \in UNION {ToSet(buckets[b]) : b \in 0..Width}
    BY <2>2 DEF IInv, WantedIsQueued, QueuedIsThere, OwnEvent, Queued
  <2> QED BY <2>1, <2>2 DEF NothingForgotten
<1> QED BY <1>1, InvariantHolds, PTL

\* The trackers and the radix heap implement the schedule of looks: each object
\* is looked at once, when it is wanted and in the order of time, whatever is
\* superseded, reset or reused and however often the times wrap.
THEOREM ScheduleIsKept == Spec => KeepsSchedule
BY InitSchedule, StepSchedule, InvariantHolds, PTL DEF Spec, KeepsSchedule, Schedule!ScheduleSpec

=============================================================================
