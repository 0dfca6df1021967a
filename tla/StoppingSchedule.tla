--------------------------- MODULE StoppingSchedule --------------------------
(***************************************************************************)
(* The schedules of bounds that the make_processing_cluster_* functions    *)
(* build (processing_cluster.cc), level by level.  A level has a diameter  *)
(* d, a buffer b and phi, the fraction of the way that the levels below    *)
(* leave free.  Level k stops for good what it stops if                    *)
(*     2 (d + 1) / (b - 1) < phi  and                                      *)
(*     phi = 1 - the sum of what the levels below it consume.              *)
(*                                                                         *)
(* The long doubles of the code are fractions here: <<numerator,           *)
(* denominator>>, the denominator positive.                                *)
(***************************************************************************)
EXTENDS Integers, Sequences, SequencesExt, FiniteSetsExt

CONSTANTS
  Policies,      \* what a schedule is made from, see the fields below
  MaxDistance    \* what bounds are clamped to

VARIABLES
  policy,        \* [kind, ...]
  bounds,        \* the levels so far: [d, b, phi]
  candidate,     \* the next candidate for a diameter
  built          \* "no", "done", "none" or "rejected"

scheduleVars == <<policy, bounds, candidate, built>>

IsFraction(q) == q \in Int \X Int /\ q[2] > 0

\* The order of fractions, by cross multiplication.
Less(p, q) == p[1] * q[2] < q[1] * p[2]

\* The bounds of a level; those a caller gives are clamped already.
Bound == [diameter : 0 .. MaxDistance, buffer : 0 .. MaxDistance, cap : Nat]

\* What the makers of schedules throw for or put in order before they select a level: candidates
\* are positive and ascend, the first diameter is positive, and floor, phi2 and decay lie where
\* the envelope falls from 1 towards the floor.
ASSUME PolicyAssumption ==
  /\ MaxDistance \in Nat
  /\ \A p \in Policies :
       IF p.kind = "given" THEN p.given \in Seq(Bound) /\ p.given # <<>>
       ELSE /\ p.levels \in Nat /\ p.first \in Nat /\ p.additive \in Nat
            /\ p.candidates \in Seq(Nat)
            /\ \A q \in {p.ratio, p.floor, p.phi2, p.decay} : IsFraction(q)
            /\ \A k \in DOMAIN p.budgets : IsFraction(p.budgets[k]) /\ p.budgets[k][1] > 0
            /\ p.kind = "candidates" =>
                 \A k \in DOMAIN p.candidates :
                   p.candidates[k] > 0 /\ \A j \in 1 .. k - 1 : p.candidates[j] < p.candidates[k]
            /\ p.kind # "candidates" => p.first > 0
            /\ p.kind = "sequence" =>
                 /\ p.floor[1] > 0 /\ Less(p.floor, p.phi2) /\ p.phi2[1] < p.phi2[2]
                 /\ p.decay[1] > 0 /\ p.decay[1] < p.decay[2]

One == <<1, 1>>
Unbounded == <<0, 1>>     \* no budget for a level

gcd[p \in Nat \X Nat] == IF p[2] = 0 THEN p[1] ELSE gcd[<<p[2], p[1] % p[2]>>]

Fraction(n, m) == LET g == gcd[<<IF n < 0 THEN -n ELSE n, m>>] IN <<n \div g, m \div g>>
Subtract(p, q) ==
  LET g == gcd[<<p[2], q[2]>>] IN
  Fraction(p[1] * (q[2] \div g) - q[1] * (p[2] \div g), (p[2] \div g) * q[2])
Add(p, q)      == Subtract(p, <<-q[1], q[2]>>)
Multiply(p, q) == Fraction(p[1] * q[1], p[2] * q[2])
NotLess(p, q)  == Subtract(p, q)[1] >= 0

\* The floor of a * n / m, in steps whose products stay small.
Portion(a, n, m) ==
  LET rest == n % m
      thousands == (a \div 1000) * rest
  IN a * (n \div m) + 1000 * (thousands \div m)
     + (1000 * (thousands % m) + (a % 1000) * rest) \div m

CeilTimes(a, q) == -((-(a * q[1])) \div q[2])

-----------------------------------------------------------------------------
\* T: how much of phi a level consumes for those above it.
Consumption(l) ==
  LET n == l.phi[1]
      m == l.phi[2]
  IN Fraction((n + 2 * m) * (l.d + 1), (n + m) * (l.d + 1) + n * (l.b - 1))

PhiAbove(levels) ==
  LET phi[k \in 0 .. Len(levels)] ==
        IF k = 0 THEN One ELSE Subtract(phi[k - 1], Consumption(levels[k]))
  IN phi[Len(levels)]

Power(q, n) ==
  LET power[k \in 0 .. n] ==
        IF k = 0 THEN One ELSE <<power[k - 1][1] * q[1], power[k - 1][2] * q[2]>>
  IN power[n]

\* The lower envelope of a phi sequence: floor + (phi2 - floor) q^(k-2).
Target(k) ==
  IF k <= 1 THEN One
  ELSE Add(policy.floor, Multiply(Subtract(policy.phi2, policy.floor), Power(policy.decay, k - 2)))

Level == Len(bounds) + 1
Phi   == PhiAbove(bounds)

\* How much of phi the level may consume; Unbounded if that does not matter.
Budget ==
  IF policy.kind = "sequence" THEN Subtract(Phi, Target(Level + 1))
  ELSE IF Level \in DOMAIN policy.budgets THEN policy.budgets[Level] ELSE Unbounded

\* The next level starts where the regions below cannot reach: 3 d + 4 b, and more.
Gap == LET below == Last(bounds) IN 3 * below.d + 4 * below.b

NextDiameter ==
  IF policy.kind = "candidates" THEN policy.candidates[candidate]
  ELSE IF bounds = <<>> THEN policy.first ELSE Gap + policy.additive

\* Mutant: nothing is added to a threshold that must be exceeded.
AboveLoosely(threshold) == threshold

\* strict_threshold_to_distance_requirement, with a slack of one
Above(threshold) == threshold + 1

\* The floors of the thresholds of a buffer.
StrictThreshold(d) == 1 + Portion(2 * (d + 1), Phi[2], Phi[1])

BudgetThreshold(d) ==
  LET n == Phi[1]
      m == Phi[2]
  IN IF Budget = Unbounded THEN 0
     ELSE 1 + Portion(d + 1, (n + 2 * m) * Budget[2] - (n + m) * Budget[1], n * Budget[1])

RatioRequired(d) ==
  IF policy.firstOnly /\ bounds # <<>> THEN 0 ELSE CeilTimes(d, policy.ratio)

\* All policies but the phi sequence take the ratio for a threshold, too.
Buffer(d) ==
  Max({Above(StrictThreshold(d)), d + 2}
      \cup (IF Budget = Unbounded THEN {} ELSE {Above(BudgetThreshold(d))})
      \cup {IF policy.kind = "sequence" THEN RatioRequired(d) ELSE Above(RatioRequired(d))}
      \cup {l.b : l \in ToSet(bounds)})

\* A level can be added: phi is large enough, and the bounds can be represented.
Usable(d) ==
  /\ Phi[1] > 0
  /\ policy.kind # "sequence" => NotLess(Phi, policy.floor)
  /\ policy.kind = "sequence" => NotLess(Phi, Target(Level)) /\ Budget[1] > 0
  /\ policy.kind # "sequence" =>
       /\ d < MaxDistance
       /\ \A t \in {StrictThreshold(d), BudgetThreshold(d), RatioRequired(d)} : t < MaxDistance
       /\ policy.kind = "final" => Buffer(d) < MaxDistance

-----------------------------------------------------------------------------
\* validate_processing_cluster_stopping_lemma_bounds
Clamped(x) == Min({x, MaxDistance})

\* 2 (d + 1) / (b - 1) < phi; the left side of the second conjunct is an integer.
Certified(l) == l.phi[1] > 0 /\ l.b - 1 > Portion(2 * (l.d + 1), l.phi[2], l.phi[1])

Valid(levels) ==
  \A k \in DOMAIN levels :
    /\ levels[k].d > 0 /\ levels[k].b > 1
    /\ k > 1 => /\ Clamped(levels[k].d) >= Clamped(levels[k - 1].d)
                /\ Clamped(levels[k].b) >= Clamped(levels[k - 1].b)
    /\ Certified([levels[k] EXCEPT !.phi = PhiAbove(SubSeq(levels, 1, k - 1))])

\* A parameter schedule ends with its first level that was clamped.
Kept(levels) ==
  LET clamped == {k \in DOMAIN levels : levels[k].d > MaxDistance \/ levels[k].b > MaxDistance} IN
  IF policy.kind = "sequence" /\ policy.truncate /\ clamped # {}
  THEN SubSeq(levels, 1, Min(clamped)) ELSE levels

ScheduleInit ==
  /\ policy \in Policies
  /\ bounds = <<>> /\ candidate = 1
  /\ built = IF policy.kind = "given" THEN "done" ELSE "no"

More ==
  /\ Len(bounds) < policy.levels
  /\ policy.kind = "candidates" => candidate <= Len(policy.candidates)

TooNear == policy.kind = "candidates" /\ policy.gap /\ bounds # <<>> /\ NextDiameter < Gap

\* The legacy gap filter passes over a candidate.
SkipCandidate ==
  /\ built = "no" /\ More /\ TooNear
  /\ candidate' = candidate + 1
  /\ UNCHANGED <<policy, bounds, built>>

SelectLevel ==
  /\ built = "no" /\ More /\ ~TooNear /\ Usable(NextDiameter)
  /\ bounds' = Append(bounds, [d |-> NextDiameter, b |-> Buffer(NextDiameter), phi |-> Phi])
  /\ candidate' = candidate + 1
  /\ UNCHANGED <<policy, built>>

\* The levels are as many as wanted, or no more can be had; an allocation of budgets that
\* does not reach its last level is no result of the optimizer.
EndSchedule ==
  /\ built = "no" /\ (More => ~TooNear /\ ~Usable(NextDiameter))
  /\ built' = IF bounds = <<>> \/ (policy.kind = "final" /\ Len(bounds) < policy.levels) THEN "none"
              ELSE IF Valid(bounds) THEN "done" ELSE "rejected"
  /\ bounds' = Kept(bounds)
  /\ UNCHANGED <<policy, candidate>>

ScheduleNext == SkipCandidate \/ SelectLevel \/ EndSchedule

\* What the clusterer is given: one-based levels, with a cap on the size of clusters.
Schedule ==
  IF policy.kind = "given" THEN policy.given
  ELSE [k \in DOMAIN bounds |->
          [diameter |-> Clamped(bounds[k].d), buffer |-> Clamped(bounds[k].b),
           cap |-> IF policy.evenCaps THEN 2 * k ELSE 0]]
=============================================================================
