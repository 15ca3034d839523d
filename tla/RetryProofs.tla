---------------------------- MODULE RetryProofs -----------------------------
(***************************************************************************)
(* Proofs about the delay strategies, for every width, initial delay and    *)
(* max_delay, and about retry_if that sleeps their delays off, for every    *)
(* time limit and number of retries.                                        *)
(***************************************************************************)
EXTENDS Retry, WellFoundedInduction, TLAPS

---------------------------------------------------------------------------
\* Induction and recursion over the natural numbers.

\* Induction over the natural numbers, for the members of a set.
LEMMA Induction ==
  ASSUME NEW T, 0 \in T, \A n \in Nat : n \in T => n + 1 \in T
  PROVE  \A n \in Nat : n \in T
<1> SUFFICES ASSUME Nat \ T # {} PROVE FALSE
  OBVIOUS
<1> DEFINE R == OpToRel(<, Nat)
<1>1. IsWellFoundedOn(R, Nat)
  BY NatLessThanWellFounded
<1>2. \A x, y \in Nat : <<y, x>> \in R <=> y < x
  BY DEF OpToRel
<1> HIDE DEF R
<1>3. PICK n \in Nat \ T : \A m \in Nat \ T : <<m, n>> \notin R
  <2>1. Nat \ T \in SUBSET Nat
    OBVIOUS
  <2> QED BY <1>1, <2>1, WFMin, Zenon
<1>4. n # 0 /\ n - 1 \in Nat
  BY <1>3
<1>5. <<n - 1, n>> \in R
  BY <1>2, <1>3, <1>4
<1>6. n - 1 \in T
  BY <1>3, <1>4, <1>5
<1> QED BY <1>3, <1>4, <1>6

\* A function on 0 .. n that obeys the recursion.
Obeys(f, n, base, step) == f[0] = base /\ \A k \in 0 .. n - 1 : f[k + 1] = step[k][f[k]]

\* The solution of the recursion.
Solves(f, S, base, step) ==
  f \in [Nat -> S] /\ f[0] = base /\ \A n \in Nat : f[n + 1] = step[n][f[n]]

\* Every recursion over the natural numbers has a solution.
LEMMA Recursion ==
  ASSUME NEW S, NEW base \in S, NEW step \in [Nat -> [S -> S]]
  PROVE  \E f : Solves(f, S, base, step)
<1> DEFINE Good(n) == {f \in [0 .. n -> S] : Obeys(f, n, base, step)}
           T == {n \in Nat : Good(n) # {}}
<1>1. ASSUME NEW n \in Nat PROVE n \in T
  <2>1. 0 \in T
    <3>1. [k \in 0 .. 0 |-> base] \in Good(0)
      BY DEF Obeys
    <3> QED BY <3>1
  <2>2. ASSUME NEW m \in Nat, m \in T PROVE m + 1 \in T
    <3>1. PICK f \in [0 .. m -> S] : Obeys(f, m, base, step)
      BY <2>2
    <3> DEFINE g == [k \in 0 .. m + 1 |-> IF k <= m THEN f[k] ELSE step[m][f[m]]]
    <3>2. g \in [0 .. m + 1 -> S]
      BY <3>1
    <3>3. ASSUME NEW k \in 0 .. (m + 1) - 1 PROVE g[k + 1] = step[k][g[k]]
      <4>1. CASE k < m
        BY <3>1, <4>1 DEF Obeys
      <4>2. CASE k = m
        BY <3>1, <4>2
      <4> QED BY <4>1, <4>2
    <3>4. g[0] = base
      BY <3>1 DEF Obeys
    <3> HIDE DEF g
    <3>5. g \in Good(m + 1)
      BY <3>2, <3>3, <3>4 DEF Obeys
    <3> QED BY <3>5
  <2> HIDE DEF T
  <2> QED BY <2>1, <2>2, Induction
<1>2. ASSUME NEW n \in Nat, NEW m \in Nat, NEW f \in Good(n), NEW g \in Good(m)
      PROVE  \A k \in Nat : k <= n /\ k <= m => f[k] = g[k]
  <2> DEFINE U == {k \in Nat : k <= n /\ k <= m => f[k] = g[k]}
  <2>1. 0 \in U
    BY DEF Obeys
  <2>2. ASSUME NEW k \in Nat, k \in U PROVE k + 1 \in U
    BY <2>2 DEF Obeys
  <2>3. \A k \in Nat : k \in U
    <3> HIDE DEF U
    <3> QED BY <2>1, <2>2, Induction
  <2> QED BY <2>3
<1> DEFINE pick == [n \in Nat |-> CHOOSE f \in Good(n) : TRUE]
           F == [n \in Nat |-> pick[n][n]]
<1>3. \A n \in Nat : pick[n] \in Good(n)
  BY <1>1
<1> HIDE DEF pick
<1>4. F \in [Nat -> S]
  BY <1>3
<1>5. F[0] = base
  BY <1>3 DEF Obeys
<1>6. ASSUME NEW n \in Nat PROVE F[n + 1] = step[n][F[n]]
  <2>1. pick[n] \in Good(n) /\ pick[n + 1] \in Good(n + 1)
    BY <1>3
  <2>2. pick[n + 1][n + 1] = step[n][pick[n + 1][n]]
    BY <2>1 DEF Obeys
  <2>3. pick[n + 1][n] = pick[n][n]
    <3> HIDE DEF Good
    <3>1. n + 1 \in Nat /\ n <= n /\ n <= n + 1
      OBVIOUS
    <3> QED BY <1>2, <2>1, <3>1, Zenon
  <2> QED BY <2>2, <2>3
<1> HIDE DEF F
<1> QED BY <1>4, <1>5, <1>6 DEF Solves

---------------------------------------------------------------------------
\* A strategy and its successors.

USE BackoffAssumption, SeriesAssumption

\* The relation between the fields that makes the next delay no smaller: the
\* two Fibonacci numbers are ordered, and only a zero base has a zero product.
Ordered(s) ==
  /\ s \in Strategies
  /\ s.kind = "fibonacci" => s.current <= s.next
  /\ s.kind = "exponential" => s.current <= MaxMillis /\ (s.base_millis = 0 => s.current = 0)

LEMMA NatProduct == \A m, n \in Nat : m * n \in Nat
OBVIOUS

\* A product with a positive factor is no smaller than the other factor.
LEMMA ProductGrows ==
  ASSUME NEW m \in Nat, NEW b \in Nat \ {0}
  PROVE  m * b \in Nat /\ m <= m * b
<1>1. m * b = m + m * (b - 1) /\ m * (b - 1) \in Nat
  OBVIOUS
<1> QED BY <1>1

\* Advancing a strategy keeps its fields ordered and its delay does not shrink.
LEMMA AdvanceGrows ==
  ASSUME NEW s, Ordered(s)
  PROVE  /\ Ordered(Advance(s))
         /\ Delay(s) \in Durations
         /\ Delay(s) <= Delay(Advance(s))
         /\ Advance(s).max_delay = s.max_delay
<1> USE DEF Ordered, Strategies, Durations, Kinds
<1>1. CASE s.kind = "fixed" \/ Capped(s)
  BY <1>1 DEF Advance, Delay, Capped
<1>2. CASE s.kind = "fibonacci" /\ ~Capped(s)
  <2> DEFINE sum == Saturate(s.current + s.next, MaxDuration)
             t == [s EXCEPT !.current = s.next, !.next = sum]
  <2>1. Advance(s) = t
    BY <1>2 DEF Advance
  <2>2. sum \in Durations /\ s.next <= sum
    BY DEF Saturate
  <2> HIDE DEF sum
  <2>3. t \in Strategies /\ t.current = s.next /\ t.kind = s.kind /\ t.max_delay = s.max_delay
        /\ t.next = sum
    BY <2>2
  <2> HIDE DEF t
  <2> QED BY <1>2, <2>1, <2>2, <2>3 DEF Delay, Capped
<1>3. CASE s.kind = "exponential" /\ ~Capped(s)
  <2> DEFINE t == [s EXCEPT !.current = Saturate(s.current * s.base_millis, MaxMillis)]
  <2>1. Advance(s) = t
    BY <1>3 DEF Advance
  <2>2. s.current * s.base_millis \in Nat /\ s.current <= s.current * s.base_millis
    <3>1. CASE s.base_millis = 0
      BY <1>3, <3>1
    <3>2. CASE s.base_millis # 0
      BY <3>2, ProductGrows
    <3> QED BY <3>1, <3>2
  <2>3. s.base_millis = 0 => s.current * s.base_millis = 0
    BY <1>3
  <2> DEFINE product == s.current * s.base_millis
  <2>4. Saturate(product, MaxMillis) \in 0 .. MaxMillis /\ s.current <= Saturate(product, MaxMillis)
        /\ (s.base_millis = 0 => Saturate(product, MaxMillis) = 0)
    <3> HIDE DEF product
    <3>1. product \in Nat /\ s.current <= product /\ (s.base_millis = 0 => product = 0)
      BY <2>2, <2>3 DEF product
    <3> QED BY <1>3, <3>1 DEF Saturate
  <2>5. /\ t \in Strategies /\ t.kind = s.kind /\ t.max_delay = s.max_delay
        /\ t.base_millis = s.base_millis /\ t.current = Saturate(product, MaxMillis)
    BY <1>3, <2>4
  <2> HIDE DEF t, product
  <2> QED BY <1>3, <2>1, <2>4, <2>5 DEF Delay, Capped
<1> QED BY <1>1, <1>2, <1>3

---------------------------------------------------------------------------
\* The inductive invariant: what next() returned last is no more than what it
\* will return next.
SeriesInv ==
  /\ SeriesTypeOK
  /\ Ordered(strategy)
  /\ delay # None => delay <= Delay(strategy)
  /\ DelayWithinMax

LEMMA SeriesInvInit == SeriesInit => SeriesInv
<1> SUFFICES ASSUME SeriesInit PROVE SeriesInv
  OBVIOUS
<1>1. PICK kind \in Kinds, max_delay \in MaxDelays :
        Valid(kind, initial, max_delay) /\ strategy = New(kind, initial, max_delay)
  BY DEF SeriesInit
<1>2. Ordered(strategy) /\ strategy \in Strategies
  BY <1>1 DEF SeriesInit, Valid, New, Ordered, Strategies, Durations, Kinds
<1> QED BY <1>2 DEF SeriesInit, SeriesInv, SeriesTypeOK, DelayWithinMax, Durations

LEMMA SeriesInvNext == SeriesInv /\ [NextDelay]_seriesVars => SeriesInv'
<1> SUFFICES ASSUME SeriesInv, NextDelay PROVE SeriesInv'
  BY DEF SeriesInv, SeriesTypeOK, Ordered, Delay, Capped, DelayWithinMax, seriesVars
<1>1. /\ Ordered(strategy') /\ delay' = Delay(strategy) /\ delay' \in Durations
      /\ delay' <= Delay(strategy') /\ strategy'.max_delay = strategy.max_delay
  BY AdvanceGrows DEF SeriesInv, NextDelay
<1>2. strategy.max_delay # None => Delay(strategy) <= strategy.max_delay
  BY DEF Delay, Capped, SeriesInv, SeriesTypeOK, Strategies, Durations
<1>3. strategy' \in Strategies
  BY <1>1 DEF Ordered
<1> QED BY <1>1, <1>2, <1>3 DEF SeriesInv, SeriesTypeOK, NextDelay, DelayWithinMax, Durations

\* Delays keep their types and never exceed max_delay.
THEOREM DelaysBounded == SeriesSpec => [](SeriesTypeOK /\ DelayWithinMax)
<1>1. SeriesInv => SeriesTypeOK /\ DelayWithinMax
  BY DEF SeriesInv
<1> QED BY <1>1, SeriesInvInit, SeriesInvNext, PTL DEF SeriesSpec

\* Delays never shrink from one call of next() to the following one, whether
\* the arithmetic overflows or the largest delay is reached.
THEOREM DelaysGrow == SeriesSpec => DelaysNeverShrink
<1>1. SeriesInv /\ [NextDelay]_seriesVars => [delay # None => delay' >= delay]_seriesVars
  <2> SUFFICES ASSUME SeriesInv, NextDelay, delay # None PROVE delay' >= delay
    OBVIOUS
  <2>1. Delay(strategy) \in Durations
    BY AdvanceGrows DEF SeriesInv
  <2> QED BY <2>1 DEF SeriesInv, NextDelay, SeriesTypeOK, Durations
<1> QED BY <1>1, SeriesInvInit, SeriesInvNext, PTL DEF SeriesSpec, DelaysNeverShrink

---------------------------------------------------------------------------
\* The series.

LEMMA PowerUnfolds ==
  /\ Power \in [Nat -> [Durations -> Nat]]
  /\ \A b \in Durations : Power[0][b] = 1
  /\ \A n \in Nat : \A b \in Durations : Power[n + 1][b] = b * Power[n][b]
<1> DEFINE S == [Durations -> Nat]
           P(f) == f = [n \in Nat |-> [b \in Durations |-> IF n = 0 THEN 1 ELSE b * f[n - 1][b]]]
           base == [b \in Durations |-> 1]
           step == [n \in Nat |-> [p \in S |-> [b \in Durations |-> b * p[b]]]]
<1>1. base \in S /\ step \in [Nat -> [S -> S]]
  <2>1. \A b \in Durations : b \in Nat
    BY DEF Durations
  <2> QED BY <2>1
<1> HIDE DEF S, base, step
<1>2. PICK f : Solves(f, S, base, step)
  BY <1>1, Recursion, Zenon
<1> USE DEF S, base, step, Solves
<1>3. P(f)
  <2>1. ASSUME NEW n \in Nat PROVE f[n] = [b \in Durations |-> IF n = 0 THEN 1 ELSE b * f[n - 1][b]]
    <3>1. CASE n = 0
      BY <1>2, <3>1
    <3>2. CASE n # 0
      <4>1. n - 1 \in Nat /\ (n - 1) + 1 = n
        BY <3>2
      <4>2. f[n] = step[n - 1][f[n - 1]]
        BY <1>2, <4>1
      <4>3. f[n - 1] \in S
        BY <1>2, <4>1
      <4> QED BY <3>2, <4>1, <4>2, <4>3
    <3> QED BY <3>1, <3>2
  <2> QED BY <1>2, <2>1
<1>4. Power = CHOOSE g : P(g)
  BY DEF Power
<1> HIDE DEF P
<1>5. P(Power)
  BY <1>3, <1>4, Zenon
<1>6. Power = [n \in Nat |-> [b \in Durations |-> IF n = 0 THEN 1 ELSE b * Power[n - 1][b]]]
  BY <1>5 DEF P
<1>7. \A b \in Durations : Power[0][b] = 1
  BY <1>6
<1>8. ASSUME NEW n \in Nat PROVE Power[n + 1] = [b \in Durations |-> b * Power[n][b]]
  <2>1. n + 1 \in Nat /\ n + 1 # 0 /\ (n + 1) - 1 = n
    OBVIOUS
  <2>2. Power[n + 1] = [b \in Durations |-> IF n + 1 = 0 THEN 1 ELSE b * Power[(n + 1) - 1][b]]
    BY <1>6, <2>1, Zenon
  <2> QED BY <2>1, <2>2
<1>9. \A n \in Nat : Power[n] \in S
  <2> DEFINE T == {n \in Nat : Power[n] \in S}
  <2>1. 0 \in T
    BY <1>6
  <2>2. ASSUME NEW n \in Nat, n \in T PROVE n + 1 \in T
    <3>1. ASSUME NEW b \in Durations PROVE b * Power[n][b] \in Nat
      <4>1. b \in Nat
        BY DEF Durations
      <4>2. Power[n][b] \in Nat
        BY <2>2
      <4> QED BY <4>1, <4>2, NatProduct, Zenon
    <3>2. [b \in Durations |-> b * Power[n][b]] \in S
      BY <3>1
    <3>3. Power[n + 1] \in S
      BY <1>8, <3>2, Zenon
    <3> QED BY <3>3
  <2>3. \A n \in Nat : n \in T
    <3> HIDE DEF T
    <3> QED BY <2>1, <2>2, Induction
  <2> QED BY <2>3
<1>10. Power \in [Nat -> S]
  <2>1. DOMAIN Power = Nat /\ Power = [n \in Nat |-> Power[n]]
    BY <1>6
  <2> QED BY <1>9, <2>1
<1> QED BY <1>7, <1>8, <1>10

LEMMA FibonacciUnfolds ==
  /\ Fibonacci[1] = 1 /\ Fibonacci[2] = 1
  /\ \A n \in Nat : Fibonacci[n] \in Nat /\ Fibonacci[n + 2] = Fibonacci[n + 1] + Fibonacci[n]
<1> DEFINE S == Nat \X Nat
           P(f) == f = [n \in Nat |-> IF n <= 1 THEN n ELSE f[n - 1] + f[n - 2]]
           base == <<0, 1>>
           step == [n \in Nat |-> [p \in S |-> <<p[2], p[1] + p[2]>>]]
<1>1. base \in S /\ step \in [Nat -> [S -> S]]
  OBVIOUS
<1> HIDE DEF S, base, step
<1>2. PICK q : Solves(q, S, base, step)
  BY <1>1, Recursion, Zenon
<1> USE DEF S, base, step, Solves
<1>3. ASSUME NEW n \in Nat PROVE q[n + 1][1] = q[n][2] /\ q[n + 1][2] = q[n][1] + q[n][2]
  <2>1. q[n + 1] = step[n][q[n]] /\ q[n] \in S
    BY <1>2
  <2>2. step[n][q[n]] = <<q[n][2], q[n][1] + q[n][2]>>
    BY <2>1, Zenon
  <2>3. q[n + 1] = <<q[n][2], q[n][1] + q[n][2]>>
    BY <2>1, <2>2
  <2> HIDE DEF step, S
  <2> QED BY <2>3
<1> DEFINE f == [n \in Nat |-> q[n][1]]
<1>4. P(f)
  <2>1. ASSUME NEW n \in Nat PROVE f[n] = IF n <= 1 THEN n ELSE f[n - 1] + f[n - 2]
    <3>1. CASE n = 0
      BY <1>2, <3>1
    <3>2. CASE n = 1
      BY <1>2, <1>3, <3>2
    <3>3. CASE n > 1
      <4>1. /\ n - 1 \in Nat /\ n - 2 \in Nat
            /\ (n - 1) + 1 = n /\ (n - 2) + 1 = n - 1
        BY <3>3
      <4>2. q[n][1] = q[n - 1][2] /\ q[n - 1][2] = q[n - 2][1] + q[n - 2][2] /\ q[n - 1][1] = q[n - 2][2]
        BY <1>3, <4>1
      <4>3. q[n - 1][1] \in Nat /\ q[n - 2][1] \in Nat
        BY <1>2, <4>1
      <4> QED BY <3>3, <4>1, <4>2, <4>3
    <3> QED BY <3>1, <3>2, <3>3
  <2> QED BY <2>1
<1>5. Fibonacci = CHOOSE g : P(g)
  BY DEF Fibonacci
<1> HIDE DEF P, f
<1>6. P(Fibonacci)
  BY <1>4, <1>5, Zenon
<1>7. Fibonacci = [n \in Nat |-> IF n <= 1 THEN n ELSE Fibonacci[n - 1] + Fibonacci[n - 2]]
  BY <1>6 DEF P
<1>8. Fibonacci[0] = 0 /\ Fibonacci[1] = 1
  BY <1>7
<1>9. ASSUME NEW n \in Nat PROVE Fibonacci[n + 2] = Fibonacci[n + 1] + Fibonacci[n]
  <2>1. n + 2 \in Nat /\ ~(n + 2 <= 1) /\ (n + 2) - 1 = n + 1 /\ (n + 2) - 2 = n
    OBVIOUS
  <2>2. Fibonacci[n + 2]
          = IF n + 2 <= 1 THEN n + 2 ELSE Fibonacci[(n + 2) - 1] + Fibonacci[(n + 2) - 2]
    BY <1>7, <2>1, Zenon
  <2> QED BY <2>1, <2>2
<1>10. \A n \in Nat : Fibonacci[n] \in Nat
  <2> DEFINE T == {n \in Nat : Fibonacci[n] \in Nat /\ Fibonacci[n + 1] \in Nat}
  <2>1. 0 \in T
    BY <1>8
  <2>2. ASSUME NEW n \in Nat, n \in T PROVE n + 1 \in T
    <3>1. (n + 1) + 1 = n + 2
      OBVIOUS
    <3>2. Fibonacci[n + 2] \in Nat
      BY <1>9, <2>2
    <3> QED BY <2>2, <3>1, <3>2
  <2>3. \A n \in Nat : n \in T
    <3> HIDE DEF T
    <3> QED BY <2>1, <2>2, Induction
  <2> QED BY <2>3
<1>11. Fibonacci[2] = 1
  <2>1. Fibonacci[0 + 2] = Fibonacci[0 + 1] + Fibonacci[0]
    BY <1>9
  <2> QED BY <1>8, <2>1
<1> QED BY <1>8, <1>9, <1>10, <1>11

LEMMA SaturateGrows ==
  ASSUME NEW a \in Nat, NEW b \in Nat, a <= b, NEW max \in Nat
  PROVE  Saturate(a, max) \in 0 .. max /\ Saturate(a, max) <= Saturate(b, max)
BY DEF Saturate

\* Sums and products of saturated numbers saturate where the exact ones do.
LEMMA SaturatedSum ==
  ASSUME NEW a \in Nat, NEW b \in Nat, NEW max \in Nat
  PROVE  Saturate(Saturate(a, max) + Saturate(b, max), max) = Saturate(a + b, max)
BY DEF Saturate

LEMMA SaturatedProduct ==
  ASSUME NEW a \in Nat, NEW b \in Nat, NEW max \in Nat, b = 0 => a <= max
  PROVE  Saturate(Saturate(a, max) * b, max) = Saturate(b * a, max)
<1>1. CASE a <= max
  <2>1. Saturate(a, max) = a /\ a * b = b * a
    BY <1>1 DEF Saturate
  <2> QED BY <2>1
<1>2. CASE a > max
  <2>1. b \in Nat \ {0} /\ Saturate(a, max) = max
    BY <1>2 DEF Saturate
  <2>2. max * b \in Nat /\ max <= max * b /\ a * b \in Nat /\ a <= a * b
    BY <2>1, ProductGrows
  <2>3. a * b = b * a
    OBVIOUS
  <2> DEFINE m == max * b
             p == b * a
  <2>4. m \in Nat /\ max <= m /\ p \in Nat /\ a <= p
    BY <2>2, <2>3
  <2> HIDE DEF m, p
  <2>5. Saturate(m, max) = max /\ Saturate(p, max) = max
    BY <1>2, <2>4 DEF Saturate
  <2> QED BY <2>1, <2>5 DEF m, p
<1> QED BY <1>1, <1>2

\* The members of the series of the three kinds.
LEMMA SeriesMembers ==
  ASSUME NEW first \in Durations, NEW n \in Nat
  PROVE  /\ Series("fixed", first, n) = first
         /\ Series("fibonacci", first, n) = Saturate(first * Fibonacci[n], MaxDuration)
         /\ Series("exponential", first, n) = Saturate(Power[n][first], MaxMillis)
         /\ first * Fibonacci[n] \in Nat /\ Power[n][first] \in Nat
<1>1. first \in Nat
  BY DEF Durations
<1>2. Fibonacci[n] \in Nat /\ Power[n][first] \in Nat
  BY FibonacciUnfolds, PowerUnfolds
<1>3. first * Fibonacci[n] \in Nat
  BY <1>1, <1>2, NatProduct, Zenon
<1> QED BY <1>2, <1>3 DEF Series

LEMMA PowersGrow ==
  ASSUME NEW b \in Durations, NEW n \in Nat \ {0}
  PROVE  Power[n][b] <= Power[n + 1][b] /\ (b = 0 => Power[n][b] = 0)
<1>1. b \in Nat /\ Power[n][b] \in Nat /\ Power[n + 1][b] = b * Power[n][b]
  BY PowerUnfolds DEF Durations
<1>2. CASE b = 0
  <2>1. n - 1 \in Nat /\ (n - 1) + 1 = n
    OBVIOUS
  <2>2. Power[n][b] = b * Power[n - 1][b] /\ Power[n - 1][b] \in Nat
    BY <2>1, PowerUnfolds
  <2>3. Power[n][b] = 0 /\ Power[n + 1][b] = 0
    BY <1>1, <1>2, <2>2
  <2> QED BY <2>3
<1>3. CASE b # 0
  <2> DEFINE m == Power[n][b]
  <2> HIDE DEF m
  <2>1. m \in Nat /\ b \in Nat \ {0} /\ Power[n + 1][b] = b * m
    BY <1>1, <1>3 DEF m
  <2>2. m <= m * b /\ m * b = b * m
    BY <2>1, ProductGrows
  <2> QED BY <1>3, <2>1, <2>2 DEF m
<1> QED BY <1>2, <1>3

\* No series shrinks.
LEMMA SeriesGrows ==
  ASSUME NEW kind \in Kinds, NEW first \in Durations, NEW n \in Nat \ {0}
  PROVE  Series(kind, first, n) \in Durations /\ Series(kind, first, n) <= Series(kind, first, n + 1)
<1>1. CASE kind = "fixed"
  BY <1>1, SeriesMembers DEF Durations
<1>2. CASE kind = "fibonacci"
  <2>1. n - 1 \in Nat /\ (n - 1) + 2 = n + 1 /\ (n - 1) + 1 = n
    OBVIOUS
  <2>2. /\ Fibonacci[n] \in Nat /\ Fibonacci[n - 1] \in Nat
        /\ Fibonacci[n + 1] = Fibonacci[n] + Fibonacci[n - 1]
    BY <2>1, FibonacciUnfolds
  <2> DEFINE a == Fibonacci[n]
             b == Fibonacci[n - 1]
  <2> HIDE DEF a, b
  <2>3. first \in Nat /\ a \in Nat /\ b \in Nat
    BY <2>2 DEF Durations, a, b
  <2>4. first * (a + b) = first * a + first * b /\ first * a \in Nat /\ first * b \in Nat
    BY <2>3
  <2> DEFINE x == first * a
             y == first * (a + b)
  <2>5. x \in Nat /\ y \in Nat /\ x <= y
    BY <2>4
  <2> HIDE DEF x, y
  <2>6. Saturate(x, MaxDuration) \in 0 .. MaxDuration /\ Saturate(x, MaxDuration) <= Saturate(y, MaxDuration)
    BY <2>5, SaturateGrows
  <2>7. /\ Series(kind, first, n) = Saturate(x, MaxDuration)
        /\ Series(kind, first, n + 1) = Saturate(y, MaxDuration)
    BY <1>2, <2>2, SeriesMembers DEF a, b, x, y
  <2> QED BY <2>6, <2>7 DEF Durations
<1>3. CASE kind = "exponential"
  <2>1. Power[n][first] \in Nat /\ Power[n + 1][first] \in Nat /\ Power[n][first] <= Power[n + 1][first]
    BY PowersGrow, PowerUnfolds
  <2>2. /\ Saturate(Power[n][first], MaxMillis) \in 0 .. MaxMillis
        /\ Saturate(Power[n][first], MaxMillis) <= Saturate(Power[n + 1][first], MaxMillis)
    BY <2>1, SaturateGrows
  <2> QED BY <1>3, <2>2, SeriesMembers DEF Durations
<1> QED BY <1>1, <1>2, <1>3 DEF Kinds

---------------------------------------------------------------------------
\* Where the iterator is in its series: at the member it returns next or, once it stands
\* still, at one beyond max_delay.  FibonacciBackoff has the member after that one, too.
Member(n) == Series(strategy.kind, initial, n)

Following ==
  /\ strategy.kind = "exponential" => strategy.base_millis = initial /\ initial <= MaxMillis
  /\ ~Capped(strategy) => strategy.current = Member(calls + 1)
  /\ Capped(strategy) => Member(calls + 1) > strategy.max_delay
  /\ strategy.kind = "fibonacci" /\ ~Capped(strategy) => strategy.next = Member(calls + 2)

FollowInv == SeriesTypeOK /\ Following /\ DelaysFollowTheSeries

LEMMA FollowInvInit == SeriesInit => FollowInv
<1> SUFFICES ASSUME SeriesInit PROVE FollowInv
  OBVIOUS
<1>1. PICK kind \in Kinds, max_delay \in MaxDelays :
        Valid(kind, initial, max_delay) /\ strategy = New(kind, initial, max_delay)
  BY DEF SeriesInit
<1>2. SeriesTypeOK
  BY SeriesInvInit DEF SeriesInv
<1>3. /\ strategy.kind = kind /\ strategy.current = initial /\ strategy.next = initial
      /\ kind = "exponential" => strategy.base_millis = initial /\ initial <= MaxMillis
  BY <1>1 DEF New, Valid
<1>4. Member(1) = initial /\ (kind = "fibonacci" => Member(2) = initial)
  <2>1. initial \in Durations /\ initial \in Nat /\ initial <= MaxDuration
    BY <1>2 DEF SeriesTypeOK, Durations
  <2>2. initial * Fibonacci[1] = initial /\ initial * Fibonacci[2] = initial
    BY <2>1, FibonacciUnfolds
  <2>3. Power[1][initial] = initial
    <3>1. Power[0 + 1][initial] = initial * Power[0][initial] /\ Power[0][initial] = 1
      BY <2>1, PowerUnfolds
    <3>2. initial * 1 = initial
      BY <2>1
    <3> QED BY <3>1, <3>2
  <2>4. /\ Series("fixed", initial, 1) = initial
        /\ Series("fibonacci", initial, 1) = Saturate(initial, MaxDuration)
        /\ Series("fibonacci", initial, 2) = Saturate(initial, MaxDuration)
        /\ Series("exponential", initial, 1) = Saturate(initial, MaxMillis)
    BY <2>1, <2>2, <2>3, SeriesMembers
  <2> QED BY <1>3, <2>1, <2>4 DEF Member, Saturate, Kinds
<1>5. calls = 0
  BY DEF SeriesInit
<1>6. Following
  <2>1. calls + 1 = 1 /\ calls + 2 = 2
    BY <1>5
  <2>2. Capped(strategy) => initial > strategy.max_delay
    BY <1>3 DEF Capped
  <2> QED BY <1>3, <1>4, <2>1, <2>2 DEF Following
<1> QED BY <1>2, <1>5, <1>6 DEF FollowInv, DelaysFollowTheSeries

\* next() returns the member whose turn it is.
LEMMA DelayIsReference ==
  ASSUME SeriesTypeOK, Following
  PROVE  Delay(strategy) = Reference(calls + 1)
<1>1. CASE Capped(strategy)
  BY <1>1 DEF Following, Member, Delay, Reference, Capped
<1>2. CASE ~Capped(strategy)
  BY <1>2 DEF Following, Member, Delay, Reference, Capped
<1> QED BY <1>1, <1>2

LEMMA AdvanceFollows ==
  ASSUME SeriesTypeOK, Following, NextDelay
  PROVE  /\ Following'
         /\ strategy'.kind = strategy.kind /\ strategy'.max_delay = strategy.max_delay
<1> DEFINE n == calls + 1
           s == strategy
           t == Advance(strategy)
<1>1. n \in Nat \ {0} /\ calls' + 1 = n + 1 /\ calls' + 2 = n + 2 /\ calls + 2 = n + 1
  BY DEF NextDelay, SeriesTypeOK
<1>2. s \in Strategies /\ initial \in Durations /\ s.kind \in Kinds
  BY DEF SeriesTypeOK, Strategies
<1>3. Member(n) \in Durations /\ Member(n) <= Member(n + 1)
  BY <1>1, <1>2, SeriesGrows DEF Member
<1>4. strategy' = t /\ initial' = initial
  BY DEF NextDelay
<1>5. CASE Capped(s)
  <2>1. t = s
    BY <1>5 DEF Advance
  <2>2. Member(n) > s.max_delay
    BY <1>5 DEF Following
  <2>3. Member(n + 1) > s.max_delay
    <3>1. Member(n + 1) \in Durations
      BY <1>1, <1>2, SeriesGrows DEF Member
    <3>2. s.max_delay \in Durations
      BY <1>2, <1>5 DEF Capped, Strategies
    <3> QED BY <1>3, <2>2, <3>1, <3>2 DEF Durations
  <2> QED BY <1>1, <1>4, <1>5, <2>1, <2>3 DEF Following, Member
<1>6. CASE s.kind = "fixed" /\ ~Capped(s)
  <2>1. t = s
    BY <1>6 DEF Advance
  <2>2. Member(n + 1) = initial /\ Member(n) = initial
    BY <1>1, <1>2, <1>6, SeriesMembers DEF Member
  <2> QED BY <1>1, <1>4, <1>6, <2>1, <2>2 DEF Following, Member
<1>7. CASE s.kind = "fibonacci" /\ ~Capped(s)
  <2> DEFINE sum == Saturate(s.current + s.next, MaxDuration)
  <2>1. t = [s EXCEPT !.current = s.next, !.next = sum]
    BY <1>7 DEF Advance
  <2>2. sum = Member(n + 2)
    <3> DEFINE a == initial * Fibonacci[n]
               b == initial * Fibonacci[n + 1]
    <3>1. a \in Nat /\ b \in Nat
      BY <1>1, <1>2, SeriesMembers
    <3>2. s.current = Saturate(a, MaxDuration) /\ s.next = Saturate(b, MaxDuration)
      BY <1>1, <1>2, <1>7, SeriesMembers DEF Following, Member
    <3>3. initial * Fibonacci[n + 2] = a + b
      <4>1. initial \in Nat /\ Fibonacci[n] \in Nat /\ Fibonacci[n + 1] \in Nat
        BY <1>1, <1>2, FibonacciUnfolds DEF Durations
      <4>2. Fibonacci[n + 2] = Fibonacci[n + 1] + Fibonacci[n]
        BY <1>1, FibonacciUnfolds
      <4> QED BY <4>1, <4>2
    <3>4. Member(n + 2) = Saturate(initial * Fibonacci[n + 2], MaxDuration)
      BY <1>1, <1>2, <1>7, SeriesMembers DEF Member
    <3> HIDE DEF a, b
    <3> QED BY <3>1, <3>2, <3>3, <3>4, SaturatedSum
  <2>3. s.next = Member(n + 1)
    BY <1>1, <1>7 DEF Following
  <2> HIDE DEF sum
  <2>4. t.current = s.next /\ t.next = sum /\ t.kind = s.kind /\ t.max_delay = s.max_delay
    BY <1>2, <2>1 DEF Strategies
  <2> HIDE DEF t
  <2> QED BY <1>1, <1>4, <1>7, <2>2, <2>3, <2>4 DEF Following, Member, Capped
<1>8. CASE s.kind = "exponential" /\ ~Capped(s)
  <2> DEFINE product == Saturate(s.current * s.base_millis, MaxMillis)
  <2>1. t = [s EXCEPT !.current = product]
    BY <1>8 DEF Advance
  <2>2. product = Member(n + 1)
    <3> DEFINE a == Power[n][initial]
    <3>1. a \in Nat /\ initial \in Nat /\ (initial = 0 => a = 0)
      BY <1>1, <1>2, SeriesMembers, PowersGrow DEF Durations
    <3>2. s.current = Saturate(a, MaxMillis) /\ s.base_millis = initial
      BY <1>1, <1>2, <1>8, SeriesMembers DEF Following, Member
    <3>3. Member(n + 1) = Saturate(initial * a, MaxMillis)
      BY <1>1, <1>2, <1>8, SeriesMembers, PowerUnfolds DEF Member
    <3> HIDE DEF a
    <3> QED BY <3>1, <3>2, <3>3, SaturatedProduct
  <2> HIDE DEF product
  <2>3. /\ t.current = product /\ t.kind = s.kind /\ t.max_delay = s.max_delay
        /\ t.base_millis = s.base_millis
    BY <1>2, <2>1 DEF Strategies
  <2> HIDE DEF t
  <2> QED BY <1>1, <1>4, <1>8, <2>2, <2>3 DEF Following, Member, Capped
<1> QED BY <1>2, <1>5, <1>6, <1>7, <1>8 DEF Kinds

LEMMA FollowInvNext == SeriesInv /\ FollowInv /\ [NextDelay]_seriesVars => FollowInv'
<1> SUFFICES ASSUME SeriesInv, FollowInv, NextDelay PROVE FollowInv'
  BY DEF FollowInv, SeriesTypeOK, Following, Member, Capped, DelaysFollowTheSeries, Reference, seriesVars
<1>1. SeriesTypeOK'
  BY SeriesInvNext DEF SeriesInv
<1>2. /\ Following'
      /\ strategy'.kind = strategy.kind /\ strategy'.max_delay = strategy.max_delay
  BY AdvanceFollows DEF FollowInv
<1>3. delay' = Reference(calls + 1) /\ calls' = calls + 1 /\ initial' = initial
  BY DelayIsReference DEF FollowInv, NextDelay
<1>4. DelaysFollowTheSeries'
  BY <1>2, <1>3 DEF DelaysFollowTheSeries, Reference
<1> QED BY <1>1, <1>2, <1>4 DEF FollowInv

\* The n-th delay of every strategy is the n-th member of the series of its name, for any
\* number of calls, any initial delay and max_delay, overflow included.
THEOREM DelaysAreTheSeries == SeriesSpec => []DelaysFollowTheSeries
<1>1. FollowInv => DelaysFollowTheSeries
  BY DEF FollowInv
<1> QED BY <1>1, SeriesInvInit, SeriesInvNext, FollowInvInit, FollowInvNext, PTL DEF SeriesSpec

---------------------------------------------------------------------------
\* retry_if.

USE RetryAssumption

\* Every poll takes at most one item of the strategy, as the iterator allows it.
LEMMA StepsOfTheSeries == [Next]_vars => [NextDelay]_seriesVars
<1> USE DEF strategyVars
<1> SUFFICES ASSUME [Next]_vars PROVE [NextDelay]_seriesVars
  OBVIOUS
<1>1. CASE Tick
  BY <1>1 DEF Tick
<1>2. ASSUME NEW o \in Outcomes, Complete(o) PROVE [NextDelay]_seriesVars
  BY <1>2 DEF Complete
<1>3. CASE PollStep
  BY <1>3 DEF PollStep, AttemptOk, AttemptFatal, AttemptRetry, AttemptExhausted, Resume,
              FuturePending, StartTimer, TimerPending, TimedOut
<1>4. CASE Poll
  BY <1>4 DEF Poll, PollBegins
<1>5. CASE UNCHANGED vars
  BY <1>5 DEF vars
<1> QED BY <1>1, <1>2, <1>3, <1>4, <1>5 DEF Next

\* retry_if, under any time limit, uses its strategy as a sequence of delays: nothing is
\* taken twice, skipped or put back.
THEOREM RetryUsesTheSeries == Spec => SeriesSpec
<1>1. Init => SeriesInit
  BY DEF Init
<1> QED BY <1>1, StepsOfTheSeries, PTL DEF Spec, SeriesSpec

---------------------------------------------------------------------------
\* Reference and Waited of a kind, an initial delay and a max_delay.
RefOf(kind, first, max_delay, n) ==
  LET exact == Series(kind, first, n)
  IN  IF max_delay # None /\ exact > max_delay THEN max_delay ELSE exact

Sums(f, kind, first, max_delay) ==
  f = [n \in Nat |-> IF n = 0 THEN 0 ELSE f[n - 1] + RefOf(kind, first, max_delay, n)]

WaitedOf(kind, first, max_delay) == CHOOSE f : Sums(f, kind, first, max_delay)

LEMMA WaitedIsConstant ==
  /\ Waited = WaitedOf(strategy.kind, initial, strategy.max_delay)
  /\ Waited' = WaitedOf(strategy'.kind, initial', strategy'.max_delay)
  /\ \A n : Reference(n) = RefOf(strategy.kind, initial, strategy.max_delay, n)
BY DEF Waited, WaitedOf, Sums, RefOf, Reference

LEMMA WaitedUnfolds ==
  ASSUME NEW kind \in Kinds, NEW first \in Durations, NEW max_delay \in Durations \cup {None}
  PROVE  LET w == WaitedOf(kind, first, max_delay)
         IN  /\ w[0] = 0
             /\ \A n \in Nat : w[n] \in Nat /\ w[n + 1] = w[n] + RefOf(kind, first, max_delay, n + 1)
<1> DEFINE w == WaitedOf(kind, first, max_delay)
           Ref(n) == RefOf(kind, first, max_delay, n)
           step == [n \in Nat |-> [x \in Nat |-> x + Ref(n + 1)]]
<1>1. ASSUME NEW n \in Nat PROVE Ref(n + 1) \in Nat
  <2>1. n + 1 \in Nat \ {0}
    OBVIOUS
  <2>2. Series(kind, first, n + 1) \in Durations
    BY <2>1, SeriesGrows
  <2> QED BY <2>2 DEF RefOf, Durations
<1> HIDE DEF Ref
<1>2. step \in [Nat -> [Nat -> Nat]]
  BY <1>1
<1> HIDE DEF step
<1>3. PICK f : Solves(f, Nat, 0, step)
  <2>1. 0 \in Nat
    OBVIOUS
  <2> QED BY <1>2, <2>1, Recursion, Zenon
<1>4. Sums(f, kind, first, max_delay)
  <2>1. ASSUME NEW n \in Nat PROVE f[n] = IF n = 0 THEN 0 ELSE f[n - 1] + Ref(n)
    <3>1. CASE n = 0
      BY <1>3, <3>1 DEF Solves
    <3>2. CASE n # 0
      <4>1. n - 1 \in Nat /\ (n - 1) + 1 = n
        BY <3>2
      <4>2. f[n] = step[n - 1][f[n - 1]] /\ f[n - 1] \in Nat
        BY <1>3, <4>1 DEF Solves
      <4> QED BY <3>2, <4>1, <4>2 DEF step
    <3> QED BY <3>1, <3>2
  <2>2. f = [n \in Nat |-> f[n]]
    BY <1>3 DEF Solves
  <2> QED BY <2>1, <2>2 DEF Sums, Ref
<1>5. Sums(w, kind, first, max_delay)
  BY <1>4, Zenon DEF WaitedOf
<1> HIDE DEF w
<1>6. w = [n \in Nat |-> IF n = 0 THEN 0 ELSE w[n - 1] + Ref(n)]
  BY <1>5 DEF Sums, Ref
<1>7. w[0] = 0
  BY <1>6
<1>8. ASSUME NEW n \in Nat PROVE w[n + 1] = w[n] + Ref(n + 1)
  <2>1. n + 1 \in Nat /\ n + 1 # 0 /\ (n + 1) - 1 = n
    OBVIOUS
  <2>2. w[n + 1] = IF n + 1 = 0 THEN 0 ELSE w[(n + 1) - 1] + Ref(n + 1)
    BY <1>6, <2>1, Zenon
  <2> QED BY <2>1, <2>2
<1>9. \A n \in Nat : w[n] \in Nat
  <2> DEFINE T == {n \in Nat : w[n] \in Nat}
  <2>1. 0 \in T
    BY <1>7
  <2>2. ASSUME NEW n \in Nat, n \in T PROVE n + 1 \in T
    BY <1>1, <1>8, <2>2
  <2>3. \A n \in Nat : n \in T
    <3> HIDE DEF T
    <3> QED BY <2>1, <2>2, Induction
  <2> QED BY <2>3
<1> QED BY <1>7, <1>8, <1>9 DEF w, Ref

LEMMA WaitedNat ==
  ASSUME SeriesInv
  PROVE  /\ Waited[0] = 0 /\ Waited[calls] \in Nat
         /\ Waited[calls + 1] = Waited[calls] + Reference(calls + 1)
<1>1. /\ strategy.kind \in Kinds /\ initial \in Durations
      /\ strategy.max_delay \in Durations \cup {None} /\ calls \in Nat
  BY DEF SeriesInv, SeriesTypeOK, Strategies
<1> QED BY <1>1, WaitedIsConstant, WaitedUnfolds

\* The sum of the delays handed out grows with each call by what the call returns.
LEMMA WaitedSteps ==
  ASSUME SeriesInv, FollowInv, [NextDelay]_seriesVars
  PROVE  /\ Waited' = Waited /\ Waited[0] = 0 /\ Waited[calls] \in Nat
         /\ NextDelay => delay' \in Durations /\ Waited[calls'] = Waited[calls] + delay'
<1>1. strategy'.kind = strategy.kind /\ strategy'.max_delay = strategy.max_delay /\ initial' = initial
  <2>1. CASE NextDelay
    <3>1. initial' = initial
      BY <2>1 DEF NextDelay
    <3> QED BY <2>1, <3>1, AdvanceFollows DEF FollowInv
  <2>2. CASE UNCHANGED seriesVars
    BY <2>2 DEF seriesVars
  <2> QED BY <2>1, <2>2
<1>2. Waited' = Waited
  BY <1>1, WaitedIsConstant
<1>3. /\ Waited[0] = 0 /\ Waited[calls] \in Nat
      /\ Waited[calls + 1] = Waited[calls] + Reference(calls + 1)
  BY WaitedNat
<1>4. ASSUME NextDelay PROVE delay' \in Durations /\ Waited[calls'] = Waited[calls] + delay'
  <2>1. delay' = Delay(strategy) /\ calls' = calls + 1
    BY <1>4 DEF NextDelay
  <2>2. Delay(strategy) \in Durations
    BY AdvanceGrows DEF SeriesInv
  <2>3. Delay(strategy) = Reference(calls + 1)
    BY DelayIsReference DEF FollowInv
  <2> QED BY <1>3, <2>1, <2>2, <2>3
<1> QED BY <1>2, <1>3, <1>4

---------------------------------------------------------------------------
\* The inductive invariant of retry_if, over those of its strategy.
RetryTypeOK ==
  /\ clock \in Time /\ wake \in Time
  /\ pc \in {"attempt", "sleep", "ok", "err", "timeout"}
  /\ retries \in 0 .. MaxCalls /\ left \in Nat
  /\ ready \in Outcomes \cup {None}
  /\ outcomes \in Seq(Outcomes)

\* Each item taken stands for one error that was retried; the outcome after those is
\* the result.
AttemptsInv ==
  /\ left + calls = retries
  /\ Len(outcomes) = IF pc \in {"ok", "err"} THEN calls + 1 ELSE calls
  /\ \A i \in 1 .. calls : outcomes[i] = "retryable"
  /\ pc = "ok" => outcomes[calls + 1] = "ok"
  /\ pc = "err" => outcomes[calls + 1] = "fatal" \/ (outcomes[calls + 1] = "retryable" /\ left = 0)

\* No result is there while retry_if sleeps.  Once a poll of `or` has come to the timer,
\* a result that is there came during that poll.  No poll goes on after the result.
ReadyInv ==
  /\ Returned => todo = << >>
  /\ pc = "sleep" => ready = None
  /\ combinator = "or" =>
       /\ todo \in {<< >>, <<"future", "timer">>, <<"timer">>}
       /\ pc = "timeout" \/ todo = <<"timer">> => ready = None \/ during

\* The delays taken so far are over, or will be when the sleep is.
BackoffInv ==
  /\ pc = "attempt" => clock >= At(Waited[calls])
  /\ pc = "sleep" => wake >= At(Waited[calls])

RetryInv ==
  SeriesInv /\ FollowInv /\ RetryTypeOK /\ AttemptsInv /\ ReadyInv /\ BackoffInv

LEMMA RetryInvInit == Init => RetryInv
<1> SUFFICES ASSUME Init PROVE RetryInv
  OBVIOUS
<1>1. SeriesInv /\ FollowInv
  BY SeriesInvInit, FollowInvInit DEF Init
<1>2. RetryTypeOK
  BY DEF Init, RetryTypeOK, Time
<1>3. calls = 0
  BY DEF Init, SeriesInit
<1>4. AttemptsInv /\ ReadyInv
  BY <1>3 DEF Init, AttemptsInv, ReadyInv, Returned
<1>5. Waited[0] = 0
  BY <1>1, WaitedNat
<1>6. BackoffInv
  BY <1>3, <1>5 DEF Init, BackoffInv, At
<1> QED BY <1>1, <1>2, <1>4, <1>6 DEF RetryInv

\* The saturating clock keeps the order of instants under a delay.
LEMMA LaterAdds ==
  ASSUME NEW c \in Time, NEW w \in Nat, NEW d \in Nat, c >= At(w)
  PROVE  At(c + d) \in Time /\ At(c + d) >= At(w + d)
BY DEF At, Time

\* What is polled next in a poll of `or`.
LEMMA OrOrder ==
  ASSUME ReadyInv, combinator = "or"
  PROVE  /\ Polling("timer") => todo = <<"timer">>
         /\ Polling("future") => todo = <<"future", "timer">>
         /\ todo = <<"timer">> => Tail(todo) = << >>
         /\ todo = <<"future", "timer">> => Tail(todo) = <<"timer">>
<1>1. <<"timer">> # <<"future", "timer">> /\ Head(<<"timer">>) = "timer" /\ Tail(<<"timer">>) = << >>
  OBVIOUS
<1>2. Head(<<"future", "timer">>) = "future"
  OBVIOUS
<1>3. Tail(<<"future", "timer">>) = <<"timer">>
  OBVIOUS
<1>4. todo \in {<< >>, <<"future", "timer">>, <<"timer">>}
  BY DEF ReadyInv
<1>5. "timer" # "future"
  OBVIOUS
<1> QED BY <1>1, <1>2, <1>3, <1>4, <1>5, Zenon DEF Polling

\* What the history holds after one more outcome.
LEMMA OneMoreOutcome ==
  ASSUME RetryInv, NEW o \in Outcomes, Yields(o)
  PROVE  /\ outcomes' \in Seq(Outcomes) /\ Len(outcomes') = calls + 1
         /\ \A i \in 1 .. calls : outcomes'[i] = "retryable"
         /\ outcomes'[calls + 1] = o
<1>1. outcomes \in Seq(Outcomes) /\ calls \in Nat
  BY DEF RetryInv, RetryTypeOK, SeriesInv, SeriesTypeOK
<1>2. Len(outcomes) = calls /\ outcomes' = Append(outcomes, o)
  BY DEF RetryInv, AttemptsInv, Yields
<1>3. \A i \in 1 .. calls : outcomes[i] = "retryable"
  BY DEF RetryInv, AttemptsInv
<1> HIDE DEF Outcomes
<1> QED BY <1>1, <1>2, <1>3

\* A step that takes no item keeps the sum of the delays.
LEMMA SameDelays ==
  ASSUME RetryInv, UNCHANGED seriesVars
  PROVE  Waited' = Waited /\ calls' = calls /\ calls \in Nat /\ Waited[calls] \in Nat
<1>1. Waited' = Waited /\ Waited[calls] \in Nat
  BY WaitedSteps DEF RetryInv
<1> QED BY <1>1 DEF seriesVars, RetryInv, SeriesInv, SeriesTypeOK

\* The polls of `or` come to the timer with a result only if it came meanwhile.
LEMMA ReadyInvNext == ReadyInv /\ [Next]_vars => ReadyInv'
<1> SUFFICES ASSUME ReadyInv, [Next]_vars PROVE ReadyInv'
  OBVIOUS
<1> USE DEF limitVars, attemptVars
<1>1. CASE Tick \/ UNCHANGED vars
  BY <1>1 DEF Tick, vars, Returned, ReadyInv
<1>2. ASSUME NEW o \in Outcomes, Complete(o) PROVE ReadyInv'
  <2>1. pc = "attempt" /\ during' = (todo # << >>) /\ UNCHANGED <<pc, todo, combinator>>
    BY <1>2 DEF Complete
  <2>2. todo = <<"timer">> => during'
    <3>1. <<"timer">> # << >>
      OBVIOUS
    <3> QED BY <2>1, <3>1, Zenon
  <2>3. ~Returned /\ pc # "sleep" /\ pc # "timeout"
    BY <2>1 DEF Returned
  <2>4. Returned' <=> Returned
    BY <2>1 DEF Returned
  <2> QED BY <2>1, <2>2, <2>3, <2>4, Zenon DEF ReadyInv
<1>3. CASE Poll
  BY <1>3 DEF Poll, PollBegins, PollOrders, Returned, ReadyInv
<1>4. CASE AttemptOk \/ AttemptFatal \/ AttemptExhausted
  BY <1>4 DEF AttemptOk, AttemptFatal, AttemptExhausted, Yields, Return, Returned, ReadyInv
<1>5. CASE AttemptRetry
  BY <1>5 DEF AttemptRetry, Yields, Returned, ReadyInv
<1>6. CASE Resume \/ StartTimer
  BY <1>6 DEF Resume, StartTimer, Returned, ReadyInv
<1>7. CASE FuturePending
  BY <1>7, OrOrder DEF FuturePending, Returned, ReadyInv
<1>8. CASE TimerPending
  BY <1>8, OrOrder DEF TimerPending, Polling, Returned, ReadyInv
<1>9. CASE TimedOut
  BY <1>9, OrOrder DEF TimedOut, Return, Returned, ReadyInv
<1> QED BY <1>1, <1>2, <1>3, <1>4, <1>5, <1>6, <1>7, <1>8, <1>9 DEF Next, PollStep

LEMMA RetryInvNext == RetryInv /\ [Next]_vars => RetryInv'
<1> SUFFICES ASSUME RetryInv, [Next]_vars PROVE RetryInv'
  OBVIOUS
<1> DEFINE Rest == RetryTypeOK /\ AttemptsInv /\ BackoffInv
<1>1. SeriesInv' /\ FollowInv' /\ ReadyInv'
  BY StepsOfTheSeries, SeriesInvNext, FollowInvNext, ReadyInvNext DEF RetryInv
<1> SUFFICES Rest'
  BY <1>1 DEF RetryInv
<1>2. CASE Tick
  <2>1. UNCHANGED seriesVars
    BY <1>2 DEF Tick, strategyVars
  <2> QED BY <1>2, <2>1, SameDelays
          DEF Tick, RetryInv, RetryTypeOK, AttemptsInv, BackoffInv, Time, At,
              limitVars, strategyVars, attemptVars
<1>3. ASSUME NEW o \in Outcomes, Complete(o) PROVE Rest'
  <2>1. UNCHANGED seriesVars
    BY <1>3 DEF Complete, strategyVars
  <2> QED BY <1>3, <2>1, SameDelays
          DEF Complete, RetryInv, RetryTypeOK, AttemptsInv, BackoffInv, At,
              limitVars, strategyVars
<1>4. CASE AttemptOk \/ AttemptFatal \/ AttemptExhausted
  <2>1. UNCHANGED seriesVars
    BY <1>4 DEF AttemptOk, AttemptFatal, AttemptExhausted
  <2>2. PICK o \in Outcomes : /\ Yields(o)
                              /\ (pc' = "ok" /\ o = "ok") \/ (pc' = "err" /\ (o = "fatal" \/ (o = "retryable" /\ left = 0)))
    BY <1>4 DEF AttemptOk, AttemptFatal, AttemptExhausted, Return, Outcomes
  <2>3. UNCHANGED <<clock, left, wake, retries>> /\ ready' = None
    BY <1>4 DEF AttemptOk, AttemptFatal, AttemptExhausted, Yields
  <2>4. /\ outcomes' \in Seq(Outcomes) /\ Len(outcomes') = calls + 1
        /\ \A i \in 1 .. calls : outcomes'[i] = "retryable"
        /\ outcomes'[calls + 1] = o
    BY <2>2, OneMoreOutcome
  <2> QED BY <2>1, <2>2, <2>3, <2>4, SameDelays
          DEF RetryInv, RetryTypeOK, AttemptsInv, BackoffInv
<1>5. CASE AttemptRetry
  <2>1. NextDelay /\ Yields("retryable") /\ left > 0 /\ left' = left - 1 /\ pc' = "sleep"
    BY <1>5 DEF AttemptRetry
  <2>2. /\ Waited' = Waited /\ Waited[calls] \in Nat
        /\ delay' \in Durations /\ Waited[calls'] = Waited[calls] + delay'
    BY <2>1, WaitedSteps DEF RetryInv
  <2>3. calls' = calls + 1 /\ calls \in Nat
    BY <2>1 DEF NextDelay, RetryInv, SeriesInv, SeriesTypeOK
  <2>4. /\ outcomes' \in Seq(Outcomes) /\ Len(outcomes') = calls + 1
        /\ \A i \in 1 .. calls : outcomes'[i] = "retryable"
        /\ outcomes'[calls + 1] = "retryable"
    BY <2>1, OneMoreOutcome DEF Outcomes
  <2>5. wake' = At(clock + delay') /\ ready' = None /\ UNCHANGED <<clock, retries>>
    BY <1>5 DEF AttemptRetry, Yields
  <2>6. clock \in Time /\ clock >= At(Waited[calls])
    BY <2>1 DEF Yields, RetryInv, RetryTypeOK, BackoffInv
  <2>7. wake' \in Time /\ wake' >= At(Waited[calls'])
    <3>1. delay' \in Nat
      BY <2>2 DEF Durations
    <3> QED BY <2>2, <2>5, <2>6, <3>1, LaterAdds
  <2>8. RetryTypeOK'
    BY <2>1, <2>4, <2>5, <2>7 DEF RetryInv, RetryTypeOK
  <2>9. AttemptsInv'
    BY <2>1, <2>3, <2>4, <2>5 DEF RetryInv, RetryTypeOK, AttemptsInv
  <2> QED BY <2>1, <2>2, <2>7, <2>8, <2>9 DEF BackoffInv, At
<1>6. CASE Resume
  <2>1. UNCHANGED seriesVars
    BY <1>6 DEF Resume, strategyVars
  <2> QED BY <1>6, <2>1, SameDelays
          DEF Resume, RetryInv, RetryTypeOK, AttemptsInv, BackoffInv, At, Time,
              limitVars, strategyVars, attemptVars
<1>7. CASE StartTimer \/ FuturePending \/ TimerPending \/ TimedOut
  <2>1. UNCHANGED seriesVars
    BY <1>7 DEF StartTimer, FuturePending, TimerPending, TimedOut, strategyVars
  <2>2. CASE StartTimer
    BY <2>1, <2>2, SameDelays
    DEF StartTimer, RetryInv, RetryTypeOK, AttemptsInv, BackoffInv, At, strategyVars, attemptVars
  <2>3. CASE FuturePending \/ TimerPending
    BY <2>1, <2>3, SameDelays
    DEF FuturePending, TimerPending, RetryInv, RetryTypeOK, AttemptsInv, BackoffInv, At,
        limitVars, strategyVars, attemptVars
  <2>4. CASE TimedOut
    BY <2>1, <2>4, SameDelays
    DEF TimedOut, Polling, Return, Returned, ReadyInv, RetryInv, RetryTypeOK, AttemptsInv, BackoffInv,
        limitVars, strategyVars, attemptVars
  <2> QED BY <1>7, <2>2, <2>3, <2>4
<1>8. CASE UNCHANGED vars
  <2>1. UNCHANGED seriesVars
    BY <1>8 DEF vars, strategyVars
  <2> QED BY <1>8, <2>1, SameDelays
          DEF vars, RetryInv, RetryTypeOK, AttemptsInv, BackoffInv, At,
              limitVars, strategyVars, attemptVars
<1>9. CASE Poll
  <2>1. UNCHANGED seriesVars
    BY <1>9 DEF Poll, PollBegins, strategyVars
  <2> QED BY <1>9, <2>1, SameDelays
          DEF Poll, PollBegins, RetryInv, RetryTypeOK, AttemptsInv, BackoffInv, At,
              limitVars, strategyVars
<1> HIDE DEF Rest
<1> QED BY <1>2, <1>3, <1>4, <1>5, <1>6, <1>7, <1>8, <1>9 DEF Next, PollStep

\* retry_if makes one attempt and at most one more for each item of its strategy, goes on
\* after retryable errors only and returns the outcome of its last attempt, whatever the
\* strategy, the time limit and the timing of attempts and polls.
THEOREM RetryResultSound == Spec => []ResultSummarisesAttempts
<1>1. RetryInv => ResultSummarisesAttempts
  BY DEF RetryInv, RetryTypeOK, AttemptsInv, SeriesInv, SeriesTypeOK, ResultSummarisesAttempts
<1> QED BY <1>1, RetryInvInit, RetryInvNext, PTL DEF Spec

\* The attempt after n retries never starts before the first n members of the series have
\* passed since the first attempt.
THEOREM RetriesBackOff == Spec => []BackoffRespected
<1>1. ASSUME RetryInv PROVE BackoffRespected
  <2> SUFFICES ASSUME pc = "attempt", clock < MaxTime PROVE clock >= Waited[Len(outcomes)]
    BY DEF BackoffRespected
  <2>1. Waited[calls] \in Nat
    BY <1>1, WaitedNat DEF RetryInv
  <2>2. Len(outcomes) = calls /\ clock >= At(Waited[calls]) /\ clock \in Nat
    BY <1>1 DEF RetryInv, RetryTypeOK, AttemptsInv, BackoffInv, Time
  <2> QED BY <2>1, <2>2 DEF At
<1> QED BY <1>1, RetryInvInit, RetryInvNext, PTL DEF Spec

\* RetryExt::timeout answers with its error only when, at the beginning of the poll that
\* does so, no attempt had a result waiting, whatever became ready since and however late
\* the polls were.
THEOREM ReadyResultsWin == Spec => []ReadyResultBeatsTimeout
<1>1. RetryInv => ReadyResultBeatsTimeout
  BY DEF RetryInv, ReadyInv, ReadyResultBeatsTimeout
<1> QED BY <1>1, RetryInvInit, RetryInvNext, PTL DEF Spec
=============================================================================
