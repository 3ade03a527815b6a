------------------------- MODULE SpeedControlProofs -------------------------
(***************************************************************************)
(* Theorems about SpeedControl, for every value of the settings: the       *)
(* bytes of a measure are counted right, measures set the interval in      *)
(* order, and the interval is what they allow.                             *)
(***************************************************************************)
EXTENDS SpeedControl, WellFoundedInduction, TLAPS

-----------------------------------------------------------------------------
(* Numbers.                                                                *)

\* A set of numbers that are left has a first one.
LEMMA LeastNumber ==
  ASSUME NEW T \in SUBSET Nat, T # {}
  PROVE  \E n \in T : \A m \in T : n <= m
<1>. DEFINE R == OpToRel(<, Nat)
<1>1. IsWellFoundedOn(R, Nat)
  BY NatLessThanWellFounded
<1>2. \A x, y \in Nat : <<y, x>> \in R <=> y < x
  BY DEF OpToRel
<1>. HIDE DEF R
<1>3. \E x \in T : \A y \in T : ~(<<y, x>> \in R)
  BY <1>1, WFMin
<1>4. PICK x \in T : \A y \in T : ~(<<y, x>> \in R)
  BY <1>3
<1>5. ASSUME NEW y \in T PROVE x <= y
  <2>1. x \in Nat /\ y \in Nat /\ ~(<<y, x>> \in R)
    BY <1>4
  <2>2. ~(y < x)
    BY <1>2, <2>1
  <2>. QED
    BY <2>1, <2>2
<1>. QED
  BY <1>5

\* Induction, for a set instead of a predicate.
LEMMA SetInduction ==
  ASSUME NEW S, 0 \in S, \A n \in Nat : n \in S => n + 1 \in S
  PROVE  \A n \in Nat : n \in S
<1>. SUFFICES ASSUME NEW k \in Nat, k \notin S PROVE FALSE
  OBVIOUS
<1>. DEFINE T == {n \in Nat : n \notin S}
<1>1. PICK n \in T : \A m \in T : n <= m
  <2>1. T \in SUBSET Nat /\ T # {}
    OBVIOUS
  <2>. HIDE DEF T
  <2>. QED
    BY <2>1, LeastNumber
<1>2. n # 0 /\ n \in Nat
  BY <1>1
<1>3. n - 1 \in Nat /\ n - 1 \notin T
  BY <1>1, <1>2
<1>4. n - 1 \in S
  BY <1>3
<1>. QED
  BY <1>1, <1>2, <1>4

\* What max of the code returns.
LEMMA MaxOfTwo ==
  ASSUME NEW a \in Int, NEW b \in Int
  PROVE  Max({a, b}) = IF a >= b THEN a ELSE b
<1>. DEFINE m == IF a >= b THEN a ELSE b
<1>1. m \in {a, b} /\ \A y \in {a, b} : m >= y
  OBVIOUS
<1>2. \A x \in {a, b} : (\A y \in {a, b} : x >= y) => x = m
  OBVIOUS
<1>. HIDE DEF m
<1>3. Max({a, b}) = m
  BY <1>1, <1>2 DEF Max
<1>. QED
  BY <1>3 DEF m

\* What min of the code returns.
LEMMA MinOfTwo ==
  ASSUME NEW a \in Int, NEW b \in Int
  PROVE  Min({a, b}) = IF a <= b THEN a ELSE b
<1>. DEFINE m == IF a <= b THEN a ELSE b
<1>1. m \in {a, b} /\ \A y \in {a, b} : m <= y
  OBVIOUS
<1>2. \A x \in {a, b} : (\A y \in {a, b} : x <= y) => x = m
  OBVIOUS
<1>. HIDE DEF m
<1>3. Min({a, b}) = m
  BY <1>1, <1>2 DEF Min
<1>. QED
  BY <1>3 DEF m

\* A third of the time after which a packet is sent again is not 0.
LEMMA MaxIntervalType == maxIntervalUs \in Nat \ {0}
  BY SettingsAssumption DEF maxIntervalUs

\* A quotient below q + 1 ...
LEMMA DivIsBelow ==
  ASSUME NEW a \in Nat, NEW b \in Nat \ {0}, NEW q \in Nat, a < (q + 1) * b
  PROVE  a \div b \in 0 .. q
  OBVIOUS

\* ... and from q on.
LEMMA DivIsAbove ==
  ASSUME NEW a \in Nat, NEW b \in Nat \ {0}, NEW q \in Nat, q * b <= a
  PROVE  a \div b \in Nat /\ a \div b >= q
  OBVIOUS

\* A greater fraction has no smaller quotient.
LEMMA DivIsMonotonic ==
  ASSUME NEW p \in Nat, NEW q \in Nat \ {0}, NEW r \in Nat, NEW s \in Nat \ {0},
         p * s <= r * q
  PROVE  p \div q <= r \div s
  OBVIOUS

-----------------------------------------------------------------------------
(* The initial interval.                                                   *)

\* Fractions that may be divided by.
Quotient == Nat \X (Nat \ {0})

\* One more speed in the sum.
LEMMA OneMoreSpeed ==
  ASSUME NEW v \in Quotient, NEW us \in Nat \ {0}
  PROVE  <<v[1] * us + v[2], v[2] * us>> \in Quotient
<1>1. v[1] \in Nat /\ v[2] \in Nat \ {0}
  BY DEF Quotient
<1>2. v[1] * us \in Nat /\ v[2] * us \in Nat \ {0}
  BY <1>1
<1>. HIDE DEF Quotient
<1>3. v[1] * us + v[2] \in Nat
  BY <1>1, <1>2
<1>. QED
  BY <1>2, <1>3 DEF Quotient

\* The speeds of the connections add up to a fraction.
LEMMA SummarySpeedType ==
  ASSUME NEW intervals \in Seq(Nat)
  PROVE  summarySpeed(intervals) \in Quotient
<1>. DEFINE L == Len(intervals)
            us(n) == Max({10, intervals[n]})
            next(v, n) == <<v[1] * us(n) + v[2], v[2] * us(n)>>
            IsSum(g, k) == \A n \in 0 .. k :
                g[n] = IF n = 0 THEN <<0, 1>> ELSE next(g[n - 1], n)
            IsFold(g) == g = [n \in 0 .. L |-> IF n = 0 THEN <<0, 1>> ELSE next(g[n - 1], n)]
            sum == CHOOSE g : IsFold(g)
<1>1. L \in Nat /\ \A n \in 1 .. L : us(n) \in Nat \ {0}
  BY MaxOfTwo
<1>2. summarySpeed(intervals) = sum[L]
  BY DEF summarySpeed
<1>. HIDE DEF L, us
<1>3. \A k \in Nat : \E g : IsSum(g, k)
  <2>. DEFINE S == {k \in Nat : \E g : IsSum(g, k)}
  <2>1. 0 \in S
    <3>. DEFINE g == [n \in {0} |-> <<0, 1>>]
    <3>1. IsSum(g, 0)
      OBVIOUS
    <3>. QED
      BY <3>1
  <2>2. ASSUME NEW k \in Nat, k \in S PROVE k + 1 \in S
    <3>1. PICK g : IsSum(g, k)
      BY <2>2
    <3>. DEFINE h == [n \in 0 .. k + 1 |-> IF n = k + 1 THEN next(g[k], k + 1) ELSE g[n]]
    <3>2. \A n \in 0 .. k : h[n] = g[n]
      OBVIOUS
    <3>3. h[k + 1] = next(h[k], k + 1)
      BY <3>2
    <3>. HIDE DEF h, next
    <3>4. ASSUME NEW n \in 0 .. k
          PROVE  h[n] = IF n = 0 THEN <<0, 1>> ELSE next(h[n - 1], n)
      <4>1. n # 0 => h[n - 1] = g[n - 1]
        BY <3>2
      <4>2. n # 0 => next(h[n - 1], n) = next(g[n - 1], n)
        BY <4>1 DEF next
      <4>3. g[n] = IF n = 0 THEN <<0, 1>> ELSE next(g[n - 1], n)
        BY <3>1
      <4>. QED
        BY <3>2, <4>2, <4>3
    <3>5. IsSum(h, k + 1)
      <4>. SUFFICES ASSUME NEW n \in 0 .. k + 1
                    PROVE  h[n] = IF n = 0 THEN <<0, 1>> ELSE next(h[n - 1], n)
        OBVIOUS
      <4>1. CASE n = k + 1
        BY <3>3, <4>1
      <4>. QED
        BY <3>4, <4>1
    <3>. HIDE DEF IsSum
    <3>. QED
      BY <3>5
  <2>3. \A k \in Nat : k \in S
    <3>. HIDE DEF S
    <3>. QED
      BY <2>1, <2>2, SetInduction
  <2>. QED
    BY <2>3
<1>4. IsFold(sum)
  <2>1. PICK g : IsSum(g, L)
    BY <1>1, <1>3
  <2>. DEFINE h == [n \in 0 .. L |-> g[n]]
  <2>2. ASSUME NEW n \in 0 .. L
        PROVE  h[n] = IF n = 0 THEN <<0, 1>> ELSE next(h[n - 1], n)
    <3>1. h[n] = g[n] /\ (n # 0 => h[n - 1] = g[n - 1])
      BY <1>1
    <3>2. n # 0 => next(h[n - 1], n) = next(g[n - 1], n)
      BY <3>1
    <3>. HIDE DEF h, next
    <3>. QED
      BY <2>1, <3>1, <3>2
  <2>3. IsFold(h)
    <3>1. h = [n \in 0 .. L |-> h[n]]
      OBVIOUS
    <3>. HIDE DEF h, next
    <3>. QED
      BY <2>2, <3>1
  <2>. HIDE DEF h, IsFold
  <2>. QED
    BY <2>3
<1>. HIDE DEF sum
<1>5. \A k \in Nat : k <= L => sum[k] \in Quotient
  <2>. DEFINE S == {k \in Nat : k <= L => sum[k] \in Quotient}
  <2>1. 0 \in S
    BY <1>1, <1>4 DEF Quotient
  <2>2. ASSUME NEW k \in Nat, k \in S PROVE k + 1 \in S
    <3>1. CASE k + 1 <= L
      <4>1. sum[k] \in Quotient /\ us(k + 1) \in Nat \ {0}
        BY <1>1, <2>2, <3>1
      <4>2. sum[k + 1] = next(sum[k], k + 1)
        BY <1>1, <1>4, <3>1
      <4>3. next(sum[k], k + 1) \in Quotient
        BY <4>1, OneMoreSpeed
      <4>. QED
        BY <4>2, <4>3
    <3>. QED
      BY <3>1, <1>1
  <2>3. \A k \in Nat : k \in S
    <3>. HIDE DEF S
    <3>. QED
      BY <2>1, <2>2, SetInduction
  <2>. QED
    BY <2>3
<1>. QED
  BY <1>1, <1>2, <1>5

\* A new connection has an interval, and waits no longer than a third of the
\* time after which a packet is sent again or than the one that was set.
LEMMA InitialInterval ==
  ASSUME NEW intervals \in Seq(Nat)
  PROVE  LET us == getUdpInitialIntervalUs(intervals)
         IN  us \in 1 .. Max({maxIntervalUs, udpInitialSendIntervalUs})
<1>. DEFINE n == Len(intervals)
            least == <<1, 4 * udpInitialSendIntervalUs>>
            sum == summarySpeed(intervals)
            speed == IF less(sum, least) THEN least ELSE sum
            q == over(<<n + 1, 1>>, speed)
            i == udpInitialSendIntervalUs
<1>1. i \in Nat \ {0} /\ maxIntervalUs \in Nat \ {0} /\ n \in Nat
  BY SettingsAssumption, MaxIntervalType
<1>2. sum \in Quotient
  BY SummarySpeedType
<1>3. speed[1] \in Nat \ {0} /\ speed[2] \in Nat \ {0}
  <2>1. sum[1] \in Nat /\ sum[2] \in Nat \ {0}
    BY <1>2 DEF Quotient
  <2>2. ~less(sum, least) => sum[1] # 0
    BY <1>1, <2>1 DEF less
  <2>. QED
    BY <1>1, <2>1, <2>2
<1>. HIDE DEF speed, n, sum, least
<1>4. q[1] \in Nat \ {0} /\ q[2] \in Nat \ {0}
  <2>1. q = <<(n + 1) * speed[2], 1 * speed[1]>>
    BY DEF over
  <2>2. (n + 1) * speed[2] \in Nat \ {0}
    BY <1>1, <1>3
  <2>. QED
    BY <1>3, <2>1, <2>2
<1>5. getUdpInitialIntervalUs(intervals)
        = IF intervals = <<>> THEN i ELSE Max({Min({ceil(q), maxIntervalUs}), i \div 2})
  BY DEF getUdpInitialIntervalUs, speed, n, sum, least
<1>. HIDE DEF q
<1>6. ceil(q) \in Nat /\ ceil(q) >= 1
  <2>1. q[1] + q[2] - 1 \in Nat /\ 1 * q[2] <= q[1] + q[2] - 1
    BY <1>4
  <2>. QED
    BY <1>4, <2>1, DivIsAbove DEF ceil
<1>. DEFINE m == Min({ceil(q), maxIntervalUs})
<1>7. m \in 1 .. maxIntervalUs
  BY <1>1, <1>6, MinOfTwo
<1>8. i \div 2 \in Nat /\ i \div 2 <= i
  BY <1>1
<1>. HIDE DEF m
<1>9. Max({m, i \div 2}) \in 1 .. Max({maxIntervalUs, i})
  BY <1>1, <1>7, <1>8, MaxOfTwo
<1>10. i \in 1 .. Max({maxIntervalUs, i})
  BY <1>1, MaxOfTwo
<1>. QED
  BY <1>5, <1>9, <1>10 DEF m

-----------------------------------------------------------------------------
(* The interval after a measure.                                           *)

\* More was neither lost nor delivered than was sent.
Answered(m) == m \in Measure /\ m.successSize <= m.size /\ m.failSize <= m.size

\* Losses are as rare as udpMaxSendLossPercent asks for.
FewLosses(m) ==
  m.failSize = 0 \/ 100 * m.successSize > (100 - udpMaxSendLossPercent) * m.size

\* The amplifier lies between 1/2 and 2.  It is above 1 only after a measure
\* with few losses whose packets were sent as fast as they might.
LEMMA AmplifierIsBounded ==
  ASSUME NEW m, Answered(m)
  PROVE  LET a == speedAmplifier(m)
         IN  /\ a[1] \in Nat \ {0} /\ a[2] \in Nat \ {0}
             /\ a[1] <= 2 * a[2]
             /\ a[1] > a[2] => FewLosses(m) /\ ~isIdle(m)
<1>. DEFINE l == 100 - udpMaxSendLossPercent
            p == <<m.successSize * 100, m.size * l>>
            b == IF m.failSize <= 0 THEN <<2, 1>> ELSE p
            c == clamp(<<1, 2>>, <<2, 1>>)[b]
            a == speedAmplifier(m)
<1>1. m.successSize \in Nat /\ m.failSize \in Nat /\ m.size \in Nat /\ m.failSize <= m.size
  BY DEF Answered, Measure
<1>2. l \in Nat \ {0}
  BY SettingsAssumption
<1>. HIDE DEF l
<1>3. a = IF less(<<1, 1>>, b) /\ isIdle(m) THEN <<1, 1>> ELSE c
  BY DEF speedAmplifier, over, successPart, l
<1>4. b[1] \in Nat /\ b[2] \in Nat \ {0}
  <2>1. m.failSize > 0 => m.size * l \in Nat \ {0}
    BY <1>1, <1>2
  <2>. QED
    BY <1>1, <2>1
<1>5. b[1] > b[2] => FewLosses(m)
  <2>1. b[1] > b[2] /\ m.failSize # 0 => m.successSize * 100 > m.size * l
    BY <1>1
  <2>2. m.successSize * 100 = 100 * m.successSize /\ m.size * l = l * m.size
    BY <1>1, <1>2
  <2>. QED
    BY <2>1, <2>2 DEF FewLosses, l
<1>. HIDE DEF b, c, a
<1>6. b \in Fraction /\ b = <<b[1], b[2]>>
  BY <1>1, <1>2 DEF b, Fraction
<1>7. c = IF less(b, <<1, 2>>) THEN <<1, 2>> ELSE IF less(<<2, 1>>, b) THEN <<2, 1>> ELSE b
  BY <1>6 DEF c, clamp
<1>8. /\ c[1] \in Nat \ {0} /\ c[2] \in Nat \ {0} /\ c[1] <= 2 * c[2]
      /\ c[1] > c[2] => b[1] > b[2]
  BY <1>4, <1>7 DEF less
<1>9. CASE less(<<1, 1>>, b) /\ isIdle(m)
  BY <1>3, <1>9 DEF a
<1>10. CASE ~less(<<1, 1>>, b)
  <2>1. ~(b[1] > b[2])
    BY <1>4, <1>10 DEF less
  <2>. QED
    BY <1>3, <1>8, <1>10, <2>1 DEF a
<1>11. CASE ~isIdle(m)
  BY <1>3, <1>5, <1>8, <1>11 DEF a
<1>. QED
  BY <1>9, <1>10, <1>11

\* Rounding keeps the order.
LEMMA RoundIsMonotonic ==
  ASSUME NEW x \in Quotient, NEW y \in Quotient, x[1] * y[2] <= y[1] * x[2]
  PROVE  round(x) \in Nat /\ round(y) \in Nat /\ round(x) <= round(y)
<1>. DEFINE x1 == x[1]
            x2 == x[2]
            y1 == y[1]
            y2 == y[2]
<1>1. x1 \in Nat /\ x2 \in Nat \ {0} /\ y1 \in Nat /\ y2 \in Nat \ {0} /\ x1 * y2 <= y1 * x2
  BY DEF Quotient
<1>. HIDE DEF x1, x2, y1, y2
<1>2. (2 * x1 + x2) * (2 * y2) <= (2 * y1 + y2) * (2 * x2)
  BY <1>1
<1>. DEFINE p == 2 * x1 + x2
            q == 2 * x2
            r == 2 * y1 + y2
            s == 2 * y2
<1>3. p \in Nat /\ q \in Nat \ {0} /\ r \in Nat /\ s \in Nat \ {0} /\ p * s <= r * q
  BY <1>1, <1>2
<1>4. round(x) = p \div q /\ round(y) = r \div s
  BY DEF round, x1, x2, y1, y2
<1>. HIDE DEF p, q, r, s
<1>5. p \div q \in Nat /\ r \div s \in Nat
  BY <1>3
<1>6. p \div q <= r \div s
  BY <1>3, DivIsMonotonic
<1>. QED
  BY <1>4, <1>5, <1>6

\* f is a mean interval, w the same with the constant speed added: below both
\* f and the longest interval, and no less than 1/2 if f is at least 1.
LEMMA AddedSpeed ==
  ASSUME NEW f \in Quotient
  PROVE  LET w == withAddedSpeed[f]
         IN  /\ w \in Quotient
             /\ w = <<f[1] * maxIntervalUs, f[2] * maxIntervalUs + f[1]>>
             /\ w[1] <= maxIntervalUs * w[2]
             /\ f[1] >= f[2] => 2 * w[1] >= w[2]
<1>. DEFINE M == maxIntervalUs
            f1 == f[1]
            f2 == f[2]
            w == withAddedSpeed[f]
<1>1. f1 \in Nat /\ f2 \in Nat \ {0} /\ M \in Nat \ {0} /\ f \in Fraction
  BY MaxIntervalType DEF Quotient, Fraction
<1>2. w = <<f1 * M, f2 * M + f1>>
  BY <1>1 DEF withAddedSpeed
<1>. HIDE DEF M, f1, f2, w
<1>3. f1 * M \in Nat /\ f2 * M \in Nat \ {0} /\ f1 <= f1 * M
  BY <1>1
<1>4. w \in Quotient
  <2>1. f2 * M + f1 \in Nat \ {0}
    BY <1>1, <1>3
  <2>. QED
    BY <1>2, <1>3, <2>1 DEF Quotient
<1>5. f1 * M <= M * (f2 * M + f1)
  <2>1. M * (f2 * M + f1) = M * (f2 * M) + f1 * M
    BY <1>1
  <2>2. M * (f2 * M) \in Nat
    BY <1>1, <1>3
  <2>. QED
    BY <1>3, <2>1, <2>2
<1>6. f1 >= f2 => 2 * (f1 * M) >= f2 * M + f1
  <2>1. f1 >= f2 => f1 * M >= f2 * M
    BY <1>1
  <2>. QED
    BY <1>1, <1>3, <2>1
<1>7. w[1] <= M * w[2] /\ (f1 >= f2 => 2 * w[1] >= w[2])
  BY <1>2, <1>5, <1>6
<1>. QED
  BY <1>2, <1>4, <1>7 DEF M, f1, f2, w

\* After a measure the interval is at most a third of the time after which a
\* packet is sent again.  It becomes 0 only after a measure with few losses that
\* took less than 6 microseconds a packet, if its packets were to be sent a
\* microsecond apart at least.
LEMMA IntervalAfterMeasure ==
  ASSUME NEW m, Answered(m), m.count > 0
  PROVE  /\ intervalAfter(m) \in 0 .. maxIntervalUs
         /\ intervalAfter(m) = 0 /\ m.summaryIntervalUs >= m.count
              => FewLosses(m) /\ m.durationUs < 6 * m.count
         /\ ~FewLosses(m) =>
              intervalAfter(m) >= round(withAddedSpeed[<<m.summaryIntervalUs, m.count>>])
<1>. DEFINE M == maxIntervalUs
            S == m.summaryIntervalUs
            n == m.count
            a == speedAmplifier(m)
            f == <<S * a[2], n * a[1]>>
            w == withAddedSpeed[f]
            c == clamp(<<1, 10>>, <<M, 1>>)[w]
            v == withAddedSpeed[<<S, n>>]
<1>1. S \in Nat /\ n \in Nat \ {0} /\ m.durationUs \in Int /\ M \in Nat \ {0}
  BY MaxIntervalType DEF Answered, Measure
<1>2. /\ a[1] \in Nat \ {0} /\ a[2] \in Nat \ {0} /\ a[1] <= 2 * a[2]
      /\ a[1] > a[2] => FewLosses(m) /\ ~isIdle(m)
  BY AmplifierIsBounded
<1>3. intervalAfter(m) = round(c)
  BY DEF intervalAfter, over
<1>4. ~isIdle(m) => m.durationUs <= 2 * (S + n)
  BY <1>1 DEF isIdle
<1>. HIDE DEF M, S, n, a
<1>5. f \in Quotient
  <2>1. S * a[2] \in Nat /\ n * a[1] \in Nat \ {0}
    BY <1>1, <1>2
  <2>. QED
    BY <2>1 DEF Quotient
<1>6. <<S, n>> \in Quotient
  BY <1>1 DEF Quotient
<1>7. /\ w \in Quotient /\ w = <<f[1] * M, f[2] * M + f[1]>>
      /\ w[1] <= M * w[2]
      /\ f[1] >= f[2] => 2 * w[1] >= w[2]
  <2>. HIDE DEF f
  <2>. QED
    BY <1>5, AddedSpeed DEF M
<1>8. v \in Quotient /\ v = <<S * M, n * M + S>>
  <2>. DEFINE g == <<S, n>>
  <2>1. g \in Quotient /\ g[1] = S /\ g[2] = n
    BY <1>6
  <2>. HIDE DEF g
  <2>. QED
    BY <2>1, AddedSpeed DEF M, g
<1>. HIDE DEF w, v
<1>9. w[1] \in Nat /\ w[2] \in Nat \ {0} /\ v[1] \in Nat /\ v[2] \in Nat \ {0}
  BY <1>7, <1>8 DEF Quotient
<1>10. c = IF w[1] * 10 < w[2] THEN <<1, 10>> ELSE w
  <2>1. w \in Fraction
    BY <1>7 DEF Quotient, Fraction
  <2>2. ~(M * w[2] < w[1] * 1)
    BY <1>1, <1>7, <1>9
  <2>3. less(w, <<1, 10>>) <=> w[1] * 10 < w[2]
    BY <1>9 DEF less
  <2>4. ~less(<<M, 1>>, w)
    BY <2>2 DEF less
  <2>. QED
    BY <2>1, <2>3, <2>4 DEF clamp
<1>. HIDE DEF c
<1>11. c \in Quotient /\ c[1] <= M * c[2]
  <2>1. CASE w[1] * 10 < w[2]
    <3>1. c = <<1, 10>>
      BY <1>10, <2>1
    <3>. QED
      BY <1>1, <3>1 DEF Quotient
  <2>2. CASE ~(w[1] * 10 < w[2])
    BY <1>7, <1>10, <2>2
  <2>. QED
    BY <2>1, <2>2
<1>12. round(c) \in 0 .. M
  <2>. DEFINE x == c[1]
              y == c[2]
  <2>1. x \in Nat /\ y \in Nat \ {0} /\ x <= M * y
    BY <1>11 DEF Quotient
  <2>. HIDE DEF x, y
  <2>2. 2 * x + y < (M + 1) * (2 * y)
    BY <1>1, <2>1
  <2>. DEFINE p == 2 * x + y
              q == 2 * y
  <2>3. p \in Nat /\ q \in Nat \ {0} /\ p < (M + 1) * q /\ M \in Nat
    BY <1>1, <2>1, <2>2
  <2>4. round(c) = p \div q
    BY DEF round, x, y
  <2>. HIDE DEF p, q
  <2>. QED
    BY <2>3, <2>4, DivIsBelow
<1>13. ASSUME round(c) = 0, S >= n
       PROVE  FewLosses(m) /\ m.durationUs < 6 * n
  <2>1. ~(f[1] >= f[2])
    <3>1. SUFFICES ASSUME 2 * w[1] >= w[2] PROVE FALSE
      BY <1>7
    <3>2. c = w
      BY <1>9, <1>10, <3>1
    <3>. DEFINE p == 2 * w[1] + w[2]
                q == 2 * w[2]
    <3>3. p \in Nat /\ q \in Nat \ {0} /\ 1 * q <= p
      BY <1>9, <3>1
    <3>4. round(c) = p \div q
      BY <3>2 DEF round
    <3>. HIDE DEF p, q
    <3>. QED
      BY <1>13, <3>3, <3>4, DivIsAbove
  <2>2. S * a[2] < n * a[1]
    <3>1. S * a[2] \in Int /\ n * a[1] \in Int
      BY <1>1, <1>2
    <3>. QED
      BY <2>1, <3>1
  <2>3. n * a[2] <= S * a[2]
    BY <1>1, <1>2, <1>13
  <2>4. a[2] < a[1]
    <3>1. n * a[2] < n * a[1]
      BY <1>1, <1>2, <2>2, <2>3
    <3>. QED
      BY <1>1, <1>2, <3>1
  <2>5. S < 2 * n
    <3>1. n * a[1] <= n * (2 * a[2])
      BY <1>1, <1>2
    <3>2. n * (2 * a[2]) = (2 * n) * a[2]
      BY <1>1, <1>2
    <3>3. S * a[2] < (2 * n) * a[2]
      BY <1>1, <1>2, <2>2, <3>1, <3>2
    <3>. QED
      BY <1>1, <1>2, <3>3
  <2>. QED
    BY <1>1, <1>2, <1>4, <2>4, <2>5
<1>14. ASSUME ~FewLosses(m) PROVE round(c) >= round(v)
  <2>1. a[1] <= a[2]
    BY <1>2, <1>14
  <2>. DEFINE x == n * a[1]
              y == S * a[2]
  <2>2. x \in Nat /\ y \in Nat
    BY <1>1, <1>2
  <2>3. x <= n * a[2]
    BY <1>1, <1>2, <2>1
  <2>4. v[1] * w[2] <= w[1] * v[2]
    <3>1. v[1] * w[2] = (S * M) * (x * M + y) /\ w[1] * v[2] = (y * M) * (n * M + S)
      BY <1>7, <1>8
    <3>2. (S * M) * (x * M + y) <= (S * M) * ((n * a[2]) * M + y)
      <4>1. x * M <= (n * a[2]) * M
        BY <1>1, <1>2, <2>2, <2>3
      <4>2. S * M \in Nat /\ x * M + y \in Nat /\ (n * a[2]) * M + y \in Nat
        BY <1>1, <1>2, <2>2
      <4>3. x * M + y <= (n * a[2]) * M + y
        BY <1>1, <1>2, <2>2, <4>1
      <4>. DEFINE s == S * M
                  t == x * M + y
                  u == (n * a[2]) * M + y
      <4>. HIDE DEF s, t, u
      <4>4. s \in Nat /\ t \in Nat /\ u \in Nat /\ t <= u => s * t <= s * u
        OBVIOUS
      <4>. QED
        BY <4>2, <4>3, <4>4 DEF s, t, u
    <3>3. (S * M) * ((n * a[2]) * M + S * a[2]) = ((S * a[2]) * M) * (n * M + S)
      <4>. DEFINE b == a[2]
      <4>1. b \in Nat
        BY <1>2
      <4>. HIDE DEF b
      <4>2. (S * M) * ((n * b) * M + S * b) = ((S * b) * M) * (n * M + S)
        BY <1>1, <4>1
      <4>. QED
        BY <4>2 DEF b
    <3>. QED
      BY <1>9, <3>1, <3>2, <3>3
  <2>5. v[1] * c[2] <= c[1] * v[2]
    <3>1. CASE w[1] * 10 < w[2]
      <4>1. c = <<1, 10>>
        BY <1>10, <3>1
      <4>. DEFINE v1 == v[1]
                  v2 == v[2]
                  w1 == w[1]
                  w2 == w[2]
      <4>2. v1 \in Nat /\ v2 \in Nat \ {0} /\ w1 \in Nat /\ w2 \in Nat \ {0}
            /\ v1 * w2 <= w1 * v2 /\ w1 * 10 < w2
        BY <1>9, <2>4, <3>1
      <4>. HIDE DEF v1, v2, w1, w2
      <4>3. (w1 * 10) * v2 < w2 * v2
        BY <4>2
      <4>4. (v1 * 10) * w2 <= (w1 * 10) * v2
        BY <4>2
      <4>5. (v1 * 10) * w2 < v2 * w2
        BY <4>2, <4>3, <4>4
      <4>6. v1 * 10 < v2
        BY <4>2, <4>5
      <4>. QED
        BY <4>1, <4>2, <4>6 DEF v1, v2
    <3>. QED
      BY <1>10, <2>4, <3>1
  <2>. HIDE DEF x, y
  <2>. QED
    BY <1>8, <1>11, <2>5, RoundIsMonotonic
<1>. QED
  BY <1>3, <1>12, <1>13, <1>14 DEF M, S, n, v

-----------------------------------------------------------------------------
(* Sums over the packets of a connection.                                  *)

Packets == 0 .. MaxPackets - 1

\* The sizes w[0], w[1], ... of all packets add up to t.  The partial sums are
\* bound by a quantifier, which makes one change of w a change of each of them.
Adds(w, t) ==
  \E P \in [0 .. MaxPackets -> Nat] :
    /\ P[0] = 0 /\ P[MaxPackets] = t
    /\ \A k \in Packets : P[k + 1] = P[k] + w[k]
    /\ \A j, k \in 0 .. MaxPackets : j <= k => P[j] <= P[k]

\* The bound on the packets is a number.
LEMMA MaxPacketsType == MaxPackets \in Nat \ {0}
  BY InputsAssumption

\* Weights of 0 add up to 0.
LEMMA AddsNothing ==
  ASSUME NEW w, \A k \in Packets : w[k] = 0
  PROVE  Adds(w, 0)
<1>. DEFINE P == [k \in 0 .. MaxPackets |-> 0]
<1>1. P \in [0 .. MaxPackets -> Nat] /\ P[0] = 0 /\ P[MaxPackets] = 0
  BY MaxPacketsType
<1>2. \A k \in Packets : P[k + 1] = P[k] + w[k]
  BY MaxPacketsType DEF Packets
<1>3. \A j, k \in 0 .. MaxPackets : j <= k => P[j] <= P[k]
  OBVIOUS
<1>. HIDE DEF P
<1>. QED
  BY <1>1, <1>2, <1>3 DEF Adds

\* No packet is larger than all together.
LEMMA AddsEach ==
  ASSUME NEW w \in [Packets -> Nat], NEW t, Adds(w, t), NEW k \in Packets
  PROVE  t \in Nat /\ w[k] <= t
<1>1. PICK P \in [0 .. MaxPackets -> Nat] :
        /\ P[0] = 0 /\ P[MaxPackets] = t
        /\ \A j \in Packets : P[j + 1] = P[j] + w[j]
        /\ \A i, j \in 0 .. MaxPackets : i <= j => P[i] <= P[j]
  BY DEF Adds
<1>2. k \in 0 .. MaxPackets /\ k + 1 \in 0 .. MaxPackets /\ MaxPackets \in 0 .. MaxPackets
  BY MaxPacketsType DEF Packets
<1>3. P[k + 1] = P[k] + w[k] /\ P[k + 1] <= P[MaxPackets]
  BY <1>1, <1>2, MaxPacketsType
<1>4. P[k] \in Nat /\ t \in Nat
  BY <1>1, <1>2
<1>. QED
  BY <1>1, <1>3, <1>4

\* One packet more or less.
LEMMA AddsChange ==
  ASSUME NEW w \in [Packets -> Nat], NEW t, Adds(w, t), NEW k \in Packets,
         NEW v \in [Packets -> Nat], \A j \in Packets : j # k => v[j] = w[j]
  PROVE  t - w[k] + v[k] \in Nat /\ Adds(v, t - w[k] + v[k])
<1>1. PICK P \in [0 .. MaxPackets -> Nat] :
        /\ P[0] = 0 /\ P[MaxPackets] = t
        /\ \A j \in Packets : P[j + 1] = P[j] + w[j]
        /\ \A i, j \in 0 .. MaxPackets : i <= j => P[i] <= P[j]
  BY DEF Adds
<1>. DEFINE a == w[k]
            b == v[k]
            Q == [j \in 0 .. MaxPackets |-> IF j <= k THEN P[j] ELSE P[j] - a + b]
<1>2. a \in Nat /\ b \in Nat /\ k \in Nat /\ k + 1 \in 0 .. MaxPackets /\ k \in 0 .. MaxPackets
      /\ MaxPackets \in Nat /\ k < MaxPackets
  BY MaxPacketsType DEF Packets
<1>3. P[k + 1] = P[k] + a
  BY <1>1
<1>. HIDE DEF a, b
<1>4. ASSUME NEW j \in 0 .. MaxPackets, j > k
      PROVE  P[j] >= P[k] + a /\ P[j] \in Nat
  <2>1. P[k + 1] <= P[j]
    BY <1>1, <1>2, <1>4
  <2>. QED
    BY <1>1, <1>2, <1>3, <2>1
<1>5. Q \in [0 .. MaxPackets -> Nat]
  <2>1. ASSUME NEW j \in 0 .. MaxPackets
        PROVE  (IF j <= k THEN P[j] ELSE P[j] - a + b) \in Nat
    <3>1. P[j] \in Nat /\ P[k] \in Nat
      BY <1>1, <1>2
    <3>. QED
      BY <1>2, <1>4, <3>1
  <2>. QED
    BY <2>1
<1>6. Q[0] = 0 /\ Q[MaxPackets] = t - a + b
  BY <1>1, <1>2
<1>7. ASSUME NEW j \in Packets PROVE Q[j + 1] = Q[j] + v[j]
  <2>1. /\ j \in 0 .. MaxPackets /\ j + 1 \in 0 .. MaxPackets /\ j \in Nat
        /\ P[j + 1] = P[j] + w[j] /\ P[j] \in Nat /\ P[j + 1] \in Nat
    BY <1>1, <1>2 DEF Packets
  <2>2. CASE j = k
    BY <1>2, <1>3, <2>1, <2>2 DEF b
  <2>3. CASE j # k
    <3>1. v[j] = w[j] /\ (j + 1 <= k <=> j <= k)
      BY <1>2, <2>1, <2>3
    <3>2. w[j] = P[j + 1] - P[j]
      <4>1. w[j] \in Int
        OBVIOUS
      <4>. QED
        BY <2>1, <4>1
    <3>. QED
      BY <1>2, <2>1, <3>1, <3>2
  <2>. QED
    BY <2>2, <2>3
<1>8. ASSUME NEW i \in 0 .. MaxPackets, NEW j \in 0 .. MaxPackets, i <= j
      PROVE  Q[i] <= Q[j]
  <2>1. P[i] \in Nat /\ P[j] \in Nat /\ P[k] \in Nat /\ P[i] <= P[j]
    BY <1>1, <1>2, <1>8
  <2>2. i <= k => P[i] <= P[k]
    BY <1>1, <1>2
  <2>3. CASE j <= k
    BY <1>2, <1>8, <2>1, <2>3
  <2>4. CASE j > k /\ i <= k
    BY <1>2, <1>4, <2>1, <2>2, <2>4
  <2>5. CASE i > k
    BY <1>2, <1>8, <2>1, <2>5
  <2>. QED
    BY <1>2, <2>3, <2>4, <2>5
<1>. HIDE DEF Q
<1>9. Q[MaxPackets] \in Nat
  BY <1>2, <1>5
<1>. QED
  BY <1>5, <1>6, <1>7, <1>8, <1>9 DEF Adds, a, b

-----------------------------------------------------------------------------
(* The account of a measure: what its packets, its successes and its       *)
(* losses add up to.                                                       *)

Packet == [size : Nat, sent : BOOLEAN, remainResendCount : Nat, measureIndex : Nat]

PacketsOf(sp) == DOMAIN sp \subseteq Packets /\ \A k \in DOMAIN sp : sp[k] \in Packet

\* The size of packet k if it belongs to measure i and is not confirmed ...
unconfirmed(sp, i) ==
  [k \in Packets |->
     IF k \in DOMAIN sp /\ sp[k].measureIndex = i THEN sp[k].size ELSE 0]

\* ... nor counted as lost.
unanswered(sp, i) ==
  [k \in Packets |->
     IF k \in DOMAIN sp /\ sp[k].measureIndex = i /\ sp[k].sent THEN sp[k].size ELSE 0]

\* Measure m with index i, when sp are the packets and the measures in both have
\* had a packet that was lost and delivered.
Account(m, i, sp, both) ==
  /\ m \in Measure
  /\ \E t, u \in Nat :
       /\ Adds(unconfirmed(sp, i), t) /\ Adds(unanswered(sp, i), u)
       /\ m.successSize + t <= m.size
       /\ m.failSize + u <= m.size
       /\ i \notin both => m.successSize + m.failSize + u = m.size

\* The weights of the packets are numbers.
LEMMA WeightsType ==
  ASSUME NEW sp, PacketsOf(sp), NEW i
  PROVE  unconfirmed(sp, i) \in [Packets -> Nat] /\ unanswered(sp, i) \in [Packets -> Nat]
<1>1. \A k \in DOMAIN sp : sp[k].size \in Nat
  BY DEF PacketsOf, Packet
<1>. QED
  BY <1>1 DEF unconfirmed, unanswered

\* A measure whose first packet is to be sent yet.
LEMMA AccountOfNew ==
  ASSUME NEW sp, NEW i, \A k \in DOMAIN sp : sp[k].measureIndex # i, NEW both
  PROVE  Account(newMeasure, i, sp, both)
<1>. DEFINE v == unconfirmed(sp, i)
            w == unanswered(sp, i)
<1>1. (\A k \in Packets : v[k] = 0) /\ (\A k \in Packets : w[k] = 0)
  BY DEF unconfirmed, unanswered
<1>2. newMeasure \in Measure
  BY DEF newMeasure, Measure
<1>. HIDE DEF v, w
<1>3. Adds(v, 0) /\ Adds(w, 0)
  BY <1>1, AddsNothing
<1>. QED
  BY <1>2, <1>3 DEF Account, newMeasure, v, w

\* What a measure has been answered was sent, and when it is answered all of it
\* no packet with payload is missing.
LEMMA AccountIsAnswered ==
  ASSUME NEW m, NEW i, NEW sp, NEW both, Account(m, i, sp, both), PacketsOf(sp)
  PROVE  /\ Answered(m)
         /\ i \notin both /\ m.successSize + m.failSize >= m.size =>
              \A k \in DOMAIN sp :
                sp[k].sent /\ sp[k].measureIndex = i => sp[k].size = 0
<1>1. PICK t \in Nat, u \in Nat :
        /\ Adds(unanswered(sp, i), u)
        /\ m.successSize + t <= m.size
        /\ m.failSize + u <= m.size
        /\ i \notin both => m.successSize + m.failSize + u = m.size
  BY DEF Account
<1>2. m \in Measure /\ m.successSize \in Nat /\ m.failSize \in Nat /\ m.size \in Nat
  BY DEF Account, Measure
<1>3. ASSUME i \notin both, m.successSize + m.failSize >= m.size,
             NEW k \in DOMAIN sp, sp[k].sent, sp[k].measureIndex = i
      PROVE  sp[k].size = 0
  <2>. DEFINE w == unanswered(sp, i)
  <2>1. k \in Packets /\ w[k] = sp[k].size /\ w[k] \in Nat
    BY <1>3 DEF PacketsOf, Packet, unanswered
  <2>2. w \in [Packets -> Nat] /\ Adds(w, u)
    BY <1>1, WeightsType
  <2>. HIDE DEF w
  <2>3. w[k] <= u
    BY <2>1, <2>2, AddsEach
  <2>. QED
    BY <1>1, <1>2, <1>3, <2>1, <2>3
<1>. QED
  BY <1>1, <1>2, <1>3 DEF Answered

\* One packet changes, with the measure.
LEMMA AccountChange ==
  ASSUME NEW m, NEW i, NEW sp, NEW both, Account(m, i, sp, both), PacketsOf(sp),
         NEW n \in Measure, NEW sq, NEW more, PacketsOf(sq), both \subseteq more,
         NEW k \in Packets,
         \A j \in Packets \ {k} :
           (j \in DOMAIN sp <=> j \in DOMAIN sq) /\ (j \in DOMAIN sp => sp[j] = sq[j]),
         n.successSize + unconfirmed(sq, i)[k] + m.size
           <= m.successSize + unconfirmed(sp, i)[k] + n.size,
         n.failSize + unanswered(sq, i)[k] + m.size
           <= m.failSize + unanswered(sp, i)[k] + n.size,
         i \notin more =>
           n.successSize + n.failSize + unanswered(sq, i)[k] + m.size
             = m.successSize + m.failSize + unanswered(sp, i)[k] + n.size
  PROVE  Account(n, i, sq, more)
<1>. DEFINE v1 == unconfirmed(sp, i)
            v2 == unconfirmed(sq, i)
            w1 == unanswered(sp, i)
            w2 == unanswered(sq, i)
<1>1. PICK t \in Nat, u \in Nat :
        /\ Adds(v1, t) /\ Adds(w1, u)
        /\ m.successSize + t <= m.size
        /\ m.failSize + u <= m.size
        /\ i \notin both => m.successSize + m.failSize + u = m.size
  BY DEF Account
<1>2. /\ v1 \in [Packets -> Nat] /\ v2 \in [Packets -> Nat]
      /\ w1 \in [Packets -> Nat] /\ w2 \in [Packets -> Nat]
  BY WeightsType
<1>3. \A j \in Packets : j # k => v2[j] = v1[j] /\ w2[j] = w1[j]
  BY DEF unconfirmed, unanswered
<1>4. /\ m.successSize \in Nat /\ m.failSize \in Nat /\ m.size \in Nat
      /\ n.successSize \in Nat /\ n.failSize \in Nat /\ n.size \in Nat
  BY DEF Account, Measure
<1>5. /\ n.successSize + v2[k] + m.size <= m.successSize + v1[k] + n.size
      /\ n.failSize + w2[k] + m.size <= m.failSize + w1[k] + n.size
      /\ i \notin more => n.successSize + n.failSize + w2[k] + m.size
                            = m.successSize + m.failSize + w1[k] + n.size
  OBVIOUS
<1>. HIDE DEF v1, v2, w1, w2
<1>6. t - v1[k] + v2[k] \in Nat /\ Adds(v2, t - v1[k] + v2[k])
  BY <1>1, <1>2, <1>3, AddsChange
<1>7. u - w1[k] + w2[k] \in Nat /\ Adds(w2, u - w1[k] + w2[k])
  BY <1>1, <1>2, <1>3, AddsChange
<1>. DEFINE t2 == t - v1[k] + v2[k]
            u2 == u - w1[k] + w2[k]
<1>8. v1[k] \in Nat /\ v2[k] \in Nat /\ w1[k] \in Nat /\ w2[k] \in Nat
  BY <1>2
<1>9. n.successSize + t2 <= n.size
  BY <1>1, <1>4, <1>5, <1>8
<1>10. n.failSize + u2 <= n.size
  BY <1>1, <1>4, <1>5, <1>8
<1>11. ASSUME i \notin more PROVE n.successSize + n.failSize + u2 = n.size
  <2>1. i \notin both
    BY <1>11
  <2>2. m.successSize + m.failSize + u = m.size
    BY <1>1, <2>1
  <2>3. n.successSize + n.failSize + w2[k] + m.size
          = m.successSize + m.failSize + w1[k] + n.size
    BY <1>5, <1>11
  <2>. DEFINE a == m.successSize
              b == m.failSize
              c == m.size
              d == n.successSize
              e == n.failSize
              f == n.size
              x == w2[k]
              y == w1[k]
  <2>4. /\ a \in Nat /\ b \in Nat /\ c \in Nat /\ d \in Nat /\ e \in Nat /\ f \in Nat
        /\ x \in Nat /\ y \in Nat
        /\ a + b + u = c /\ d + e + x + c = a + b + y + f
    BY <1>4, <1>8, <2>2, <2>3
  <2>. HIDE DEF a, b, c, d, e, f, x, y
  <2>5. d + e + (u - y + x) = f
    BY <2>4
  <2>. QED
    BY <2>5 DEF d, e, f, x, y
<1>. HIDE DEF t2, u2
<1>12. t2 \in Nat /\ u2 \in Nat /\ Adds(v2, t2) /\ Adds(w2, u2)
  BY <1>6, <1>7 DEF t2, u2
<1>13. \E x, y \in Nat :
        /\ Adds(v2, x) /\ Adds(w2, y)
        /\ n.successSize + x <= n.size
        /\ n.failSize + y <= n.size
        /\ i \notin more => n.successSize + n.failSize + y = n.size
  BY <1>9, <1>10, <1>11, <1>12
<1>. QED
  BY <1>13 DEF Account, v2, w2

-----------------------------------------------------------------------------
(* The invariant.                                                          *)

Evaluation == [index : Nat, measure : Measure, interval : Nat]

Types ==
  /\ TypeOK
  /\ udpSendMeasureIndex \in Nat
  /\ DOMAIN udpSendMeasures \subseteq 0 .. udpSendMeasureIndex
  /\ DOMAIN udpSentPackets \subseteq 0 .. udpNextSendIndex - 1
  /\ evaluations \in Seq(Evaluation)

\* The account of every measure, as long as the packets are there.
Accounts ==
  \A i \in DOMAIN udpSendMeasures :
    /\ Answered(udpSendMeasures[i])
    /\ udpConnected => Account(udpSendMeasures[i], i, udpSentPackets, twice)

\* A measure that may still be evaluated is after all that have been.
Order ==
  /\ EvaluatedInOrder
  /\ \A k \in 1 .. Len(evaluations) : \A i \in DOMAIN udpSendMeasures :
       evaluations[k].index < i

Evaluated ==
  \A k \in 1 .. Len(evaluations) :
    LET m == evaluations[k].measure
    IN  Answered(m) /\ m.count > 0 /\ evaluations[k].interval = intervalAfter(m)

IsFast(m) == FewLosses(m) /\ m.durationUs < 6 * m.count

\* Until a fast measure is evaluated packets are sent a microsecond apart at least.
Fast ==
  \/ \E k \in 1 .. Len(evaluations) : IsFast(evaluations[k].measure)
  \/ /\ udpSendIntervalUs >= 1
     /\ \A i \in DOMAIN udpSendMeasures :
          udpSendMeasures[i].summaryIntervalUs >= udpSendMeasures[i].count

IInv == Types /\ Accounts /\ Order /\ Evaluated /\ EvaluatedIsAnswered /\ Fast

\* The packets in the send buffer have their types.
LEMMA PacketTypes ==
  ASSUME Types
  PROVE  /\ PacketsOf(udpSentPackets)
         /\ \A k \in DOMAIN udpSentPackets :
              udpSentPackets[k].measureIndex \in 0 .. udpSendMeasureIndex
<1>1. udpNextSendIndex \in 0 .. MaxPackets /\ MaxPackets \in Nat
  BY MaxPacketsType DEF Types, TypeOK
<1>2. DOMAIN udpSentPackets \subseteq Packets
  BY <1>1 DEF Types, Packets
<1>3. ASSUME NEW k \in DOMAIN udpSentPackets
      PROVE  /\ udpSentPackets[k] \in Packet
             /\ udpSentPackets[k].measureIndex \in 0 .. udpSendMeasureIndex
  <2>1. udpSentPackets[k] \in [size : Nat, sent : BOOLEAN, remainResendCount : Nat,
                               measureIndex : 0 .. udpSendMeasureIndex]
    BY DEF Types, TypeOK
  <2>. QED
    BY <2>1 DEF Packet, Types
<1>. QED
  BY <1>2, <1>3 DEF PacketsOf

\* A new connection has one empty measure and the initial interval.
LEMMA InitKeeps == Init => IInv
<1>. SUFFICES ASSUME Init PROVE IInv
  OBVIOUS
<1>. USE DEF Init
<1>1. others \in Seq(Nat)
  BY InputsAssumption
<1>2. udpSendIntervalUs \in 1 .. Max({maxIntervalUs, udpInitialSendIntervalUs})
  BY <1>1, InitialInterval
<1>3. udpSendIntervalUs \in 0 .. Max({maxIntervalUs, udpInitialSendIntervalUs})
      /\ udpSendIntervalUs >= 1
  <2>1. Max({maxIntervalUs, udpInitialSendIntervalUs}) \in Int
    BY MaxIntervalType, SettingsAssumption, MaxOfTwo
  <2>. QED
    BY <1>2, <2>1
<1>4. newMeasure \in Measure /\ newMeasure.ended = FALSE /\ Answered(newMeasure)
      /\ newMeasure.summaryIntervalUs >= newMeasure.count
  BY DEF newMeasure, Measure, Answered
<1>5. DOMAIN udpSendMeasures = {0} /\ udpSendMeasures[0] = newMeasure
      /\ DOMAIN udpSentPackets = {} /\ Len(evaluations) = 0
  BY DEF noPackets
<1>6. Types
  BY <1>3, <1>4, <1>5, MaxPacketsType DEF Types, TypeOK
<1>7. Account(newMeasure, 0, udpSentPackets, twice)
  BY <1>5, AccountOfNew
<1>8. Accounts
  BY <1>4, <1>5, <1>7 DEF Accounts
<1>. QED
  BY <1>3, <1>4, <1>5, <1>6, <1>8
  DEF IInv, Order, EvaluatedInOrder, Evaluated, EvaluatedIsAnswered, Fast

-----------------------------------------------------------------------------
(* A packet is sent.                                                       *)

\* What udpWrite sends: a packet that waits, or a new one.
LEMMA NextPackets ==
  ASSUME Types, NEW n \in nextPackets
  PROVE  LET k == n[1]
             p == n[2]
         IN  /\ k \in Packets /\ p \in Packet /\ p.sent = FALSE
             /\ \/ k \in DOMAIN udpSentPackets /\ udpSentPackets[k] = p
                \/ k = udpNextSendIndex /\ k \notin DOMAIN udpSentPackets
<1>1. udpNextSendIndex \in 0 .. MaxPackets /\ MaxPackets \in Nat \ {0}
      /\ DOMAIN udpSentPackets \subseteq 0 .. udpNextSendIndex - 1
      /\ PacketsOf(udpSentPackets)
  BY MaxPacketsType, PacketTypes DEF Types, TypeOK
<1>2. waiting \subseteq DOMAIN udpSentPackets
  BY DEF waiting
<1>3. CASE waiting # {}
  <2>1. waiting \in SUBSET Nat
    BY <1>1, <1>2
  <2>2. \E x \in waiting : \A y \in waiting : x <= y
    BY <1>3, <2>1, LeastNumber
  <2>3. Min(waiting) \in waiting
    BY <2>2 DEF Min
  <2>4. n = <<Min(waiting), udpSentPackets[Min(waiting)]>>
    BY <1>3, <2>3 DEF nextPackets
  <2>5. udpSentPackets[Min(waiting)] \in Packet /\ udpSentPackets[Min(waiting)].sent = FALSE
        /\ Min(waiting) \in Packets
    <3>1. udpSentPackets[Min(waiting)] \in Packet /\ ~udpSentPackets[Min(waiting)].sent
      BY <1>1, <1>2, <2>3 DEF PacketsOf, waiting
    <3>. QED
      BY <1>1, <1>2, <2>3, <3>1 DEF Packet, PacketsOf
  <2>. QED
    BY <1>2, <2>3, <2>4, <2>5
<1>4. CASE waiting = {}
  <2>. DEFINE i == udpNextSendIndex
              P(size) == [size |-> size, sent |-> FALSE, measureIndex |-> 0,
                          remainResendCount |-> udpResendCount]
  <2>1. n \in {<<i, P(size)>> :
                 size \in IF i = 0 THEN {0} ELSE IF i < MaxPackets THEN Sizes ELSE {}}
    BY <1>4 DEF nextPackets
  <2>2. PICK size \in IF i = 0 THEN {0} ELSE IF i < MaxPackets THEN Sizes ELSE {} :
          n = <<i, P(size)>>
    BY <2>1
  <2>3. size \in Nat /\ i \in Nat /\ i < MaxPackets
    BY <1>1, <2>2, InputsAssumption
  <2>4. P(size) \in Packet /\ P(size).sent = FALSE
    BY <2>3, SettingsAssumption DEF Packet
  <2>5. i \in Packets /\ i \notin DOMAIN udpSentPackets
    BY <1>1, <2>3 DEF Packets
  <2>. QED
    BY <2>2, <2>4, <2>5
<1>. QED
  BY <1>3, <1>4

\* onUdpSent counts a packet for the current measure, and if the measure ends
\* begins the next one.
LEMMA Sent ==
  ASSUME Types, NEW size \in Nat, NEW delay \in Int, onUdpSent(size, delay)
  PROVE  LET i == udpSendMeasureIndex
             o == udpSendMeasures[i]
             m == sentIn(o, size, delay)
         IN  /\ o \in Measure /\ m \in Measure /\ (m.ended <=> udpSendMeasureIndex' = i + 1)
             /\ m.successSize = o.successSize /\ m.failSize = o.failSize
             /\ m.size = o.size + size /\ m.count = o.count + 1
             /\ m.summaryIntervalUs = o.summaryIntervalUs + udpSendIntervalUs
             /\ udpSendMeasureIndex' \in {i, i + 1}
             /\ DOMAIN udpSendMeasures' = DOMAIN udpSendMeasures \cup {udpSendMeasureIndex'}
             /\ udpSendMeasures'[i] = m
             /\ udpSendMeasureIndex' = i + 1 => udpSendMeasures'[i + 1] = newMeasure
             /\ \A j \in DOMAIN udpSendMeasures : j # i =>
                  j < i /\ udpSendMeasures'[j] = udpSendMeasures[j]
<1>. DEFINE i == udpSendMeasureIndex
            o == udpSendMeasures[i]
            m == sentIn(o, size, delay)
<1>1. i \in Nat /\ i \in DOMAIN udpSendMeasures /\ o \in Measure
      /\ DOMAIN udpSendMeasures \subseteq 0 .. i /\ udpSendIntervalUs \in Nat
  BY MaxIntervalType, SettingsAssumption, MaxOfTwo DEF Types, TypeOK
<1>2. /\ m \in Measure /\ m.successSize = o.successSize /\ m.failSize = o.failSize
      /\ m.size = o.size + size /\ m.count = o.count + 1
      /\ m.summaryIntervalUs = o.summaryIntervalUs + udpSendIntervalUs
      /\ m.ended \in BOOLEAN
  <2>. DEFINE us == o.durationUs + delay
              a == o.count + 1
              b == o.size + size
              c == o.summaryIntervalUs + udpSendIntervalUs
              n == [o EXCEPT !.count = @ + 1, !.size = @ + size,
                             !.summaryIntervalUs = @ + udpSendIntervalUs,
                             !.durationUs = @ + delay]
              e == n.size >= udpMaxSentMeasureSize \/ n.durationUs >= udpMaxSentMeasureUs
  <2>1. us \in Int /\ a \in Nat /\ b \in Nat /\ c \in Nat
    BY <1>1 DEF Measure
  <2>2. /\ n \in Measure /\ n.successSize = o.successSize /\ n.failSize = o.failSize
        /\ n.size = b /\ n.count = a /\ n.summaryIntervalUs = c
    <3>1. n = [o EXCEPT !.count = a, !.size = b, !.summaryIntervalUs = c, !.durationUs = us]
      OBVIOUS
    <3>. HIDE DEF a, b, c, us, n, o
    <3>. QED
      BY <1>1, <2>1, <3>1 DEF Measure
  <2>3. e \in BOOLEAN /\ m = [n EXCEPT !.ended = e]
    BY DEF sentIn
  <2>. HIDE DEF n, e, m
  <2>. QED
    BY <2>2, <2>3 DEF Measure
<1>3. onUdpSent(size, delay) <=>
        IF m.ended
        THEN /\ udpSendMeasureIndex' = i + 1
             /\ udpSendMeasures' = [j \in DOMAIN udpSendMeasures \cup {i + 1} |->
                  IF j = i THEN m ELSE IF j = i + 1 THEN newMeasure ELSE udpSendMeasures[j]]
        ELSE /\ udpSendMeasures' = [udpSendMeasures EXCEPT ![i] = m]
             /\ UNCHANGED udpSendMeasureIndex
  BY <1>1 DEF onUdpSent
<1>4. \A j \in DOMAIN udpSendMeasures : j # i => j < i /\ j # i + 1
  BY <1>1
<1>. HIDE DEF m
<1>5. CASE m.ended
  <2>1. /\ udpSendMeasureIndex' = i + 1
        /\ udpSendMeasures' = [j \in DOMAIN udpSendMeasures \cup {i + 1} |->
             IF j = i THEN m ELSE IF j = i + 1 THEN newMeasure ELSE udpSendMeasures[j]]
    BY <1>3, <1>5
  <2>2. i # i + 1
    BY <1>1
  <2>3. /\ DOMAIN udpSendMeasures' = DOMAIN udpSendMeasures \cup {i + 1}
        /\ udpSendMeasures'[i] = m /\ udpSendMeasures'[i + 1] = newMeasure
        /\ \A j \in DOMAIN udpSendMeasures : j # i =>
             j < i /\ udpSendMeasures'[j] = udpSendMeasures[j]
    BY <1>1, <1>4, <2>1, <2>2
  <2>. QED
    BY <1>1, <1>2, <1>5, <2>1, <2>3 DEF m
<1>6. CASE ~m.ended
  <2>1. /\ udpSendMeasures' = [udpSendMeasures EXCEPT ![i] = m]
        /\ udpSendMeasureIndex' = i
    BY <1>3, <1>6
  <2>2. /\ DOMAIN udpSendMeasures' = DOMAIN udpSendMeasures \cup {i}
        /\ udpSendMeasures'[i] = m
        /\ \A j \in DOMAIN udpSendMeasures : j # i =>
             j < i /\ udpSendMeasures'[j] = udpSendMeasures[j]
    BY <1>1, <1>4, <2>1
  <2>3. udpSendMeasureIndex' # i + 1
    BY <1>1, <2>1
  <2>. QED
    BY <1>1, <1>2, <1>6, <2>1, <2>2, <2>3 DEF m
<1>. QED
  BY <1>5, <1>6

\* udpWrite counts a packet for the current measure, in onUdpSent, and the packet
\* belongs to that measure from then on.
LEMMA WriteKeeps ==
  ASSUME IInv, NEW n \in nextPackets, NEW delay \in Delays, UdpWrite(n[1], n[2], delay)
  PROVE  IInv'
<1>. DEFINE k == n[1]
            p == n[2]
            i == udpSendMeasureIndex
            o == udpSendMeasures[i]
            m == sentIn(o, p.size, delay)
            q == [p EXCEPT !.sent = TRUE, !.measureIndex = i]
            sp == udpSentPackets
            sq == udpSentPackets'
<1>1. Types /\ Accounts /\ Order /\ Evaluated /\ EvaluatedIsAnswered /\ Fast
  BY DEF IInv
<1>2. /\ k \in Packets /\ p \in Packet /\ p.sent = FALSE
      /\ (k \in DOMAIN sp /\ sp[k] = p) \/ (k = udpNextSendIndex /\ k \notin DOMAIN sp)
  BY <1>1, NextPackets
<1>3. /\ onUdpSent(p.size, delay) /\ udpConnected
      /\ sq = [j \in DOMAIN sp \cup {k} |-> IF j = k THEN q ELSE sp[j]]
      /\ udpNextSendIndex' = Max({udpNextSendIndex, k + 1})
      /\ udpConnected' = udpConnected /\ udpSendIntervalUs' = udpSendIntervalUs
      /\ others' = others /\ evaluations' = evaluations /\ twice' = twice
  BY DEF UdpWrite, measureOfSent
<1>4. p.size \in Nat /\ delay \in Int /\ i \in Nat /\ i \in DOMAIN udpSendMeasures
      /\ DOMAIN udpSendMeasures \subseteq 0 .. i
  BY <1>1, <1>2, InputsAssumption DEF Packet, Types, TypeOK
<1>5. /\ o \in Measure /\ m \in Measure /\ (m.ended <=> udpSendMeasureIndex' = i + 1)
      /\ m.successSize = o.successSize /\ m.failSize = o.failSize
      /\ m.size = o.size + p.size /\ m.count = o.count + 1
      /\ m.summaryIntervalUs = o.summaryIntervalUs + udpSendIntervalUs
      /\ udpSendMeasureIndex' \in {i, i + 1}
      /\ DOMAIN udpSendMeasures' = DOMAIN udpSendMeasures \cup {udpSendMeasureIndex'}
      /\ udpSendMeasures'[i] = m
      /\ udpSendMeasureIndex' = i + 1 => udpSendMeasures'[i + 1] = newMeasure
      /\ \A j \in DOMAIN udpSendMeasures : j # i =>
           j < i /\ udpSendMeasures'[j] = udpSendMeasures[j]
  BY <1>1, <1>3, <1>4, Sent
<1>6. q \in Packet /\ q.sent = TRUE /\ q.measureIndex = i /\ q.size = p.size
  BY <1>2, <1>4 DEF Packet
<1>7. /\ PacketsOf(sp)
      /\ \A j \in DOMAIN sp : sp[j] \in Packet /\ sp[j].measureIndex \in 0 .. i
  BY <1>1, PacketTypes DEF PacketsOf
<1>. HIDE DEF k, p, q, m
<1>8. DOMAIN sq = DOMAIN sp \cup {k} /\ sq[k] = q /\ \A j \in DOMAIN sp \ {k} : sq[j] = sp[j]
  BY <1>3
<1>9. PacketsOf(sq) /\ \A j \in DOMAIN sq : sq[j].measureIndex \in 0 .. i
  BY <1>2, <1>4, <1>6, <1>7, <1>8 DEF PacketsOf
<1>10. ASSUME NEW j \in DOMAIN udpSendMeasures'
       PROVE  \/ j = i /\ udpSendMeasures'[j] = m
              \/ j \in DOMAIN udpSendMeasures /\ j < i
                 /\ udpSendMeasures'[j] = udpSendMeasures[j]
              \/ j = i + 1 /\ udpSendMeasureIndex' = i + 1
                 /\ udpSendMeasures'[j] = newMeasure
  BY <1>5
<1>11. newMeasure \in Measure /\ newMeasure.ended = FALSE
       /\ newMeasure.summaryIntervalUs >= newMeasure.count
  BY DEF newMeasure, Measure
<1>12. Types'
  <2>1. udpSendMeasureIndex' \in Nat /\ udpSendMeasureIndex' \in DOMAIN udpSendMeasures'
        /\ DOMAIN udpSendMeasures' \subseteq 0 .. udpSendMeasureIndex'
    BY <1>4, <1>5
  <2>2. ASSUME NEW j \in DOMAIN udpSendMeasures'
        PROVE  /\ udpSendMeasures'[j] \in Measure
               /\ udpSendMeasures'[j].ended <=> j # udpSendMeasureIndex'
    <3>1. CASE j = i /\ udpSendMeasures'[j] = m
      BY <1>4, <1>5, <3>1
    <3>2. CASE j \in DOMAIN udpSendMeasures /\ j < i
               /\ udpSendMeasures'[j] = udpSendMeasures[j]
      <4>1. udpSendMeasures[j] \in Measure /\ (udpSendMeasures[j].ended <=> j # i)
        BY <1>1, <3>2 DEF Types, TypeOK
      <4>2. j # i /\ j # i + 1
        BY <1>4, <3>2
      <4>. QED
        BY <1>5, <3>2, <4>1, <4>2
    <3>3. CASE j = i + 1 /\ udpSendMeasureIndex' = i + 1
               /\ udpSendMeasures'[j] = newMeasure
      BY <1>11, <3>3
    <3>. QED
      BY <1>10, <3>1, <3>2, <3>3
  <2>3. ASSUME NEW j \in DOMAIN sq
        PROVE  sq[j] \in [size : Nat, sent : BOOLEAN, remainResendCount : Nat,
                          measureIndex : 0 .. udpSendMeasureIndex']
    <3>1. sq[j] \in Packet /\ sq[j].measureIndex \in 0 .. i
      BY <1>9 DEF PacketsOf
    <3>2. sq[j].measureIndex \in 0 .. udpSendMeasureIndex'
      BY <1>4, <1>5, <3>1
    <3>. QED
      BY <3>1, <3>2 DEF Packet
  <2>4. /\ udpNextSendIndex' \in 0 .. MaxPackets
        /\ DOMAIN sq \subseteq 0 .. udpNextSendIndex' - 1
    <3>1. udpNextSendIndex \in 0 .. MaxPackets /\ MaxPackets \in Nat /\ k \in Nat
          /\ k < MaxPackets /\ DOMAIN sp \subseteq 0 .. udpNextSendIndex - 1
      BY <1>1, <1>2, MaxPacketsType DEF Types, TypeOK, Packets
    <3>2. udpNextSendIndex' = IF udpNextSendIndex >= k + 1 THEN udpNextSendIndex ELSE k + 1
      BY <1>3, <3>1, MaxOfTwo
    <3>3. udpNextSendIndex' \in 0 .. MaxPackets /\ k < udpNextSendIndex'
          /\ udpNextSendIndex <= udpNextSendIndex'
      BY <3>1, <3>2
    <3>4. ASSUME NEW j \in DOMAIN sq PROVE j \in 0 .. udpNextSendIndex' - 1
      <4>1. j = k \/ j \in 0 .. udpNextSendIndex - 1
        BY <1>8, <3>1
      <4>. QED
        BY <3>1, <3>3, <4>1
    <3>. QED
      BY <3>3, <3>4
  <2>5. /\ udpConnected' \in BOOLEAN /\ others' \in Others
        /\ udpSendIntervalUs' \in 0 .. Max({maxIntervalUs, udpInitialSendIntervalUs})
        /\ evaluations' \in Seq(Evaluation) /\ twice \subseteq 0 .. i
    BY <1>1, <1>3 DEF Types, TypeOK
  <2>6. twice' \subseteq 0 .. udpSendMeasureIndex'
    BY <1>3, <1>4, <1>5, <2>5
  <2>. QED
    BY <2>1, <2>2, <2>3, <2>4, <2>5, <2>6 DEF Types, TypeOK
<1>13. Accounts'
  <2>1. ASSUME NEW j \in DOMAIN udpSendMeasures'
        PROVE  Account(udpSendMeasures'[j], j, sq, twice)
    <3>1. \A h \in Packets \ {k} :
            (h \in DOMAIN sp <=> h \in DOMAIN sq) /\ (h \in DOMAIN sp => sp[h] = sq[h])
      BY <1>8
    <3>2. CASE j = i /\ udpSendMeasures'[j] = m
      <4>1. unconfirmed(sq, i)[k] = p.size /\ unanswered(sq, i)[k] = p.size
        BY <1>2, <1>6, <1>8 DEF unconfirmed, unanswered
      <4>2. unconfirmed(sp, i)[k] \in Nat /\ unanswered(sp, i)[k] = 0
        BY <1>2, <1>4 DEF unconfirmed, unanswered
      <4>3. Account(o, i, sp, twice)
        BY <1>1, <1>3, <1>4 DEF Accounts
      <4>4. o.successSize \in Nat /\ o.failSize \in Nat /\ o.size \in Nat
        BY <1>5 DEF Measure
      <4>. DEFINE a == unconfirmed(sp, i)[k]
                  b == unconfirmed(sq, i)[k]
                  c == unanswered(sp, i)[k]
                  d == unanswered(sq, i)[k]
      <4>5. /\ m.successSize + b + o.size <= o.successSize + a + m.size
            /\ m.failSize + d + o.size <= o.failSize + c + m.size
            /\ m.successSize + m.failSize + d + o.size
                 = o.successSize + o.failSize + c + m.size
        <5>. HIDE DEF a, b, c, d, o
        <5>1. a \in Nat /\ b = p.size /\ c = 0 /\ d = p.size
          BY <4>1, <4>2 DEF a, b, c, d
        <5>. QED
          BY <1>4, <1>5, <4>4, <5>1
      <4>. HIDE DEF o
      <4>6. Account(m, i, sq, twice)
        BY <1>2, <1>5, <1>7, <1>9, <3>1, <4>3, <4>5, AccountChange
      <4>. QED
        BY <3>2, <4>6
    <3>3. CASE j \in DOMAIN udpSendMeasures /\ j < i
               /\ udpSendMeasures'[j] = udpSendMeasures[j]
      <4>. DEFINE l == udpSendMeasures[j]
                  a == unconfirmed(sp, j)[k]
                  b == unconfirmed(sq, j)[k]
                  c == unanswered(sp, j)[k]
                  d == unanswered(sq, j)[k]
      <4>1. i # j
        BY <1>4, <3>3
      <4>2. a \in Nat /\ b = 0 /\ c = 0 /\ d = 0
        BY <1>2, <1>4, <1>6, <1>8, <4>1 DEF unconfirmed, unanswered
      <4>3. l \in Measure /\ Account(l, j, sp, twice)
        BY <1>1, <1>3, <3>3 DEF Accounts, Account
      <4>4. l.successSize \in Nat /\ l.failSize \in Nat /\ l.size \in Nat
        BY <4>3 DEF Measure
      <4>5. /\ l.successSize + b + l.size <= l.successSize + a + l.size
            /\ l.failSize + d + l.size <= l.failSize + c + l.size
            /\ l.successSize + l.failSize + d + l.size
                 = l.successSize + l.failSize + c + l.size
        <5>. HIDE DEF a, b, c, d, l
        <5>. QED
          BY <4>2, <4>4
      <4>. HIDE DEF l
      <4>6. Account(l, j, sq, twice)
        BY <1>2, <1>7, <1>9, <3>1, <4>3, <4>5, AccountChange
      <4>. QED
        BY <3>3, <4>6 DEF l
    <3>4. CASE j = i + 1 /\ udpSendMeasureIndex' = i + 1
               /\ udpSendMeasures'[j] = newMeasure
      <4>1. \A h \in DOMAIN sq : sq[h].measureIndex # j
        BY <1>4, <1>9, <3>4
      <4>. QED
        BY <3>4, <4>1, AccountOfNew
    <3>. QED
      BY <1>10, <3>2, <3>3, <3>4
  <2>. QED
    BY <1>3, <1>9, <2>1, AccountIsAnswered DEF Accounts
<1>14. \A l \in 1 .. Len(evaluations) : evaluations[l].index \in Nat /\ evaluations[l].index < i
  <2>1. evaluations \in Seq(Evaluation)
    BY <1>1 DEF Types
  <2>2. ASSUME NEW l \in 1 .. Len(evaluations)
        PROVE  evaluations[l].index \in Nat /\ evaluations[l].index < i
    <3>1. evaluations[l] \in Evaluation
      BY <2>1
    <3>. QED
      BY <1>1, <1>4, <3>1 DEF Evaluation, Order
  <2>. QED
    BY <2>2
<1>15. Order'
  <2>1. ASSUME NEW l \in 1 .. Len(evaluations), NEW j \in DOMAIN udpSendMeasures'
        PROVE  evaluations[l].index < j
    <3>1. j \in DOMAIN udpSendMeasures => evaluations[l].index < j
      BY <1>1 DEF Order
    <3>. QED
      BY <1>4, <1>10, <1>14, <3>1
  <2>. QED
    BY <1>1, <1>3, <2>1 DEF Order, EvaluatedInOrder
<1>16. Evaluated'
  BY <1>1, <1>3 DEF Evaluated
<1>17. EvaluatedIsAnswered'
  <2>1. ASSUME NEW l \in 1 .. Len(evaluations), evaluations[l].index \notin twice,
               NEW j \in DOMAIN sq, sq[j].sent, sq[j].measureIndex = evaluations[l].index
        PROVE  sq[j].size = 0
    <3>1. j # k
      BY <1>4, <1>6, <1>8, <1>14, <2>1
    <3>2. j \in DOMAIN sp /\ sq[j] = sp[j]
      BY <1>8, <3>1
    <3>3. j \in sentPackets
      BY <2>1, <3>2 DEF sentPackets, waiting
    <3>. QED
      BY <1>1, <2>1, <3>2, <3>3 DEF EvaluatedIsAnswered
  <2>. QED
    BY <1>3, <2>1 DEF EvaluatedIsAnswered, sentPackets, waiting
<1>18. Fast'
  <2>1. CASE \E l \in 1 .. Len(evaluations) : IsFast(evaluations[l].measure)
    BY <1>3, <2>1 DEF Fast
  <2>2. CASE /\ udpSendIntervalUs >= 1
             /\ \A j \in DOMAIN udpSendMeasures :
                  udpSendMeasures[j].summaryIntervalUs >= udpSendMeasures[j].count
    <3>1. udpSendIntervalUs \in Nat
      BY <1>1, MaxIntervalType, SettingsAssumption, MaxOfTwo DEF Types, TypeOK
    <3>2. m.summaryIntervalUs >= m.count
      <4>1. o.summaryIntervalUs >= o.count
        BY <1>4, <2>2
      <4>2. o.summaryIntervalUs \in Nat /\ o.count \in Nat
        BY <1>5 DEF Measure
      <4>. HIDE DEF o
      <4>. QED
        BY <1>5, <2>2, <3>1, <4>1, <4>2
    <3>3. \A j \in DOMAIN udpSendMeasures' :
            udpSendMeasures'[j].summaryIntervalUs >= udpSendMeasures'[j].count
      BY <1>10, <1>11, <2>2, <3>2
    <3>. QED
      BY <1>3, <2>2, <3>3 DEF Fast
  <2>. QED
    BY <1>1, <2>1, <2>2 DEF Fast
<1>. QED
  BY <1>12, <1>13, <1>15, <1>16, <1>17, <1>18 DEF IInv

-----------------------------------------------------------------------------
(* A packet is delivered or lost.                                          *)

\* Measure j after packet p of it or of another one.
counted(success, p, j) ==
  IF j # p.measureIndex THEN udpSendMeasures[j]
  ELSE IF success THEN [udpSendMeasures[j] EXCEPT !.successSize = @ + p.size]
  ELSE [udpSendMeasures[j] EXCEPT !.failSize = @ + p.size]

\* An answer adds the size of its packet to one of the two sums of the measure.
LEMMA CountedType ==
  ASSUME Types, NEW success \in BOOLEAN, NEW p \in Packet, NEW j \in DOMAIN udpSendMeasures
  PROVE  LET o == udpSendMeasures[j]
             m == counted(success, p, j)
         IN  /\ o \in Measure /\ m \in Measure
             /\ m.size = o.size /\ m.count = o.count /\ m.ended = o.ended
             /\ m.summaryIntervalUs = o.summaryIntervalUs
             /\ m.successSize = IF success /\ j = p.measureIndex
                                THEN o.successSize + p.size ELSE o.successSize
             /\ m.failSize = IF ~success /\ j = p.measureIndex
                             THEN o.failSize + p.size ELSE o.failSize
<1>. DEFINE o == udpSendMeasures[j]
            s == o.successSize + p.size
            f == o.failSize + p.size
<1>1. o \in Measure /\ p.size \in Nat
  BY DEF Types, TypeOK, Packet
<1>2. s \in Nat /\ f \in Nat
  BY <1>1 DEF Measure
<1>3. counted(success, p, j) = IF j # p.measureIndex THEN o
                               ELSE IF success THEN [o EXCEPT !.successSize = s]
                               ELSE [o EXCEPT !.failSize = f]
  BY DEF counted
<1>. HIDE DEF o, s, f
<1>4. CASE j # p.measureIndex
  BY <1>1, <1>3, <1>4 DEF o
<1>5. CASE j = p.measureIndex /\ success
  <2>1. counted(success, p, j) = [o EXCEPT !.successSize = s]
    BY <1>3, <1>5
  <2>. QED
    BY <1>1, <1>2, <1>5, <2>1 DEF Measure, o, s
<1>6. CASE j = p.measureIndex /\ ~success
  <2>1. counted(success, p, j) = [o EXCEPT !.failSize = f]
    BY <1>3, <1>6
  <2>. QED
    BY <1>1, <1>2, <1>6, <2>1 DEF Measure, o, f
<1>. QED
  BY <1>4, <1>5, <1>6

\* onUdpDelivered counts the packet, and if that completes its measure lets the
\* measure set the interval and drops it with all before it.
LEMMA Delivered ==
  ASSUME Types, NEW success \in BOOLEAN, NEW p \in Packet, onUdpDelivered(success, p)
  PROVE  LET i == p.measureIndex
             m == counted(success, p, i)
         IN  /\ udpSendMeasureIndex \in DOMAIN udpSendMeasures'
             /\ DOMAIN udpSendMeasures' \subseteq DOMAIN udpSendMeasures
             /\ \A j \in DOMAIN udpSendMeasures' :
                  udpSendMeasures'[j] = counted(success, p, j)
             /\ \/ udpSendIntervalUs' = udpSendIntervalUs /\ evaluations' = evaluations
                \/ /\ i \in DOMAIN udpSendMeasures /\ isComplete(m)
                   /\ udpSendIntervalUs' = intervalAfter(m)
                   /\ evaluations' = Append(evaluations,
                        [index |-> i, measure |-> m, interval |-> intervalAfter(m)])
                   /\ \A j \in DOMAIN udpSendMeasures' : j > i
<1>. DEFINE i == p.measureIndex
            m == counted(success, p, i)
            s == udpSendMeasureIndex
<1>1. /\ s \in Nat /\ s \in DOMAIN udpSendMeasures
      /\ DOMAIN udpSendMeasures \subseteq 0 .. s
      /\ \A j \in DOMAIN udpSendMeasures : udpSendMeasures[j].ended <=> j # s
  BY DEF Types, TypeOK
<1>2. i \in Nat
  BY DEF Packet
<1>3. onUdpDelivered(success, p) <=>
        IF i \in DOMAIN udpSendMeasures /\ isComplete(m)
        THEN /\ udpSendIntervalUs' = intervalAfter(m)
             /\ udpSendMeasures' = [j \in measuresAfter(i) |-> udpSendMeasures[j]]
             /\ evaluations' = Append(evaluations,
                  [index |-> i, measure |-> m, interval |-> udpSendIntervalUs'])
        ELSE /\ udpSendMeasures' = IF i \in DOMAIN udpSendMeasures
                  THEN [udpSendMeasures EXCEPT ![i] = m] ELSE udpSendMeasures
             /\ udpSendIntervalUs' = udpSendIntervalUs /\ evaluations' = evaluations
  BY DEF onUdpDelivered, counted
<1>4. CASE i \in DOMAIN udpSendMeasures /\ isComplete(m)
  <2>1. /\ udpSendIntervalUs' = intervalAfter(m)
        /\ udpSendMeasures' = [j \in measuresAfter(i) |-> udpSendMeasures[j]]
        /\ evaluations' = Append(evaluations,
             [index |-> i, measure |-> m, interval |-> intervalAfter(m)])
    BY <1>3, <1>4
  <2>2. /\ DOMAIN udpSendMeasures' = {j \in DOMAIN udpSendMeasures : j > i}
        /\ \A j \in DOMAIN udpSendMeasures' : udpSendMeasures'[j] = udpSendMeasures[j]
    BY <2>1 DEF measuresAfter
  <2>3. i < s
    <3>1. udpSendMeasures[i].ended
      <4>1. m.ended /\ m.ended = udpSendMeasures[i].ended
        BY <1>4, CountedType DEF isComplete
      <4>. QED
        BY <4>1
    <3>2. i # s /\ i \in 0 .. s
      BY <1>1, <1>4, <3>1
    <3>. QED
      BY <1>1, <3>2
  <2>4. \A j \in DOMAIN udpSendMeasures' :
          j > i /\ udpSendMeasures'[j] = counted(success, p, j)
    <3>1. ASSUME NEW j \in DOMAIN udpSendMeasures' PROVE j > i /\ j # i
      <4>1. j \in DOMAIN udpSendMeasures /\ j > i
        BY <2>2
      <4>2. j \in Nat
        BY <1>1, <4>1
      <4>. QED
        BY <1>2, <4>1, <4>2
    <3>. QED
      BY <2>2, <3>1 DEF counted
  <2>. QED
    BY <1>1, <1>4, <2>1, <2>2, <2>3, <2>4
<1>5. CASE ~(i \in DOMAIN udpSendMeasures /\ isComplete(m))
  <2>1. /\ udpSendMeasures' = IF i \in DOMAIN udpSendMeasures
             THEN [udpSendMeasures EXCEPT ![i] = m] ELSE udpSendMeasures
        /\ udpSendIntervalUs' = udpSendIntervalUs /\ evaluations' = evaluations
    BY <1>3, <1>5
  <2>2. \A j : j # i => counted(success, p, j) = udpSendMeasures[j]
    BY DEF counted
  <2>. HIDE DEF m
  <2>3. DOMAIN udpSendMeasures' = DOMAIN udpSendMeasures
    BY <2>1
  <2>4. ASSUME NEW j \in DOMAIN udpSendMeasures
        PROVE  udpSendMeasures'[j] = counted(success, p, j)
    BY <2>1, <2>2 DEF m
  <2>. QED
    BY <1>1, <2>1, <2>3, <2>4
<1>. QED
  BY <1>4, <1>5

\* onUdpDelivered, with a packet that leaves those without an answer.
LEMMA DeliveredKeeps ==
  ASSUME IInv, udpConnected, NEW success \in BOOLEAN, NEW k \in DOMAIN udpSentPackets,
         onUdpDelivered(success, udpSentPackets[k]),
         UNCHANGED <<udpConnected, udpSendMeasureIndex, udpNextSendIndex, others>>,
         twice \subseteq twice', twice' \subseteq 0 .. udpSendMeasureIndex,
         DOMAIN udpSentPackets' \subseteq DOMAIN udpSentPackets,
         \A j \in DOMAIN udpSentPackets' : j # k => udpSentPackets'[j] = udpSentPackets[j],
         k \in DOMAIN udpSentPackets' =>
           /\ udpSentPackets'[k] \in Packet
           /\ udpSentPackets'[k].sent = FALSE
           /\ udpSentPackets'[k].measureIndex = udpSentPackets[k].measureIndex,
         \A j \in DOMAIN udpSendMeasures :
           Account(counted(success, udpSentPackets[k], j), j, udpSentPackets', twice')
  PROVE  IInv'
<1>. DEFINE p == udpSentPackets[k]
            i == p.measureIndex
            m == counted(success, p, i)
            n == Len(evaluations)
            sp == udpSentPackets
            sq == udpSentPackets'
            e == [index |-> i, measure |-> m, interval |-> intervalAfter(m)]
<1>1. Types /\ Accounts /\ Order /\ Evaluated /\ EvaluatedIsAnswered /\ Fast
  BY DEF IInv
<1>2. PacketsOf(sp) /\ p \in Packet /\ \A j \in DOMAIN sp :
        sp[j] \in Packet /\ sp[j].measureIndex \in 0 .. udpSendMeasureIndex
  BY <1>1, PacketTypes DEF PacketsOf
<1>3. /\ udpSendMeasureIndex \in DOMAIN udpSendMeasures'
      /\ DOMAIN udpSendMeasures' \subseteq DOMAIN udpSendMeasures
      /\ \A j \in DOMAIN udpSendMeasures' : udpSendMeasures'[j] = counted(success, p, j)
      /\ \/ udpSendIntervalUs' = udpSendIntervalUs /\ evaluations' = evaluations
         \/ /\ i \in DOMAIN udpSendMeasures /\ isComplete(m)
            /\ udpSendIntervalUs' = intervalAfter(m)
            /\ evaluations' = Append(evaluations, e)
            /\ \A j \in DOMAIN udpSendMeasures' : j > i
  BY <1>1, <1>2, Delivered
<1>4. \A j \in DOMAIN sq :
        sq[j] \in Packet /\ sq[j].measureIndex \in 0 .. udpSendMeasureIndex
  BY <1>2
<1>5. PacketsOf(sq)
  BY <1>2, <1>4 DEF PacketsOf
<1>6. ASSUME NEW j \in DOMAIN udpSendMeasures
      PROVE  /\ counted(success, p, j) \in Measure /\ Answered(counted(success, p, j))
             /\ counted(success, p, j).ended <=> j # udpSendMeasureIndex
             /\ counted(success, p, j).count = udpSendMeasures[j].count
             /\ counted(success, p, j).summaryIntervalUs = udpSendMeasures[j].summaryIntervalUs
  <2>1. Account(counted(success, p, j), j, sq, twice')
    OBVIOUS
  <2>2. Answered(counted(success, p, j))
    BY <1>5, <2>1, AccountIsAnswered
  <2>3. udpSendMeasures[j].ended <=> j # udpSendMeasureIndex
    BY <1>1 DEF Types, TypeOK
  <2>. QED
    BY <1>1, <1>2, <2>2, <2>3, CountedType
<1>7. n \in Nat /\ evaluations \in Seq(Evaluation) /\ i \in Nat
      /\ \A l \in 1 .. n : evaluations[l] \in Evaluation /\ evaluations[l].index \in Nat
  <2>1. n \in Nat /\ evaluations \in Seq(Evaluation) /\ i \in Nat
    BY <1>1, <1>2 DEF Types, Packet
  <2>2. ASSUME NEW l \in 1 .. n
        PROVE  evaluations[l] \in Evaluation /\ evaluations[l].index \in Nat
    <3>1. evaluations[l] \in Evaluation
      BY <2>1
    <3>. QED
      BY <3>1 DEF Evaluation
  <2>. QED
    BY <2>1, <2>2
<1>. HIDE DEF m, i
<1>8. CASE udpSendIntervalUs' = udpSendIntervalUs /\ evaluations' = evaluations
  <2>1. Types'
    BY <1>1, <1>3, <1>4, <1>6, <1>8 DEF Types, TypeOK, Packet
  <2>2. Accounts'
    BY <1>3, <1>6 DEF Accounts
  <2>3. Order' /\ Evaluated'
    BY <1>1, <1>3, <1>8 DEF Order, EvaluatedInOrder, Evaluated
  <2>4. EvaluatedIsAnswered'
    <3>1. ASSUME NEW l \in 1 .. n, evaluations[l].index \notin twice',
                 NEW j \in DOMAIN sq, sq[j].sent, sq[j].measureIndex = evaluations[l].index
          PROVE  sq[j].size = 0
      <4>1. j \in DOMAIN sp /\ sq[j] = sp[j] /\ evaluations[l].index \notin twice
        BY <3>1
      <4>. QED
        BY <1>1, <3>1, <4>1 DEF EvaluatedIsAnswered, sentPackets, waiting
    <3>. QED
      BY <1>8, <3>1 DEF EvaluatedIsAnswered, sentPackets, waiting
  <2>5. Fast'
    <3>1. CASE \E l \in 1 .. n : IsFast(evaluations[l].measure)
      BY <1>8, <3>1 DEF Fast
    <3>2. CASE /\ udpSendIntervalUs >= 1
               /\ \A j \in DOMAIN udpSendMeasures :
                    udpSendMeasures[j].summaryIntervalUs >= udpSendMeasures[j].count
      <4>1. \A j \in DOMAIN udpSendMeasures' :
              udpSendMeasures'[j].summaryIntervalUs >= udpSendMeasures'[j].count
        BY <1>3, <1>6, <3>2
      <4>. QED
        BY <1>8, <3>2, <4>1 DEF Fast
    <3>. QED
      BY <1>1, <3>1, <3>2 DEF Fast
  <2>. QED
    BY <2>1, <2>2, <2>3, <2>4, <2>5 DEF IInv
<1>9. CASE /\ i \in DOMAIN udpSendMeasures /\ isComplete(m)
           /\ udpSendIntervalUs' = intervalAfter(m)
           /\ evaluations' = Append(evaluations, e)
           /\ \A j \in DOMAIN udpSendMeasures' : j > i
  <2>1. /\ m \in Measure /\ Answered(m) /\ m.count > 0
        /\ m.successSize + m.failSize >= m.size
        /\ Account(m, i, sq, twice')
    BY <1>6, <1>9 DEF m, isComplete
  <2>2. /\ intervalAfter(m) \in 0 .. maxIntervalUs
        /\ intervalAfter(m) = 0 /\ m.summaryIntervalUs >= m.count => IsFast(m)
    BY <2>1, IntervalAfterMeasure DEF IsFast
  <2>3. e \in Evaluation /\ e.index = i /\ e.measure = m /\ e.interval = intervalAfter(m)
    BY <1>7, <2>1, <2>2, MaxIntervalType DEF Evaluation
  <2>. HIDE DEF e
  <2>4. /\ Len(evaluations') = n + 1 /\ evaluations'[n + 1] = e
        /\ \A l \in 1 .. n : evaluations'[l] = evaluations[l]
        /\ evaluations' \in Seq(Evaluation)
    BY <1>7, <1>9, <2>3
  <2>5. Types'
    <3>1. udpSendIntervalUs' \in 0 .. Max({maxIntervalUs, udpInitialSendIntervalUs})
      BY <1>9, <2>2, MaxIntervalType, SettingsAssumption, MaxOfTwo
    <3>. QED
      BY <1>1, <1>3, <1>4, <1>6, <2>4, <3>1 DEF Types, TypeOK, Packet
  <2>6. Accounts'
    BY <1>3, <1>6 DEF Accounts
  <2>7. \A l \in 1 .. n : evaluations[l].index < i
    BY <1>1, <1>9 DEF Order
  <2>8. Order'
    <3>1. ASSUME NEW l \in 1 .. n + 1, NEW j \in DOMAIN udpSendMeasures'
          PROVE  evaluations'[l].index < j
      <4>1. CASE l = n + 1
        BY <1>9, <2>3, <2>4, <4>1
      <4>2. CASE l \in 1 .. n
        BY <1>1, <1>3, <2>4, <4>2 DEF Order
      <4>. QED
        BY <1>7, <4>1, <4>2
    <3>2. ASSUME NEW l \in 1 .. n
          PROVE  evaluations'[l].index < evaluations'[l + 1].index
      <4>1. CASE l = n
        BY <1>7, <2>3, <2>4, <2>7, <4>1
      <4>2. CASE l # n
        <5>1. l \in 1 .. n - 1 /\ l + 1 \in 1 .. n
          BY <1>7, <4>2
        <5>. QED
          BY <1>1, <2>4, <5>1 DEF Order, EvaluatedInOrder
      <4>. QED
        BY <4>1, <4>2
    <3>3. Len(evaluations') - 1 = n
      BY <1>7, <2>4
    <3>. QED
      BY <2>4, <3>1, <3>2, <3>3 DEF Order, EvaluatedInOrder
  <2>9. Evaluated'
    <3>1. ASSUME NEW l \in 1 .. n + 1
          PROVE  /\ Answered(evaluations'[l].measure) /\ evaluations'[l].measure.count > 0
                 /\ evaluations'[l].interval = intervalAfter(evaluations'[l].measure)
      <4>1. CASE l = n + 1
        BY <2>1, <2>3, <2>4, <4>1
      <4>2. CASE l \in 1 .. n
        BY <1>1, <2>4, <4>2 DEF Evaluated
      <4>. QED
        BY <1>7, <4>1, <4>2
    <3>. QED
      BY <2>4, <3>1 DEF Evaluated
  <2>10. EvaluatedIsAnswered'
    <3>1. ASSUME NEW l \in 1 .. n + 1, evaluations'[l].index \notin twice',
                 NEW j \in DOMAIN sq, sq[j].sent, sq[j].measureIndex = evaluations'[l].index
          PROVE  sq[j].size = 0
      <4>1. CASE l = n + 1
        BY <1>5, <2>1, <2>3, <2>4, <3>1, <4>1, AccountIsAnswered
      <4>2. CASE l \in 1 .. n
        <5>1. j \in DOMAIN sp /\ sq[j] = sp[j] /\ evaluations[l].index \notin twice
              /\ sq[j].measureIndex = evaluations[l].index
          BY <2>4, <3>1, <4>2
        <5>. QED
          BY <1>1, <3>1, <4>2, <5>1 DEF EvaluatedIsAnswered, sentPackets, waiting
      <4>. QED
        BY <1>7, <4>1, <4>2
    <3>. QED
      BY <2>4, <3>1 DEF EvaluatedIsAnswered, sentPackets, waiting
  <2>11. Fast'
    <3>1. CASE \E l \in 1 .. n : IsFast(evaluations[l].measure)
      <4>1. PICK l \in 1 .. n : IsFast(evaluations[l].measure)
        BY <3>1
      <4>2. l \in 1 .. Len(evaluations') /\ IsFast(evaluations'[l].measure)
        BY <1>7, <2>4, <4>1
      <4>. QED
        BY <4>2 DEF Fast
    <3>2. CASE /\ udpSendIntervalUs >= 1
               /\ \A j \in DOMAIN udpSendMeasures :
                    udpSendMeasures[j].summaryIntervalUs >= udpSendMeasures[j].count
      <4>1. m.summaryIntervalUs >= m.count
        BY <1>6, <1>9, <3>2 DEF m
      <4>2. \A j \in DOMAIN udpSendMeasures' :
              udpSendMeasures'[j].summaryIntervalUs >= udpSendMeasures'[j].count
        BY <1>3, <1>6, <3>2
      <4>3. CASE intervalAfter(m) = 0
        <5>1. n + 1 \in 1 .. Len(evaluations') /\ IsFast(evaluations'[n + 1].measure)
          BY <1>7, <2>2, <2>3, <2>4, <4>1, <4>3
        <5>. QED
          BY <5>1 DEF Fast
      <4>4. CASE intervalAfter(m) # 0
        <5>1. udpSendIntervalUs' >= 1
          BY <1>9, <2>2, <4>4, MaxIntervalType
        <5>. QED
          BY <4>2, <5>1 DEF Fast
      <4>. QED
        BY <4>3, <4>4
    <3>. QED
      BY <1>1, <3>1, <3>2 DEF Fast
  <2>. QED
    BY <2>5, <2>6, <2>8, <2>9, <2>10, <2>11 DEF IInv
<1>. QED
  BY <1>3, <1>8, <1>9

\* udpResend takes an expired packet for lost, or gives the peer up.
LEMMA ResendKeeps ==
  ASSUME IInv, NEW k \in sentPackets, UdpResend(k)
  PROVE  IInv'
<1>. DEFINE p == udpSentPackets[k]
            sp == udpSentPackets
            sq == udpSentPackets'
            r == p.remainResendCount - 1
            q == [p EXCEPT !.sent = FALSE, !.remainResendCount = r]
<1>1. Types /\ Accounts /\ Order /\ Evaluated /\ EvaluatedIsAnswered /\ Fast
  BY DEF IInv
<1>2. k \in DOMAIN sp /\ p.sent
  BY DEF sentPackets, waiting
<1>3. PacketsOf(sp) /\ p \in Packet /\ k \in Packets
      /\ p.measureIndex \in 0 .. udpSendMeasureIndex /\ p.size \in Nat
  BY <1>1, <1>2, PacketTypes DEF PacketsOf, Packet
<1>4. /\ udpConnected /\ udpSendMeasureIndex' = udpSendMeasureIndex
      /\ udpNextSendIndex' = udpNextSendIndex /\ others' = others /\ twice' = twice
  BY DEF UdpResend
<1>5. CASE p.remainResendCount > 0
  <2>1. /\ onUdpDelivered(FALSE, p) /\ udpConnected' = udpConnected
        /\ sq = [sp EXCEPT ![k].sent = FALSE, ![k].remainResendCount = @ - 1]
    BY <1>5 DEF UdpResend
  <2>2. sq = [sp EXCEPT ![k] = q]
    BY <1>2, <2>1
  <2>3. /\ q \in Packet /\ q.sent = FALSE
        /\ q.measureIndex = p.measureIndex /\ q.size = p.size
    <3>1. r \in Nat
      BY <1>3, <1>5 DEF Packet
    <3>. HIDE DEF p, r
    <3>. QED
      BY <1>3, <3>1 DEF Packet
  <2>. HIDE DEF q
  <2>4. DOMAIN sq = DOMAIN sp /\ sq[k] = q /\ \A j \in DOMAIN sp : j # k => sq[j] = sp[j]
    BY <1>2, <2>2
  <2>5. PacketsOf(sq)
    BY <1>3, <2>3, <2>4 DEF PacketsOf
  <2>6. ASSUME NEW j \in DOMAIN udpSendMeasures
        PROVE  Account(counted(FALSE, p, j), j, sq, twice)
    <3>. DEFINE o == udpSendMeasures[j]
                m == counted(FALSE, p, j)
                a == unconfirmed(sp, j)[k]
                b == unconfirmed(sq, j)[k]
                c == unanswered(sp, j)[k]
                d == unanswered(sq, j)[k]
    <3>1. /\ o \in Measure /\ m \in Measure /\ m.size = o.size
          /\ m.successSize = o.successSize
          /\ m.failSize = IF j = p.measureIndex THEN o.failSize + p.size ELSE o.failSize
      BY <1>1, <1>3, CountedType
    <3>2. /\ a = b /\ d = 0 /\ a \in Nat
          /\ c = IF j = p.measureIndex THEN p.size ELSE 0
      <4>. HIDE DEF p
      <4>1. p = sp[k]
        BY DEF p
      <4>. QED
        BY <1>2, <1>3, <2>3, <2>4, <4>1 DEF unconfirmed, unanswered
    <3>3. o.successSize \in Nat /\ o.failSize \in Nat /\ o.size \in Nat
      BY <3>1 DEF Measure
    <3>4. /\ m.successSize + b + o.size <= o.successSize + a + m.size
          /\ m.failSize + d + o.size <= o.failSize + c + m.size
          /\ m.successSize + m.failSize + d + o.size
               = o.successSize + o.failSize + c + m.size
      <4>. HIDE DEF a, b, c, d, o, m, p
      <4>1. CASE j = p.measureIndex
        BY <1>3, <3>1, <3>2, <3>3, <4>1
      <4>2. CASE j # p.measureIndex
        BY <1>3, <3>1, <3>2, <3>3, <4>2
      <4>. QED
        BY <4>1, <4>2
    <3>5. Account(o, j, sp, twice)
      BY <1>1, <1>4 DEF Accounts
    <3>6. \A h \in Packets \ {k} :
            (h \in DOMAIN sp <=> h \in DOMAIN sq) /\ (h \in DOMAIN sp => sp[h] = sq[h])
      BY <2>4
    <3>. HIDE DEF o, m
    <3>7. Account(m, j, sq, twice)
      BY <1>3, <2>5, <3>1, <3>4, <3>5, <3>6, AccountChange
    <3>. QED
      BY <3>7 DEF m
  <2>7. twice \subseteq 0 .. udpSendMeasureIndex
    BY <1>1 DEF Types, TypeOK
  <2>. QED
    BY <1>2, <1>4, <2>1, <2>3, <2>4, <2>6, <2>7, DeliveredKeeps
<1>6. CASE ~(p.remainResendCount > 0)
  <2>1. /\ udpConnected' = FALSE /\ DOMAIN sq = {} /\ udpSendIntervalUs' = udpSendIntervalUs
        /\ udpSendMeasures' = udpSendMeasures /\ evaluations' = evaluations
    BY <1>6 DEF UdpResend, noPackets
  <2>2. Types'
    BY <1>1, <1>4, <2>1 DEF Types, TypeOK
  <2>3. Accounts' /\ Order' /\ Evaluated' /\ Fast'
    BY <1>1, <2>1 DEF Accounts, Order, EvaluatedInOrder, Evaluated, Fast
  <2>4. EvaluatedIsAnswered'
    BY <2>1 DEF EvaluatedIsAnswered, sentPackets
  <2>. QED
    BY <2>2, <2>3, <2>4 DEF IInv
<1>. QED
  BY <1>5, <1>6

\* udpRead takes a confirmed packet for delivered and erases it.
LEMMA ConfirmationKeeps ==
  ASSUME IInv, NEW k \in DOMAIN udpSentPackets, UdpReadConfirmation(k)
  PROVE  IInv'
<1>. DEFINE p == udpSentPackets[k]
            sp == udpSentPackets
            sq == udpSentPackets'
<1>1. Types /\ Accounts /\ Order /\ Evaluated /\ EvaluatedIsAnswered /\ Fast
  BY DEF IInv
<1>2. PacketsOf(sp) /\ p \in Packet /\ k \in Packets
      /\ p.measureIndex \in 0 .. udpSendMeasureIndex /\ p.size \in Nat
      /\ p.sent \in BOOLEAN
  BY <1>1, PacketTypes DEF PacketsOf, Packet
<1>3. /\ udpConnected /\ onUdpDelivered(TRUE, p)
      /\ sq = [j \in DOMAIN sp \ {k} |-> sp[j]]
      /\ twice' = twice \cup {sp[j].measureIndex : j \in {k} \cap waiting}
      /\ udpConnected' = udpConnected /\ udpSendMeasureIndex' = udpSendMeasureIndex
      /\ udpNextSendIndex' = udpNextSendIndex /\ others' = others
  BY DEF UdpReadConfirmation
<1>4. /\ DOMAIN sq = DOMAIN sp \ {k} /\ k \notin DOMAIN sq
      /\ \A j \in DOMAIN sq : sq[j] = sp[j]
  BY <1>3
<1>5. PacketsOf(sq)
  BY <1>2, <1>4 DEF PacketsOf
<1>6. twice \subseteq twice' /\ twice' \subseteq 0 .. udpSendMeasureIndex
  BY <1>1, <1>2, <1>3 DEF Types, TypeOK
<1>7. ~p.sent => p.measureIndex \in twice'
  BY <1>3 DEF waiting
<1>8. ASSUME NEW j \in DOMAIN udpSendMeasures
      PROVE  Account(counted(TRUE, p, j), j, sq, twice')
  <2>. DEFINE o == udpSendMeasures[j]
              m == counted(TRUE, p, j)
              a == unconfirmed(sp, j)[k]
              b == unconfirmed(sq, j)[k]
              c == unanswered(sp, j)[k]
              d == unanswered(sq, j)[k]
              more == twice'
  <2>1. /\ o \in Measure /\ m \in Measure /\ m.size = o.size
        /\ m.failSize = o.failSize
        /\ m.successSize = IF j = p.measureIndex
                           THEN o.successSize + p.size ELSE o.successSize
    BY <1>1, <1>2, CountedType
  <2>2. /\ b = 0 /\ d = 0
        /\ a = (IF j = p.measureIndex THEN p.size ELSE 0)
        /\ c = (IF j = p.measureIndex /\ p.sent THEN p.size ELSE 0)
    BY <1>2, <1>4 DEF unconfirmed, unanswered
  <2>3. o.successSize \in Nat /\ o.failSize \in Nat /\ o.size \in Nat
    BY <2>1 DEF Measure
  <2>4. /\ m.successSize + b + o.size <= o.successSize + a + m.size
        /\ m.failSize + d + o.size <= o.failSize + c + m.size
    <3>. HIDE DEF a, b, c, d, o, m, p
    <3>1. CASE j = p.measureIndex
      BY <1>2, <2>1, <2>2, <2>3, <3>1
    <3>2. CASE j # p.measureIndex
      BY <1>2, <2>1, <2>2, <2>3, <3>2
    <3>. QED
      BY <3>1, <3>2
  <2>5. ASSUME j \notin more
        PROVE  m.successSize + m.failSize + d + o.size
                 = o.successSize + o.failSize + c + m.size
    <3>1. j = p.measureIndex => p.sent
      BY <1>7, <2>5
    <3>. HIDE DEF a, b, c, d, o, m, p
    <3>2. CASE j = p.measureIndex
      BY <1>2, <2>1, <2>2, <2>3, <3>1, <3>2
    <3>3. CASE j # p.measureIndex
      BY <1>2, <2>1, <2>2, <2>3, <3>3
    <3>. QED
      BY <3>2, <3>3
  <2>6. Account(o, j, sp, twice)
    BY <1>1, <1>3 DEF Accounts
  <2>7. \A h \in Packets \ {k} :
          (h \in DOMAIN sp <=> h \in DOMAIN sq) /\ (h \in DOMAIN sp => sp[h] = sq[h])
    BY <1>4
  <2>. HIDE DEF o, m
  <2>8. Account(m, j, sq, more)
    BY <1>2, <1>5, <1>6, <2>1, <2>4, <2>5, <2>6, <2>7, AccountChange
  <2>. QED
    BY <2>8 DEF m
<1>. QED
  BY <1>3, <1>4, <1>6, <1>8, DeliveredKeeps

-----------------------------------------------------------------------------
(* The theorems.                                                           *)

\* Every call of the speed control keeps the invariant.
LEMMA NextKeeps == IInv /\ [Next]_vars => IInv'
<1>. SUFFICES ASSUME IInv, [Next]_vars PROVE IInv'
  OBVIOUS
<1>1. CASE \E n \in nextPackets, delay \in Delays : UdpWrite(n[1], n[2], delay)
  BY <1>1, WriteKeeps
<1>2. CASE \E k \in sentPackets : UdpResend(k)
  BY <1>2, ResendKeeps
<1>3. CASE \E k \in DOMAIN udpSentPackets : UdpReadConfirmation(k)
  BY <1>3, ConfirmationKeeps
<1>4. CASE UNCHANGED vars
  BY <1>4
  DEF vars, IInv, Types, TypeOK, Accounts, Order, EvaluatedInOrder, Evaluated,
      EvaluatedIsAnswered, sentPackets, waiting, Fast
<1>5. CASE Quiet
  BY <1>4, <1>5 DEF Quiet
<1>. QED
  BY <1>1, <1>2, <1>3, <1>4, <1>5 DEF Next

\* The invariant: the accounts of all measures, the evaluations in order, and
\* what each of them may have set the interval to.
THEOREM SpeedInvariant == Spec => []IInv
BY InitKeeps, NextKeeps, PTL DEF Spec

\* The fields of the connection keep their types, and the measure that udpWrite
\* counts for is never erased.
THEOREM SpeedTypes == Spec => []TypeOK
<1>1. IInv => TypeOK
  BY DEF IInv, Types
<1>. QED
  BY <1>1, SpeedInvariant, PTL

\* onUdpDelivered never counts more bytes of a measure as delivered, nor more as
\* lost, than onUdpSent has counted in it.
THEOREM SpeedAnsweredWereSent == Spec => []AnsweredWereSent
<1>1. IInv => AnsweredWereSent
  BY DEF IInv, Accounts, Answered, AnsweredWereSent
<1>. QED
  BY <1>1, SpeedInvariant, PTL

\* Whatever the settings are, the interval by which onUdpSentBufferChanged
\* divides is 0 only after a measure with few losses and less than 6
\* microseconds a packet.
THEOREM SpeedZeroOnlyIfFast == Spec => []ZeroOnlyIfFast
<1>1. IInv => ZeroOnlyIfFast
  <2>. SUFFICES ASSUME IInv, udpSendIntervalUs = 0
                PROVE  \E k \in 1 .. Len(evaluations) : IsFast(evaluations[k].measure)
    BY DEF ZeroOnlyIfFast, IsFast, FewLosses
  <2>. QED
    BY DEF IInv, Fast
<1>. QED
  BY <1>1, SpeedInvariant, PTL

\* Measures set the interval in the order in which udpWrite sent them.
THEOREM SpeedEvaluatedInOrder == Spec => []EvaluatedInOrder
<1>1. IInv => EvaluatedInOrder
  BY DEF IInv, Order
<1>. QED
  BY <1>1, SpeedInvariant, PTL

\* A measure sets the interval only when all its bytes are answered, unless a
\* packet of it was counted as lost and as delivered.
THEOREM SpeedEvaluatedIsAnswered == Spec => []EvaluatedIsAnswered
<1>1. IInv => EvaluatedIsAnswered
  BY DEF IInv
<1>. QED
  BY <1>1, SpeedInvariant, PTL

\* After more losses than udpMaxSendLossPercent allows the connection gets no
\* faster than the measure and the constant added speed.
THEOREM SpeedLossNeverAmplifies == Spec => []LossNeverAmplifies
<1>1. IInv => LossNeverAmplifies
  <2>. SUFFICES ASSUME IInv, NEW k \in 1 .. Len(evaluations),
                       evaluations[k].measure.failSize > 0,
                       100 * evaluations[k].measure.successSize
                         < (100 - udpMaxSendLossPercent) * evaluations[k].measure.size
                PROVE  evaluations[k].interval
                         >= round(withAddedSpeed[<<evaluations[k].measure.summaryIntervalUs,
                                                   evaluations[k].measure.count>>])
    BY DEF LossNeverAmplifies
  <2>. DEFINE m == evaluations[k].measure
              l == 100 - udpMaxSendLossPercent
  <2>1. Answered(m) /\ m.count > 0 /\ evaluations[k].interval = intervalAfter(m)
    BY DEF IInv, Evaluated
  <2>2. m.failSize \in Nat /\ m.successSize \in Nat /\ m.size \in Nat /\ l \in Nat
    BY <2>1, SettingsAssumption DEF Answered, Measure
  <2>3. m.failSize > 0 /\ 100 * m.successSize < l * m.size
    OBVIOUS
  <2>4. l * m.size \in Nat
    BY <2>2
  <2>. HIDE DEF m
  <2>5. ~FewLosses(m)
    BY <2>2, <2>3, <2>4 DEF FewLosses
  <2>6. intervalAfter(m) >= round(withAddedSpeed[<<m.summaryIntervalUs, m.count>>])
    BY <2>1, <2>5, IntervalAfterMeasure
  <2>. QED
    BY <2>1, <2>6 DEF m
<1>. QED
  BY <1>1, SpeedInvariant, PTL
=============================================================================
