------------------------ MODULE ConfirmationsProofs ------------------------
(***************************************************************************)
(* Theorems about PacketCodec and Confirmations: what packIntPair packs    *)
(* unpackIntPair unpacks, for every width of int and of group, and however *)
(* buildConfirmations splits what it has to say, udpRead takes exactly     *)
(* that for confirmed.                                                     *)
(***************************************************************************)
EXTENDS Confirmations, WellFoundedInduction, SequenceTheorems, TLAPS

-----------------------------------------------------------------------------
(* Induction and recursion.                                                *)

\* What Min of a set of numbers is.
LEMMA LeastNumber ==
  ASSUME NEW T \in SUBSET Nat, T # {}
  PROVE  Min(T) \in T /\ \A m \in T : Min(T) <= m
<1>. DEFINE R == OpToRel(<, Nat)
<1>1. IsWellFoundedOn(R, Nat)
  BY NatLessThanWellFounded
<1>2. \A x, y \in Nat : <<y, x>> \in R <=> y < x
  BY DEF OpToRel
<1>. HIDE DEF R
<1>3. \E x \in T : \A y \in T : ~(<<y, x>> \in R)
  BY <1>1, WFMin
<1>4. PICK x \in T : \A y \in T : ~(<<y, x>> \in R)
  BY <1>3
<1>5. ASSUME NEW y \in T PROVE x <= y
  <2>1. x \in Nat /\ y \in Nat /\ ~(<<y, x>> \in R)
    BY <1>4
  <2>2. ~(y < x)
    BY <1>2, <2>1
  <2>. QED
    BY <2>1, <2>2
<1>. QED
  BY <1>5 DEF Min

\* Induction, for a set instead of a predicate.
LEMMA SetInduction ==
  ASSUME NEW S, 0 \in S, \A n \in Nat : n \in S => n + 1 \in S
  PROVE  \A n \in Nat : n \in S
<1>. SUFFICES ASSUME NEW k \in Nat, k \notin S PROVE FALSE
  OBVIOUS
<1>. DEFINE T == {n \in Nat : n \notin S}
            n == Min(T)
<1>1. n \in T /\ \A m \in T : n <= m
  <2>1. T \in SUBSET Nat /\ T # {}
    OBVIOUS
  <2>. HIDE DEF T
  <2>. QED
    BY <2>1, LeastNumber
<1>. HIDE DEF n
<1>2. n # 0 /\ n \in Nat
  BY <1>1
<1>3. n - 1 \in Nat /\ n - 1 \notin T
  BY <1>1, <1>2
<1>4. n - 1 \in S
  BY <1>3
<1>. QED
  BY <1>1, <1>2, <1>4

\* The first value of f is base, and h says how each value follows from the one
\* before.
Follows(f, h, L, base) == f[0] = base /\ \A n \in 1 .. L : f[n] = h[<<n, f[n - 1]>>]

Closed(h, L, V) == \A n \in 1 .. L : \A x \in V : h[<<n, x>>] \in V

\* A function on 0 .. L may be defined so.
LEMMA Recursion ==
  ASSUME NEW L \in Nat, NEW V, NEW base \in V, NEW h, Closed(h, L, V)
  PROVE  \E f \in [0 .. L -> V] : Follows(f, h, L, base)
<1>. USE DEF Follows, Closed
<1>. DEFINE S == {k \in Nat : k <= L => \E f \in [0 .. k -> V] :
                    f[0] = base /\ \A n \in 1 .. k : f[n] = h[<<n, f[n - 1]>>]}
<1>1. 0 \in S
  <2>. DEFINE f == [n \in 0 .. 0 |-> base]
  <2>1. f \in [0 .. 0 -> V] /\ f[0] = base /\ \A n \in 1 .. 0 : f[n] = h[<<n, f[n - 1]>>]
    OBVIOUS
  <2>. QED
    BY <2>1
<1>2. ASSUME NEW k \in Nat, k \in S, k + 1 <= L
      PROVE  \E f \in [0 .. k + 1 -> V] :
               f[0] = base /\ \A n \in 1 .. k + 1 : f[n] = h[<<n, f[n - 1]>>]
  <2>1. PICK f \in [0 .. k -> V] :
          f[0] = base /\ \A n \in 1 .. k : f[n] = h[<<n, f[n - 1]>>]
    BY <1>2
  <2>. DEFINE last == h[<<k + 1, f[k]>>]
              g == [n \in 0 .. k + 1 |-> IF n = k + 1 THEN last ELSE f[n]]
  <2>2. last \in V
    <3>1. k + 1 \in 1 .. L /\ f[k] \in V
      BY <1>2, <2>1
    <3>. QED
      BY <3>1
  <2>. HIDE DEF last
  <2>3. g \in [0 .. k + 1 -> V]
    BY <2>2
  <2>4. g[0] = base /\ g[k + 1] = last /\ \A n \in 0 .. k : g[n] = f[n]
    BY <2>1
  <2>5. ASSUME NEW n \in 1 .. k + 1 PROVE g[n] = h[<<n, g[n - 1]>>]
    <3>1. CASE n = k + 1
      <4>1. g[n - 1] = f[k] /\ g[n] = last
        BY <3>1
      <4>. QED
        BY <3>1, <4>1 DEF last
    <3>2. CASE n # k + 1
      <4>1. n \in 1 .. k /\ g[n] = f[n] /\ g[n - 1] = f[n - 1]
        BY <3>2
      <4>. QED
        BY <2>1, <4>1
    <3>. QED
      BY <3>1, <3>2
  <2>. HIDE DEF g
  <2>. QED
    BY <2>3, <2>4, <2>5
<1>3. \A n \in Nat : n \in S => n + 1 \in S
  <2>1. ASSUME NEW n \in Nat, n \in S PROVE n + 1 \in S
    BY <1>2, <2>1
  <2>. QED
    BY <2>1
<1>. HIDE DEF S
<1>4. L \in S
  BY <1>1, <1>3, SetInduction
<1>. QED
  BY <1>4 DEF S

-----------------------------------------------------------------------------
(* Powers of two.                                                          *)

\* The shifts of 1 in an int.
LEMMA Pow2Type ==
  /\ pow2 \in [0 .. IntBits -> Nat \ {0}]
  /\ pow2[0] = 1
  /\ \A k \in 1 .. IntBits : pow2[k] = 2 * pow2[k - 1]
<1>. DEFINE L == IntBits
            V == Nat \ {0}
            h == [x \in (1 .. L) \X V |-> 2 * x[2]]
            IsPow(g) == g = [k \in 0 .. L |-> IF k = 0 THEN 1 ELSE 2 * g[k - 1]]
            p == CHOOSE g : IsPow(g)
<1>1. L \in Nat /\ 1 \in V
  BY WidthAssumption
<1>2. \A n \in 1 .. L : \A x \in V : h[<<n, x>>] \in V /\ h[<<n, x>>] = 2 * x
  OBVIOUS
<1>. HIDE DEF L, h
<1>3. PICK f \in [0 .. L -> V] : f[0] = 1 /\ \A n \in 1 .. L : f[n] = h[<<n, f[n - 1]>>]
  <2>. DEFINE one == 1
  <2>1. one \in V
    OBVIOUS
  <2>. HIDE DEF V, one
  <2>3. Closed(h, L, V)
    BY <1>2 DEF Closed
  <2>4. L \in Nat
    BY <1>1
  <2>2. \E f \in [0 .. L -> V] : Follows(f, h, L, one)
    BY <2>1, <2>3, <2>4, Recursion
  <2>. QED
    BY <2>2 DEF one, Follows
<1>4. \A n \in 1 .. L : f[n] = 2 * f[n - 1]
  <2>1. \A n \in 1 .. L : f[n - 1] \in V
    BY <1>1, <1>3
  <2>. QED
    BY <1>2, <1>3, <2>1
<1>5. IsPow(f)
  <2>1. \A n \in 0 .. L : f[n] = IF n = 0 THEN 1 ELSE 2 * f[n - 1]
    BY <1>1, <1>3, <1>4
  <2>. QED
    BY <2>1
<1>. HIDE DEF IsPow
<1>6. IsPow(p)
  BY <1>5
<1>7. pow2 = p
  BY DEF pow2, p, IsPow, L
<1>. HIDE DEF p
<1>8. p = [k \in 0 .. L |-> IF k = 0 THEN 1 ELSE 2 * p[k - 1]]
  BY <1>6 DEF IsPow
<1>9. p[0] = 1 /\ \A k \in 1 .. L : p[k] = 2 * p[k - 1]
  BY <1>1, <1>8
<1>10. \A k \in 0 .. L : p[k] \in V
  <2>. DEFINE S == {k \in Nat : k <= L => p[k] \in V}
  <2>1. 0 \in S
    BY <1>9
  <2>2. ASSUME NEW k \in Nat, k \in S PROVE k + 1 \in S
    <3>1. CASE k + 1 <= L
      <4>1. k + 1 \in 1 .. L /\ p[k] \in V
        BY <1>1, <2>2, <3>1
      <4>2. p[k + 1] = 2 * p[k]
        BY <1>9, <4>1
      <4>. QED
        BY <4>1, <4>2
    <3>. QED
      BY <3>1
  <2>. HIDE DEF S
  <2>3. \A k \in Nat : k \in S
    BY <2>1, <2>2, SetInduction
  <2>. QED
    BY <1>1, <2>3 DEF S
<1>11. p \in [0 .. L -> V]
  BY <1>8, <1>10
<1>. QED
  BY <1>7, <1>9, <1>11 DEF L

\* Two shifts are one.
LEMMA Pow2Sum ==
  ASSUME NEW a \in Nat, NEW b \in Nat, a + b <= IntBits
  PROVE  pow2[a + b] = pow2[a] * pow2[b]
<1>. DEFINE S == {k \in Nat : a + k <= IntBits => pow2[a + k] = pow2[a] * pow2[k]}
<1>1. IntBits \in Nat
  BY WidthAssumption
<1>2. 0 \in S
  <2>1. a \in 0 .. IntBits /\ pow2[a] \in Nat /\ a + 0 = a
    BY <1>1, Pow2Type
  <2>. QED
    BY <2>1, Pow2Type
<1>3. ASSUME NEW k \in Nat, k \in S PROVE k + 1 \in S
  <2>1. CASE a + (k + 1) <= IntBits
    <3>1. /\ k + 1 \in 1 .. IntBits /\ a + (k + 1) \in 1 .. IntBits
          /\ k \in 0 .. IntBits /\ a \in 0 .. IntBits
          /\ (a + (k + 1)) - 1 = a + k /\ (k + 1) - 1 = k
      BY <1>1, <2>1
    <3>2. pow2[a + (k + 1)] = 2 * pow2[a + k] /\ pow2[k + 1] = 2 * pow2[k]
      BY <3>1, Pow2Type
    <3>3. pow2[a + k] = pow2[a] * pow2[k]
      BY <1>1, <1>3, <2>1
    <3>4. pow2[a] \in Nat /\ pow2[k] \in Nat
      BY <3>1, Pow2Type
    <3>5. 2 * (pow2[a] * pow2[k]) = pow2[a] * (2 * pow2[k])
      BY <3>4
    <3>. QED
      BY <3>2, <3>3, <3>5
  <2>. QED
    BY <2>1
<1>. HIDE DEF S
<1>4. b \in S
  BY <1>2, <1>3, SetInduction
<1>. QED
  BY <1>4 DEF S

\* A wider shift gives no less.
LEMMA Pow2IsMonotonic ==
  ASSUME NEW a \in Nat, NEW b \in Nat, a <= b, b <= IntBits
  PROVE  pow2[a] <= pow2[b]
<1>. DEFINE c == b - a
<1>1. c \in Nat /\ a + c = b /\ IntBits \in Nat
  BY WidthAssumption
<1>. HIDE DEF c
<1>2. a \in 0 .. IntBits /\ c \in 0 .. IntBits
  BY <1>1
<1>3. pow2[a] \in Nat /\ pow2[c] \in Nat \ {0}
  BY <1>2, Pow2Type
<1>4. pow2[b] = pow2[a] * pow2[c]
  BY <1>1, Pow2Sum
<1>. QED
  BY <1>3, <1>4

-----------------------------------------------------------------------------
(* An integer is packed.                                                   *)

\* What an int can be, if it is not negative.
Natural == 0 .. pow2[IntBits - 1] - 1

\* The values that one group takes.
radix == pow2[GroupBits]

\* The widths of int and of a group, and the ranges that follow.
LEMMA Widths ==
  /\ IntBits \in Nat \ {0} /\ GroupBits \in 1 .. IntBits /\ MaxGroups \in Nat
  /\ radix \in Nat \ {0} /\ pow2[IntBits - 1] \in Nat \ {0}
  /\ pow2[IntBits] = 2 * pow2[IntBits - 1]
  /\ Natural \subseteq Nat
<1>1. IntBits \in Nat \ {0} /\ GroupBits \in 1 .. IntBits /\ MaxGroups \in Nat
  BY WidthAssumption
<1>2. IntBits - 1 \in 0 .. IntBits /\ GroupBits \in 0 .. IntBits /\ IntBits \in 1 .. IntBits
  BY <1>1
<1>. QED
  BY <1>1, <1>2, Pow2Type DEF radix, Natural

\* What fits into an int is not changed by it.
LEMMA WrapOfNatural == \A x \in Natural : wrap(x) = x
<1>. DEFINE h == pow2[IntBits - 1]
<1>1. h \in Nat \ {0} /\ pow2[IntBits] = 2 * h /\ Natural = 0 .. h - 1
  BY Widths DEF Natural
<1>. HIDE DEF h
<1>2. ASSUME NEW x \in 0 .. h - 1 PROVE ((x + h) % (2 * h)) - h = x
  <2>1. x + h \in Nat /\ x + h < 2 * h /\ 2 * h \in Nat \ {0}
    BY <1>1
  <2>2. (x + h) % (2 * h) = x + h
    <3>. DEFINE y == x + h
                z == 2 * h
    <3>1. y \in Nat /\ z \in Nat \ {0} /\ y < z
      BY <2>1
    <3>. HIDE DEF y, z
    <3>2. y % z = y
      BY <3>1
    <3>. QED
      BY <3>2 DEF y, z
  <2>. QED
    BY <1>1, <2>2
<1>. QED
  BY <1>1, <1>2 DEF wrap, h

\* Whatever wraps is a number.
LEMMA WrapType == \A x \in Int : wrap(x) \in Int
<1>. DEFINE h == pow2[IntBits - 1]
            z == pow2[IntBits]
<1>1. h \in Nat /\ z \in Nat \ {0}
  BY Widths
<1>. HIDE DEF h, z
<1>2. \A x \in Int : ((x + h) % z) - h \in Int
  BY <1>1
<1>. QED
  BY <1>2 DEF wrap, h, z

\* The bytes of an integer are enough for it, and unpackIntPair reads so many.
LEMMA BytesOfNatural ==
  ASSUME NEW n \in Natural
  PROVE  LET k == bytesOf(n)
         IN  /\ k \in 1 .. MaxGroups
             /\ GroupBits * (k - 1) \in 0 .. IntBits
             /\ n < pow2[GroupBits * (k - 1)] * radix
<1>. DEFINE B == IntBits
            G == GroupBits
            T == {j \in G .. B : n < pow2[j]}
            b == Min(T)
            q == (b - 1) \div G
<1>1. /\ B \in Nat \ {0} /\ G \in 1 .. B /\ MaxGroups \in Nat /\ MaxGroups * G >= B
      /\ n \in Nat /\ n < pow2[B - 1] /\ pow2[B] = 2 * pow2[B - 1]
      /\ pow2[B - 1] \in Nat
  BY Widths, WidthAssumption DEF Natural
<1>2. b \in G .. B /\ n < pow2[b]
  <2>1. B \in T
    BY <1>1
  <2>2. T \in SUBSET Nat /\ T # {}
    BY <1>1, <2>1
  <2>. HIDE DEF T
  <2>3. b \in T
    BY <2>2, LeastNumber
  <2>. QED
    BY <2>3 DEF T
<1>3. bytesOf(n) = q + 1
  BY DEF bytesOf, bitsOf
<1>. HIDE DEF b
<1>4. q \in Nat /\ G * q <= b - 1 /\ b - 1 < G * q + G
  <2>. DEFINE a == b - 1
  <2>1. a \in Nat /\ G \in Nat \ {0}
    BY <1>1, <1>2
  <2>. HIDE DEF a
  <2>2. a \div G \in Nat /\ G * (a \div G) <= a /\ a < G * (a \div G) + G
    BY <2>1
  <2>. QED
    BY <2>2 DEF a
<1>. HIDE DEF q
<1>5. q < MaxGroups
  <2>. SUFFICES ASSUME q >= MaxGroups PROVE FALSE
    BY <1>1, <1>4
  <2>1. G * q >= G * MaxGroups
    BY <1>1, <1>4
  <2>2. G * q <= B - 1 /\ G * MaxGroups = MaxGroups * G
    BY <1>1, <1>2, <1>4
  <2>3. G * q \in Nat /\ MaxGroups * G \in Nat
    BY <1>1, <1>4
  <2>. QED
    BY <1>1, <2>1, <2>2, <2>3
<1>. DEFINE e == G * q
            r == b - e
<1>6. e \in 0 .. B /\ r \in 1 .. G /\ e + r = b
  <2>1. e \in Nat /\ e <= b - 1 /\ b - 1 < e + G
    BY <1>1, <1>4
  <2>. HIDE DEF e
  <2>. QED
    BY <1>1, <1>2, <2>1
<1>. HIDE DEF e, r
<1>7. pow2[b] = pow2[e] * pow2[r]
  BY <1>1, <1>2, <1>6, Pow2Sum
<1>8. pow2[r] <= radix
  BY <1>1, <1>6, Pow2IsMonotonic DEF radix
<1>9. pow2[e] \in Nat /\ pow2[r] \in Nat /\ radix \in Nat
  <2>1. r \in 0 .. B
    BY <1>1, <1>6
  <2>. QED
    BY <1>6, <2>1, Pow2Type, Widths
<1>10. n < pow2[e] * radix
  <2>. DEFINE x == pow2[e]
              y == pow2[r]
  <2>1. x \in Nat /\ y \in Nat /\ n < x * y /\ y <= radix
    BY <1>2, <1>7, <1>8, <1>9
  <2>. HIDE DEF x, y
  <2>2. x * y <= x * radix
    BY <1>9, <2>1
  <2>. QED
    BY <1>1, <1>9, <2>1, <2>2 DEF x
<1>. QED
  BY <1>1, <1>3, <1>4, <1>5, <1>6, <1>10 DEF e

\* packIntPair writes the groups of an integer from the highest on, with the flag
\* in all bytes but the last.
LEMMA PackedInt ==
  ASSUME NEW n \in Natural
  PROVE  LET k == bytesOf(n)
             s == packInt(n)
         IN  /\ s \in Seq(Byte) /\ Len(s) = k
             /\ \A i \in 1 .. k :
                  /\ GroupBits * (k - i) \in 0 .. IntBits
                  /\ pow2[GroupBits * (k - i)] \in Nat \ {0}
                  /\ s[i].bits = (n \div pow2[GroupBits * (k - i)]) % radix
                  /\ s[i].more <=> i < k
<1>. DEFINE k == bytesOf(n)
            s == packInt(n)
            d(i) == (n \div pow2[GroupBits * (k - i)]) % radix
            m(i) == i < k
<1>1. k \in 1 .. MaxGroups /\ GroupBits * (k - 1) \in 0 .. IntBits /\ n \in Nat
      /\ GroupBits \in Nat /\ radix \in Nat \ {0} /\ MaxGroups \in Nat /\ IntBits \in Nat
  BY BytesOfNatural, Widths
<1>2. s = [i \in 1 .. k |-> [bits |-> d(i), more |-> m(i)]]
  BY DEF packInt, radix
<1>. HIDE DEF k, s
<1>3. ASSUME NEW i \in 1 .. k
      PROVE  /\ GroupBits * (k - i) \in 0 .. IntBits
             /\ pow2[GroupBits * (k - i)] \in Nat \ {0}
             /\ d(i) \in 0 .. radix - 1
  <2>1. GroupBits * (k - i) \in 0 .. IntBits
    <3>1. k - i \in Nat /\ k - 1 \in Nat /\ k - i <= k - 1
      BY <1>1
    <3>. DEFINE x == k - i
                y == k - 1
    <3>2. x \in Nat /\ y \in Nat /\ x <= y /\ GroupBits * y <= IntBits
      BY <1>1, <3>1
    <3>. HIDE DEF x, y
    <3>3. GroupBits * x <= GroupBits * y /\ GroupBits * x \in Nat /\ GroupBits * y \in Nat
      BY <1>1, <3>2
    <3>4. GroupBits * x \in 0 .. IntBits
      BY <1>1, <3>2, <3>3
    <3>. QED
      BY <3>4 DEF x
  <2>. DEFINE p == pow2[GroupBits * (k - i)]
  <2>2. p \in Nat \ {0}
    BY <2>1, Pow2Type
  <2>. HIDE DEF p
  <2>3. n \div p \in Nat
    BY <1>1, <2>2
  <2>4. (n \div p) % radix \in 0 .. radix - 1
    <3>. DEFINE x == n \div p
    <3>1. x \in Nat
      BY <2>3
    <3>. HIDE DEF x
    <3>2. x % radix \in 0 .. radix - 1
      BY <1>1, <3>1
    <3>. QED
      BY <3>2 DEF x
  <2>. QED
    BY <2>1, <2>2, <2>4 DEF p
<1>10. \A i : m(i) \in BOOLEAN /\ (m(i) <=> i < k)
  OBVIOUS
<1>. HIDE DEF d, m
<1>4. \A i \in 1 .. k : s[i] = [bits |-> d(i), more |-> m(i)]
  BY <1>2
<1>5. \A i \in 1 .. k : s[i] \in Byte
  <2>1. ASSUME NEW i \in 1 .. k PROVE s[i] \in Byte
    <3>1. s[i] = [bits |-> d(i), more |-> m(i)] /\ d(i) \in 0 .. radix - 1
          /\ m(i) \in BOOLEAN
      BY <1>3, <1>4, <1>10
    <3>. QED
      BY <3>1 DEF Byte, radix
  <2>. QED
    BY <2>1
<1>6. k \in Nat
  BY <1>1
<1>7. s \in [1 .. k -> Byte]
  BY <1>2, <1>5
<1>8. s \in Seq(Byte) /\ Len(s) = k
  BY <1>6, <1>7
<1>9. \A i \in 1 .. k : s[i].bits = d(i) /\ (s[i].more <=> i < k)
  <2>1. ASSUME NEW i \in 1 .. k
        PROVE  s[i].bits = d(i) /\ (s[i].more <=> i < k)
    <3>. DEFINE a == d(i)
                b == m(i)
    <3>1. s[i] = [bits |-> a, more |-> b] /\ (b <=> i < k)
      BY <1>4, <1>10
    <3>. HIDE DEF a, b
    <3>2. s[i].bits = a /\ s[i].more = b
      BY <3>1
    <3>. QED
      BY <3>1, <3>2 DEF a
  <2>. QED
    BY <2>1
<1>. QED
  BY <1>3, <1>8, <1>9 DEF k, s, d

-----------------------------------------------------------------------------
(* An integer is unpacked.                                                 *)

\* unpackIntPair shifts what it has and adds the next group.
LEMMA ValuesAreSteps ==
  ASSUME NEW bs \in Seq(Byte)
  PROVE  LET v == values(bs)
         IN  /\ v \in [0 .. Len(bs) -> Int]
             /\ v[0] = 0
             /\ \A i \in 1 .. Len(bs) : v[i] = wrap(v[i - 1] * radix + bs[i].bits)
<1>. DEFINE L == Len(bs)
            h == [x \in (1 .. L) \X Int |-> wrap(x[2] * radix + bs[x[1]].bits)]
            zero == 0
            IsValue(g) == g = [i \in 0 .. L |-> IF i = 0 THEN 0
                                               ELSE wrap(g[i - 1] * radix + bs[i].bits)]
            v == CHOOSE g : IsValue(g)
<1>1. L \in Nat /\ zero \in Int /\ radix \in Nat
  BY Widths
<1>2. \A i \in 1 .. L : bs[i].bits \in Nat
  <2>1. \A i \in 1 .. L : bs[i] \in Byte
    OBVIOUS
  <2>. QED
    BY <2>1, Widths DEF Byte, radix
<1>. HIDE DEF L
<1>3. \A i \in 1 .. L : \A x \in Int :
        h[<<i, x>>] = wrap(x * radix + bs[i].bits) /\ h[<<i, x>>] \in Int
  <2>1. ASSUME NEW i \in 1 .. L, NEW x \in Int
        PROVE  h[<<i, x>>] = wrap(x * radix + bs[i].bits) /\ h[<<i, x>>] \in Int
    <3>1. h[<<i, x>>] = wrap(x * radix + bs[i].bits)
      OBVIOUS
    <3>2. x * radix + bs[i].bits \in Int
      BY <1>1, <1>2
    <3>. HIDE DEF h
    <3>. QED
      BY <3>1, <3>2, WrapType
  <2>. QED
    BY <2>1
<1>. HIDE DEF h, zero
<1>4. PICK f \in [0 .. L -> Int] : Follows(f, h, L, zero)
  <2>1. Closed(h, L, Int)
    BY <1>3 DEF Closed
  <2>. QED
    BY <1>1, <2>1, Recursion
<1>5. f[0] = 0 /\ \A i \in 1 .. L : f[i] = wrap(f[i - 1] * radix + bs[i].bits)
  <2>1. \A i \in 1 .. L : f[i - 1] \in Int
    BY <1>1
  <2>. QED
    BY <1>3, <1>4, <2>1 DEF Follows, zero
<1>6. IsValue(f)
  <2>1. \A i \in 0 .. L :
          f[i] = IF i = 0 THEN 0 ELSE wrap(f[i - 1] * radix + bs[i].bits)
    BY <1>1, <1>5
  <2>. QED
    BY <2>1
<1>. HIDE DEF IsValue
<1>7. IsValue(v)
  BY <1>6
<1>8. values(bs) = v
  BY DEF values, v, IsValue, L, radix
<1>. HIDE DEF v
<1>9. v = [i \in 0 .. L |-> IF i = 0 THEN 0 ELSE wrap(v[i - 1] * radix + bs[i].bits)]
  BY <1>7 DEF IsValue
<1>10. v[0] = 0 /\ \A i \in 1 .. L : v[i] = wrap(v[i - 1] * radix + bs[i].bits)
  BY <1>1, <1>9
<1>11. \A i \in 0 .. L : v[i] \in Int
  <2>. DEFINE S == {i \in Nat : i <= L => v[i] \in Int}
  <2>1. 0 \in S
    BY <1>10
  <2>2. ASSUME NEW i \in Nat, i \in S PROVE i + 1 \in S
    <3>1. CASE i + 1 <= L
      <4>1. i + 1 \in 1 .. L /\ v[i] \in Int /\ (i + 1) - 1 = i
        BY <1>1, <2>2, <3>1
      <4>2. v[i + 1] = wrap(v[i] * radix + bs[i + 1].bits)
        BY <1>10, <4>1
      <4>3. v[i] * radix + bs[i + 1].bits \in Int
        BY <1>1, <1>2, <4>1
      <4>. DEFINE x == v[i] * radix + bs[i + 1].bits
      <4>4. x \in Int /\ v[i + 1] = wrap(x)
        BY <4>2, <4>3
      <4>. HIDE DEF x
      <4>5. v[i + 1] \in Int
        BY <4>4, WrapType
      <4>. QED
        BY <4>5
    <3>. QED
      BY <3>1
  <2>. HIDE DEF S
  <2>3. \A i \in Nat : i \in S
    BY <2>1, <2>2, SetInduction
  <2>. QED
    BY <1>1, <2>3 DEF S
<1>12. v \in [0 .. L -> Int]
  BY <1>9, <1>11
<1>. QED
  BY <1>8, <1>10, <1>12 DEF L

IsProduct(z, q, r)  == z = q * r
IsQuotient(x, n, q) == x = n \div q
IsRest(w, x, r)     == w = x % r

\* A group more of n.
LEMMA DivShift ==
  ASSUME NEW n \in Nat, NEW q \in Nat \ {0}, NEW r \in Nat \ {0},
         NEW z, IsProduct(z, q, r), NEW x, IsQuotient(x, n, q),
         NEW y, IsQuotient(y, n, z), NEW w, IsRest(w, x, r)
  PROVE  y * r + w = x
<1>. USE DEF IsProduct, IsQuotient, IsRest
<1>1. y \in Nat /\ y * (q * r) <= n /\ n < (y + 1) * (q * r)
  <2>1. z \in Nat \ {0} /\ y = n \div z /\ z = q * r
    OBVIOUS
  <2>2. y \in Nat /\ y * z <= n /\ n < (y + 1) * z
    BY <2>1
  <2>. QED
    BY <2>1, <2>2
<1>2. x \in Nat /\ x * q <= n /\ n < (x + 1) * q
  OBVIOUS
<1>3. y * r <= x
  <2>. SUFFICES ASSUME y * r >= x + 1 PROVE FALSE
    BY <1>1, <1>2
  <2>1. (y * r) * q >= (x + 1) * q
    BY <1>1, <1>2
  <2>2. (y * r) * q = y * (q * r)
    BY <1>1
  <2>3. y * (q * r) \in Nat /\ (x + 1) * q \in Nat
    BY <1>1, <1>2
  <2>. QED
    BY <1>1, <1>2, <2>1, <2>2, <2>3
<1>4. x < (y + 1) * r
  <2>. SUFFICES ASSUME x >= (y + 1) * r PROVE FALSE
    BY <1>1, <1>2
  <2>1. x * q >= ((y + 1) * r) * q
    BY <1>1, <1>2
  <2>2. ((y + 1) * r) * q = (y + 1) * (q * r)
    BY <1>1
  <2>3. (y + 1) * (q * r) \in Nat /\ x * q \in Nat
    BY <1>1, <1>2
  <2>. QED
    BY <1>1, <1>2, <2>1, <2>2, <2>3
<1>. DEFINE u == x \div r
<1>5. u \in Nat /\ w \in 0 .. r - 1 /\ x = u * r + w
  BY <1>2
<1>. HIDE DEF u
<1>6. u = y
  <2>1. ASSUME u >= y + 1 PROVE FALSE
    <3>1. u * r >= (y + 1) * r
      BY <1>1, <1>5, <2>1
    <3>2. u * r \in Nat /\ (y + 1) * r \in Nat
      BY <1>1, <1>5
    <3>. QED
      BY <1>2, <1>4, <1>5, <3>1, <3>2
  <2>2. ASSUME y >= u + 1 PROVE FALSE
    <3>1. y * r >= (u + 1) * r /\ (u + 1) * r = u * r + r
      BY <1>1, <1>5, <2>2
    <3>2. u * r \in Nat /\ y * r \in Nat
      BY <1>1, <1>5
    <3>. QED
      BY <1>2, <1>3, <1>5, <3>1, <3>2
  <2>. QED
    BY <1>1, <1>5, <2>1, <2>2
<1>. QED
  BY <1>6, <1>5

\* On the bytes of n, unpackIntPair never leaves the range of int and gets n.
LEMMA PrefixValues ==
  ASSUME NEW n \in Natural, NEW bs \in Seq(Byte), bytesOf(n) <= Len(bs),
         \A i \in 1 .. bytesOf(n) : bs[i] = packInt(n)[i]
  PROVE  /\ \A i \in 1 .. bytesOf(n) : values(bs)[i] \in Natural
         /\ values(bs)[bytesOf(n)] = n
<1>. DEFINE k == bytesOf(n)
            v == values(bs)
            q(i) == pow2[GroupBits * (k - i)]
<1>1. /\ k \in Nat \ {0} /\ n \in Nat /\ n < pow2[IntBits - 1] /\ radix \in Nat \ {0}
      /\ n < q(1) * radix /\ GroupBits \in Nat /\ GroupBits <= IntBits
      /\ IntBits \in Nat /\ pow2[IntBits - 1] \in Nat
  BY BytesOfNatural, Widths DEF Natural
<1>2. \A i \in 1 .. k :
        /\ GroupBits * (k - i) \in 0 .. IntBits /\ q(i) \in Nat \ {0}
        /\ bs[i].bits = (n \div q(i)) % radix
  BY PackedInt
<1>3. v[0] = 0 /\ \A i \in 1 .. k : v[i] = wrap(v[i - 1] * radix + bs[i].bits)
  <2>1. Len(bs) \in Nat /\ \A i \in 1 .. k : i \in 1 .. Len(bs)
    BY <1>1
  <2>. QED
    BY <2>1, ValuesAreSteps
<1>4. \A i \in 1 .. k - 1 : q(i) = q(i + 1) * radix
  <2>1. ASSUME NEW i \in 1 .. k - 1 PROVE q(i) = q(i + 1) * radix
    <3>. DEFINE a == GroupBits * (k - (i + 1))
    <3>1. i \in 1 .. k /\ i + 1 \in 1 .. k /\ k - i \in Nat /\ k - (i + 1) \in Nat
      BY <1>1
    <3>2. GroupBits * (k - i) = a + GroupBits
      BY <1>1, <3>1
    <3>3. a \in Nat /\ a + GroupBits <= IntBits
      BY <1>1, <1>2, <3>1, <3>2
    <3>. HIDE DEF a
    <3>4. pow2[a + GroupBits] = pow2[a] * pow2[GroupBits]
      BY <1>1, <3>3, Pow2Sum
    <3>. QED
      BY <3>2, <3>4 DEF a, radix
  <2>. QED
    BY <2>1
<1>5. q(k) = 1
  <2>1. GroupBits * (k - k) = 0
    BY <1>1
  <2>. QED
    BY <2>1, Pow2Type
<1>. HIDE DEF k, v, q
<1>6. ASSUME NEW i \in 1 .. k PROVE n \div q(i) \in Natural
  <2>. DEFINE p == q(i)
  <2>1. p \in Nat \ {0}
    BY <1>2
  <2>. HIDE DEF p
  <2>2. n \div p \in Nat /\ n \div p <= n
    <3>1. n \div p \in Nat /\ (n \div p) * p <= n
      BY <1>1, <2>1
    <3>. DEFINE x == n \div p
    <3>2. x \in Nat /\ x * p <= n
      BY <3>1
    <3>. HIDE DEF x
    <3>3. x <= x * p
      BY <2>1, <3>2
    <3>4. x <= n
      BY <1>1, <2>1, <3>2, <3>3
    <3>. QED
      BY <3>2, <3>4 DEF x
  <2>. QED
    BY <1>1, <2>2 DEF Natural, p
<1>7. v[1] = n \div q(1)
  <2>1. 1 \in 1 .. k
    BY <1>1
  <2>. DEFINE p == q(1)
              x == n \div p
              w == x % radix
  <2>2. x \in Natural /\ p \in Nat \ {0}
    BY <1>2, <1>6, <2>1
  <2>3. x \in Nat /\ x < radix
    <3>1. p \in Nat \ {0} /\ n < p * radix
      BY <1>1, <2>2
    <3>. HIDE DEF p
    <3>2. x * p <= n /\ x \in Nat
      BY <1>1, <3>1
    <3>. HIDE DEF x
    <3>3. x < radix
      <4>. SUFFICES ASSUME x >= radix PROVE FALSE
        BY <1>1, <3>2
      <4>1. x * p >= p * radix
        BY <1>1, <3>1, <3>2
      <4>2. x * p \in Nat /\ p * radix \in Nat
        BY <1>1, <3>1, <3>2
      <4>. QED
        BY <1>1, <3>1, <3>2, <4>1, <4>2
    <3>. QED
      BY <3>2, <3>3
  <2>7. bs[1].bits = w
    BY <1>2, <2>1
  <2>. HIDE DEF w
  <2>4. v[1] = wrap(v[0] * radix + w)
    <3>. DEFINE b == bs[1].bits
                j == 1 - 1
    <3>1. v[1] = wrap(v[j] * radix + b)
      BY <1>3, <2>1
    <3>2. j = 0 /\ b = w
      BY <2>7
    <3>. HIDE DEF b, j
    <3>. QED
      BY <3>1, <3>2
  <2>5. w = x /\ 0 * radix + x = x
    <3>. HIDE DEF x
    <3>. QED
      BY <1>1, <2>3 DEF w
  <2>6. v[1] = wrap(x)
    BY <1>3, <2>4, <2>5
  <2>. QED
    BY <2>2, <2>6, WrapOfNatural DEF x
<1>8. ASSUME NEW i \in 1 .. k - 1, v[i] = n \div q(i)
      PROVE  v[i + 1] = n \div q(i + 1)
  <2>. DEFINE p == q(i + 1)
              x == n \div p
              w == x % radix
  <2>1. i + 1 \in 1 .. k /\ (i + 1) - 1 = i /\ p \in Nat \ {0}
    BY <1>1, <1>2
  <2>7. bs[i + 1].bits = w
    BY <1>2, <2>1
  <2>. HIDE DEF w, x
  <2>2. v[i + 1] = wrap(v[i] * radix + w)
    <3>. DEFINE b == bs[i + 1].bits
                j == (i + 1) - 1
    <3>1. v[i + 1] = wrap(v[j] * radix + b)
      BY <1>3, <2>1
    <3>2. j = i /\ b = w
      BY <2>7
    <3>. HIDE DEF b, j
    <3>. QED
      BY <3>1, <3>2
  <2>3. v[i] = n \div (p * radix)
    BY <1>4, <1>8
  <2>. HIDE DEF p
  <2>. DEFINE y == v[i]
              z == p * radix
  <2>4. IsQuotient(y, n, z) /\ IsProduct(z, p, radix) /\ IsQuotient(x, n, p)
        /\ IsRest(w, x, radix)
    BY <2>3 DEF x, w, IsQuotient, IsProduct, IsRest
  <2>. HIDE DEF y, z
  <2>8. y * radix + w = x
    BY <1>1, <2>1, <2>4, DivShift
  <2>5. v[i + 1] = wrap(x)
    BY <2>2, <2>8 DEF y
  <2>6. x \in Natural
    BY <1>6, <2>1 DEF p, x
  <2>. QED
    BY <2>5, <2>6, WrapOfNatural DEF p, x
<1>9. \A i \in 1 .. k : v[i] = n \div q(i)
  <2>. DEFINE S == {i \in Nat : i + 1 <= k => v[i + 1] = n \div q(i + 1)}
  <2>1. 0 \in S
    BY <1>7
  <2>2. ASSUME NEW i \in Nat, i \in S PROVE i + 1 \in S
    <3>1. CASE (i + 1) + 1 <= k
      <4>. DEFINE j == i + 1
      <4>1. j \in 1 .. k - 1 /\ v[j] = n \div q(j)
        BY <1>1, <2>2, <3>1
      <4>. HIDE DEF j
      <4>2. v[j + 1] = n \div q(j + 1)
        BY <1>8, <4>1
      <4>. QED
        BY <4>2 DEF j
    <3>. QED
      BY <3>1
  <2>. HIDE DEF S
  <2>3. \A i \in Nat : i \in S
    BY <2>1, <2>2, SetInduction
  <2>4. ASSUME NEW i \in 1 .. k PROVE v[i] = n \div q(i)
    <3>. DEFINE j == i - 1
    <3>1. j \in Nat /\ j + 1 = i /\ j + 1 <= k
      BY <1>1
    <3>2. j \in S
      BY <2>3, <3>1
    <3>. HIDE DEF j
    <3>3. v[j + 1] = n \div q(j + 1)
      BY <3>1, <3>2 DEF S
    <3>. QED
      BY <3>1, <3>3
  <2>. QED
    BY <2>4
<1>10. v[k] = n
  <2>1. k \in 1 .. k /\ n \div 1 = n
    BY <1>1
  <2>. QED
    BY <1>5, <1>9, <2>1
<1>. QED
  BY <1>6, <1>9, <1>10 DEF k, v

\* The bytes of n are at the front of bs.
Starts(bs, n) ==
  bytesOf(n) <= Len(bs) /\ \A i \in 1 .. bytesOf(n) : bs[i] = packInt(n)[i]

\* unpackIntPair finds where an integer ends.
LEMMA LengthOfPacked ==
  ASSUME NEW n \in Natural, NEW bs \in Seq(Byte), Starts(bs, n)
  PROVE  /\ lengthOfInt(bs) = bytesOf(n)
         /\ values(bs)[bytesOf(n)] = n
<1>. DEFINE k == bytesOf(n)
            I == {i \in 1 .. Len(bs) : ~bs[i].more}
            last == SelectInSeq(bs, LAMBDA byte : ~byte.more)
<1>1. k \in 1 .. MaxGroups /\ k \in 1 .. Len(bs) /\ MaxGroups \in Nat /\ Len(bs) \in Nat
  BY BytesOfNatural, Widths DEF Starts
<1>2. \A i \in 1 .. k : bs[i].more <=> i < k
  BY PackedInt DEF Starts
<1>3. (\A i \in 1 .. k : values(bs)[i] \in Natural) /\ values(bs)[k] = n
  BY PrefixValues DEF Starts
<1>4. last = IF I # {} THEN Min(I) ELSE 0
  BY DEF SelectInSeq
<1>. HIDE DEF k, last
<1>5. k \in I /\ I \in SUBSET Nat /\ \A i \in I : i >= k
  BY <1>1, <1>2
<1>. HIDE DEF I
<1>6. Min(I) \in I /\ \A i \in I : Min(I) <= i
  BY <1>5, LeastNumber
<1>7. last = k
  <2>. DEFINE m == Min(I)
  <2>1. m \in I /\ m <= k /\ m \in Nat /\ m >= k
    BY <1>5, <1>6
  <2>2. last = m
    BY <1>4, <1>5
  <2>. HIDE DEF m
  <2>. QED
    BY <1>1, <2>1, <2>2
<1>8. \A i \in 1 .. k - 1 : i < MaxGroups /\ values(bs)[i] >= 0
  <2>1. ASSUME NEW i \in 1 .. k - 1 PROVE i < MaxGroups /\ values(bs)[i] >= 0
    <3>1. i \in 1 .. k /\ i < k
      BY <1>1
    <3>2. values(bs)[i] \in Nat
      BY <1>3, <3>1, Widths
    <3>. QED
      BY <1>1, <3>1, <3>2
  <2>. QED
    BY <2>1
<1>. QED
  BY <1>3, <1>7, <1>8 DEF lengthOfInt, last, k

IsPacked(bs, a, b, t) == bs = packInt(a) \o packInt(b) \o t

\* What packIntPair packs, with anything behind it, unpackIntPair unpacks.
LEMMA UnpackOfPacked ==
  ASSUME NEW a \in Natural, NEW b \in Natural, NEW t \in Seq(Byte),
         NEW bs, IsPacked(bs, a, b, t)
  PROVE  LET p == unpackIntPair(bs)
         IN  /\ bs \in Seq(Byte)
             /\ p.a = a /\ p.b = b
             /\ p.size = bytesOf(a) + bytesOf(b)
             /\ p.size \in 2 .. Len(bs)
             /\ SubSeq(bs, p.size + 1, Len(bs)) = t
<1>. DEFINE x == packInt(a)
            y == packInt(b)
            m == bytesOf(a)
            n == bytesOf(b)
            yt == y \o t
<1>0. bs = x \o y \o t
  BY DEF IsPacked
<1>1. /\ x \in Seq(Byte) /\ Len(x) = m /\ m \in Nat \ {0}
      /\ y \in Seq(Byte) /\ Len(y) = n /\ n \in Nat \ {0}
      /\ Len(t) \in Nat
  BY PackedInt, BytesOfNatural, Widths
<1>. HIDE DEF x, y, m, n
<1>2. /\ yt \in Seq(Byte) /\ Len(yt) = n + Len(t)
      /\ \A i \in 1 .. n : yt[i] = y[i]
      /\ \A i \in 1 .. Len(t) : yt[n + i] = t[i]
  BY <1>1
<1>3. x \o y \in Seq(Byte) /\ Len(x \o y) = m + n
  BY <1>1
<1>4. /\ bs \in Seq(Byte) /\ Len(bs) = m + n + Len(t)
      /\ \A i \in 1 .. m : bs[i] = x[i]
      /\ \A i \in 1 .. n : bs[m + i] = y[i]
      /\ \A i \in 1 .. Len(t) : bs[m + n + i] = t[i]
  <2>. DEFINE xy == x \o y
  <2>1. \A i \in 1 .. m : xy[i] = x[i]
    BY <1>1
  <2>2. \A i \in 1 .. n : xy[m + i] = y[i]
    BY <1>1
  <2>3. xy \in Seq(Byte) /\ Len(xy) = m + n
    BY <1>3
  <2>. HIDE DEF xy
  <2>4. /\ xy \o t \in Seq(Byte) /\ Len(xy \o t) = m + n + Len(t)
        /\ \A i \in 1 .. m + n : (xy \o t)[i] = xy[i]
        /\ \A i \in 1 .. Len(t) : (xy \o t)[m + n + i] = t[i]
    <3>1. /\ xy \o t \in Seq(Byte) /\ Len(xy \o t) = Len(xy) + Len(t)
          /\ \A i \in 1 .. Len(xy) + Len(t) :
               (xy \o t)[i] = IF i <= Len(xy) THEN xy[i] ELSE t[i - Len(xy)]
      BY <2>3, ConcatProperties
    <3>. DEFINE c == xy \o t
                l == m + n
    <3>2. /\ c \in Seq(Byte) /\ Len(c) = l + Len(t) /\ l \in Nat
          /\ \A i \in 1 .. l + Len(t) : c[i] = IF i <= l THEN xy[i] ELSE t[i - l]
      BY <1>1, <2>3, <3>1
    <3>. HIDE DEF c, l
    <3>3. \A i \in 1 .. l : c[i] = xy[i]
      BY <1>1, <3>2
    <3>4. \A i \in 1 .. Len(t) : c[l + i] = t[i]
      <4>1. ASSUME NEW i \in 1 .. Len(t) PROVE c[l + i] = t[i]
        <5>1. l + i \in 1 .. l + Len(t) /\ ~(l + i <= l) /\ (l + i) - l = i
          BY <1>1, <3>2
        <5>. QED
          BY <3>2, <5>1
      <4>. QED
        BY <4>1
    <3>. QED
      BY <3>2, <3>3, <3>4 DEF c, l
  <2>5. \A i \in 1 .. m : (xy \o t)[i] = x[i]
    BY <1>1, <2>1, <2>4
  <2>6. \A i \in 1 .. n : (xy \o t)[m + i] = y[i]
    BY <1>1, <2>2, <2>4
  <2>. QED
    BY <1>0, <2>4, <2>5, <2>6 DEF xy
<1>. HIDE DEF yt
<1>5. SubSeq(bs, m + 1, Len(bs)) = yt
  <2>. DEFINE r == SubSeq(bs, m + 1, Len(bs))
  <2>1. r \in Seq(Byte) /\ Len(r) = n + Len(t)
        /\ \A i \in 1 .. n + Len(t) : r[i] = bs[m + i]
    <3>. DEFINE from == m + 1
                to == Len(bs)
    <3>1. from \in Int /\ to \in Int /\ to - from + 1 = n + Len(t)
          /\ n + Len(t) > 0 /\ from <= to
      BY <1>1, <1>4
    <3>2. \A i \in from .. to : bs[i] \in Byte
      BY <1>1, <1>4
    <3>. HIDE DEF from, to
    <3>3. /\ SubSeq(bs, from, to) \in Seq(Byte)
          /\ Len(SubSeq(bs, from, to)) = n + Len(t)
          /\ \A i \in 1 .. n + Len(t) : SubSeq(bs, from, to)[i] = bs[from + i - 1]
      BY <3>1, <3>2, SubSeqProperties
    <3>4. r = SubSeq(bs, from, to)
      BY DEF from, to
    <3>. HIDE DEF r
    <3>5. \A i \in 1 .. n + Len(t) : from + i - 1 = m + i
      BY <1>1 DEF from
    <3>. QED
      BY <3>3, <3>4, <3>5
  <2>2. \A i \in 1 .. n + Len(t) : r[i] = yt[i]
    <3>1. ASSUME NEW i \in 1 .. n + Len(t) PROVE bs[m + i] = yt[i]
      <4>1. CASE i <= n
        BY <1>1, <1>2, <1>4, <3>1, <4>1
      <4>2. CASE i > n
        <5>. DEFINE j == i - n
        <5>1. j \in 1 .. Len(t) /\ m + i = m + n + j /\ i = n + j
          BY <1>1, <4>2
        <5>. HIDE DEF j
        <5>. QED
          BY <1>2, <1>4, <5>1
      <4>. QED
        BY <1>1, <4>1, <4>2
    <3>. QED
      BY <2>1, <3>1
  <2>. HIDE DEF r
  <2>3. r = yt
    BY <1>1, <1>2, <2>1, <2>2, SeqEqual
  <2>. QED
    BY <2>3 DEF r
<1>6. SubSeq(bs, m + n + 1, Len(bs)) = t
  <2>. DEFINE r == SubSeq(bs, m + n + 1, Len(bs))
  <2>1. r \in Seq(Byte) /\ Len(r) = Len(t)
        /\ \A i \in 1 .. Len(t) : r[i] = bs[m + n + i]
    BY <1>1, <1>4
  <2>. HIDE DEF r
  <2>2. r = t
    BY <1>1, <1>4, <2>1, SeqEqual
  <2>. QED
    BY <2>2 DEF r
<1>7. lengthOfInt(bs) = m /\ values(bs)[m] = a
  <2>1. Starts(bs, a)
    BY <1>1, <1>4 DEF Starts, m, x
  <2>. QED
    BY <1>4, <2>1, LengthOfPacked DEF m
<1>8. lengthOfInt(yt) = n /\ values(yt)[n] = b
  <2>1. Starts(yt, b)
    BY <1>1, <1>2 DEF Starts, n, y
  <2>. QED
    BY <1>2, <2>1, LengthOfPacked DEF n
<1>. DEFINE p == unpackIntPair(bs)
<1>9. p = [a |-> a, b |-> b, size |-> m + n]
  BY <1>1, <1>5, <1>7, <1>8 DEF unpackIntPair
<1>10. p.a = a /\ p.b = b /\ p.size = m + n
  BY <1>9
<1>. HIDE DEF p
<1>11. /\ bs \in Seq(Byte) /\ p.a = a /\ p.b = b /\ p.size = m + n
       /\ p.size \in 2 .. Len(bs) /\ SubSeq(bs, p.size + 1, Len(bs)) = t
  <2>1. m + n \in 2 .. Len(bs)
    BY <1>1, <1>4
  <2>. QED
    BY <1>4, <1>6, <1>10, <2>1
<1>. QED
  BY <1>11 DEF p, m, n

\* packIntPair refuses a pair or packs both of its integers into the room.
LEMMA PairOfPacked ==
  ASSUME NEW a \in Natural, NEW b \in Natural, NEW size \in Int,
         packIntPair(a, b, size) # <<>>
  PROVE  LET p == packIntPair(a, b, size)
         IN  p = packInt(a) \o packInt(b) /\ p \in Seq(Byte) /\ Len(p) <= size
<1>. DEFINE x == packInt(a)
            y == packInt(b)
<1>1. x \in Seq(Byte) /\ Len(x) = bytesOf(a) /\ y \in Seq(Byte) /\ Len(y) = bytesOf(b)
      /\ bytesOf(a) \in Nat /\ bytesOf(b) \in Nat
  BY PackedInt, BytesOfNatural, Widths
<1>2. packIntPair(a, b, size) = x \o y /\ bytesOf(a) + bytesOf(b) <= size
  BY <1>1 DEF packIntPair
<1>. HIDE DEF x, y
<1>3. x \o y \in Seq(Byte) /\ Len(x \o y) = bytesOf(a) + bytesOf(b)
  BY <1>1
<1>. QED
  BY <1>2, <1>3 DEF x, y

\* Two integers that packIntPair finds room for are what unpackIntPair reads, in
\* as many bytes, whatever bytes follow: for every width of int and of group.
THEOREM PairsSurvive ==
  ASSUME NEW a \in Natural, NEW b \in Natural, NEW size \in Int, NEW t \in Seq(Byte),
         packIntPair(a, b, size) # <<>>
  PROVE  LET s == packIntPair(a, b, size)
             p == unpackIntPair(s \o t)
         IN  p.a = a /\ p.b = b /\ p.size = Len(s)
<1>. DEFINE s == packIntPair(a, b, size)
            x == packInt(a)
            y == packInt(b)
            bs == s \o t
            p == unpackIntPair(bs)
<1>1. s = x \o y
  BY PairOfPacked
<1>2. /\ x \in Seq(Byte) /\ Len(x) = bytesOf(a) /\ y \in Seq(Byte) /\ Len(y) = bytesOf(b)
  BY PackedInt
<1>3. IsPacked(bs, a, b, t)
  BY <1>1 DEF IsPacked
<1>. HIDE DEF s, bs
<1>4. p.a = a /\ p.b = b /\ p.size = bytesOf(a) + bytesOf(b)
  BY <1>3, UnpackOfPacked
<1>. HIDE DEF x, y, p
<1>5. Len(s) = bytesOf(a) + bytesOf(b)
  <2>1. Len(x \o y) = Len(x) + Len(y)
    BY <1>2, ConcatProperties
  <2>. QED
    BY <1>1, <1>2, <2>1
<1>6. p.a = a /\ p.b = b /\ p.size = Len(s)
  BY <1>4, <1>5
<1>. QED
  BY <1>6 DEF p, bs, s

-----------------------------------------------------------------------------
(* What a packet says.                                                     *)

Index == 0 .. MaxIndex + 1

\* From the index `at' on, the bytes left say that the indices `says' are
\* received, and end at `last'.
Reading == [left : Seq(Byte), at : Index, says : SUBSET (0 .. MaxIndex), last : Index]

AtEnd(r) == r.left = <<>> /\ r.says = {} /\ r.at = r.last

\* r is a gap, a run of indices that are said and then t.
Precedes(r, gap, len, t) ==
  /\ r.left = packInt(gap) \o packInt(len) \o t.left
  /\ t.at = r.at + gap + len
  /\ r.says = (r.at + gap .. r.at + gap + len - 1) \cup t.says
  /\ t.last = r.last

\* Every reading of R is at its end or goes on in R.
IsReadable(R) ==
  /\ R \subseteq Reading
  /\ \A r \in R :
       AtEnd(r) \/ \E gap \in Natural, len \in Natural, t \in R : Precedes(r, gap, len, t)

Says(bs, i, S, e) ==
  \E R : IsReadable(R) /\ [left |-> bs, at |-> i, says |-> S, last |-> e] \in R

\* An index fits into an int.
LEMMA IndexIsNatural == Index \subseteq Natural /\ MaxIndex \in Nat /\ 0 \in Natural
BY IndexAssumption, Widths DEF Index, Natural

\* What is said is about bytes and indices.
LEMMA SaysType ==
  ASSUME NEW bs, NEW i, NEW S, NEW e, Says(bs, i, S, e)
  PROVE  bs \in Seq(Byte) /\ i \in Index /\ S \in SUBSET (0 .. MaxIndex) /\ e \in Index
<1>1. [left |-> bs, at |-> i, says |-> S, last |-> e] \in Reading
  BY DEF Says, IsReadable
<1>. QED
  BY <1>1 DEF Reading

\* An empty packet says nothing.
LEMMA SaysNothing ==
  ASSUME NEW i \in Index PROVE Says(<<>>, i, {}, i)
<1>. DEFINE r == [left |-> <<>>, at |-> i, says |-> {}, last |-> i]
            R == {r}
<1>1. r \in Reading /\ AtEnd(r)
  <2>1. <<>> \in Seq(Byte)
    OBVIOUS
  <2>. QED
    BY <2>1 DEF Reading, AtEnd
<1>. HIDE DEF r
<1>2. IsReadable(R) /\ r \in R
  BY <1>1 DEF IsReadable
<1>. HIDE DEF R
<1>. QED
  BY <1>2 DEF Says, r

\* A pair takes bytes.
LEMMA PairIsBytes ==
  ASSUME NEW a \in Natural, NEW b \in Natural
  PROVE  packInt(a) \o packInt(b) \in Seq(Byte) /\ packInt(a) \in Seq(Byte)
         /\ packInt(b) \in Seq(Byte) /\ Len(packInt(a) \o packInt(b)) \in Nat \ {0}
<1>. DEFINE x == packInt(a)
            y == packInt(b)
<1>1. x \in Seq(Byte) /\ y \in Seq(Byte) /\ Len(x) \in Nat \ {0} /\ Len(y) \in Nat
  BY PackedInt, BytesOfNatural, Widths
<1>. HIDE DEF x, y
<1>2. x \o y \in Seq(Byte) /\ Len(x \o y) \in Nat \ {0}
  BY <1>1
<1>. QED
  BY <1>1, <1>2 DEF x, y

\* A run more at the end of a packet.
LEMMA SaysMore ==
  ASSUME NEW bs, NEW i, NEW S, NEW e, Says(bs, i, S, e),
         NEW gap \in Natural, NEW len \in Natural, e + gap + len \in Index
  PROVE  Says(bs \o (packInt(gap) \o packInt(len)), i,
              S \cup (e + gap .. e + gap + len - 1), e + gap + len)
<1>. DEFINE p == packInt(gap) \o packInt(len)
            f == e + gap + len
            run == e + gap .. e + gap + len - 1
            more(r) == [left |-> r.left \o p, at |-> r.at, says |-> r.says \cup run,
                        last |-> f]
            z == [left |-> <<>>, at |-> f, says |-> {}, last |-> f]
            first == [left |-> bs, at |-> i, says |-> S, last |-> e]
<1>1. p \in Seq(Byte) /\ Len(p) \in Nat \ {0}
  BY PairIsBytes
<1>2. /\ e \in Index /\ f \in Index /\ run \in SUBSET (0 .. MaxIndex)
      /\ bs \in Seq(Byte) /\ S \in SUBSET (0 .. MaxIndex) /\ i \in Index
  <2>1. e \in Index /\ gap \in Nat /\ len \in Nat /\ bs \in Seq(Byte)
        /\ S \in SUBSET (0 .. MaxIndex) /\ i \in Index
    BY SaysType, Widths
  <2>. QED
    BY <2>1, IndexIsNatural DEF Index
<1>3. PICK R : IsReadable(R) /\ first \in R
  BY DEF Says
<1>. DEFINE Q == {r \in R : r.last = e}
            P == {more(r) : r \in Q} \cup {z}
<1>4. \A r \in Q : r \in Reading /\ more(r) \in Reading
  <2>1. ASSUME NEW r \in Q PROVE r \in Reading /\ more(r) \in Reading
    <3>1. r \in Reading
      BY <1>3 DEF IsReadable
    <3>2. r.left \in Seq(Byte) /\ r.at \in Index /\ r.says \in SUBSET (0 .. MaxIndex)
      BY <3>1 DEF Reading
    <3>. HIDE DEF p, f, run
    <3>3. r.left \o p \in Seq(Byte)
      BY <1>1, <3>2
    <3>. QED
      BY <1>2, <3>1, <3>2, <3>3 DEF Reading
  <2>. QED
    BY <2>1
<1>5. z \in Reading /\ AtEnd(z)
  <2>1. <<>> \in Seq(Byte)
    OBVIOUS
  <2>. HIDE DEF f
  <2>. QED
    BY <1>2, <2>1 DEF Reading, AtEnd
<1>6. \A r \in Q : AtEnd(r) => Precedes(more(r), gap, len, z)
  <2>1. ASSUME NEW r \in Q, AtEnd(r) PROVE Precedes(more(r), gap, len, z)
    <3>1. more(r).left = <<>> \o p /\ more(r).at = e /\ more(r).says = {} \cup run
          /\ more(r).last = f
      BY <2>1 DEF AtEnd
    <3>2. z.left = <<>> /\ z.at = f /\ z.says = {} /\ z.last = f
      OBVIOUS
    <3>3. <<>> \o p = p \o <<>>
      BY <1>1, ConcatEmptySeq
    <3>4. p \o <<>> = packInt(gap) \o packInt(len) \o <<>>
      OBVIOUS
    <3>. HIDE DEF p, z, more
    <3>. QED
      BY <3>1, <3>2, <3>3, <3>4 DEF Precedes
  <2>. QED
    BY <2>1
<1>7. ASSUME NEW r \in Q, NEW g \in Natural, NEW l \in Natural, NEW t \in R,
             Precedes(r, g, l, t)
      PROVE  t \in Q /\ Precedes(more(r), g, l, more(t))
  <2>1. t \in Q
    BY <1>7 DEF Precedes
  <2>2. t.left \in Seq(Byte) /\ packInt(g) \o packInt(l) \in Seq(Byte)
    BY <1>4, <2>1, PairIsBytes DEF Reading
  <2>3. (packInt(g) \o packInt(l) \o t.left) \o p
          = packInt(g) \o packInt(l) \o (t.left \o p)
    <3>. DEFINE q == packInt(g) \o packInt(l)
                tl == t.left
    <3>1. q \in Seq(Byte) /\ tl \in Seq(Byte)
      BY <2>2
    <3>. HIDE DEF q, tl, p
    <3>2. (q \o tl) \o p = q \o (tl \o p)
      BY <1>1, <3>1, ConcatAssociative
    <3>. QED
      BY <3>2 DEF q, tl
  <2>4. more(r).left = r.left \o p /\ more(r).at = r.at /\ more(r).says = r.says \cup run
        /\ more(r).last = f
    OBVIOUS
  <2>5. more(t).left = t.left \o p /\ more(t).at = t.at /\ more(t).says = t.says \cup run
        /\ more(t).last = f
    OBVIOUS
  <2>. HIDE DEF p, f, run, more, Q
  <2>. QED
    BY <1>7, <2>1, <2>3, <2>4, <2>5 DEF Precedes
<1>8. IsReadable(P)
  <2>. HIDE DEF z, more, Q
  <2>1. P \subseteq Reading
    BY <1>4, <1>5
  <2>2. ASSUME NEW r \in Q
        PROVE  \E g \in Natural, l \in Natural, t \in P : Precedes(more(r), g, l, t)
    <3>1. r \in R
      BY DEF Q
    <3>2. CASE AtEnd(r)
      BY <1>6, <3>2
    <3>3. CASE ~AtEnd(r)
      <4>1. PICK g \in Natural, l \in Natural, t \in R : Precedes(r, g, l, t)
        BY <1>3, <3>1, <3>3 DEF IsReadable
      <4>. DEFINE mt == more(t)
      <4>2. t \in Q /\ Precedes(more(r), g, l, mt)
        BY <1>7, <4>1
      <4>3. mt \in P
        BY <4>2
      <4>. HIDE DEF mt, P
      <4>. QED
        BY <4>2, <4>3
    <3>. QED
      BY <3>2, <3>3
  <2>3. \A x \in P : AtEnd(x) \/ \E g \in Natural, l \in Natural, t \in P : Precedes(x, g, l, t)
    BY <1>5, <2>2
  <2>. HIDE DEF P
  <2>. QED
    BY <2>1, <2>3 DEF IsReadable
<1>9. more(first) \in P
  <2>1. first \in Q
    BY <1>3
  <2>. HIDE DEF more, first, Q
  <2>. QED
    BY <2>1
<1>10. more(first) = [left |-> bs \o p, at |-> i, says |-> S \cup run, last |-> f]
  OBVIOUS
<1>. HIDE DEF P, more, first
<1>. QED
  BY <1>8, <1>9, <1>10 DEF Says

IsUnpacked(p, bs) == p = unpackIntPair(bs)

\* The packet is at its end, or unpackIntPair finds the next run.
LEMMA SaysNext ==
  ASSUME NEW bs, NEW i, NEW S, NEW e, Says(bs, i, S, e),
         NEW p, IsUnpacked(p, bs), NEW next, next = i + p.a + p.b
  PROVE  IF bs = <<>> THEN S = {}
         ELSE /\ p.a \in Natural /\ p.b \in Natural /\ p.size \in Nat \ {0}
              /\ next \in Index
              /\ \E T : /\ Says(SubSeq(bs, p.size + 1, Len(bs)), next, T, e)
                        /\ S = (next - p.b .. next - 1) \cup T
<1>. DEFINE first == [left |-> bs, at |-> i, says |-> S, last |-> e]
<1>1. PICK R : IsReadable(R) /\ first \in R
  BY DEF Says
<1>0. first.left = bs /\ first.at = i /\ first.says = S /\ first.last = e
  OBVIOUS
<1>. HIDE DEF first
<1>2. CASE AtEnd(first)
  BY <1>0, <1>2 DEF AtEnd
<1>3. CASE ~AtEnd(first)
  <2>1. PICK gap \in Natural, len \in Natural, t \in R : Precedes(first, gap, len, t)
    BY <1>1, <1>3 DEF IsReadable
  <2>2. t \in Reading /\ first \in Reading
    BY <1>1 DEF IsReadable
  <2>3. t.left \in Seq(Byte) /\ t.at \in Index
    BY <2>2 DEF Reading
  <2>4. bs = packInt(gap) \o packInt(len) \o t.left
    BY <1>0, <2>1 DEF Precedes
  <2>. DEFINE tl == t.left
  <2>5. /\ p.a = gap /\ p.b = len /\ p.size \in 2 .. Len(bs) /\ bs \in Seq(Byte)
        /\ SubSeq(bs, p.size + 1, Len(bs)) = t.left
    <3>1. tl \in Seq(Byte) /\ IsPacked(bs, gap, len, tl)
      BY <2>3, <2>4 DEF IsPacked
    <3>. HIDE DEF tl
    <3>2. /\ p.a = gap /\ p.b = len /\ p.size \in 2 .. Len(bs) /\ bs \in Seq(Byte)
          /\ SubSeq(bs, p.size + 1, Len(bs)) = tl
      BY <3>1, UnpackOfPacked DEF IsUnpacked
    <3>. QED
      BY <3>2 DEF tl
  <2>6. bs # <<>> /\ p.size \in Nat \ {0}
    <3>1. Len(<<>>) = 0 /\ Len(bs) \in Nat
      BY <2>5
    <3>2. p.size \in Nat \ {0} /\ Len(bs) # 0
      BY <2>5, <3>1
    <3>. QED
      BY <3>1, <3>2
  <2>7. t = [left |-> t.left, at |-> t.at, says |-> t.says, last |-> t.last]
    BY <2>2 DEF Reading
  <2>8. Says(t.left, t.at, t.says, t.last)
    BY <1>1, <2>1, <2>7 DEF Says
  <2>9. t.at = i + gap + len /\ S = (i + gap .. i + gap + len - 1) \cup t.says /\ t.last = e
    BY <1>0, <2>1 DEF Precedes
  <2>10. next = i + gap + len /\ i \in Nat /\ gap \in Nat /\ len \in Nat /\ next \in Nat
    <3>1. i \in Nat /\ gap \in Nat /\ len \in Nat
      BY SaysType, Widths, IndexIsNatural
    <3>2. next = i + gap + len
      BY <2>5
    <3>. QED
      BY <3>1, <3>2
  <2>. DEFINE V == t.says
              b == p.b
  <2>11. Says(SubSeq(bs, p.size + 1, Len(bs)), next, V, e)
    <3>. DEFINE u == t.at
                w == t.last
                x == t.left
                y == SubSeq(bs, p.size + 1, Len(bs))
    <3>1. Says(x, u, V, w)
      BY <2>8
    <3>2. x = y /\ u = next /\ w = e
      BY <2>5, <2>9, <2>10
    <3>. HIDE DEF u, w, x, y, V
    <3>3. Says(y, next, V, e)
      BY <3>1, <3>2
    <3>. QED
      BY <3>3 DEF y
  <2>12. S = (next - b .. next - 1) \cup V
    <3>. DEFINE lo == i + gap
                hi == i + gap + len - 1
                from == next - b
                to == next - 1
    <3>1. S = (lo .. hi) \cup V
      BY <2>9
    <3>2. from = lo
      <4>1. b = len
        BY <2>5
      <4>. HIDE DEF b
      <4>. QED
        BY <2>10, <4>1
    <3>3. to = hi
      BY <2>10
    <3>. HIDE DEF lo, hi, from, to, V
    <3>4. S = (from .. to) \cup V
      BY <3>1, <3>2, <3>3
    <3>. QED
      BY <3>4 DEF from, to
  <2>13. next \in Index
    BY <2>3, <2>9, <2>10
  <2>14. p.a \in Natural /\ p.b \in Natural
    BY <2>5
  <2>. HIDE DEF V
  <2>15. \E T : /\ Says(SubSeq(bs, p.size + 1, Len(bs)), next, T, e)
               /\ S = (next - p.b .. next - 1) \cup T
    BY <2>11, <2>12
  <2>. QED
    BY <2>6, <2>13, <2>14, <2>15
<1>. QED
  BY <1>2, <1>3

-----------------------------------------------------------------------------
(* The invariant.                                                          *)

Bounds ==
  /\ master \in Index /\ received \in SUBSET (0 .. MaxIndex) /\ capacity \in Nat
  /\ rest \in SUBSET toConfirm /\ \A i \in rest : i >= prevIndex
  /\ prevIndex \in master .. MaxIndex + 1 /\ currentIndex \in master .. MaxIndex + 1
  /\ confirmed \in SUBSET toConfirm
  /\ building \in BOOLEAN /\ failed \in BOOLEAN /\ warned = FALSE

Sizing ==
  /\ data \in Seq(Byte) /\ Len(data) <= capacity
  /\ packets \in Seq(Seq(Byte)) /\ \A n \in 1 .. Len(packets) : Len(packets[n]) <= capacity
  /\ unread \in SUBSET (1 .. Len(packets))

Phases ==
  /\ building => unread = {} /\ bytes = <<>> /\ confirmed = {}
  /\ ~building => rest = {}

\* W[n] is what packet n says, D what is packed for the current one.
Told(W, D) ==
  /\ W \in [1 .. Len(packets) -> SUBSET toConfirm]
  /\ D \in SUBSET toConfirm
  /\ \A n \in 1 .. Len(packets) : \E e : Says(packets[n], master, W[n], e)
  /\ \E e : Says(data, master, D, e) /\ (rest # {} => e = prevIndex)
  /\ ~failed => \A i \in toConfirm :
       i \in rest \/ (building /\ i \in D) \/ \E n \in 1 .. Len(packets) : i \in W[n]

\* L is what the bytes say that udpRead has still to unpack.
Heard(W, L) ==
  /\ L \in SUBSET toConfirm
  /\ \E e : Says(bytes, currentIndex, L, e)
  /\ ~building => \A n \in (1 .. Len(packets)) \ unread : W[n] \subseteq confirmed \cup L

Accounted == \E W, D, L : Told(W, D) /\ Heard(W, L)

IInv == Bounds /\ Sizing /\ Phases /\ Accounted

\* What is received does not change while it is told.
LEMMA ToConfirmIsStable ==
  ASSUME UNCHANGED <<master, received>> PROVE toConfirm' = toConfirm
BY DEF toConfirm

\* Nothing is packed and nothing is unpacked.
LEMMA InitInvariant == Init => IInv
<1>. SUFFICES ASSUME Init PROVE IInv
  OBVIOUS
<1>. USE DEF Init
<1>1. MaxIndex \in Nat /\ master \in Index /\ Index = 0 .. MaxIndex + 1
  BY IndexIsNatural DEF Index
<1>2. received \in SUBSET (0 .. MaxIndex)
  BY <1>1
<1>3. Bounds
  <2>1. capacity \in Nat /\ rest \in SUBSET toConfirm /\ \A i \in rest : i >= prevIndex
    BY SizesAssumption DEF toConfirm
  <2>2. prevIndex \in master .. MaxIndex + 1 /\ currentIndex \in master .. MaxIndex + 1
    BY <1>1
  <2>. QED
    BY <1>1, <1>2, <2>1, <2>2 DEF Bounds
<1>4. Len(data) = 0 /\ Len(packets) = 0 /\ data \in Seq(Byte) /\ packets \in Seq(Seq(Byte))
  OBVIOUS
<1>5. Sizing
  <2>1. capacity \in Nat /\ unread = {}
    BY <1>3 DEF Bounds
  <2>2. \A n \in 1 .. Len(packets) : FALSE
    BY <1>4
  <2>. QED
    BY <1>4, <2>1, <2>2 DEF Sizing
<1>6. Phases
  BY DEF Phases
<1>7. Says(<<>>, master, {}, master)
  BY <1>1, SaysNothing
<1>. DEFINE W == [n \in 1 .. Len(packets) |-> {}]
<1>8. Told(W, {})
  <2>1. W \in [1 .. Len(packets) -> SUBSET toConfirm]
    OBVIOUS
  <2>2. \A n \in 1 .. Len(packets) : FALSE
    BY <1>4
  <2>. HIDE DEF W
  <2>. QED
    BY <1>7, <2>1, <2>2 DEF Told
<1>9. Heard(W, {})
  BY <1>7 DEF Heard
<1>. HIDE DEF W
<1>. QED
  BY <1>3, <1>5, <1>6, <1>8, <1>9 DEF IInv, Accounted

\* The run that the loop of buildConfirmations finds: begin and end are indices,
\* nothing before begin is left, and what is left behind it begins at end.
LEMMA FirstRun ==
  ASSUME Bounds, rest # {}
  PROVE  /\ begin \in rest /\ begin \in Nat /\ end \in Nat /\ begin < end /\ end \in Index
         /\ begin .. end - 1 \in SUBSET rest
         /\ \A i \in rest \ (begin .. end - 1) : i >= end
         /\ begin - prevIndex \in Natural /\ begin - master \in Natural
         /\ end - begin \in Natural
         /\ prevIndex \in Nat /\ master \in Nat /\ end >= prevIndex /\ end >= master
<1>1. /\ master \in Nat /\ prevIndex \in Nat /\ prevIndex >= master /\ MaxIndex \in Nat
      /\ rest \in SUBSET (0 .. MaxIndex) /\ \A i \in rest : i >= prevIndex
      /\ Index = 0 .. MaxIndex + 1 /\ Index \in SUBSET Natural
  BY IndexIsNatural DEF Bounds, Index, toConfirm
<1>2. begin \in rest /\ \A i \in rest : begin <= i
  <2>1. rest \in SUBSET Nat
    BY <1>1
  <2>. QED
    BY <2>1, LeastNumber DEF begin
<1>. DEFINE T == {i \in begin .. MaxIndex + 1 : i \notin rest}
<1>3. end \in T /\ \A i \in T : end <= i
  <2>1. T \in SUBSET Nat /\ T # {}
    <3>1. begin \in Nat /\ begin <= MaxIndex
      BY <1>1, <1>2
    <3>2. MaxIndex + 1 \in T
      BY <1>1, <3>1
    <3>. QED
      BY <3>1, <3>2
  <2>2. end = Min(T)
    BY DEF end
  <2>. HIDE DEF T
  <2>. QED
    BY <2>1, <2>2, LeastNumber
<1>4. begin \in Nat /\ begin <= MaxIndex
  BY <1>1, <1>2
<1>5. end \in begin .. MaxIndex + 1 /\ end \notin rest
  BY <1>3
<1>6. begin < end /\ end \in Nat
  BY <1>2, <1>4, <1>5
<1>7. begin .. end - 1 \in SUBSET rest
  <2>1. ASSUME NEW i \in begin .. end - 1, i \notin rest PROVE FALSE
    <3>1. i \in T /\ i < end /\ i \in Nat
      BY <1>1, <1>4, <1>5, <1>6, <2>1
    <3>. QED
      BY <1>3, <1>6, <3>1
  <2>. QED
    BY <2>1
<1>8. ASSUME NEW i \in rest \ (begin .. end - 1) PROVE i >= end
  <2>1. i \in Nat /\ i >= begin
    BY <1>1, <1>2, <1>4
  <2>. QED
    BY <1>4, <1>6, <2>1
<1>9. begin - prevIndex \in Index /\ begin - master \in Index /\ end - begin \in Index
  BY <1>1, <1>2, <1>4, <1>5, <1>6
<1>. QED
  BY <1>1, <1>2, <1>4, <1>5, <1>6, <1>7, <1>8, <1>9

\* A run goes behind what the current packet says, or into an empty one.
LEMMA RunPacked ==
  ASSUME Bounds, rest # {}, NEW bs \in Seq(Byte), NEW D \in SUBSET toConfirm,
         NEW e \in {prevIndex, master}, Says(bs, master, D, e),
         NEW size \in Int, NEW p, p = packIntPair(begin - e, end - begin, size),
         p # <<>>
  PROVE  /\ p \in Seq(Byte) /\ Len(p) <= size
         /\ Says(bs \o p, master, D \cup (begin .. end - 1), end)
<1>. DEFINE a == begin - e
            b == end - begin
<1>1. a \in Natural /\ b \in Natural /\ e \in Nat /\ begin \in Nat /\ end \in Nat
      /\ end \in Index
  BY FirstRun
<1>2. e + a = begin /\ e + a + b = end
  BY <1>1
<1>. HIDE DEF a, b
<1>3. p = packIntPair(a, b, size)
  BY DEF a, b
<1>4. p = packInt(a) \o packInt(b) /\ p \in Seq(Byte) /\ Len(p) <= size
  BY <1>1, <1>3, PairOfPacked
<1>5. Says(bs \o (packInt(a) \o packInt(b)), master,
           D \cup (e + a .. e + a + b - 1), e + a + b)
  BY <1>1, <1>2, SaysMore
<1>. DEFINE q == packInt(a) \o packInt(b)
            lo == e + a
            hi == e + a + b
            last == e + a + b - 1
<1>6. Says(bs \o q, master, D \cup (lo .. last), hi)
  BY <1>5
<1>7. p = q /\ lo = begin /\ hi = end /\ last = end - 1
  <2>1. a \in Nat /\ b \in Nat
    BY <1>1, Widths
  <2>. QED
    BY <1>1, <1>2, <1>4, <2>1
<1>. HIDE DEF q, lo, hi, last
<1>8. Says(bs \o p, master, D \cup (begin .. end - 1), end)
  BY <1>6, <1>7
<1>. QED
  BY <1>4, <1>8

\* A run more in the current packet.
LEMMA PackRunInvariant == IInv /\ PackRun => IInv'
<1>. SUFFICES ASSUME IInv, PackRun PROVE IInv'
  OBVIOUS
<1>. PICK W, D, L : Told(W, D) /\ Heard(W, L)
  BY DEF IInv, Accounted
<1>0. Bounds /\ Sizing /\ Phases
  BY DEF IInv
<1>. PICK p : p = packIntPair(begin - prevIndex, end - begin, capacity - Len(data))
  OBVIOUS
<1>. PICK d : d = D \cup (begin .. end - 1)
  OBVIOUS
<1>1. /\ building /\ rest # {} /\ p # <<>>
      /\ data' = data \o p /\ prevIndex' = end /\ rest' = rest \ (begin .. end - 1)
      /\ UNCHANGED <<master, received, capacity, packets, building, failed, unread, bytes,
                     currentIndex, confirmed, warned, toConfirm>>
  BY ToConfirmIsStable DEF PackRun, receiver
<1>2. /\ begin .. end - 1 \in SUBSET rest /\ end \in Index /\ end >= master
      /\ \A i \in rest \ (begin .. end - 1) : i >= end
  BY <1>0, <1>1, FirstRun
<1>3. data \in Seq(Byte) /\ capacity - Len(data) \in Int /\ Len(data) \in Nat
      /\ capacity \in Nat /\ Len(data) <= capacity
  BY <1>0 DEF Bounds, Sizing
<1>4. p \in Seq(Byte) /\ Len(p) <= capacity - Len(data) /\ Says(data \o p, master, d, end)
  <2>1. D \in SUBSET toConfirm /\ Says(data, master, D, prevIndex)
    BY <1>1 DEF Told
  <2>. QED
    BY <1>0, <1>1, <1>3, <2>1, RunPacked
<1>5. data \o p \in Seq(Byte) /\ Len(data \o p) <= capacity
  <2>1. data \o p \in Seq(Byte) /\ Len(data \o p) = Len(data) + Len(p) /\ Len(p) \in Nat
    BY <1>3, <1>4
  <2>. QED
    BY <1>3, <1>4, <2>1
<1>6. Bounds'
  <2>1. master \in Nat /\ MaxIndex + 1 \in Nat
    BY <1>0, IndexIsNatural DEF Bounds, Index
  <2>2. end \in master .. MaxIndex + 1
    BY <1>2, <2>1 DEF Index
  <2>. QED
    BY <1>0, <1>1, <1>2, <2>2 DEF Bounds
<1>7. Sizing'
  BY <1>0, <1>1, <1>5 DEF Sizing
<1>8. Phases'
  BY <1>0, <1>1 DEF Phases
<1>9. Told(W, d)'
  <2>1. d \in SUBSET toConfirm
    BY <1>0, <1>2 DEF Told, Bounds
  <2>2. Says(data', master', d, prevIndex')
    BY <1>1, <1>4
  <2>3. ~failed => \A i \in toConfirm :
          i \in rest' \/ (building /\ i \in d) \/ \E n \in 1 .. Len(packets) : i \in W[n]
    BY <1>1 DEF Told
  <2>. QED
    BY <1>1, <2>1, <2>2, <2>3 DEF Told
<1>10. Heard(W, L)'
  BY <1>1 DEF Heard
<1>. QED
  BY <1>6, <1>7, <1>8, <1>9, <1>10 DEF IInv, Accounted

\* The packet is queued and what it says with it.
LEMMA PacketQueued ==
  ASSUME NEW V, NEW P \in Seq(V), NEW x \in V, NEW S, NEW D \in S,
         NEW W \in [1 .. Len(P) -> S]
  PROVE  LET Q == Append(P, x)
             X == [n \in 1 .. Len(P) + 1 |-> IF n = Len(P) + 1 THEN D ELSE W[n]]
         IN  /\ Q \in Seq(V) /\ Len(Q) = Len(P) + 1 /\ Len(P) \in Nat
             /\ X \in [1 .. Len(Q) -> S]
             /\ \A n \in 1 .. Len(Q) :
                  \/ n \in 1 .. Len(P) /\ Q[n] = P[n] /\ X[n] = W[n]
                  \/ n = Len(P) + 1 /\ Q[n] = x /\ X[n] = D
             /\ \A n \in 1 .. Len(P) : n \in 1 .. Len(Q) /\ X[n] = W[n]
             /\ Len(P) + 1 \in 1 .. Len(Q) /\ X[Len(P) + 1] = D
<1>. DEFINE Q == Append(P, x)
            L == Len(P)
            X == [n \in 1 .. L + 1 |-> IF n = L + 1 THEN D ELSE W[n]]
<1>1. L \in Nat /\ Q \in Seq(V) /\ Len(Q) = L + 1 /\ Q[L + 1] = x
      /\ \A n \in 1 .. L : Q[n] = P[n]
  OBVIOUS
<1>. HIDE DEF Q, L
<1>2. \A n \in 1 .. L + 1 : n \in 1 .. L \/ n = L + 1
  BY <1>1
<1>3. (\A n \in 1 .. L : n \in 1 .. L + 1 /\ n # L + 1) /\ L + 1 \in 1 .. L + 1
  BY <1>1
<1>4. (\A n \in 1 .. L : X[n] = W[n]) /\ X[L + 1] = D
  BY <1>3
<1>5. W \in [1 .. L -> S]
  BY DEF L
<1>6. X \in [1 .. L + 1 -> S]
  BY <1>2, <1>5
<1>. HIDE DEF X
<1>. QED
  BY <1>1, <1>2, <1>3, <1>4, <1>6 DEF Q, L, X

\* X is W with D behind it.
Joined(X, W, D) ==
  X = [n \in 1 .. Len(packets) + 1 |-> IF n = Len(packets) + 1 THEN D ELSE W[n]]

\* A queue is another with a packet after its last one.
IsAppended(Q, P, x) ==
  Q = Append(P, x)

\* The packets of Q read as the sets of X, which hold all that W and D hold.
Retold(Q, X, W, D) ==
  /\ Q \in Seq(Seq(Byte)) /\ Len(Q) = Len(packets) + 1
  /\ \A n \in 1 .. Len(Q) : Len(Q[n]) <= capacity
  /\ X \in [1 .. Len(Q) -> SUBSET toConfirm]
  /\ \A n \in 1 .. Len(Q) : \E e : Says(Q[n], master, X[n], e)
  /\ \A i : (i \in D \/ \E n \in 1 .. Len(packets) : i \in W[n])
              => \E n \in 1 .. Len(Q) : i \in X[n]

\* The packets tell the same, with the queued one for what was packed.
LEMMA QueuedIsTold ==
  ASSUME Bounds, Sizing, NEW W, NEW D, Told(W, D), NEW X, Joined(X, W, D),
         NEW Q, IsAppended(Q, packets, data)
  PROVE  Retold(Q, X, W, D)
<1>. DEFINE l == Len(packets) + 1
<1>1. packets \in Seq(Seq(Byte)) /\ data \in Seq(Byte) /\ D \in SUBSET toConfirm
      /\ W \in [1 .. Len(packets) -> SUBSET toConfirm]
  BY DEF Sizing, Told
<1>2. /\ Q \in Seq(Seq(Byte)) /\ Len(Q) = l /\ X \in [1 .. Len(Q) -> SUBSET toConfirm]
      /\ \A n \in 1 .. Len(Q) :
           \/ n \in 1 .. Len(packets) /\ Q[n] = packets[n] /\ X[n] = W[n]
           \/ n = l /\ Q[n] = data /\ X[n] = D
      /\ \A n \in 1 .. Len(packets) : n \in 1 .. Len(Q) /\ X[n] = W[n]
      /\ l \in 1 .. Len(Q) /\ X[l] = D
  BY <1>1, PacketQueued DEF Joined, IsAppended
<1>. HIDE DEF l
<1>3. \A n \in 1 .. Len(Q) : Len(Q[n]) <= capacity
  BY <1>2 DEF Sizing
<1>4. \A n \in 1 .. Len(Q) : \E e : Says(Q[n], master, X[n], e)
  <2>1. \E e : Says(data, master, D, e)
    BY DEF Told
  <2>2. \A n \in 1 .. Len(packets) : \E e : Says(packets[n], master, W[n], e)
    BY DEF Told
  <2>. QED
    BY <1>2, <2>1, <2>2
<1>5. \A i : (i \in D \/ \E n \in 1 .. Len(packets) : i \in W[n])
               => \E n \in 1 .. Len(Q) : i \in X[n]
  BY <1>2
<1>. QED
  BY <1>2, <1>3, <1>4, <1>5 DEF l, Retold

\* The packet is queued, and the run is the first of the next one.
LEMMA SplitInvariant == IInv /\ Split => IInv'
<1>. SUFFICES ASSUME IInv, Split PROVE IInv'
  OBVIOUS
<1>. PICK W, D, L : Told(W, D) /\ Heard(W, L)
  BY DEF IInv, Accounted
<1>0. Bounds /\ Sizing /\ Phases
  BY DEF IInv
<1>. PICK p : p = packIntPair(begin - master, end - begin, capacity)
  OBVIOUS
<1>. PICK d : d = begin .. end - 1
  OBVIOUS
<1>. PICK X : Joined(X, W, D)
  BY DEF Joined
<1>1. /\ building /\ rest # {} /\ p # <<>>
      /\ packets' = Append(packets, data)
      /\ data' = p /\ prevIndex' = end /\ rest' = rest \ (begin .. end - 1)
      /\ UNCHANGED <<master, received, capacity, building, failed, unread, bytes,
                     currentIndex, confirmed, warned, toConfirm>>
  BY ToConfirmIsStable DEF Split, NoRoom, gapAfterSplit, receiver
<1>2. /\ begin .. end - 1 \in SUBSET rest /\ end \in Index /\ end >= master
      /\ \A i \in rest \ (begin .. end - 1) : i >= end
  BY <1>0, <1>1, FirstRun
<1>3. capacity \in Nat /\ master \in Index
  BY <1>0 DEF Bounds
<1>4. p \in Seq(Byte) /\ Len(p) <= capacity /\ Says(p, master, d, end)
  <2>. DEFINE none == <<>>
              nothing == {}
  <2>1. none \in Seq(Byte) /\ nothing \in SUBSET toConfirm
        /\ Says(none, master, nothing, master) /\ capacity \in Int
    BY <1>3, SaysNothing
  <2>. HIDE DEF none, nothing
  <2>2. p \in Seq(Byte) /\ Len(p) <= capacity
        /\ Says(none \o p, master, nothing \cup (begin .. end - 1), end)
    BY <1>0, <1>1, <2>1, RunPacked
  <2>3. none \o p = p /\ nothing \cup (begin .. end - 1) = d
    BY <2>2, ConcatEmptySeq DEF none, nothing
  <2>. QED
    BY <2>2, <2>3
<1>5. /\ packets' \in Seq(Seq(Byte)) /\ Len(packets') = Len(packets) + 1
      /\ \A n \in 1 .. Len(packets') : Len(packets'[n]) <= capacity
      /\ X \in [1 .. Len(packets') -> SUBSET toConfirm]
      /\ \A n \in 1 .. Len(packets') : \E e : Says(packets'[n], master, X[n], e)
      /\ \A i : (i \in D \/ \E n \in 1 .. Len(packets) : i \in W[n])
                  => \E n \in 1 .. Len(packets') : i \in X[n]
  <2>1. IsAppended(packets', packets, data)
    BY <1>1 DEF IsAppended
  <2>2. Retold(packets', X, W, D)
    BY <1>0, <2>1, QueuedIsTold
  <2>. QED
    BY <2>2 DEF Retold
<1>6. Bounds'
  <2>1. master \in Nat /\ MaxIndex + 1 \in Nat
    BY <1>0, IndexIsNatural DEF Bounds, Index
  <2>2. end \in master .. MaxIndex + 1
    BY <1>2, <2>1 DEF Index
  <2>. QED
    BY <1>0, <1>1, <1>2, <2>2 DEF Bounds
<1>7. Sizing'
  <2>1. unread = {}
    BY <1>0, <1>1 DEF Phases
  <2>. QED
    BY <1>1, <1>4, <1>5, <2>1 DEF Sizing
<1>8. Phases'
  BY <1>0, <1>1 DEF Phases
<1>9. Told(X, d)'
  <2>1. d \in SUBSET toConfirm
    BY <1>0, <1>2 DEF Bounds
  <2>2. Says(data', master', d, prevIndex')
    BY <1>1, <1>4
  <2>3. ~failed => \A i \in toConfirm :
          i \in rest' \/ (building /\ i \in d) \/ \E n \in 1 .. Len(packets') : i \in X[n]
    BY <1>1, <1>5 DEF Told
  <2>. QED
    BY <1>1, <1>5, <2>1, <2>2, <2>3 DEF Told
<1>10. Heard(X, L)'
  BY <1>1 DEF Heard
<1>. QED
  BY <1>6, <1>7, <1>8, <1>9, <1>10 DEF IInv, Accounted

\* The packet is queued, and the loop gives up.
LEMMA CannotEncodeInvariant == IInv /\ CannotEncode => IInv'
<1>. SUFFICES ASSUME IInv, CannotEncode PROVE IInv'
  OBVIOUS
<1>. PICK W, D, L : Told(W, D) /\ Heard(W, L)
  BY DEF IInv, Accounted
<1>0. Bounds /\ Sizing /\ Phases
  BY DEF IInv
<1>. PICK X : Joined(X, W, D)
  BY DEF Joined
<1>1. /\ building /\ rest # {}
      /\ packets' = Append(packets, data)
      /\ data' = <<>> /\ rest' = {} /\ failed'
      /\ failed' \in BOOLEAN
      /\ UNCHANGED <<master, received, capacity, prevIndex, building, unread, bytes,
                     currentIndex, confirmed, warned, toConfirm>>
  BY ToConfirmIsStable DEF CannotEncode, NoRoom, receiver
<1>3. capacity \in Nat /\ master \in Index
  BY <1>0 DEF Bounds
<1>5. /\ packets' \in Seq(Seq(Byte)) /\ Len(packets') = Len(packets) + 1
      /\ \A n \in 1 .. Len(packets') : Len(packets'[n]) <= capacity
      /\ X \in [1 .. Len(packets') -> SUBSET toConfirm]
      /\ \A n \in 1 .. Len(packets') : \E e : Says(packets'[n], master, X[n], e)
      /\ \A i : (i \in D \/ \E n \in 1 .. Len(packets) : i \in W[n])
                  => \E n \in 1 .. Len(packets') : i \in X[n]
  <2>1. IsAppended(packets', packets, data)
    BY <1>1 DEF IsAppended
  <2>2. Retold(packets', X, W, D)
    BY <1>0, <2>1, QueuedIsTold
  <2>. QED
    BY <2>2 DEF Retold
<1>6. Bounds'
  BY <1>0, <1>1 DEF Bounds
<1>7. Sizing'
  <2>1. unread = {}
    BY <1>0, <1>1 DEF Phases
  <2>2. data' \in Seq(Byte) /\ Len(data') <= capacity
    BY <1>1, <1>3
  <2>. QED
    BY <1>1, <1>5, <2>1, <2>2 DEF Sizing
<1>8. Phases'
  BY <1>0, <1>1 DEF Phases
<1>9. Told(X, {})'
  <2>1. Says(data', master', {}, master)
    BY <1>1, <1>3, SaysNothing
  <2>. QED
    BY <1>1, <1>5, <2>1 DEF Told
<1>10. Heard(X, L)'
  BY <1>1 DEF Heard
<1>. QED
  BY <1>6, <1>7, <1>8, <1>9, <1>10 DEF IInv, Accounted

\* The last packet is queued.
LEMMA QueueInvariant == IInv /\ Queue => IInv'
<1>. SUFFICES ASSUME IInv, Queue PROVE IInv'
  OBVIOUS
<1>. PICK W, D, L : Told(W, D) /\ Heard(W, L)
  BY DEF IInv, Accounted
<1>0. Bounds /\ Sizing /\ Phases
  BY DEF IInv
<1>. PICK X : Joined(X, W, D)
  BY DEF Joined
<1>1. /\ building /\ rest = {} /\ ~building' /\ building' \in BOOLEAN
      /\ packets' = Append(packets, data) /\ unread' = 1 .. Len(packets')
      /\ UNCHANGED <<master, received, capacity, rest, prevIndex, data, failed, bytes,
                     currentIndex, confirmed, warned, toConfirm>>
  BY ToConfirmIsStable DEF Queue
<1>5. /\ packets' \in Seq(Seq(Byte)) /\ Len(packets') = Len(packets) + 1
      /\ \A n \in 1 .. Len(packets') : Len(packets'[n]) <= capacity
      /\ X \in [1 .. Len(packets') -> SUBSET toConfirm]
      /\ \A n \in 1 .. Len(packets') : \E e : Says(packets'[n], master, X[n], e)
      /\ \A i : (i \in D \/ \E n \in 1 .. Len(packets) : i \in W[n])
                  => \E n \in 1 .. Len(packets') : i \in X[n]
  <2>1. IsAppended(packets', packets, data)
    BY <1>1 DEF IsAppended
  <2>2. Retold(packets', X, W, D)
    BY <1>0, <2>1, QueuedIsTold
  <2>. QED
    BY <2>2 DEF Retold
<1>6. Bounds'
  BY <1>0, <1>1 DEF Bounds
<1>7. Sizing'
  BY <1>0, <1>1, <1>5 DEF Sizing
<1>8. Phases'
  BY <1>0, <1>1 DEF Phases
<1>9. Told(X, D)'
  <2>1. D \in SUBSET toConfirm /\ \E e : Says(data, master, D, e)
    BY DEF Told
  <2>2. ~failed => \A i \in toConfirm : \E n \in 1 .. Len(packets') : i \in X[n]
    BY <1>1, <1>5 DEF Told
  <2>. QED
    BY <1>1, <1>5, <2>1, <2>2 DEF Told
<1>10. Heard(X, L)'
  BY <1>1 DEF Heard
<1>. QED
  BY <1>6, <1>7, <1>8, <1>9, <1>10 DEF IInv, Accounted

\* udpRead begins to read a packet, and all that it says is still to be unpacked.
LEMMA ReceiveInvariant ==
  ASSUME IInv, NEW n \in unread, Receive(n) PROVE IInv'
<1>. PICK W, D, L : Told(W, D) /\ Heard(W, L)
  BY DEF IInv, Accounted
<1>0. Bounds /\ Sizing /\ Phases
  BY DEF IInv
<1>1. /\ bytes = <<>> /\ unread' = unread \ {n} /\ bytes' = packets[n]
      /\ currentIndex' = master
      /\ UNCHANGED <<master, received, capacity, rest, prevIndex, data, packets, building,
                     failed, confirmed, warned, toConfirm>>
  BY ToConfirmIsStable DEF Receive, sender
<1>2. n \in 1 .. Len(packets) /\ ~building
  BY <1>0 DEF Sizing, Phases
<1>3. Bounds'
  <2>1. master \in master .. MaxIndex + 1
    BY <1>0, IndexIsNatural DEF Bounds, Index
  <2>. QED
    BY <1>0, <1>1, <2>1 DEF Bounds
<1>4. Sizing'
  BY <1>0, <1>1 DEF Sizing
<1>5. Phases'
  BY <1>0, <1>1, <1>2 DEF Phases
<1>6. Told(W, D)'
  BY <1>1 DEF Told
<1>. PICK M : M = W[n]
  OBVIOUS
<1>7. Heard(W, M)'
  <2>1. L = {}
    <3>1. PICK e : Says(<<>>, currentIndex, L, e)
      BY <1>1 DEF Heard
    <3>. PICK p : IsUnpacked(p, <<>>)
      BY DEF IsUnpacked
    <3>. PICK next : next = currentIndex + p.a + p.b
      OBVIOUS
    <3>. QED
      BY <3>1, SaysNext
  <2>2. M \in SUBSET toConfirm /\ \E e : Says(bytes', currentIndex', M, e)
    BY <1>1, <1>2 DEF Told
  <2>3. \A m \in (1 .. Len(packets)) \ unread' : W[m] \subseteq confirmed \cup M
    <3>1. \A m \in (1 .. Len(packets)) \ unread : W[m] \subseteq confirmed
      BY <1>2, <2>1 DEF Heard
    <3>. QED
      BY <1>1, <3>1
  <2>. QED
    BY <1>1, <2>2, <2>3 DEF Heard
<1>. QED
  BY <1>3, <1>4, <1>5, <1>6, <1>7 DEF IInv, Accounted

\* udpRead takes a run for confirmed: it is what the packet says next.
LEMMA UnpackInvariant == IInv /\ Unpack => IInv'
<1>. SUFFICES ASSUME IInv, Unpack PROVE IInv'
  OBVIOUS
<1>. PICK W, D, L : Told(W, D) /\ Heard(W, L)
  BY DEF IInv, Accounted
<1>0. Bounds /\ Sizing /\ Phases
  BY DEF IInv
<1>. PICK p : IsUnpacked(p, bytes)
  BY DEF IsUnpacked
<1>. PICK next : next = currentIndex + p.a + p.b
  OBVIOUS
<1>. PICK e : Says(bytes, currentIndex, L, e)
  BY DEF Heard
<1>1. bytes # <<>>
  BY DEF Unpack
<1>2. p.a \in Natural /\ p.b \in Natural /\ p.size \in Nat \ {0} /\ next \in Index
  BY <1>1, SaysNext
<1>3. PICK T : /\ Says(SubSeq(bytes, p.size + 1, Len(bytes)), next, T, e)
               /\ L = (next - p.b .. next - 1) \cup T
  BY <1>1, SaysNext
<1>4. wrap(currentIndex + p.a + p.b) = next
  BY <1>2, IndexIsNatural, WrapOfNatural
<1>. PICK run : run = next - p.b .. next - 1
  OBVIOUS
<1>5. /\ bytes' = SubSeq(bytes, p.size + 1, Len(bytes))
      /\ currentIndex' = next
      /\ confirmed' = confirmed \cup run
      /\ UNCHANGED <<master, received, capacity, rest, prevIndex, data, packets, building,
                     failed, unread, warned, toConfirm>>
  BY <1>2, <1>4, ToConfirmIsStable DEF Unpack, IsUnpacked, sender
<1>6. ~building /\ L \in SUBSET toConfirm /\ L = run \cup T
  BY <1>0, <1>1, <1>3 DEF Phases, Heard
<1>7. Bounds'
  <2>1. next \in master .. MaxIndex + 1
    <3>1. currentIndex \in Nat /\ p.a \in Nat /\ p.b \in Nat /\ master \in Nat
          /\ currentIndex >= master /\ next <= MaxIndex + 1 /\ MaxIndex \in Nat
      <4>1. master \in Nat /\ MaxIndex \in Nat /\ next <= MaxIndex + 1
        BY <1>0, <1>2, IndexIsNatural DEF Bounds, Index
      <4>2. currentIndex \in Nat /\ currentIndex >= master
        BY <1>0, <4>1 DEF Bounds
      <4>3. p.a \in Nat /\ p.b \in Nat
        BY <1>2, Widths
      <4>. QED
        BY <4>1, <4>2, <4>3
    <3>. DEFINE a == p.a
                b == p.b
    <3>2. a \in Nat /\ b \in Nat /\ next = currentIndex + a + b
      BY <3>1
    <3>. HIDE DEF a, b
    <3>. QED
      BY <3>1, <3>2
  <2>. QED
    BY <1>0, <1>5, <1>6, <2>1 DEF Bounds
<1>8. Sizing'
  BY <1>0, <1>5 DEF Sizing
<1>9. Phases'
  BY <1>0, <1>5, <1>6 DEF Phases
<1>10. Told(W, D)'
  BY <1>5 DEF Told
<1>11. Heard(W, T)'
  <2>1. Says(bytes', currentIndex', T, e)
    BY <1>3, <1>5
  <2>2. \A n \in (1 .. Len(packets)) \ unread : W[n] \subseteq confirmed' \cup T
    BY <1>5, <1>6 DEF Heard
  <2>. QED
    BY <1>5, <1>6, <2>1, <2>2 DEF Heard
<1>. QED
  BY <1>7, <1>8, <1>9, <1>10, <1>11 DEF IInv, Accounted

\* The packets say what is received, and what was unpacked of them and what is
\* still to be is what they say.
THEOREM ConfirmationsInvariant == Spec => []IInv
<1>1. Init => IInv
  BY InitInvariant
<1>2. IInv /\ [Next]_vars => IInv'
  <2>. SUFFICES ASSUME IInv, [Next]_vars PROVE IInv'
    OBVIOUS
  <2>1. CASE PackRun
    BY <2>1, PackRunInvariant
  <2>2. CASE Split
    BY <2>2, SplitInvariant
  <2>3. CASE CannotEncode
    BY <2>3, CannotEncodeInvariant
  <2>4. CASE Queue
    BY <2>4, QueueInvariant
  <2>5. CASE \E n \in unread : Receive(n)
    BY <2>5, ReceiveInvariant
  <2>6. CASE Unpack
    BY <2>6, UnpackInvariant
  <2>7. CASE UNCHANGED vars
    <3>. USE DEF vars, sender, receiver
    <3>1. toConfirm' = toConfirm
      BY <2>7, ToConfirmIsStable
    <3>2. Bounds' /\ Sizing' /\ Phases'
      BY <2>7, <3>1 DEF IInv, Bounds, Sizing, Phases
    <3>. PICK W, D, L : Told(W, D) /\ Heard(W, L)
      BY DEF IInv, Accounted
    <3>3. Told(W, D)' /\ Heard(W, L)'
      BY <2>7, <3>1 DEF Told, Heard
    <3>. QED
      BY <3>2, <3>3 DEF IInv, Accounted
  <2>. QED
    BY <2>1, <2>2, <2>3, <2>4, <2>5, <2>6, <2>7 DEF Next
<1>. QED
  BY <1>1, <1>2, PTL DEF Spec

\* Every packet holds bytes, no more than udpSendPacketSize, and the indices of
\* buildConfirmations and of udpRead stay between the master index and the last.
THEOREM ConfirmationsTypes == Spec => []TypeOK
<1>1. IInv => TypeOK
  <2>. SUFFICES ASSUME Bounds, Sizing PROVE TypeOK
    BY DEF IInv
  <2>1. DOMAIN packets = 1 .. Len(packets)
    BY DEF Sizing
  <2>2. \A p \in Range(packets) : p \in Seq(Byte) /\ Len(p) <= capacity
    BY <2>1 DEF Sizing, Range
  <2>. QED
    BY <2>1, <2>2 DEF TypeOK, Bounds, Sizing
<1>. QED
  BY <1>1, ConfirmationsInvariant, PTL

\* Whichever packets arrive, and in whatever order, udpRead takes only indices
\* for confirmed that buildConfirmations had to confirm.
THEOREM OnlyReceivedAreConfirmed == Spec => []ConfirmsOnlyReceived
<1>1. IInv => ConfirmsOnlyReceived
  BY DEF IInv, Bounds, ConfirmsOnlyReceived
<1>. QED
  BY <1>1, ConfirmationsInvariant, PTL

\* When all packets are read, udpRead has taken everything for confirmed that
\* buildConfirmations had to confirm, unless it gave up.
THEOREM AllIsConfirmed == Spec => []AllConfirmed
<1>1. IInv => AllConfirmed
  <2>. SUFFICES ASSUME IInv, Finished, ~failed PROVE confirmed = toConfirm
    BY DEF AllConfirmed
  <2>1. Bounds /\ Phases /\ ~building /\ unread = {} /\ bytes = <<>>
    BY DEF IInv, Finished
  <2>. PICK W, D, L : Told(W, D) /\ Heard(W, L)
    BY DEF IInv, Accounted
  <2>2. L = {}
    <3>1. PICK e : Says(<<>>, currentIndex, L, e)
      BY <2>1 DEF Heard
    <3>. PICK p : IsUnpacked(p, <<>>)
      BY DEF IsUnpacked
    <3>. PICK next : next = currentIndex + p.a + p.b
      OBVIOUS
    <3>. QED
      BY <3>1, SaysNext
  <2>3. \A n \in 1 .. Len(packets) : W[n] \subseteq confirmed
    BY <2>1, <2>2 DEF Heard
  <2>4. \A i \in toConfirm : \E n \in 1 .. Len(packets) : i \in W[n]
    BY <2>1 DEF Told, Phases
  <2>5. confirmed \in SUBSET toConfirm
    BY <2>1 DEF Bounds
  <2>. QED
    BY <2>3, <2>4, <2>5
<1>. QED
  BY <1>1, ConfirmationsInvariant, PTL

\* unpackIntPair never refuses a pair that packIntPair has packed, however large
\* its integers are and whatever follows it.
THEOREM NothingIsMalformed == Spec => []NeverMalformed
<1>1. IInv => NeverMalformed
  BY DEF IInv, Bounds, NeverMalformed
<1>. QED
  BY <1>1, ConfirmationsInvariant, PTL
=============================================================================
