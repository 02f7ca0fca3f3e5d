--------------------------- MODULE SequenceLemmas ---------------------------
(***************************************************************************)
(* What the proofs about several components need to know of sequences that *)
(* are put together, and of division by a number that is not given.        *)
(***************************************************************************)
EXTENDS Integers, Sequences, SequencesExt, WellFoundedInduction, SequenceTheorems, TLAPS

\* Induction over 1 .. n, for what can be said with a set
LEMMA UpTo ==
  ASSUME NEW n \in Nat, NEW T \in SUBSET (1 .. n), 1 \notin T,
         \A i \in 1 .. n : i + 1 \in T => i \in T
  PROVE  T = {}
<1> SUFFICES ASSUME T # {}
             PROVE  FALSE
  OBVIOUS
<1> DEFINE Less == OpToRel(<, Nat)
<1>1. IsWellFoundedOn(Less, Nat)
  BY NatLessThanWellFounded
<1>2. Less = {p \in Nat \X Nat : p[1] < p[2]}
  BY DEF OpToRel
<1>3. T \subseteq Nat
  OBVIOUS
<1>4. PICK x \in T : \A y \in T : ~ (<<y, x>> \in Less)
  <2> HIDE DEF Less
  <2> QED
    BY <1>1, <1>3, WFMin
<1>5. x \in 1 .. n /\ x # 1
  OBVIOUS
<1>6. x - 1 \in 1 .. n /\ (x - 1) + 1 = x
  BY <1>5
<1>7. x - 1 \in T
  BY <1>6
<1>8. <<x - 1, x>> \in Less
  <2>1. x - 1 \in Nat /\ x \in Nat /\ x - 1 < x
    BY <1>3, <1>5, <1>7
  <2>2. \A a, b \in Nat : a < b => <<a, b>> \in Less
    <3> HIDE DEF Less
    <3> QED
      BY <1>2
  <2> HIDE DEF Less
  <2> QED
    BY <2>1, <2>2
<1> HIDE DEF Less
<1> QED
  BY <1>4, <1>7, <1>8

\* FlattenSeq puts its parts together from left to right
LEMMA FlattenParts ==
  ASSUME NEW S, NEW ss \in Seq(Seq(S)), Len(ss) > 0
  PROVE  \E f \in [1 .. Len(ss) -> Seq(S)] :
           /\ f[1] = ss[1] /\ FlattenSeq(ss) = f[Len(ss)]
           /\ \A i \in 2 .. Len(ss) : f[i] = f[i - 1] \o ss[i]
<1> DEFINE n == Len(ss)
           Chain(f, k) == /\ f[1] = ss[1]
                          /\ \A i \in 2 .. k : f[i] = f[i - 1] \o ss[i]
           T == {k \in 1 .. n : ~ \E f \in [1 .. k -> Seq(S)] : Chain(f, k)}
<1>0. n \in Nat \ {0} /\ \A i \in 1 .. n : ss[i] \in Seq(S)
  OBVIOUS
<1> HIDE DEF n
<1>1. 1 \notin T
  <2> DEFINE g == [i \in 1 .. 1 |-> ss[1]]
  <2>1. g \in [1 .. 1 -> Seq(S)] /\ g[1] = ss[1]
    BY <1>0
  <2>2. 2 .. 1 = {}
    OBVIOUS
  <2> HIDE DEF g
  <2>3. Chain(g, 1)
    BY <2>1, <2>2
  <2> QED
    BY <2>1, <2>3
<1>2. ASSUME NEW k \in 1 .. n, k + 1 \in T, k \notin T
      PROVE  FALSE
  <2>1. PICK f \in [1 .. k -> Seq(S)] : Chain(f, k)
    BY <1>2
  <2> DEFINE g == [i \in 1 .. k + 1 |-> IF i = k + 1 THEN f[k] \o ss[k + 1] ELSE f[i]]
  <2>2. k + 1 \in 1 .. n
    BY <1>2
  <2>3. f[k] \o ss[k + 1] \in Seq(S)
    BY <1>0, <2>2, ConcatProperties
  <2>4. g \in [1 .. k + 1 -> Seq(S)]
    BY <2>3
  <2>a. g[k + 1] = f[k] \o ss[k + 1] /\ \A i \in 1 .. k : g[i] = f[i]
    <3>1. k + 1 \in 1 .. k + 1 /\ \A i \in 1 .. k : i \in 1 .. k + 1 /\ i # k + 1
      BY <1>0
    <3> QED
      BY <3>1
  <2> HIDE DEF g
  <2>5. g[1] = ss[1]
    BY <1>0, <2>1, <2>a
  <2>6. ASSUME NEW i \in 2 .. k + 1
        PROVE  g[i] = g[i - 1] \o ss[i]
    <3>1. i - 1 \in 1 .. k
      BY <1>0
    <3>2. CASE i = k + 1
      <4>1. i - 1 = k
        BY <1>0, <3>2
      <4> QED
        BY <2>a, <3>1, <3>2, <4>1
    <3>3. CASE i # k + 1
      <4>1. i \in 2 .. k /\ i \in 1 .. k
        BY <1>0, <3>3
      <4> QED
        BY <2>1, <2>a, <3>1, <4>1
    <3> QED
      BY <3>2, <3>3
  <2> QED
    BY <1>2, <2>2, <2>4, <2>5, <2>6
<1>3. T = {}
  <2> HIDE DEF T
  <2> QED
    BY <1>0, <1>1, <1>2, UpTo DEF T
<1>4. \E f \in [1 .. n -> Seq(S)] : Chain(f, n)
  <2>1. n \in 1 .. n
    BY <1>0
  <2>2. n \notin T
    <3> HIDE DEF T
    <3> QED
      BY <1>3
  <2> QED
    BY <2>1, <2>2
<1>5. PICK f \in [1 .. n -> Seq(S)] : Chain(f, n)
  BY <1>4
<1> DEFINE Body(h, i) == IF i = 1 THEN ss[i] ELSE h[i - 1] \o ss[i]
           R(h) == h = [i \in 1 .. n |-> Body(h, i)]
<1>6. R(f)
  <2>1. \A i \in 1 .. n : f[i] = Body(f, i)
    <3> TAKE i \in 1 .. n
    <3>1. i = 1 \/ i \in 2 .. n
      BY <1>0
    <3> QED
      BY <1>5, <3>1
  <2> HIDE DEF Body
  <2> QED
    BY <2>1
<1> DEFINE g == CHOOSE h : R(h)
<1>7. R(g)
  <2> HIDE DEF R
  <2> QED
    BY <1>6
<1>8. FlattenSeq(ss) = g[n]
  BY <1>0 DEF FlattenSeq, n
<1> HIDE DEF g
<1>9. \A i \in 1 .. n : g[i] = Body(g, i)
  <2> HIDE DEF Body
  <2> QED
    BY <1>7
<1>10. g[1] = ss[1] /\ \A i \in 2 .. n : g[i] = g[i - 1] \o ss[i]
  <2>1. 1 \in 1 .. n /\ \A i \in 2 .. n : i \in 1 .. n /\ i # 1
    BY <1>0
  <2> QED
    BY <1>9, <2>1
<1>11. \A i \in 1 .. n : g[i] \in Seq(S)
  <2> DEFINE U == {i \in 1 .. n : g[i] \notin Seq(S)}
  <2>1. 1 \notin U
    BY <1>0, <1>10
  <2>2. ASSUME NEW i \in 1 .. n, i + 1 \in U, i \notin U
        PROVE  FALSE
    <3>1. i + 1 \in 2 .. n /\ i + 1 \in 1 .. n /\ (i + 1) - 1 = i
      BY <1>0, <2>2
    <3>2. g[i + 1] = g[i] \o ss[i + 1]
      BY <1>10, <3>1
    <3>3. g[i] \in Seq(S) /\ ss[i + 1] \in Seq(S)
      BY <1>0, <2>2, <3>1
    <3>4. g[i + 1] \in Seq(S)
      BY <3>2, <3>3, ConcatProperties
    <3> QED
      BY <2>2, <3>4
  <2> HIDE DEF U
  <2>3. U \in SUBSET (1 .. n)
    BY DEF U
  <2>4. U = {}
    BY <1>0, <2>1, <2>2, <2>3, UpTo
  <2> QED
    BY <2>4 DEF U
<1>12. g \in [1 .. n -> Seq(S)]
  <2>1. g = [i \in 1 .. n |-> Body(g, i)]
    BY <1>7
  <2> HIDE DEF Body
  <2> QED
    BY <1>11, <2>1
<1> QED
  BY <1>8, <1>10, <1>12 DEF n

-----------------------------------------------------------------------------
(* Division                                                                *)

LEMMA TimesMonotonic ==
  ASSUME NEW m \in Nat, NEW x \in Int, NEW y \in Int, x <= y
  PROVE  m * x <= m * y /\ x * m <= y * m
OBVIOUS

LEMMA DivMod ==
  ASSUME NEW a \in Int, NEW m \in Nat \ {0}
  PROVE  /\ a \div m \in Int /\ a % m \in 0 .. m - 1 /\ a = m * (a \div m) + (a % m)
         /\ a \in Nat => a \div m \in Nat
<1> DEFINE d == a \div m
           r == a % m
<1>1. d \in Int /\ r \in 0 .. m - 1 /\ a = m * d + r
  OBVIOUS
<1> HIDE DEF d, r
<1>2. ASSUME a \in Nat, d <= -1
      PROVE  FALSE
  <2>1. m * d <= m * (-1)
    BY <1>1, <1>2, TimesMonotonic
  <2>2. m * (-1) = -m
    OBVIOUS
  <2> QED
    BY <1>1, <1>2, <2>1, <2>2
<1> QED
  BY <1>1, <1>2 DEF d, r

LEMMA DivUnique ==
  ASSUME NEW a \in Int, NEW m \in Nat \ {0}, NEW q \in Int, m * q <= a, a < m * q + m
  PROVE  a \div m = q /\ a % m = a - m * q
<1> DEFINE d == a \div m
           r == a % m
<1>1. d \in Int /\ r \in 0 .. m - 1 /\ a = m * d + r
  BY DivMod
<1> HIDE DEF d, r
<1>2. ASSUME d >= q + 1
      PROVE  FALSE
  <2>1. m * (q + 1) <= m * d
    BY <1>1, <1>2, TimesMonotonic
  <2>2. m * (q + 1) = m * q + m
    OBVIOUS
  <2> QED
    BY <1>1, <2>1, <2>2
<1>3. ASSUME d <= q - 1
      PROVE  FALSE
  <2>1. m * d <= m * (q - 1)
    BY <1>1, <1>3, TimesMonotonic
  <2>2. m * (q - 1) = m * q - m
    OBVIOUS
  <2> QED
    BY <1>1, <2>1, <2>2
<1>4. d = q
  BY <1>1, <1>2, <1>3
<1> QED
  BY <1>1, <1>4 DEF d, r

LEMMA ModSmall ==
  ASSUME NEW m \in Nat \ {0}, NEW a \in 0 .. m - 1
  PROVE  a % m = a /\ a \div m = 0
<1>1. m * 0 <= a /\ a < m * 0 + m
  OBVIOUS
<1> QED
  BY <1>1, DivUnique

LEMMA ModPlus ==
  ASSUME NEW a \in Int, NEW m \in Nat \ {0}, NEW k \in Int
  PROVE  (a + m * k) % m = a % m /\ (a + m * k) \div m = (a \div m) + k
<1> DEFINE d == a \div m
           r == a % m
           b == a + m * k
<1>1. d \in Int /\ r \in 0 .. m - 1 /\ a = m * d + r
  BY DivMod
<1> HIDE DEF d, r
<1>2. m * (d + k) = m * d + m * k /\ m * k \in Int /\ m * d \in Int
  BY <1>1
<1>3. b \in Int /\ m * (d + k) <= b /\ b < m * (d + k) + m /\ b - m * (d + k) = r /\ d + k \in Int
  BY <1>1, <1>2
<1> HIDE DEF b
<1>4. b \div m = d + k /\ b % m = b - m * (d + k)
  BY <1>3, DivUnique
<1> QED
  BY <1>3, <1>4 DEF b, d, r

LEMMA ModMod ==
  ASSUME NEW a \in Int, NEW m \in Nat \ {0}, NEW d \in Nat \ {0}, m % d = 0
  PROVE  (a % m) % d = a % d
<1> DEFINE q == a \div m
           r == a % m
           k == m \div d
<1>1. q \in Int /\ r \in 0 .. m - 1 /\ a = m * q + r
  BY DivMod
<1>2. k \in Int /\ m = d * k
  BY DivMod
<1> HIDE DEF q, r, k
<1>3. m * q = d * (k * q) /\ k * q \in Int
  BY <1>1, <1>2
<1>4. a = r + d * (k * q) /\ r \in Int
  BY <1>1, <1>3
<1>5. (r + d * (k * q)) % d = r % d
  BY <1>3, <1>4, ModPlus
<1> QED
  BY <1>4, <1>5 DEF r

-----------------------------------------------------------------------------
(* Ranges cut into pieces                                                  *)

\* The pieces lie one after the other, from a up to b
Tiling(parts, a, b) ==
  /\ \A i \in 1 .. Len(parts) : parts[i].start \in Nat /\ parts[i].len \in Nat
  /\ \A i \in 1 .. Len(parts) : i + 1 \in 1 .. Len(parts) => parts[i + 1].start = parts[i].start + parts[i].len
  /\ Len(parts) = 0 => a = b
  /\ Len(parts) # 0 => parts[1].start = a /\ parts[Len(parts)].start + parts[Len(parts)].len = b

LEMMA TilingConcat ==
  ASSUME NEW S, NEW s \in Seq(S), NEW t \in Seq(S), NEW a \in Nat, NEW b \in Nat, NEW c \in Nat,
         Tiling(s, a, b), Tiling(t, b, c)
  PROVE  Tiling(s \o t, a, c)
<1> DEFINE u == s \o t
           m == Len(s)
           n == Len(t)
<1>1. /\ m \in Nat /\ n \in Nat /\ Len(u) = m + n
      /\ \A i \in 1 .. m : u[i] = s[i]
      /\ \A i \in 1 .. n : u[m + i] = t[i]
  <2>1. Len(u) = m + n /\ \A i \in 1 .. m + n : u[i] = IF i <= m THEN s[i] ELSE t[i - m]
    BY ConcatProperties
  <2>2. m \in Nat /\ n \in Nat
    OBVIOUS
  <2> HIDE DEF u, m, n
  <2>3. \A i \in 1 .. m : i \in 1 .. m + n /\ i <= m
    BY <2>2
  <2>4. \A i \in 1 .. n : m + i \in 1 .. m + n /\ ~ (m + i <= m) /\ (m + i) - m = i
    BY <2>2
  <2> QED
    BY <2>1, <2>2, <2>3, <2>4
<1>2. /\ \A i \in 1 .. m : s[i].start \in Nat /\ s[i].len \in Nat
      /\ \A i \in 1 .. m : i + 1 \in 1 .. m => s[i + 1].start = s[i].start + s[i].len
      /\ m = 0 => a = b
      /\ m # 0 => s[1].start = a /\ s[m].start + s[m].len = b
  BY DEF Tiling
<1>3. /\ \A i \in 1 .. n : t[i].start \in Nat /\ t[i].len \in Nat
      /\ \A i \in 1 .. n : i + 1 \in 1 .. n => t[i + 1].start = t[i].start + t[i].len
      /\ n = 0 => b = c
      /\ n # 0 => t[1].start = b /\ t[n].start + t[n].len = c
  BY DEF Tiling
<1> HIDE DEF u, m, n
<1>4. \A i \in 1 .. m + n : i \in 1 .. m \/ \E j \in 1 .. n : i = m + j
  <2> TAKE i \in 1 .. m + n
  <2>1. i \in 1 .. m \/ (i - m \in 1 .. n /\ i = m + (i - m))
    BY <1>1
  <2> QED
    BY <2>1
<1>5. \A i \in 1 .. m + n : u[i].start \in Nat /\ u[i].len \in Nat
  BY <1>1, <1>2, <1>3, <1>4
<1>6. ASSUME NEW i \in 1 .. m + n, i + 1 \in 1 .. m + n
      PROVE  u[i + 1].start = u[i].start + u[i].len
  <2>1. CASE i + 1 \in 1 .. m
    <3>1. i \in 1 .. m
      BY <1>1, <2>1
    <3> QED
      BY <1>1, <1>2, <2>1, <3>1
  <2>2. CASE i = m
    <3>1. 1 \in 1 .. n /\ m \in 1 .. m /\ m # 0 /\ n # 0
      BY <1>1, <1>6, <2>2
    <3>2. u[m + 1] = t[1] /\ u[m] = s[m]
      BY <1>1, <3>1
    <3> QED
      BY <1>2, <1>3, <2>2, <3>1, <3>2
  <2>3. CASE i > m
    <3> DEFINE j == i - m
    <3>1. j \in 1 .. n /\ j + 1 \in 1 .. n /\ i = m + j /\ i + 1 = m + (j + 1)
      BY <1>1, <1>6, <2>3
    <3> HIDE DEF j
    <3>2. u[i] = t[j] /\ u[i + 1] = t[j + 1]
      BY <1>1, <3>1
    <3> QED
      BY <1>3, <3>1, <3>2
  <2> QED
    BY <1>1, <1>6, <2>1, <2>2, <2>3
<1>7. m + n = 0 => a = c
  BY <1>1, <1>2, <1>3
<1>8. ASSUME m + n # 0
      PROVE  u[1].start = a /\ u[m + n].start + u[m + n].len = c
  <2>1. CASE m = 0
    <3>1. 1 \in 1 .. n /\ n \in 1 .. n /\ m + 1 = 1 /\ m + n = n /\ n # 0
      BY <1>1, <1>8, <2>1
    <3> QED
      BY <1>1, <1>2, <1>3, <2>1, <3>1
  <2>2. CASE m # 0 /\ n = 0
    <3>1. 1 \in 1 .. m /\ m \in 1 .. m /\ m + n = m
      BY <1>1, <2>2
    <3> QED
      BY <1>1, <1>2, <1>3, <2>2, <3>1
  <2>3. CASE m # 0 /\ n # 0
    <3>1. 1 \in 1 .. m /\ n \in 1 .. n
      BY <1>1, <2>3
    <3> QED
      BY <1>1, <1>2, <1>3, <2>3, <3>1
  <2> QED
    BY <2>1, <2>2, <2>3
<1> QED
  BY <1>1, <1>5, <1>6, <1>7, <1>8 DEF Tiling, u

\* Pieces of pieces
LEMMA TilingFlatten ==
  ASSUME NEW S, NEW ss \in Seq(Seq(S)), NEW R, NEW p \in Seq(R), Len(p) = Len(ss),
         NEW a \in Nat, NEW b \in Nat, Tiling(p, a, b),
         \A i \in 1 .. Len(ss) : Tiling(ss[i], p[i].start, p[i].start + p[i].len)
  PROVE  FlattenSeq(ss) \in Seq(S) /\ Tiling(FlattenSeq(ss), a, b)
<1> DEFINE n == Len(ss)
<1>0. n \in Nat /\ Len(p) = n /\ \A i \in 1 .. n : ss[i] \in Seq(S)
  OBVIOUS
<1>a. /\ \A i \in 1 .. n : p[i].start \in Nat /\ p[i].len \in Nat
      /\ \A i \in 1 .. n : i + 1 \in 1 .. n => p[i + 1].start = p[i].start + p[i].len
      /\ n = 0 => a = b
      /\ n # 0 => p[1].start = a /\ p[n].start + p[n].len = b
  BY DEF Tiling
<1>1. CASE n = 0
  <2>1. FlattenSeq(ss) = <<>>
    BY <1>1, EmptySeq DEF FlattenSeq
  <2> QED
    BY <1>1, <1>a, <2>1 DEF Tiling
<1>2. CASE n # 0
  <2>1. PICK f \in [1 .. n -> Seq(S)] :
           /\ f[1] = ss[1] /\ FlattenSeq(ss) = f[n]
           /\ \A i \in 2 .. n : f[i] = f[i - 1] \o ss[i]
    <3>1. Len(ss) > 0
      BY <1>0, <1>2
    <3> QED
      BY <3>1, FlattenParts
  <2> DEFINE T == {i \in 1 .. n : ~ Tiling(f[i], a, p[i].start + p[i].len)}
  <2> HIDE DEF n
  <2>2. 1 \notin T
    <3>1. 1 \in 1 .. n
      BY <1>0, <1>2
    <3> QED
      BY <1>2, <1>a, <2>1, <3>1 DEF n
  <2>3. ASSUME NEW i \in 1 .. n, i + 1 \in T, i \notin T
        PROVE  FALSE
    <3>1. i + 1 \in 1 .. n /\ i + 1 \in 2 .. n /\ (i + 1) - 1 = i
      BY <1>0, <2>3
    <3>2. p[i + 1].start = p[i].start + p[i].len
      BY <1>a, <3>1
    <3>3. Tiling(ss[i + 1], p[i + 1].start, p[i + 1].start + p[i + 1].len)
      BY <3>1 DEF n
    <3>4. Tiling(f[i], a, p[i].start + p[i].len)
      BY <2>3
    <3>5. f[i + 1] = f[i] \o ss[i + 1] /\ f[i] \in Seq(S) /\ ss[i + 1] \in Seq(S)
      BY <1>0, <2>1, <3>1
    <3>6. p[i].start + p[i].len \in Nat /\ p[i + 1].start + p[i + 1].len \in Nat
      BY SMTT(30), <1>a, <3>1
    <3>7. Tiling(f[i + 1], a, p[i + 1].start + p[i + 1].len)
      BY <3>2, <3>3, <3>4, <3>5, <3>6, TilingConcat
    <3> QED
      BY <2>3, <3>7
  <2> HIDE DEF T
  <2>4. T = {}
    <3>1. T \in SUBSET (1 .. n)
      BY DEF T
    <3> QED
      BY <1>0, <2>2, <2>3, <3>1, UpTo
  <2>5. n \in 1 .. n
    BY <1>0, <1>2
  <2>6. Tiling(f[n], a, p[n].start + p[n].len)
    BY <2>4, <2>5 DEF T
  <2> QED
    BY <1>2, <1>a, <2>1, <2>5, <2>6
<1> QED
  BY <1>1, <1>2

\* The pieces after the first
LEMMA TilingTail ==
  ASSUME NEW S, NEW s \in Seq(S), NEW a \in Nat, NEW b \in Nat, Tiling(s, a, b), s # <<>>
  PROVE  /\ Tail(s) \in Seq(S) /\ Len(Tail(s)) = Len(s) - 1
         /\ \A i \in 1 .. Len(s) - 1 : Tail(s)[i] = s[i + 1]
         /\ s[1].start = a /\ s[1].len \in Nat
         /\ Tiling(Tail(s), a + s[1].len, b)
<1> DEFINE n == Len(s)
           t == Tail(s)
<1>1. n \in Nat \ {0}
  BY EmptySeq
<1>2. t \in Seq(S) /\ Len(t) = n - 1 /\ \A i \in 1 .. n - 1 : t[i] = s[i + 1]
  BY HeadTailProperties
<1>3. /\ \A i \in 1 .. n : s[i].start \in Nat /\ s[i].len \in Nat
      /\ \A i \in 1 .. n : i + 1 \in 1 .. n => s[i + 1].start = s[i].start + s[i].len
      /\ s[1].start = a /\ s[n].start + s[n].len = b
  BY <1>1 DEF Tiling
<1> HIDE DEF n, t
<1>4. 1 \in 1 .. n /\ \A i \in 1 .. n - 1 : i + 1 \in 1 .. n
  BY <1>1
<1>5. \A i \in 1 .. n - 1 : t[i].start \in Nat /\ t[i].len \in Nat
  BY <1>2, <1>3, <1>4
<1>6. \A i \in 1 .. n - 1 : i + 1 \in 1 .. n - 1 => t[i + 1].start = t[i].start + t[i].len
  <2> TAKE i \in 1 .. n - 1
  <2> HAVE i + 1 \in 1 .. n - 1
  <2>1. i + 1 \in 1 .. n /\ (i + 1) + 1 \in 1 .. n
    BY <1>1
  <2> QED
    BY <1>2, <1>3, <2>1
<1>7. n - 1 = 0 => a + s[1].len = b
  <2>1. n - 1 = 0 => n = 1
    BY <1>1
  <2> QED
    BY <1>3, <2>1
<1>8. n - 1 # 0 => t[1].start = a + s[1].len /\ t[n - 1].start + t[n - 1].len = b
  <2> HAVE n - 1 # 0
  <2>1. 1 \in 1 .. n - 1 /\ n - 1 \in 1 .. n - 1 /\ (n - 1) + 1 = n /\ 1 + 1 \in 1 .. n
    BY <1>1
  <2> QED
    BY <1>2, <1>3, <1>4, <2>1
<1> QED
  BY <1>2, <1>3, <1>4, <1>5, <1>6, <1>7, <1>8 DEF Tiling, n, t

\* lie within the range
LEMMA TilingBounds ==
  ASSUME NEW S, NEW s \in Seq(S), NEW a \in Nat, NEW b \in Nat, Tiling(s, a, b)
  PROVE  a <= b /\ \A i \in 1 .. Len(s) : a <= s[i].start /\ s[i].start + s[i].len <= b
<1> DEFINE n == Len(s)
<1>1. n \in Nat
  OBVIOUS
<1>2. /\ \A i \in 1 .. n : s[i].start \in Nat /\ s[i].len \in Nat
      /\ \A i \in 1 .. n : i + 1 \in 1 .. n => s[i + 1].start = s[i].start + s[i].len
      /\ n = 0 => a = b
      /\ n # 0 => s[1].start = a /\ s[n].start + s[n].len = b
  BY DEF Tiling
<1> HIDE DEF n
<1> DEFINE T == {i \in 1 .. n : ~ (a <= s[i].start)}
           U == {i \in 1 .. n : ~ (s[n + 1 - i].start + s[n + 1 - i].len <= b)}
<1>3. CASE n = 0
  BY <1>2, <1>3 DEF n
<1>4. CASE n # 0
  <2>1. 1 \notin T
    BY <1>2, <1>4
  <2>2. ASSUME NEW i \in 1 .. n, i + 1 \in T, i \notin T
        PROVE  FALSE
    <3>1. i + 1 \in 1 .. n /\ ~ (a <= s[i + 1].start) /\ a <= s[i].start
      BY <2>2
    <3>2. s[i + 1].start = s[i].start + s[i].len /\ s[i].start \in Nat /\ s[i].len \in Nat
      BY <1>2, <3>1
    <3> QED
      BY <3>1, <3>2
  <2>3. T = {}
    <3> HIDE DEF T
    <3>1. T \in SUBSET (1 .. n)
      BY DEF T
    <3> QED
      BY <1>1, <2>1, <2>2, <3>1, UpTo
  <2>4. 1 \notin U
    <3>1. n + 1 - 1 = n
      BY <1>1
    <3>2. s[n].start \in Nat /\ s[n].len \in Nat /\ s[n].start + s[n].len = b
      <4>1. n \in 1 .. n
        BY <1>1, <1>4
      <4> QED
        BY <1>2, <1>4, <4>1
    <3> QED
      BY <3>1, <3>2
  <2>5. ASSUME NEW i \in 1 .. n, i + 1 \in U, i \notin U
        PROVE  FALSE
    <3> DEFINE j == n + 1 - (i + 1)
    <3>1. j + 1 = n + 1 - i /\ j \in 1 .. n /\ j + 1 \in 1 .. n
      BY <1>1, <2>5
    <3>2. ~ (s[j].start + s[j].len <= b)
      BY <2>5
    <3> HIDE DEF j
    <3>3. s[j + 1].start + s[j + 1].len <= b
      BY <2>5, <3>1
    <3>4. s[j + 1].start = s[j].start + s[j].len /\ s[j].start \in Nat /\ s[j].len \in Nat
          /\ s[j + 1].len \in Nat
      BY <1>2, <3>1
    <3> QED
      BY SMTT(30), <3>2, <3>3, <3>4
  <2>6. U = {}
    <3> HIDE DEF U
    <3>1. U \in SUBSET (1 .. n)
      BY DEF U
    <3> QED
      BY <1>1, <2>4, <2>5, <3>1, UpTo
  <2>7. ASSUME NEW i \in 1 .. n
        PROVE  a <= s[i].start /\ s[i].start + s[i].len <= b
    <3> DEFINE j == n + 1 - i
    <3>1. j \in 1 .. n /\ n + 1 - j = i
      BY <1>1
    <3> HIDE DEF j
    <3>2. s[n + 1 - j].start + s[n + 1 - j].len <= b
      BY <2>6, <3>1
    <3>3. a <= s[i].start
      BY <2>3
    <3> QED
      BY <3>1, <3>2, <3>3
  <2>8. a <= b
    <3>1. 1 \in 1 .. n
      BY <1>1, <1>4
    <3>2. a <= s[1].start /\ s[1].start + s[1].len <= b /\ s[1].start \in Nat /\ s[1].len \in Nat
      BY <1>2, <2>7, <3>1
    <3> QED
      BY <3>2
  <2> QED
    BY <2>7, <2>8 DEF n
<1> QED
  BY <1>3, <1>4

-----------------------------------------------------------------------------
(* Small sets and sequences                                                *)

LEMMA MinPair ==
  ASSUME NEW a \in Int, NEW b \in Int
  PROVE  Min({a, b}) = IF a <= b THEN a ELSE b
<1> DEFINE P(m) == m \in {a, b} /\ \A y \in {a, b} : m =< y
<1>1. \E m : P(m)
  <2>1. CASE a <= b
    BY <2>1
  <2>2. CASE b <= a
    BY <2>2
  <2> QED
    BY <2>1, <2>2
<1>2. P(CHOOSE m : P(m))
  BY <1>1
<1>3. Min({a, b}) = CHOOSE m : P(m)
  BY DEF Min
<1> QED
  BY <1>2, <1>3

LEMMA MaxOne ==
  ASSUME NEW a \in Int
  PROVE  Max({a}) = a
<1> DEFINE P(m) == m \in {a} /\ \A y \in {a} : m >= y
<1>1. P(a)
  OBVIOUS
<1>2. P(CHOOSE m : P(m))
  BY <1>1
<1>3. Max({a}) = CHOOSE m : P(m)
  BY DEF Max
<1> QED
  BY <1>2, <1>3

LEMMA FunSeq ==
  ASSUME NEW S, NEW n \in Nat, NEW f \in [1 .. n -> S]
  PROVE  f \in Seq(S) /\ Len(f) = n
<1>1. f \in Seq(S)
  BY SeqDef
<1>2. DOMAIN f = 1 .. Len(f) /\ Len(f) \in Nat /\ DOMAIN f = 1 .. n
  BY <1>1, LenProperties
<1> QED
  BY <1>1, <1>2

LEMMA MaxPair ==
  ASSUME NEW a \in Int, NEW b \in Int
  PROVE  Max({a, b}) = IF a >= b THEN a ELSE b
<1> DEFINE P(m) == m \in {a, b} /\ \A y \in {a, b} : m >= y
<1>1. \E m : P(m)
  <2>1. CASE a >= b
    BY <2>1
  <2>2. CASE b >= a
    BY <2>2
  <2> QED
    BY <2>1, <2>2
<1>2. P(CHOOSE m : P(m))
  BY <1>1
<1>3. Max({a, b}) = CHOOSE m : P(m)
  BY DEF Max
<1> QED
  BY <1>2, <1>3

\* The elements of a sequence that is put together out of sequences
LEMMA ConcatElements ==
  ASSUME NEW S, NEW s \in Seq(S), NEW t \in Seq(S)
  PROVE  /\ s \o t \in Seq(S) /\ Len(s \o t) = Len(s) + Len(t)
         /\ \A i \in 1 .. Len(s) : (s \o t)[i] = s[i]
         /\ \A i \in 1 .. Len(t) : (s \o t)[Len(s) + i] = t[i]
<1> DEFINE u == s \o t
           m == Len(s)
           n == Len(t)
<1>1. u \in Seq(S) /\ Len(u) = m + n /\ \A i \in 1 .. m + n : u[i] = IF i <= m THEN s[i] ELSE t[i - m]
  BY ConcatProperties
<1>2. m \in Nat /\ n \in Nat
  OBVIOUS
<1> HIDE DEF u, m, n
<1>3. \A i \in 1 .. m : i \in 1 .. m + n /\ i <= m
  BY <1>2
<1>4. \A i \in 1 .. n : m + i \in 1 .. m + n /\ ~ (m + i <= m) /\ (m + i) - m = i
  BY <1>2
<1>5. /\ \A i \in 1 .. m : u[i] = s[i]
      /\ \A i \in 1 .. n : u[m + i] = t[i]
  BY <1>1, <1>3, <1>4
<1> QED
  BY <1>1, <1>5 DEF u, m, n

-----------------------------------------------------------------------------
(* Sequences with a first element                                          *)

LEMMA ConsIs ==
  ASSUME NEW S, NEW x \in S, NEW t \in Seq(S)
  PROVE  /\ <<x>> \o t \in Seq(S) /\ Len(<<x>> \o t) = Len(t) + 1 /\ <<x>> \o t # <<>>
         /\ (<<x>> \o t)[1] = x
         /\ \A i \in 1 .. Len(t) : (<<x>> \o t)[i + 1] = t[i]
         /\ Head(<<x>> \o t) = x /\ Tail(<<x>> \o t) = t
<1> DEFINE u == <<x>> \o t
           n == Len(t)
<1>1. <<x>> \in Seq(S) /\ Len(<<x>>) = 1 /\ <<x>>[1] = x /\ n \in Nat
  OBVIOUS
<1>2. /\ u \in Seq(S) /\ Len(u) = 1 + n /\ \A i \in 1 .. 1 : u[i] = <<x>>[i]
      /\ \A i \in 1 .. n : u[1 + i] = t[i]
  BY <1>1, ConcatElements
<1>3. u[1] = x /\ u # <<>> /\ \A i \in 1 .. n : u[i + 1] = t[i]
  BY <1>1, <1>2
<1>4. Head(u) = x
  BY <1>2, <1>3
<1>5. Tail(u) = t
  <2>1. Tail(u) \in Seq(S) /\ Len(Tail(u)) = Len(u) - 1 /\ \A i \in 1 .. Len(Tail(u)) : Tail(u)[i] = u[i + 1]
    BY <1>2, <1>3, HeadTailProperties
  <2> HIDE DEF u
  <2>2. Len(Tail(u)) = n /\ \A i \in 1 .. n : Tail(u)[i] = t[i]
    BY <1>1, <1>2, <1>3, <2>1
  <2> QED
    BY <2>1, <2>2, SeqEqual DEF n
<1> QED
  BY <1>1, <1>2, <1>3, <1>4, <1>5

LEMMA UnconsIs ==
  ASSUME NEW S, NEW s \in Seq(S), s # <<>>
  PROVE  /\ s = <<Head(s)>> \o Tail(s) /\ Head(s) = s[1]
         /\ Head(s) \in S /\ Tail(s) \in Seq(S)
<1>1. /\ Head(s) \in S /\ Tail(s) \in Seq(S) /\ Len(Tail(s)) = Len(s) - 1 /\ Head(s) = s[1]
      /\ \A i \in 1 .. Len(Tail(s)) : Tail(s)[i] = s[i + 1]
  BY HeadTailProperties
<1> DEFINE x == Head(s)
           t == Tail(s)
           u == <<Head(s)>> \o Tail(s)
<1>2. /\ u \in Seq(S) /\ Len(u) = Len(Tail(s)) + 1 /\ u[1] = Head(s)
      /\ \A i \in 1 .. Len(Tail(s)) : u[i + 1] = Tail(s)[i]
  <2>1. x \in S /\ t \in Seq(S) /\ u = <<x>> \o t
    BY <1>1
  <2> HIDE DEF x, t, u
  <2>2. u \in Seq(S) /\ Len(u) = Len(t) + 1 /\ u[1] = x /\ \A i \in 1 .. Len(t) : u[i + 1] = t[i]
    BY <2>1, ConsIs
  <2> QED
    BY <2>2 DEF x, t
<1> HIDE DEF u
<1>3. Len(u) = Len(s) /\ Len(s) \in Nat
  BY <1>1, <1>2
<1>4. ASSUME NEW i \in 1 .. Len(u)
      PROVE  u[i] = s[i]
  <2>1. CASE i = 1
    BY <1>1, <1>2, <2>1
  <2>2. CASE i # 1
    <3>1. i - 1 \in 1 .. Len(Tail(s)) /\ (i - 1) + 1 = i
      BY <1>1, <1>3, <2>2
    <3>2. u[(i - 1) + 1] = Tail(s)[i - 1] /\ Tail(s)[i - 1] = s[(i - 1) + 1]
      BY <1>1, <1>2, <3>1
    <3> QED
      BY <3>1, <3>2
  <2> QED
    BY <2>1, <2>2
<1>5. u = s
  BY <1>2, <1>3, <1>4, SeqEqual
<1> QED
  BY <1>1, <1>5 DEF u

LEMMA PairIs ==
  ASSUME NEW S, NEW p \in Seq(S), NEW q \in Seq(S), Len(p) = 1, Len(q) = 1,
         NEW r \in Seq(S), Len(r) = 2, r[1] = p[1], r[2] = q[1]
  PROVE  r = p \o q
<1>1. p \o q \in Seq(S) /\ Len(p \o q) = 2 /\ (p \o q)[1] = p[1] /\ (p \o q)[2] = q[1]
  BY SMTT(30), ConcatProperties
<1>2. \A i \in 1 .. 2 : r[i] = (p \o q)[i]
  BY <1>1
<1> QED
  BY <1>1, <1>2, SeqEqual

LEMMA TripleIs ==
  ASSUME NEW S, NEW p \in Seq(S), NEW q \in Seq(S), Len(p) = 2, Len(q) = 1,
         NEW r \in Seq(S), Len(r) = 3, r[1] = p[1], r[2] = p[2], r[3] = q[1]
  PROVE  r = p \o q
<1>1. /\ p \o q \in Seq(S) /\ Len(p \o q) = 3 /\ (p \o q)[1] = p[1] /\ (p \o q)[2] = p[2]
      /\ (p \o q)[3] = q[1]
  BY ConcatProperties
<1>2. \A i \in 1 .. 3 : r[i] = (p \o q)[i]
  BY <1>1
<1> QED
  BY <1>1, <1>2, SeqEqual

LEMMA ConsTwo ==
  ASSUME NEW S, NEW a \in S, NEW b \in S, NEW t \in Seq(S)
  PROVE  <<a, b>> \o t = <<a>> \o (<<b>> \o t)
<1>1. <<a>> \in Seq(S) /\ Len(<<a>>) = 1 /\ <<b>> \in Seq(S) /\ Len(<<b>>) = 1
  OBVIOUS
<1>2. /\ <<a, b>> \in Seq(S) /\ Len(<<a, b>>) = 2
      /\ <<a, b>>[1] = <<a>>[1] /\ <<a, b>>[2] = <<b>>[1]
  OBVIOUS
<1>3. <<a, b>> = <<a>> \o <<b>>
  BY <1>1, <1>2, PairIs
<1>4. (<<a>> \o <<b>>) \o t = <<a>> \o (<<b>> \o t)
  BY <1>1, ConcatAssociative
<1> QED
  BY <1>3, <1>4

LEMMA ConsThree ==
  ASSUME NEW S, NEW a \in S, NEW b \in S, NEW c \in S, NEW t \in Seq(S)
  PROVE  <<a, b, c>> \o t = <<a>> \o (<<b>> \o (<<c>> \o t))
<1>1. <<a, b>> \in Seq(S) /\ Len(<<a, b>>) = 2 /\ <<c>> \in Seq(S) /\ Len(<<c>>) = 1
  OBVIOUS
<1>2. /\ <<a, b, c>> \in Seq(S) /\ Len(<<a, b, c>>) = 3
      /\ <<a, b, c>>[1] = <<a, b>>[1] /\ <<a, b, c>>[2] = <<a, b>>[2] /\ <<a, b, c>>[3] = <<c>>[1]
  OBVIOUS
<1>3. <<a, b, c>> = <<a, b>> \o <<c>>
  BY <1>1, <1>2, TripleIs
<1>4. (<<a, b>> \o <<c>>) \o t = <<a, b>> \o (<<c>> \o t)
  BY <1>1, ConcatAssociative
<1>5. <<c>> \o t \in Seq(S)
  BY <1>1, ConcatProperties
<1>6. <<a, b>> \o (<<c>> \o t) = <<a>> \o (<<b>> \o (<<c>> \o t))
  <2> DEFINE u == <<c>> \o t
  <2>1. u \in Seq(S)
    BY <1>5
  <2> HIDE DEF u
  <2>2. <<a, b>> \o u = <<a>> \o (<<b>> \o u)
    BY <2>1, ConsTwo
  <2> QED
    BY <2>2 DEF u
<1> QED
  BY <1>3, <1>4, <1>6

LEMMA QuadrupleIs ==
  ASSUME NEW S, NEW p \in Seq(S), NEW q \in Seq(S), NEW r \in Seq(S)
  PROVE  /\ Len(p) = 3 /\ Len(q) = 1 /\ Len(r) = 4
         /\ r[1] = p[1] /\ r[2] = p[2] /\ r[3] = p[3] /\ r[4] = q[1]
         => r = p \o q
<1> DEFINE u == p \o q
<1>0. /\ u \in Seq(S) /\ Len(u) = Len(p) + Len(q)
      /\ \A i \in 1 .. Len(p) : u[i] = p[i]
      /\ \A i \in 1 .. Len(q) : u[Len(p) + i] = q[i]
  BY ConcatElements
<1> HIDE DEF u
<1> HAVE Len(p) = 3 /\ Len(q) = 1 /\ Len(r) = 4
         /\ r[1] = p[1] /\ r[2] = p[2] /\ r[3] = p[3] /\ r[4] = q[1]
<1>1. Len(u) = 4 /\ 1 \in 1 .. Len(p) /\ 2 \in 1 .. Len(p) /\ 3 \in 1 .. Len(p) /\ 1 \in 1 .. Len(q)
  BY <1>0
<1>2. u[1] = p[1] /\ u[2] = p[2] /\ u[3] = p[3] /\ u[Len(p) + 1] = q[1]
  BY <1>0, <1>1
<1>3. Len(p) + 1 = 4
  OBVIOUS
<1>4. \A i \in 1 .. 4 : i = 1 \/ i = 2 \/ i = 3 \/ i = 4
  OBVIOUS
<1>5. \A i \in 1 .. 4 : r[i] = u[i]
  BY <1>2, <1>3, <1>4
<1>6. r = u
  BY <1>0, <1>1, <1>5, SeqEqual
<1> QED
  BY <1>6 DEF u

-----------------------------------------------------------------------------
(* Sequences put together out of sequences                                 *)

LEMMA FlattenEmpty == FlattenSeq(<<>>) = <<>>
  BY DEF FlattenSeq

\* f[i] puts the first i parts together
Chained(f, parts, n) == f[1] = parts[1] /\ \A i \in 2 .. n : f[i] = f[i - 1] \o parts[i]

LEMMA SameChain ==
  ASSUME NEW n \in Nat \ {0}, NEW parts, NEW f, NEW g, Chained(f, parts, n), Chained(g, parts, n)
  PROVE  f[n] = g[n]
<1> DEFINE T == {i \in 1 .. n : f[i] # g[i]}
<1>1. 1 \notin T
  BY DEF Chained
<1>2. ASSUME NEW i \in 1 .. n, i + 1 \in T, i \notin T
      PROVE  FALSE
  <2>1. i + 1 \in 2 .. n /\ (i + 1) - 1 = i
    BY <1>2
  <2> DEFINE k == i + 1
  <2>2. k \in 2 .. n /\ k - 1 = i /\ f[i] = g[i] /\ f[k] # g[k]
    BY <1>2, <2>1
  <2> HIDE DEF k, T
  <2>3. f[k] = f[k - 1] \o parts[k]
    BY <2>2 DEF Chained
  <2>4. g[k] = g[k - 1] \o parts[k]
    BY <2>2 DEF Chained
  <2> QED
    BY <2>2, <2>3, <2>4
<1>3. T = {}
  <2> HIDE DEF T
  <2>1. T \in SUBSET (1 .. n)
    BY DEF T
  <2> QED
    BY <1>1, <1>2, <2>1, UpTo
<1>4. n \in 1 .. n
  OBVIOUS
<1> QED
  BY <1>3, <1>4

LEMMA FlattenAppend ==
  ASSUME NEW S, NEW ss \in Seq(Seq(S)), NEW x \in Seq(S)
  PROVE  /\ FlattenSeq(ss) \in Seq(S)
         /\ FlattenSeq(Append(ss, x)) = FlattenSeq(ss) \o x
<1> DEFINE n == Len(ss)
           tt == Append(ss, x)
<1>1. /\ n \in Nat /\ tt \in Seq(Seq(S)) /\ Len(tt) = n + 1
      /\ \A i \in 1 .. n : tt[i] = ss[i]
      /\ tt[n + 1] = x
  BY AppendProperties
<1>2. PICK g \in [1 .. n + 1 -> Seq(S)] :
         /\ g[1] = tt[1] /\ FlattenSeq(tt) = g[n + 1]
         /\ \A i \in 2 .. n + 1 : g[i] = g[i - 1] \o tt[i]
  <2> HIDE DEF tt, n
  <2>1. Len(tt) > 0 /\ tt \in Seq(Seq(S))
    BY <1>1
  <2>2. \E g \in [1 .. Len(tt) -> Seq(S)] :
           /\ g[1] = tt[1] /\ FlattenSeq(tt) = g[Len(tt)]
           /\ \A i \in 2 .. Len(tt) : g[i] = g[i - 1] \o tt[i]
    BY <2>1, FlattenParts
  <2> QED
    BY <1>1, <2>2
<1>3. CASE n = 0
  <2>1. ss = <<>> /\ FlattenSeq(ss) = <<>>
    BY <1>3, EmptySeq, FlattenEmpty
  <2>2. tt = <<x>> /\ tt[1] = x
    BY <2>1
  <2>3. FlattenSeq(tt) = x
    BY <1>2, <1>3, <2>2
  <2> QED
    BY <2>1, <2>3, ConcatEmptySeq, EmptySeq
<1>4. CASE n # 0
  <2>1. PICK f \in [1 .. n -> Seq(S)] :
           /\ f[1] = ss[1] /\ FlattenSeq(ss) = f[n]
           /\ \A i \in 2 .. n : f[i] = f[i - 1] \o ss[i]
    <3>1. Len(ss) > 0
      BY <1>1, <1>4
    <3> QED
      BY <3>1, FlattenParts
  <2>2. n \in 1 .. n /\ 1 \in 1 .. n /\ n \in 1 .. Len(ss)
    BY <1>1, <1>4
  <2> HIDE DEF tt, n
  <2>3. g[1] = ss[1]
    BY <1>1, <1>2, <2>2
  <2>4. \A i \in 2 .. n : g[i] = g[i - 1] \o ss[i]
    <3> TAKE i \in 2 .. n
    <3>1. i \in 2 .. n + 1 /\ i \in 1 .. n
      BY <1>1
    <3> QED
      BY <1>1, <1>2, <3>1
  <2>5. f[n] = g[n]
    <3>1. Chained(f, ss, n) /\ Chained(g, ss, n)
      BY <2>1, <2>3, <2>4 DEF Chained
    <3>2. n \in Nat \ {0}
      BY <1>1, <1>4
    <3> QED
      BY <3>1, <3>2, SameChain
  <2>6. n + 1 \in 2 .. n + 1 /\ (n + 1) - 1 = n
    BY <1>1, <1>4
  <2>7. g[n + 1] = g[n] \o tt[n + 1]
    BY <1>2, <2>6
  <2>8. FlattenSeq(tt) = FlattenSeq(ss) \o x
    <3>1. FlattenSeq(tt) = g[n + 1] /\ tt[n + 1] = x
      BY <1>1, <1>2
    <3>2. FlattenSeq(ss) = f[n]
      BY <2>1
    <3> QED
      BY <2>5, <2>7, <3>1, <3>2
  <2> QED
    BY <2>1, <2>2, <2>8 DEF tt
<1> QED
  BY <1>3, <1>4

\* Sequences grow element by element
LEMMA PrefixIs ==
  ASSUME NEW S, NEW t \in Seq(S), NEW k \in 0 .. Len(t)
  PROVE  /\ SubSeq(t, 1, k) \in Seq(S) /\ Len(SubSeq(t, 1, k)) = k
         /\ \A i \in 1 .. k : SubSeq(t, 1, k)[i] = t[i]
         /\ k < Len(t) => t[k + 1] \in S /\ SubSeq(t, 1, k + 1) = Append(SubSeq(t, 1, k), t[k + 1])
<1>1. Len(t) \in Nat /\ \A i \in 1 .. Len(t) : t[i] \in S
  OBVIOUS
<1>2. ASSUME NEW j \in 0 .. Len(t)
      PROVE  /\ SubSeq(t, 1, j) \in Seq(S) /\ Len(SubSeq(t, 1, j)) = j
             /\ \A i \in 1 .. j : SubSeq(t, 1, j)[i] = t[i]
  <2>1. j \in Int /\ \A i \in 1 .. j : t[i] \in S
    BY <1>1
  <2>2. /\ SubSeq(t, 1, j) \in Seq(S)
        /\ Len(SubSeq(t, 1, j)) = IF 1 <= j THEN j - 1 + 1 ELSE 0
        /\ \A i \in 1 .. j - 1 + 1 : SubSeq(t, 1, j)[i] = t[1 + i - 1]
    BY <2>1, SubSeqProperties
  <2>3. (IF 1 <= j THEN j - 1 + 1 ELSE 0) = j /\ j - 1 + 1 = j /\ \A i \in 1 .. j : 1 + i - 1 = i
    BY <1>1
  <2> QED
    BY <2>2, <2>3
<1>3. ASSUME k < Len(t)
      PROVE  t[k + 1] \in S /\ SubSeq(t, 1, k + 1) = Append(SubSeq(t, 1, k), t[k + 1])
  <2>1. k + 1 \in 0 .. Len(t) /\ k + 1 \in 1 .. Len(t) /\ k \in Nat
    BY <1>1, <1>3
  <2> DEFINE u == SubSeq(t, 1, k + 1)
             v == SubSeq(t, 1, k)
             w == Append(v, t[k + 1])
  <2>2. u \in Seq(S) /\ Len(u) = k + 1 /\ \A i \in 1 .. k + 1 : u[i] = t[i]
    BY <1>2, <2>1
  <2>3. v \in Seq(S) /\ Len(v) = k /\ \A i \in 1 .. k : v[i] = t[i]
    BY <1>2
  <2> HIDE DEF u, v
  <2>4. w \in Seq(S) /\ Len(w) = k + 1 /\ (\A i \in 1 .. k : w[i] = v[i]) /\ w[k + 1] = t[k + 1]
    BY <1>1, <2>1, <2>3, AppendProperties
  <2> HIDE DEF w
  <2>5. \A i \in 1 .. k + 1 : u[i] = w[i]
    <3> TAKE i \in 1 .. k + 1
    <3>1. i = k + 1 \/ i \in 1 .. k
      BY <2>1
    <3> QED
      BY <2>2, <2>3, <2>4, <3>1
  <2>6. u = w
    BY <2>2, <2>4, <2>5, SeqEqual
  <2> QED
    BY <1>1, <2>1, <2>6 DEF u, v, w
<1> QED
  BY <1>2, <1>3

LEMMA FlattenConcat ==
  ASSUME NEW S, NEW ss \in Seq(Seq(S)), NEW tt \in Seq(Seq(S))
  PROVE  FlattenSeq(ss \o tt) = FlattenSeq(ss) \o FlattenSeq(tt)
<1> DEFINE n == Len(tt)
           Pre(k) == SubSeq(tt, 1, k)
           T == {k \in 1 .. n + 1 : FlattenSeq(ss \o Pre(k - 1)) # FlattenSeq(ss) \o FlattenSeq(Pre(k - 1))}
<1>0. n \in Nat /\ FlattenSeq(ss) \in Seq(S)
  BY FlattenAppend, EmptySeq
<1>1. 1 \notin T
  <2>1. Pre(1 - 1) = <<>>
    BY SubSeqEmpty
  <2>2. FlattenSeq(Pre(1 - 1)) = <<>>
    BY <2>1, FlattenEmpty
  <2>3. ss \o Pre(1 - 1) = ss
    BY <2>1, ConcatEmptySeq
  <2>4. FlattenSeq(ss) \o FlattenSeq(Pre(1 - 1)) = FlattenSeq(ss)
    BY <1>0, <2>2, ConcatEmptySeq
  <2> QED
    BY <2>3, <2>4
<1>2. ASSUME NEW k \in 1 .. n + 1, k + 1 \in T, k \notin T
      PROVE  FALSE
  <2>1. k - 1 \in 0 .. n /\ k - 1 < n /\ (k - 1) + 1 = k /\ (k + 1) - 1 = k /\ k \in 1 .. n
    BY <1>0, <1>2
  <2>2. /\ Pre(k - 1) \in Seq(Seq(S)) /\ tt[k] \in Seq(S)
        /\ Pre(k) = Append(Pre(k - 1), tt[k])
    <3> HIDE DEF T
    <3> DEFINE j == k - 1
    <3>1. j \in 0 .. Len(tt) /\ j < Len(tt) /\ j + 1 = k
      BY <2>1
    <3> HIDE DEF j
    <3>2. SubSeq(tt, 1, j) \in Seq(Seq(S)) /\ tt[j + 1] \in Seq(S)
          /\ SubSeq(tt, 1, j + 1) = Append(SubSeq(tt, 1, j), tt[j + 1])
      <4>1. j < Len(tt) => tt[j + 1] \in Seq(S) /\ SubSeq(tt, 1, j + 1) = Append(SubSeq(tt, 1, j), tt[j + 1])
        BY <3>1, PrefixIs
      <4>2. SubSeq(tt, 1, j) \in Seq(Seq(S))
        BY <3>1, PrefixIs
      <4> QED
        BY <3>1, <4>1, <4>2
    <3> QED
      BY <3>1, <3>2 DEF j
  <2> DEFINE p == Pre(k - 1)
             x == tt[k]
  <2> HIDE DEF Pre, p, x
  <2>3. FlattenSeq(ss \o p) = FlattenSeq(ss) \o FlattenSeq(p)
    BY <1>2 DEF p
  <2>4. p \in Seq(Seq(S)) /\ x \in Seq(S) /\ Pre(k) = Append(p, x)
    BY <2>2 DEF p, x
  <2>5. ss \o Append(p, x) = Append(ss \o p, x) /\ ss \o p \in Seq(Seq(S))
    <3>1. /\ Append(p, x) = p \o <<x>> /\ <<x>> \in Seq(Seq(S)) /\ ss \o p \in Seq(Seq(S))
      BY <2>4, AppendIsConcat, ConcatProperties
    <3>2. Append(ss \o p, x) = (ss \o p) \o <<x>>
      BY <2>4, <3>1, AppendIsConcat
    <3> QED
      BY SMTT(30), <2>4, <3>1, <3>2, ConcatAssociative
  <2>6. FlattenSeq(Append(ss \o p, x)) = FlattenSeq(ss \o p) \o x
    BY <2>4, <2>5, FlattenAppend
  <2>7. FlattenSeq(Append(p, x)) = FlattenSeq(p) \o x /\ FlattenSeq(p) \in Seq(S)
    BY <2>4, FlattenAppend
  <2>8. (FlattenSeq(ss) \o FlattenSeq(p)) \o x = FlattenSeq(ss) \o (FlattenSeq(p) \o x)
    <3> DEFINE A == FlattenSeq(ss)
               B == FlattenSeq(p)
    <3>1. A \in Seq(S) /\ B \in Seq(S) /\ x \in Seq(S)
      BY <1>0, <2>4, <2>7
    <3> HIDE DEF A, B
    <3>2. (A \o B) \o x = A \o (B \o x)
      BY SMTT(30), <3>1, ConcatAssociative
    <3> QED
      BY <3>2 DEF A, B
  <2>9. FlattenSeq(ss \o Pre(k)) = FlattenSeq(ss) \o FlattenSeq(Pre(k))
    BY <2>3, <2>4, <2>5, <2>6, <2>7, <2>8
  <2> QED
    BY <1>2, <2>1, <2>9
<1>3. T = {}
  <2> HIDE DEF T
  <2>1. T \in SUBSET (1 .. n + 1) /\ n + 1 \in Nat
    BY <1>0 DEF T
  <2> QED
    BY <1>1, <1>2, <2>1, UpTo
<1>4. n + 1 \in 1 .. n + 1 /\ (n + 1) - 1 = n
  BY <1>0
<1>5. Pre(n) = tt
  BY SubSeqFull
<1> QED
  BY <1>3, <1>4, <1>5

LEMMA FlattenOne ==
  ASSUME NEW S, NEW x \in Seq(S)
  PROVE  FlattenSeq(<<x>>) = x
<1>1. <<>> \in Seq(Seq(S)) /\ Append(<<>>, x) = <<x>>
  OBVIOUS
<1>2. FlattenSeq(<<x>>) = <<>> \o x
  BY <1>1, FlattenAppend, FlattenEmpty
<1> QED
  BY <1>2, ConcatEmptySeq

\* The parts of h are those of f and then those of g
LEMMA FlattenJoin ==
  ASSUME NEW S, NEW f \in Seq(Seq(S)), NEW g \in Seq(Seq(S)), NEW h \in Seq(Seq(S)),
         Len(h) = Len(f) + Len(g),
         \A i \in 1 .. Len(f) : h[i] = f[i],
         \A i \in 1 .. Len(g) : h[Len(f) + i] = g[i]
  PROVE  FlattenSeq(h) = FlattenSeq(f) \o FlattenSeq(g)
<1> DEFINE m == Len(f)
           n == Len(g)
<1>1. /\ f \o g \in Seq(Seq(S)) /\ Len(f \o g) = m + n
      /\ \A i \in 1 .. m : (f \o g)[i] = f[i]
      /\ \A i \in 1 .. n : (f \o g)[m + i] = g[i]
  BY ConcatElements
<1>2. /\ m \in Nat /\ n \in Nat /\ Len(h) = m + n
      /\ \A i \in 1 .. m : h[i] = f[i]
      /\ \A i \in 1 .. n : h[m + i] = g[i]
  OBVIOUS
<1> HIDE DEF m, n
<1>3. ASSUME NEW i \in 1 .. m + n
      PROVE  h[i] = (f \o g)[i]
  <2>1. CASE i \in 1 .. m
    BY <1>1, <1>2, <2>1
  <2>2. CASE i \notin 1 .. m
    <3> DEFINE j == i - m
    <3>1. j \in 1 .. n /\ m + j = i
      BY <1>2, <2>2
    <3> HIDE DEF j
    <3>2. h[m + j] = (f \o g)[m + j]
      BY <1>1, <1>2, <3>1
    <3> QED
      BY <3>1, <3>2
  <2> QED
    BY <2>1, <2>2
<1>4. h = f \o g
  BY <1>1, <1>2, <1>3, SeqEqual
<1> QED
  BY <1>4, FlattenConcat


-----------------------------------------------------------------------------
(* The least and the greatest of some positions                            *)

LEMMA SomeLeast ==
  ASSUME NEW n \in Nat, NEW T \in SUBSET (0 .. n), T # {}
  PROVE  \E x \in T : \A y \in T : x <= y
<1> DEFINE U == {k \in 1 .. n + 1 : \E y \in T : y < k}
<1> SUFFICES ASSUME \A x \in T : \E y \in T : y < x
             PROVE  FALSE
  OBVIOUS
<1>1. 1 \notin U
  <2>1. SUFFICES ASSUME 1 \in U
                 PROVE  FALSE
    OBVIOUS
  <2>2. PICK y \in T : y < 1
    BY <2>1
  <2>3. PICK z \in T : z < y
    OBVIOUS
  <2> QED
    BY <2>2, <2>3
<1>2. ASSUME NEW k \in 1 .. n + 1, k + 1 \in U, k \notin U
      PROVE  FALSE
  <2>1. PICK y \in T : y < k + 1
    BY <1>2
  <2>2. PICK z \in T : z < y
    OBVIOUS
  <2> QED
    BY <1>2, <2>1, <2>2
<1>3. U = {}
  <2> HIDE DEF U
  <2>1. U \in SUBSET (1 .. n + 1) /\ n + 1 \in Nat
    BY DEF U
  <2> QED
    BY <1>1, <1>2, <2>1, UpTo
<1>4. PICK y \in T : TRUE
  OBVIOUS
<1>5. n + 1 \in U
  BY <1>4
<1> QED
  BY <1>3, <1>5

LEMMA MinIn ==
  ASSUME NEW n \in Nat, NEW T \in SUBSET (0 .. n), T # {}
  PROVE  Min(T) \in T /\ \A y \in T : Min(T) <= y
<1>1. \E x \in T : \A y \in T : x <= y
  BY SomeLeast
<1> QED
  BY <1>1 DEF Min

LEMMA MaxIn ==
  ASSUME NEW n \in Nat, NEW T \in SUBSET (0 .. n), T # {}
  PROVE  Max(T) \in T /\ \A y \in T : y <= Max(T)
<1> DEFINE U == {n - x : x \in T}
<1>1. U \in SUBSET (0 .. n) /\ U # {}
  <2>1. \A x \in T : n - x \in 0 .. n
    OBVIOUS
  <2>2. PICK x \in T : TRUE
    OBVIOUS
  <2>3. n - x \in U
    OBVIOUS
  <2>4. U \subseteq 0 .. n
    BY <2>1
  <2> QED
    BY <2>3, <2>4
<1>2. PICK u \in U : \A v \in U : u <= v
  <2> HIDE DEF U
  <2> QED
    BY <1>1, SomeLeast
<1>3. PICK x \in T : u = n - x
  <2>1. u \in U
    BY <1>2
  <2> QED
    BY <2>1
<1>4. \A y \in T : x >= y
  <2> TAKE y \in T
  <2>1. n - y \in U
    OBVIOUS
  <2>2. u <= n - y
    BY <1>2, <2>1
  <2> QED
    BY <1>3, <2>2
<1>5. \E z \in T : \A y \in T : z >= y
  BY <1>4
<1>6. Max(T) \in T /\ \A y \in T : Max(T) >= y
  BY <1>5 DEF Max
<1> QED
  BY <1>6

\* The first of a sequence goes to the end of another
LEMMA MoveHead ==
  ASSUME NEW S, NEW p \in Seq(S), NEW r \in Seq(S), r # <<>>
  PROVE  Append(p, Head(r)) \o Tail(r) = p \o r
<1> DEFINE t == Tail(r)
           h == Head(r)
           u == Append(p, h) \o t
           w == p \o r
           m == Len(p)
           n == Len(t)
<1>1. /\ h \in S /\ t \in Seq(S) /\ Len(r) = n + 1 /\ n \in Nat /\ h = r[1]
      /\ \A i \in 1 .. n : t[i] = r[i + 1]
  BY HeadTailProperties, UnconsIs
<1>2. /\ Append(p, h) \in Seq(S) /\ Len(Append(p, h)) = m + 1 /\ m \in Nat
      /\ Append(p, h)[m + 1] = h /\ \A i \in 1 .. m : Append(p, h)[i] = p[i]
  BY <1>1, AppendProperties
<1> DEFINE a == Append(p, h)
<1> HIDE DEF a, t, h
<1>3. /\ a \in Seq(S) /\ Len(a) = m + 1 /\ a[m + 1] = h /\ \A i \in 1 .. m : a[i] = p[i]
  BY <1>2 DEF a
<1>4. /\ a \o t \in Seq(S) /\ Len(a \o t) = Len(a) + Len(t)
      /\ \A i \in 1 .. Len(a) : (a \o t)[i] = a[i]
      /\ \A i \in 1 .. Len(t) : (a \o t)[Len(a) + i] = t[i]
  <2>1. a \in Seq(S) /\ t \in Seq(S)
    BY <1>1, <1>3
  <2> HIDE DEF u, w, m, n
  <2> QED
    BY <2>1, ConcatElements
<1>5. /\ w \in Seq(S) /\ Len(w) = m + Len(r)
      /\ \A i \in 1 .. m : w[i] = p[i]
      /\ \A i \in 1 .. Len(r) : w[m + i] = r[i]
  BY ConcatElements
<1> DEFINE v == a \o t
<1> HIDE DEF v, w
<1>6. /\ v \in Seq(S) /\ Len(v) = m + 1 + n
      /\ \A i \in 1 .. m + 1 : v[i] = a[i]
      /\ \A i \in 1 .. n : v[m + 1 + i] = t[i]
  BY <1>3, <1>4 DEF v
<1> HIDE DEF m, n
<1>7. m \in Nat /\ n \in Nat /\ Len(w) = m + 1 + n
  BY <1>1, <1>2, <1>5
<1>8. ASSUME NEW i \in 1 .. m + 1 + n
      PROVE  v[i] = w[i]
  <2>1. CASE i \in 1 .. m
    <3>1. i \in 1 .. m + 1
      BY <1>7, <2>1
    <3> QED
      BY <1>3, <1>5, <1>6, <2>1, <3>1
  <2>2. CASE i = m + 1
    <3>1. m + 1 \in 1 .. m + 1 /\ 1 \in 1 .. Len(r)
      BY <1>1, <1>7
    <3>2. w[m + 1] = r[1]
      BY <1>5, <3>1
    <3> QED
      BY <1>1, <1>3, <1>6, <2>2, <3>1, <3>2
  <2>3. CASE i > m + 1
    <3> DEFINE j == i - (m + 1)
    <3>1. j \in 1 .. n /\ m + 1 + j = i /\ j + 1 \in 1 .. Len(r) /\ m + (j + 1) = i
      BY <1>1, <1>7, <1>8, <2>3
    <3> HIDE DEF j
    <3>2. v[m + 1 + j] = t[j] /\ w[m + (j + 1)] = r[j + 1] /\ t[j] = r[j + 1]
      BY <1>1, <1>5, <1>6, <3>1
    <3> QED
      BY <3>1, <3>2
  <2> QED
    BY <1>7, <2>1, <2>2, <2>3
<1>9. v = w
  BY <1>5, <1>6, <1>7, <1>8, SeqEqual
<1> QED
  BY <1>9 DEF v, w, a, t, h

=============================================================================
