----------------------------- MODULE SpiNorProofs -----------------------------
(***************************************************************************)
(* What SpiNor promises, proved for all chips, masters and accesses that   *)
(* the assumptions allow.                                                  *)
(***************************************************************************)
EXTENDS SpiNor, SequenceLemmas

-----------------------------------------------------------------------------
(* Cutting                                                                 *)

Part == [start : Nat, len : Nat \ {0}]
\* The first and the last byte are in the same bank, or in the same page
SamePart(k) == {p \in Part : p.start \div k = (p.start + p.len - 1) \div k}

\* One part for each block of k addresses
Grid(start, len, k) ==
  [i \in 1 .. ((start + len - 1) \div k - start \div k + 1) |->
     LET a == IF i = 1 THEN start ELSE (start \div k + i - 1) * k
         b == IF (start \div k + i) * k <= start + len THEN (start \div k + i) * k ELSE start + len
     IN  [start |-> a, len |-> b - a]]

LEMMA DivMonotonic ==
  ASSUME NEW a \in Int, NEW b \in Int, NEW k \in Nat \ {0}, a <= b
  PROVE  a \div k <= b \div k
<1> DEFINE x == a \div k
           y == b \div k
<1>1. x \in Int /\ a % k \in 0 .. k - 1 /\ a = k * x + (a % k)
  BY DivMod
<1>2. y \in Int /\ b % k \in 0 .. k - 1 /\ b = k * y + (b % k)
  BY DivMod
<1> HIDE DEF x, y
<1>3. ASSUME y + 1 <= x
      PROVE  FALSE
  <2>1. k * (y + 1) <= k * x
    BY <1>1, <1>2, <1>3, TimesMonotonic
  <2>2. k * (y + 1) = k * y + k
    BY <1>2
  <2> QED
    BY <1>1, <1>2, <2>1, <2>2
<1> QED
  BY <1>1, <1>2, <1>3 DEF x, y

\* What lies in a part lies in its block
LEMMA WithinSamePart ==
  ASSUME NEW k \in Nat \ {0}, NEW p \in SamePart(k), NEW q \in Part,
         p.start <= q.start, q.start + q.len <= p.start + p.len
  PROVE  q \in SamePart(k)
<1> DEFINE a == p.start
           b == p.start + p.len - 1
           c == q.start
           d == q.start + q.len - 1
<1>1. a \in Int /\ b \in Int /\ c \in Int /\ d \in Int /\ a <= c /\ c <= d /\ d <= b
  BY DEF SamePart, Part
<1>2. a \div k = b \div k
  BY DEF SamePart
<1> HIDE DEF a, b, c, d
<1>3. a \div k <= c \div k /\ c \div k <= d \div k /\ d \div k <= b \div k
  BY <1>1, DivMonotonic
<1>4. a \div k \in Int /\ b \div k \in Int /\ c \div k \in Int /\ d \div k \in Int
  BY <1>1, DivMod
<1>5. c \div k = d \div k
  BY <1>2, <1>3, <1>4
<1> QED
  BY <1>5 DEF c, d, SamePart

LEMMA GridTiling ==
  ASSUME NEW start \in Nat, NEW len \in Nat \ {0}, NEW k \in Nat \ {0}
  PROVE  Grid(start, len, k) \in Seq(SamePart(k)) /\ Tiling(Grid(start, len, k), start, start + len)
<1> DEFINE d0 == start \div k
           d1 == (start + len - 1) \div k
           n == d1 - d0 + 1
           end == start + len
           M(i) == (d0 + i) * k
           a(i) == IF i = 1 THEN start ELSE M(i - 1)
           b(i) == IF M(i) <= end THEN M(i) ELSE end
<1>1. /\ d0 \in Nat /\ start % k \in 0 .. k - 1 /\ start = k * d0 + (start % k)
      /\ d1 \in Nat /\ (end - 1) % k \in 0 .. k - 1 /\ end - 1 = k * d1 + ((end - 1) % k)
  <2>1. end - 1 \in Nat /\ end - 1 \in Int /\ start \in Int
    OBVIOUS
  <2>2. d0 \in Nat /\ start % k \in 0 .. k - 1 /\ start = k * d0 + (start % k)
    BY <2>1, DivMod
  <2>3. /\ (end - 1) \div k \in Nat /\ (end - 1) % k \in 0 .. k - 1
        /\ end - 1 = k * ((end - 1) \div k) + ((end - 1) % k)
    <3> HIDE DEF end
    <3> QED
      BY <2>1, DivMod
  <2>4. d1 = (end - 1) \div k
    OBVIOUS
  <2> QED
    BY <2>2, <2>3, <2>4
<1>2. d0 <= d1
  BY DivMonotonic
<1>3. n \in Nat \ {0} /\ end \in Nat /\ start < end
  BY <1>1, <1>2
<1>4. Grid(start, len, k) = [i \in 1 .. n |-> [start |-> a(i), len |-> b(i) - a(i)]]
  <2>1. \A i \in 1 .. n : (d0 + i - 1) * k = M(i - 1)
    <3> TAKE i \in 1 .. n
    <3>1. d0 + i - 1 = d0 + (i - 1)
      BY <1>1
    <3> QED
      BY <3>1
  <2> QED
    BY <2>1 DEF Grid
<1> DEFINE g == [i \in 1 .. n |-> [start |-> a(i), len |-> b(i) - a(i)]]
<1>5. \A i \in 0 .. n : /\ M(i) \in Nat /\ M(i + 1) = M(i) + k /\ M(i) = k * (d0 + i)
                        /\ i < n => M(i) <= end - 1
                        /\ i = n => M(i) >= end
                        /\ i > 0 => M(i) > start
                        /\ i = 0 => M(i) <= start
  <2> TAKE i \in 0 .. n
  <2> DEFINE x == d0 + i
  <2>1. x \in Nat /\ d0 + (i + 1) = x + 1
    BY <1>1
  <2>2. x * k \in Nat /\ (x + 1) * k = x * k + k /\ x * k = k * x
    BY <2>1
  <2>3. M(i) = x * k /\ M(i + 1) = (x + 1) * k
    BY <2>1
  <2>4. k * d0 \in Nat /\ k * (d0 + 1) = k * d0 + k /\ k * d1 \in Nat /\ k * (d1 + 1) = k * d1 + k
    BY <1>1
  <2>5. ASSUME i < n
        PROVE  x * k <= end - 1
    <3>1. x <= d1
      BY <1>1, <2>5
    <3>2. k * x <= k * d1
      BY <1>1, <2>1, <3>1, TimesMonotonic
    <3> QED
      BY <1>1, <1>3, <2>2, <2>4, <3>2
  <2>6. ASSUME i = n
        PROVE  x * k >= end
    <3>1. x = d1 + 1
      BY <1>1, <2>6
    <3> QED
      BY <1>1, <1>3, <2>2, <2>4, <3>1
  <2>7. ASSUME i > 0
        PROVE  x * k > start
    <3>1. d0 + 1 <= x /\ d0 + 1 \in Int /\ x \in Int
      BY <1>1, <2>7
    <3>2. k * (d0 + 1) <= k * x
      BY <3>1, TimesMonotonic
    <3> QED
      BY <1>1, <2>2, <2>4, <3>2
  <2>8. ASSUME i = 0
        PROVE  x * k <= start
    <3>1. x = d0
      BY <1>1, <2>8
    <3> QED
      BY <1>1, <2>2, <2>4, <3>1
  <2> QED
    BY <2>2, <2>3, <2>5, <2>6, <2>7, <2>8
<1> HIDE DEF d0, d1, n, end, M
<1>6. \A i \in 1 .. n : /\ a(i) \in Nat /\ b(i) \in Nat /\ a(i) < b(i)
                        /\ M(i - 1) <= a(i) /\ b(i) <= M(i - 1) + k /\ M(i - 1) = k * (d0 + (i - 1))
                        /\ i + 1 \in 1 .. n => b(i) = a(i + 1)
                        /\ i = n => b(i) = end
                        /\ i = 1 => a(i) = start
  <2> TAKE i \in 1 .. n
  <2> DEFINE j == i - 1
  <2>1. j \in 0 .. n /\ i \in 0 .. n /\ j + 1 = i /\ j < n /\ (i = 1 => j = 0) /\ (i # 1 => j > 0)
    BY <1>3
  <2>2. M(j) \in Nat /\ M(j + 1) = M(j) + k /\ M(j) = k * (d0 + j) /\ M(j) <= end - 1
        /\ (j = 0 => M(j) <= start) /\ (j > 0 => M(j) > start)
    BY <1>5, <2>1
  <2>3. M(i) = M(j) + k
    BY <2>1, <2>2
  <2>4. M(i) \in Nat /\ (i < n => M(i) <= end - 1) /\ (i = n => M(i) >= end) /\ M(i) > start
    BY <1>5, <2>1
  <2>5. a(i) = (IF i = 1 THEN start ELSE M(j)) /\ M(i - 1) = M(j)
    OBVIOUS
  <2>6. a(i) \in Nat /\ M(j) <= a(i) /\ (i = 1 => a(i) = start) /\ a(i) < M(i) /\ a(i) < end
    BY <1>3, <2>1, <2>2, <2>3, <2>4, <2>5
  <2>7. b(i) \in Nat /\ a(i) < b(i) /\ b(i) <= M(j) + k /\ (i = n => b(i) = end)
    BY <1>3, <2>3, <2>4, <2>6
  <2>8. ASSUME i + 1 \in 1 .. n
        PROVE  b(i) = a(i + 1)
    <3>1. i < n /\ i + 1 # 1 /\ (i + 1) - 1 = i
      BY <1>3, <2>8
    <3>2. a(i + 1) = M(i)
      BY <3>1
    <3>3. b(i) = M(i)
      BY <1>3, <2>4, <3>1
    <3> QED
      BY <3>2, <3>3
  <2> QED
    BY <2>2, <2>5, <2>6, <2>7, <2>8
<1>7. \A i \in 1 .. n : [start |-> a(i), len |-> b(i) - a(i)] \in SamePart(k)
  <2> TAKE i \in 1 .. n
  <2> DEFINE q == d0 + (i - 1)
             x == a(i)
             y == b(i)
             m == M(i - 1)
  <2>1. x \in Nat /\ y \in Nat /\ x < y /\ m <= x /\ y <= m + k /\ m = k * q
    BY <1>6
  <2>2. q \in Int
    BY <1>1, <1>3 DEF d0
  <2> HIDE DEF q, x, y, m
  <2>3. k * q <= x /\ x < k * q + k /\ k * q <= y - 1 /\ y - 1 < k * q + k /\ x \in Int /\ y - 1 \in Int
    BY <2>1, <2>2
  <2>4. x \div k = q /\ (y - 1) \div k = q
    BY <2>2, <2>3, DivUnique
  <2>5. x + (y - x) - 1 = y - 1 /\ y - x \in Nat \ {0}
    BY <2>1
  <2>6. [start |-> x, len |-> y - x] \in SamePart(k)
    BY <2>1, <2>4, <2>5 DEF SamePart, Part
  <2> QED
    BY <2>6 DEF x, y
<1> DEFINE S == SamePart(k)
<1>8. g \in [1 .. n -> S]
  BY <1>7
<1> HIDE DEF S
<1>9. g \in Seq(S) /\ Len(g) = n
  <2>1. n \in Nat
    BY <1>3
  <2> HIDE DEF g
  <2> QED
    BY <1>8, <2>1, FunSeq
<1>10. \A i \in 1 .. n : g[i].start = a(i) /\ g[i].len = b(i) - a(i)
  OBVIOUS
<1> HIDE DEF g, a, b
<1>11. Tiling(g, start, end)
  <2>1. \A i \in 1 .. n : /\ g[i].start \in Nat /\ g[i].len \in Nat \ {0}
                          /\ g[i].start + g[i].len = b(i)
    BY <1>6, <1>10
  <2>2. \A i \in 1 .. n : i + 1 \in 1 .. n => g[i + 1].start = g[i].start + g[i].len
    BY <1>6, <1>10, <2>1
  <2>3. 1 \in 1 .. n /\ n \in 1 .. n
    BY <1>3
  <2>4. g[1].start = start /\ g[n].start + g[n].len = end
    BY <1>6, <1>10, <2>1, <2>3
  <2> QED
    BY <1>3, <1>9, <2>1, <2>2, <2>4 DEF Tiling
<1> QED
  BY <1>4, <1>9, <1>11 DEF g, end, S

\* spi_chip_read(), spi_chip_write_256(): banks
LEMMA BanksTiling ==
  ASSUME NEW start \in Nat, NEW len \in Nat \ {0}
  PROVE  Banks(start, len) \in Seq(SamePart(Bank)) /\ Tiling(Banks(start, len), start, start + len)
<1>0. Bank \in Nat \ {0}
  BY SpiAssumption
<1> DEFINE d0 == start \div Bank
           n == (start + len - 1) \div Bank - d0 + 1
           end == start + len
<1>1. d0 \in Nat /\ n \in Int
  <2>1. start \in Int /\ start + len - 1 \in Int
    OBVIOUS
  <2> QED
    BY <1>0, <2>1, DivMod
<1>2. \A i \in 1 .. n :
        LET a == IF i = 1 THEN start ELSE (d0 + i - 1) * Bank
        IN  Min({BankEnd(a), end}) = IF (d0 + i) * Bank <= end THEN (d0 + i) * Bank ELSE end
  <2> TAKE i \in 1 .. n
  <2> DEFINE a == IF i = 1 THEN start ELSE (d0 + i - 1) * Bank
  <2>1. a \div Bank = d0 + i - 1
    <3>1. CASE i = 1
      BY <1>1, <3>1
    <3>2. CASE i # 1
      <4> DEFINE q == d0 + i - 1
      <4>1. q \in Int
        BY <1>1
      <4> HIDE DEF q
      <4>2. q * Bank \in Int /\ Bank * q <= q * Bank /\ q * Bank < Bank * q + Bank
        BY <1>0, <4>1
      <4>3. (q * Bank) \div Bank = q
        BY <1>0, <4>1, <4>2, DivUnique
      <4> QED
        BY <3>2, <4>3 DEF q
    <3> QED
      BY <3>1, <3>2
  <2>2. BankEnd(a) = (d0 + i) * Bank
    <3>1. (d0 + i - 1) + 1 = d0 + i
      BY <1>1
    <3> HIDE DEF a
    <3> QED
      BY <2>1, <3>1 DEF BankEnd
  <2>3. (d0 + i) * Bank \in Int /\ end \in Int
    BY <1>0, <1>1
  <2> HIDE DEF d0, end, a
  <2>4. Min({BankEnd(a), end}) = IF (d0 + i) * Bank <= end THEN (d0 + i) * Bank ELSE end
    BY <2>2, <2>3, MinPair
  <2> QED
    BY <2>4 DEF a
<1>3. Banks(start, len) = Grid(start, len, Bank)
  BY <1>2 DEF Banks, Grid
<1> QED
  BY <1>0, <1>3, GridTiling

\* spi_write_chunked(): pages
LEMMA PagesTiling ==
  ASSUME NEW p, p.start \in Nat, p.len \in Nat \ {0}
  PROVE  Pages(p) \in Seq(SamePart(Page)) /\ Tiling(Pages(p), p.start, p.start + p.len)
<1>0. Page \in Nat \ {0}
  BY SpiAssumption
<1> DEFINE start == p.start
           end == p.start + p.len
           d0 == start \div Page
           n == (start + p.len - 1) \div Page - d0 + 1
<1>1. d0 \in Nat /\ n \in Int /\ start = Page * d0 + (start % Page) /\ start % Page \in 0 .. Page - 1
  <2>1. start \in Int /\ start \in Nat /\ start + p.len - 1 \in Int
    OBVIOUS
  <2>2. (start + p.len - 1) \div Page \in Int
    BY <1>0, <2>1, DivMod
  <2>3. d0 \in Nat /\ start = Page * d0 + (start % Page) /\ start % Page \in 0 .. Page - 1
    <3> HIDE DEF start
    <3> QED
      BY <1>0, <2>1, DivMod
  <2> QED
    BY <2>2, <2>3
<1>2. \A i \in 1 .. n :
        /\ Max({start, PageStart(start, i - 1)}) = IF i = 1 THEN start ELSE (d0 + i - 1) * Page
        /\ Min({end, PageStart(start, i)}) = IF (d0 + i) * Page <= end THEN (d0 + i) * Page ELSE end
  <2> TAKE i \in 1 .. n
  <2>1. PageStart(start, i) = (d0 + i) * Page /\ PageStart(start, i - 1) = (d0 + i - 1) * Page
    <3>1. d0 + (i - 1) = d0 + i - 1
      BY <1>1
    <3> QED
      BY <3>1 DEF PageStart
  <2>2. (d0 + i) * Page \in Int /\ end \in Int /\ start \in Int /\ (d0 + i - 1) * Page \in Int
    BY <1>0, <1>1
  <2> HIDE DEF d0, end, start
  <2>3. i = 1 => (d0 + i - 1) * Page <= start
    <3>1. ASSUME i = 1
          PROVE  (d0 + i - 1) * Page = Page * d0
      BY <1>0, <1>1, <3>1
    <3> QED
      BY <1>0, <1>1, <2>2, <3>1
  <2>4. i # 1 => (d0 + i - 1) * Page > start
    <3> DEFINE q == d0 + i - 1
    <3>1. ASSUME i # 1
          PROVE  d0 + 1 <= q /\ q \in Int /\ d0 + 1 \in Int
      BY <1>1, <3>1
    <3> HIDE DEF q
    <3>2. ASSUME i # 1
          PROVE  q * Page >= Page * d0 + Page
      <4>1. (d0 + 1) * Page <= q * Page
        BY <1>0, <3>1, <3>2, TimesMonotonic
      <4>2. (d0 + 1) * Page = Page * d0 + Page
        BY <1>0, <1>1
      <4> QED
        BY <4>1, <4>2
    <3> QED
      BY <1>0, <1>1, <2>2, <3>2 DEF q
  <2>5. Max({start, PageStart(start, i - 1)}) = IF i = 1 THEN start ELSE (d0 + i - 1) * Page
    <3>1. Max({start, PageStart(start, i - 1)})
            = IF start >= PageStart(start, i - 1) THEN start ELSE PageStart(start, i - 1)
      BY <2>1, <2>2, MaxPair
    <3>2. (d0 + i - 1) * Page \in Int
      BY <2>2
    <3>3. CASE i = 1
      BY <2>1, <2>2, <2>3, <3>1, <3>3
    <3>4. CASE i # 1
      BY <2>1, <2>2, <2>4, <3>1, <3>4
    <3> QED
      BY <3>3, <3>4
  <2>6. Min({end, PageStart(start, i)}) = IF (d0 + i) * Page <= end THEN (d0 + i) * Page ELSE end
    <3>1. Min({end, PageStart(start, i)}) = IF end <= PageStart(start, i) THEN end ELSE PageStart(start, i)
      BY <2>1, <2>2, MinPair
    <3> QED
      BY <2>1, <2>2, <3>1
  <2> QED
    BY <2>5, <2>6
<1>3. Pages(p) = Grid(p.start, p.len, Page)
  BY <1>2 DEF Pages, Grid
<1> QED
  BY <1>0, <1>3, GridTiling

\* flashprog_read_chunked(), spi_write_chunked(): what the master can take
LEMMA ChunksTiling ==
  ASSUME NEW p, p.start \in Nat, p.len \in Nat \ {0}, NEW size \in Nat \ {0}
  PROVE  /\ Chunks(p, size) \in Seq(Part) /\ Tiling(Chunks(p, size), p.start, p.start + p.len)
         /\ Len(Chunks(p, size)) = (p.len + size - 1) \div size
         /\ Len(Chunks(p, size)) \in Nat \ {0}
<1> DEFINE x == p.len + size - 1
           n == x \div size
           M(i) == size * i
           b(i) == IF size <= p.len - (i - 1) * size THEN size ELSE p.len - (i - 1) * size
           g == [i \in 1 .. n |-> [start |-> p.start + (i - 1) * size, len |-> b(i)]]
<1>0. x \in Nat /\ x \in Int /\ x >= size /\ x = p.len + size - 1
  OBVIOUS
<1>1. /\ x \in Nat /\ n \in Nat /\ x % size \in 0 .. size - 1 /\ x = size * n + (x % size)
  <2> HIDE DEF x
  <2> QED
    BY <1>0, DivMod
<1>2. n >= 1
  <2>1. n = 0 => size * n = 0
    OBVIOUS
  <2> HIDE DEF n, x
  <2> QED
    BY <1>0, <1>1, <2>1
<1>3. \A i \in 0 .. n : /\ M(i) \in Nat /\ M(i + 1) = M(i) + size /\ i * size = M(i)
                        /\ i < n => M(i) < p.len
                        /\ i = n => M(i) >= p.len
  <2> TAKE i \in 0 .. n
  <2>0. i \in Nat /\ n \in Nat
    BY <1>1
  <2>1. size * i \in Nat /\ size * (i + 1) = size * i + size /\ i * size = size * i /\ size * n \in Nat
    BY <2>0
  <2> HIDE DEF n, x
  <2>2. ASSUME i < n
        PROVE  size * i < p.len
    <3>1. i + 1 <= n /\ i + 1 \in Int
      BY <2>0, <2>2
    <3>2. size * (i + 1) <= size * n
      BY <2>0, <3>1, TimesMonotonic
    <3> QED
      BY <1>0, <1>1, <2>1, <3>2
  <2>3. ASSUME i = n
        PROVE  size * i >= p.len
    BY <1>0, <1>1, <2>1, <2>3
  <2> QED
    BY <2>1, <2>2, <2>3
<1>4. Chunks(p, size) = g
  <2>1. \A i \in 1 .. n : Min({size, p.len - (i - 1) * size}) = b(i)
    <3> TAKE i \in 1 .. n
    <3>1. p.len - (i - 1) * size \in Int /\ size \in Int
      <4> HIDE DEF n, x, g
      <4>1. i - 1 \in Int /\ size \in Int /\ p.len \in Int
        BY <1>1
      <4>2. (i - 1) * size \in Int
        BY <4>1
      <4> QED
        BY <4>1, <4>2
    <3> QED
      BY <3>1, MinPair
  <2> QED
    BY <2>1 DEF Chunks
<1> HIDE DEF M, n, x
<1>5. \A i \in 1 .. n : /\ g[i].start = p.start + M(i - 1) /\ g[i].start \in Nat
                        /\ g[i].len \in Nat \ {0}
                        /\ g[i] = [start |-> g[i].start, len |-> g[i].len]
                        /\ i + 1 \in 1 .. n => g[i].start + g[i].len = p.start + M(i)
                        /\ i = n => g[i].start + g[i].len = p.start + p.len
  <2> TAKE i \in 1 .. n
  <2> DEFINE j == i - 1
  <2>1. j \in 0 .. n /\ i \in 0 .. n /\ j + 1 = i /\ j < n
    BY <1>1
  <2>2. M(j) \in Nat /\ M(j + 1) = M(j) + size /\ j * size = M(j) /\ M(j) < p.len
    BY <1>3, <2>1
  <2>3. M(i) = M(j) + size /\ M(i) \in Nat /\ (i < n => M(i) < p.len) /\ (i = n => M(i) >= p.len)
    BY <1>3, <2>1, <2>2
  <2>4. b(i) = IF size <= p.len - M(j) THEN size ELSE p.len - M(j)
    BY <2>2
  <2>5. g[i].start = p.start + M(j) /\ g[i].len = b(i) /\ g[i] = [start |-> g[i].start, len |-> g[i].len]
    BY <2>2
  <2> HIDE DEF g, b
  <2>6. b(i) \in Nat \ {0}
    BY <2>2, <2>4
  <2>7. ASSUME i + 1 \in 1 .. n
        PROVE  b(i) = size
    BY <1>1, <2>2, <2>3, <2>4, <2>7
  <2>8. ASSUME i = n
        PROVE  b(i) = p.len - M(j)
    BY <2>2, <2>3, <2>4, <2>8
  <2> QED
    BY <2>2, <2>3, <2>5, <2>6, <2>7, <2>8
<1>6. g \in [1 .. n -> Part]
  BY <1>5 DEF Part
<1> HIDE DEF g
<1>7. g \in Seq(Part) /\ Len(g) = n
  BY <1>1, <1>6, FunSeq
<1>8. Tiling(g, p.start, p.start + p.len)
  <2>0. \A i \in 1 .. n : /\ g[i].start = p.start + M(i - 1)
                          /\ i + 1 \in 1 .. n => g[i].start + g[i].len = p.start + M(i)
    BY <1>5
  <2>1. 1 \in 1 .. n /\ n \in 1 .. n /\ n # 0
    BY <1>1, <1>2
  <2>2. g[1].start = p.start
    <3>1. M(1 - 1) = 0
      BY DEF M
    <3> QED
      BY <2>0, <2>1, <3>1
  <2>3. g[n].start + g[n].len = p.start + p.len
    BY <1>5, <2>1
  <2>4. \A i \in 1 .. n : i + 1 \in 1 .. n => g[i + 1].start = g[i].start + g[i].len
    <3> TAKE i \in 1 .. n
    <3> HAVE i + 1 \in 1 .. n
    <3>1. g[i + 1].start = p.start + M((i + 1) - 1)
      BY <2>0
    <3>2. (i + 1) - 1 = i
      OBVIOUS
    <3> QED
      BY <2>0, <3>1, <3>2
  <2>5. \A i \in 1 .. n : g[i].start \in Nat /\ g[i].len \in Nat \ {0}
    BY <1>5
  <2> QED
    BY <1>7, <2>1, <2>2, <2>3, <2>4, <2>5 DEF Tiling
<1> QED
  BY <1>1, <1>2, <1>4, <1>7, <1>8 DEF n, x

LEMMA SeqRange ==
  ASSUME NEW R, NEW S, NEW s \in Seq(R), \A i \in 1 .. Len(s) : s[i] \in S
  PROVE  s \in Seq(S)
<1>1. s \in [1 .. Len(s) -> S] /\ Len(s) \in Nat
  BY LenProperties
<1> QED
  BY <1>1, FunSeq

\* Each of a sequence of parts is cut into parts itself
LEMMA CutTiling ==
  ASSUME NEW k \in Nat \ {0}, NEW R, NEW parts \in Seq(R), NEW a \in Nat, NEW b \in Nat,
         Tiling(parts, a, b),
         NEW ss, ss = [i \in DOMAIN parts |-> ss[i]],
         \A i \in 1 .. Len(parts) :
           /\ ss[i] \in Seq(SamePart(k))
           /\ Tiling(ss[i], parts[i].start, parts[i].start + parts[i].len)
  PROVE  FlattenSeq(ss) \in Seq(SamePart(k)) /\ Tiling(FlattenSeq(ss), a, b)
<1> DEFINE n == Len(parts)
           S == SamePart(k)
<1>1. n \in Nat /\ DOMAIN parts = 1 .. n
  BY LenProperties
<1>2. ss \in [1 .. n -> Seq(S)]
  BY <1>1
<1> HIDE DEF n, S
<1>3. ss \in Seq(Seq(S)) /\ Len(ss) = n
  BY <1>1, <1>2, FunSeq
<1>4. \A i \in 1 .. Len(ss) : Tiling(ss[i], parts[i].start, parts[i].start + parts[i].len)
  BY <1>3 DEF n
<1>5. FlattenSeq(ss) \in Seq(S) /\ Tiling(FlattenSeq(ss), a, b)
  BY <1>3, <1>4, TilingFlatten DEF n
<1> QED
  BY <1>5 DEF S

LEMMA ChunksSame ==
  ASSUME NEW k \in Nat \ {0}, NEW p \in SamePart(k), NEW size \in Nat \ {0}
  PROVE  /\ Chunks(p, size) \in Seq(SamePart(k))
         /\ Tiling(Chunks(p, size), p.start, p.start + p.len)
<1>1. p.start \in Nat /\ p.len \in Nat \ {0}
  BY DEF SamePart, Part
<1> DEFINE s == Chunks(p, size)
<1>2. s \in Seq(Part) /\ Tiling(s, p.start, p.start + p.len)
  BY <1>1, ChunksTiling
<1> HIDE DEF s
<1>3. p.start + p.len \in Nat
  BY <1>1
<1>4. \A i \in 1 .. Len(s) : p.start <= s[i].start /\ s[i].start + s[i].len <= p.start + p.len
  BY <1>1, <1>2, <1>3, TilingBounds
<1>5. \A i \in 1 .. Len(s) : s[i] \in SamePart(k)
  <2> TAKE i \in 1 .. Len(s)
  <2>1. s[i] \in Part
    BY <1>2, ElementOfSeq
  <2> QED
    BY <1>4, <2>1, WithinSamePart
<1>6. s \in Seq(SamePart(k))
  BY <1>2, <1>5, SeqRange
<1> QED
  BY <1>2, <1>6 DEF s

LEMMA CutChunks ==
  ASSUME NEW k \in Nat \ {0}, NEW parts \in Seq(SamePart(k)), NEW a \in Nat, NEW b \in Nat,
         Tiling(parts, a, b), NEW size \in Nat \ {0}
  PROVE  LET s == Cut(parts, LAMBDA p : Chunks(p, size))
         IN  s \in Seq(SamePart(k)) /\ Tiling(s, a, b)
<1> DEFINE ss == [i \in DOMAIN parts |-> Chunks(parts[i], size)]
<1>1. \A i \in 1 .. Len(parts) : /\ ss[i] = Chunks(parts[i], size)
                                 /\ ss[i] \in Seq(SamePart(k))
                                 /\ Tiling(ss[i], parts[i].start, parts[i].start + parts[i].len)
  <2> TAKE i \in 1 .. Len(parts)
  <2>1. i \in DOMAIN parts /\ parts[i] \in SamePart(k)
    BY ElementOfSeq, LenProperties
  <2>2. ss[i] = Chunks(parts[i], size)
    BY <2>1
  <2> HIDE DEF ss
  <2> QED
    BY <2>1, <2>2, ChunksSame
<1>2. ss = [i \in DOMAIN parts |-> ss[i]]
  OBVIOUS
<1>3. Cut(parts, LAMBDA p : Chunks(p, size)) = FlattenSeq(ss)
  BY DEF Cut
<1> HIDE DEF ss
<1>4. FlattenSeq(ss) \in Seq(SamePart(k)) /\ Tiling(FlattenSeq(ss), a, b)
  BY <1>1, <1>2, CutTiling
<1> QED
  BY <1>3, <1>4

LEMMA CutPages ==
  ASSUME NEW parts \in Seq(Part), NEW a \in Nat, NEW b \in Nat, Tiling(parts, a, b)
  PROVE  Cut(parts, Pages) \in Seq(SamePart(Page)) /\ Tiling(Cut(parts, Pages), a, b)
<1>0. Page \in Nat \ {0}
  BY SpiAssumption
<1> DEFINE ss == [i \in DOMAIN parts |-> Pages(parts[i])]
<1>1. \A i \in 1 .. Len(parts) : /\ ss[i] = Pages(parts[i])
                                 /\ ss[i] \in Seq(SamePart(Page))
                                 /\ Tiling(ss[i], parts[i].start, parts[i].start + parts[i].len)
  <2> TAKE i \in 1 .. Len(parts)
  <2>1. i \in DOMAIN parts /\ parts[i].start \in Nat /\ parts[i].len \in Nat \ {0}
    <3>1. parts[i] \in Part
      BY ElementOfSeq
    <3> QED
      BY <3>1, LenProperties DEF Part
  <2>2. ss[i] = Pages(parts[i])
    BY <2>1
  <2> HIDE DEF ss
  <2> QED
    BY <2>1, <2>2, PagesTiling
<1>2. ss = [i \in DOMAIN parts |-> ss[i]]
  OBVIOUS
<1>3. Cut(parts, Pages) = FlattenSeq(ss)
  BY DEF Cut
<1> HIDE DEF ss
<1>4. FlattenSeq(ss) \in Seq(SamePart(Page)) /\ Tiling(FlattenSeq(ss), a, b)
  BY <1>0, <1>1, <1>2, CutTiling
<1> QED
  BY <1>3, <1>4

-----------------------------------------------------------------------------
(* The pieces of an access                                                 *)

PieceOps == Ops \cup {"cont", "wrdi"}
PieceRec == [op : PieceOps, start : Nat, len : Nat]
Wrdi == [op |-> "wrdi", start |-> 0, len |-> 0]

\* What the i-th of the last n pieces of an access is like
Proper(r, p, i, n) ==
  /\ r.op = "read" => p.op = "read" /\ p.start \div Bank = (p.start + p.len - 1) \div Bank
  /\ r.op = "write" => p.op = "write" /\ p.start \div Page = (p.start + p.len - 1) \div Page
  /\ r.op = "aai" => IF i = n THEN p = Wrdi
                     ELSE /\ p.op = (IF p.start = r.start THEN "aai" ELSE "cont") /\ p.len = 2
                          /\ p.start = r.start + r.len - 2 * (n - i) /\ p.start >= r.start
  /\ r.op \notin {"read", "write", "aai"} => p = r
  /\ r.op # "aai" => p.len # 0

LEMMA PieceIs ==
  ASSUME NEW op \in PieceOps, NEW R, NEW parts \in Seq(R),
         \A i \in 1 .. Len(parts) : parts[i].start \in Nat /\ parts[i].len \in Nat
  PROVE  /\ Piece(op, parts) \in Seq(PieceRec) /\ Len(Piece(op, parts)) = Len(parts)
         /\ \A i \in 1 .. Len(parts) :
              Piece(op, parts)[i] = [op |-> op, start |-> parts[i].start, len |-> parts[i].len]
<1> DEFINE n == Len(parts)
           s == [i \in 1 .. n |-> [op |-> op, start |-> parts[i].start, len |-> parts[i].len]]
<1>1. n \in Nat /\ DOMAIN parts = 1 .. n
  BY LenProperties
<1>2. Piece(op, parts) = s
  BY <1>1 DEF Piece
<1>3. s \in [1 .. n -> PieceRec]
  BY DEF PieceRec
<1>4. \A i \in 1 .. n : s[i] = [op |-> op, start |-> parts[i].start, len |-> parts[i].len]
  OBVIOUS
<1> HIDE DEF n, s
<1>5. s \in Seq(PieceRec) /\ Len(s) = n
  BY <1>1, <1>3, FunSeq
<1> QED
  BY <1>2, <1>4, <1>5 DEF n

LEMMA PieceTiling ==
  ASSUME NEW op \in PieceOps, NEW k \in Nat \ {0}, NEW parts \in Seq(SamePart(k)),
         NEW a \in Nat, NEW b \in Nat, Tiling(parts, a, b)
  PROVE  /\ Piece(op, parts) \in Seq(PieceRec) /\ Tiling(Piece(op, parts), a, b)
         /\ \A i \in 1 .. Len(Piece(op, parts)) :
              LET p == Piece(op, parts)[i]
              IN  p.op = op /\ p.len # 0 /\ p.start \div k = (p.start + p.len - 1) \div k
<1> DEFINE s == Piece(op, parts)
           n == Len(parts)
<1>1. /\ \A i \in 1 .. n : parts[i].start \in Nat /\ parts[i].len \in Nat
      /\ \A i \in 1 .. n : i + 1 \in 1 .. n => parts[i + 1].start = parts[i].start + parts[i].len
      /\ n = 0 => a = b
      /\ n # 0 => parts[1].start = a /\ parts[n].start + parts[n].len = b
  BY DEF Tiling
<1>2. /\ s \in Seq(PieceRec) /\ Len(s) = n
      /\ \A i \in 1 .. n : s[i] = [op |-> op, start |-> parts[i].start, len |-> parts[i].len]
  BY <1>1, PieceIs
<1>3. \A i \in 1 .. n : parts[i] \in SamePart(k)
  BY ElementOfSeq
<1>4. n \in Nat
  BY LenProperties
<1> HIDE DEF s, n
<1>5. \A i \in 1 .. n : s[i].op = op /\ s[i].start = parts[i].start /\ s[i].len = parts[i].len
  BY <1>2
<1>6. n # 0 => 1 \in 1 .. n /\ n \in 1 .. n
  BY <1>4
<1>7. Tiling(s, a, b)
  BY <1>1, <1>2, <1>5, <1>6 DEF Tiling
<1>8. \A i \in 1 .. n : s[i].len # 0 /\ s[i].start \div k = (s[i].start + s[i].len - 1) \div k
  BY <1>3, <1>5 DEF SamePart, Part
<1> QED
  BY <1>2, <1>5, <1>7, <1>8 DEF s

LEMMA RequestType ==
  ASSUME NEW r \in Requests
  PROVE  /\ r \in [op : Ops, start : Nat, len : Nat \ {0}]
         /\ r.op \in {"erase", "erase4"} => r.start % r.len = 0
         /\ r.op = "aai" => r.start % 2 = 0 /\ r.len % 2 = 0
BY SpiAssumption

LEMMA DeviceType ==
  ASSUME NEW d \in Devices
  PROVE  /\ d \in Device
         /\ d.size % Bank = 0 \/ Bank % d.size = 0
         /\ d.size <= 128 * Bank /\ (256 * Bank) % d.size = 0
         /\ d.native # {} \/ d.ear => d.enter # "none"
BY SpiAssumption

\* default_spi_write_aai()
LEMMA WordsProper ==
  ASSUME NEW r \in Requests, r.op = "aai"
  PROVE  /\ Words(r) \in Seq(PieceRec) /\ Len(Words(r)) > 1 /\ Words(r)[1].start = r.start
         /\ \A i \in 1 .. Len(Words(r)) : Proper(r, Words(r)[i], i, Len(Words(r)))
<1> DEFINE k == r.len \div 2
           c == Chunks(r, 2)
           t == Tail(c)
           u == Piece("aai", <<[start |-> r.start, len |-> 2]>>)
           v == Piece("cont", t)
           w == Piece("wrdi", <<[start |-> 0, len |-> 0]>>)
<1>1. r.start \in Nat /\ r.len \in Nat \ {0} /\ r.len % 2 = 0
  BY RequestType
<1>2. k \in Nat \ {0} /\ r.len = 2 * k /\ (r.len + 2 - 1) \div 2 = k
  BY <1>1
<1>3. /\ c \in Seq(Part) /\ Len(c) = k /\ Tiling(c, r.start, r.start + r.len)
  <2>1. 2 \in Nat \ {0}
    OBVIOUS
  <2>2. /\ Chunks(r, 2) \in Seq(Part) /\ Tiling(Chunks(r, 2), r.start, r.start + r.len)
        /\ Len(Chunks(r, 2)) = (r.len + 2 - 1) \div 2
    BY <1>1, <2>1, ChunksTiling
  <2> QED
    BY <1>2, <2>2
<1>4. \A i \in 1 .. k : c[i].start = r.start + 2 * (i - 1) /\ c[i].len = 2
  <2> TAKE i \in 1 .. k
  <2>1. i \in 1 .. ((r.len + 2 - 1) \div 2)
    BY <1>2
  <2>2. c[i] = [start |-> r.start + (i - 1) * 2, len |-> Min({2, r.len - (i - 1) * 2})]
    BY <2>1 DEF Chunks
  <2>3. r.len - (i - 1) * 2 \in Int /\ 2 \in Int /\ 2 <= r.len - (i - 1) * 2
    <3> HIDE DEF k
    <3> QED
      BY <1>2
  <2>4. Min({2, r.len - (i - 1) * 2}) = 2
    BY <2>3, MinPair
  <2> HIDE DEF c
  <2> QED
    BY <2>2, <2>4
<1> HIDE DEF k, c
<1>5. t \in Seq(Part) /\ Len(t) = k - 1 /\ \A i \in 1 .. k - 1 : t[i] = c[i + 1]
  BY <1>2, <1>3, HeadTailProperties, EmptySeq
<1>6. \A i \in 1 .. k - 1 : t[i].start = r.start + 2 * i /\ t[i].len = 2
  <2> TAKE i \in 1 .. k - 1
  <2>1. i + 1 \in 1 .. k
    BY <1>2
  <2> QED
    BY <1>4, <1>5, <2>1
<1> HIDE DEF t
<1>7. u = <<[op |-> "aai", start |-> r.start, len |-> 2]>>
  BY DEF Piece
<1>8. w = <<Wrdi>>
  BY DEF Piece, Wrdi
<1>9. /\ v \in Seq(PieceRec) /\ Len(v) = k - 1
      /\ \A i \in 1 .. k - 1 : v[i] = [op |-> "cont", start |-> t[i].start, len |-> t[i].len]
  <2>1. \A i \in 1 .. Len(t) : t[i].start \in Nat /\ t[i].len \in Nat
    BY <1>1, <1>5, <1>6
  <2>2. "cont" \in PieceOps
    BY DEF PieceOps
  <2> QED
    BY <1>5, <2>1, <2>2, PieceIs
<1>10. u \in Seq(PieceRec) /\ w \in Seq(PieceRec) /\ Len(u) = 1 /\ Len(w) = 1
       /\ u[1] = [op |-> "aai", start |-> r.start, len |-> 2] /\ w[1] = Wrdi
  <2>1. [op |-> "aai", start |-> r.start, len |-> 2] \in PieceRec /\ Wrdi \in PieceRec
    BY <1>1 DEF PieceRec, PieceOps, Ops, Wrdi
  <2> HIDE DEF u, w
  <2> QED
    BY <1>7, <1>8, <2>1
<1>11. Words(r) = u \o v \o w
  BY DEF Words, t, c
<1> HIDE DEF u, v, w
<1>12. /\ u \o v \in Seq(PieceRec) /\ Len(u \o v) = k /\ (u \o v)[1] = u[1]
       /\ \A i \in 1 .. k - 1 : (u \o v)[1 + i] = v[i]
  <2>1. /\ u \o v \in Seq(PieceRec) /\ Len(u \o v) = Len(u) + Len(v)
        /\ \A i \in 1 .. Len(u) : (u \o v)[i] = u[i]
        /\ \A i \in 1 .. Len(v) : (u \o v)[Len(u) + i] = v[i]
    BY <1>9, <1>10, ConcatElements
  <2>2. Len(u) + Len(v) = k /\ 1 \in 1 .. Len(u)
    BY <1>2, <1>9, <1>10
  <2> QED
    BY <1>9, <1>10, <2>1, <2>2
<1>13. /\ Words(r) \in Seq(PieceRec) /\ Len(Words(r)) = k + 1
       /\ \A i \in 1 .. k : Words(r)[i] = (u \o v)[i]
       /\ Words(r)[k + 1] = w[1]
  <2> DEFINE x == u \o v
  <2>1. x \in Seq(PieceRec) /\ Len(x) = k
    BY <1>12
  <2> HIDE DEF x
  <2>2. /\ x \o w \in Seq(PieceRec) /\ Len(x \o w) = Len(x) + Len(w)
        /\ \A i \in 1 .. Len(x) : (x \o w)[i] = x[i]
        /\ \A i \in 1 .. Len(w) : (x \o w)[Len(x) + i] = w[i]
    <3>1. x \in Seq(PieceRec) /\ w \in Seq(PieceRec)
      BY <1>10, <2>1
    <3> QED
      BY <3>1, ConcatElements
  <2>3. Words(r) = x \o w
    BY <1>11 DEF x
  <2>4. 1 \in 1 .. Len(w)
    BY <1>10
  <2> QED
    BY <1>10, <2>1, <2>2, <2>3, <2>4 DEF x
<1>14. Words(r)[1] = [op |-> "aai", start |-> r.start, len |-> 2]
  BY <1>2, <1>10, <1>12, <1>13
<1>15. \A i \in 1 .. k + 1 : Proper(r, Words(r)[i], i, k + 1)
  <2> TAKE i \in 1 .. k + 1
  <2>1. CASE i = 1
    BY <1>1, <1>2, <1>14, <2>1 DEF Proper
  <2>2. CASE i = k + 1
    BY <1>2, <1>10, <1>13, <2>2 DEF Proper
  <2>3. CASE i \in 2 .. k
    <3>1. i - 1 \in 1 .. k - 1 /\ 1 + (i - 1) = i /\ i \in 1 .. k
      BY <1>2, <2>3
    <3>2. Words(r)[i] = v[i - 1]
      BY <1>12, <1>13, <3>1
    <3>3. Words(r)[i] = [op |-> "cont", start |-> r.start + 2 * (i - 1), len |-> 2]
      BY <1>6, <1>9, <3>1, <3>2
    <3>4. /\ r.start + 2 * (i - 1) = r.start + r.len - 2 * ((k + 1) - i)
          /\ r.start + 2 * (i - 1) # r.start /\ r.start + 2 * (i - 1) >= r.start
      BY <1>1, <1>2, <2>3
    <3>5. i # k + 1
      BY <1>2, <2>3
    <3> QED
      BY <3>3, <3>4, <3>5 DEF Proper
  <2> QED
    BY <1>2, <2>1, <2>2, <2>3
<1> QED
  BY <1>2, <1>13, <1>14, <1>15

LEMMA PiecesProper ==
  ASSUME NEW r \in Requests, dev \in Devices
  PROVE  /\ Pieces(r) \in Seq(PieceRec) /\ Pieces(r) # <<>>
         /\ \A i \in 1 .. Len(Pieces(r)) : Proper(r, Pieces(r)[i], i, Len(Pieces(r)))
         /\ r.op # "aai" => Tiling(Pieces(r), r.start, r.start + r.len)
         /\ r.op = "aai" => Len(Pieces(r)) > 1 /\ Pieces(r)[1].start = r.start
<1>0. r.start \in Nat /\ r.len \in Nat \ {0} /\ r.start + r.len \in Nat /\ r.op \in Ops
      /\ r \in PieceRec
  BY RequestType DEF PieceRec, PieceOps
<1>a. dev.maxRead \in Nat \ {0} /\ dev.maxWrite \in Nat \ {0} /\ Bank \in Nat \ {0} /\ Page \in Nat \ {0}
  BY DeviceType, SpiAssumption DEF Device
<1> DEFINE banks == Banks(r.start, r.len)
<1>b. banks \in Seq(SamePart(Bank)) /\ Tiling(banks, r.start, r.start + r.len)
  BY <1>0, BanksTiling
<1> HIDE DEF banks
<1>c. ASSUME NEW s \in Seq(PieceRec), Tiling(s, r.start, r.start + r.len)
      PROVE  s # <<>>
  BY <1>0, <1>c, EmptySeq DEF Tiling
<1>1. CASE r.op = "read"
  <2> DEFINE parts == Cut(banks, LAMBDA p : Chunks(p, dev.maxRead))
  <2>1. parts \in Seq(SamePart(Bank)) /\ Tiling(parts, r.start, r.start + r.len)
    BY <1>0, <1>a, <1>b, CutChunks
  <2>2. Pieces(r) = Piece("read", parts)
    BY <1>1 DEF Pieces, banks
  <2> HIDE DEF parts
  <2>3. "read" \in PieceOps
    BY DEF PieceOps, Ops
  <2>4. /\ Pieces(r) \in Seq(PieceRec) /\ Tiling(Pieces(r), r.start, r.start + r.len)
        /\ \A i \in 1 .. Len(Pieces(r)) :
             /\ Pieces(r)[i].op = "read" /\ Pieces(r)[i].len # 0
             /\ Pieces(r)[i].start \div Bank = (Pieces(r)[i].start + Pieces(r)[i].len - 1) \div Bank
    BY <1>0, <1>a, <2>1, <2>2, <2>3, PieceTiling
  <2> QED
    BY <1>1, <1>c, <2>4 DEF Proper
<1>2. CASE r.op = "write"
  <2> DEFINE pages == Cut(banks, Pages)
             parts == Cut(pages, LAMBDA p : Chunks(p, dev.maxWrite))
  <2>1. pages \in Seq(SamePart(Page)) /\ Tiling(pages, r.start, r.start + r.len)
    <3>1. banks \in Seq(Part)
      BY <1>b, SeqMonotonic DEF SamePart
    <3> QED
      BY <1>0, <1>b, <3>1, CutPages
  <2> HIDE DEF pages
  <2>2. parts \in Seq(SamePart(Page)) /\ Tiling(parts, r.start, r.start + r.len)
    BY <1>0, <1>a, <2>1, CutChunks
  <2>3. Pieces(r) = Piece("write", parts)
    BY <1>2 DEF Pieces, banks, pages
  <2> HIDE DEF parts
  <2>4. "write" \in PieceOps
    BY DEF PieceOps, Ops
  <2>5. /\ Pieces(r) \in Seq(PieceRec) /\ Tiling(Pieces(r), r.start, r.start + r.len)
        /\ \A i \in 1 .. Len(Pieces(r)) :
             /\ Pieces(r)[i].op = "write" /\ Pieces(r)[i].len # 0
             /\ Pieces(r)[i].start \div Page = (Pieces(r)[i].start + Pieces(r)[i].len - 1) \div Page
    BY <1>0, <1>a, <2>2, <2>3, <2>4, PieceTiling
  <2> QED
    BY <1>2, <1>c, <2>5 DEF Proper
<1>3. CASE r.op = "aai"
  <2>1. Pieces(r) = Words(r)
    BY <1>3 DEF Pieces
  <2>2. /\ Words(r) \in Seq(PieceRec) /\ Len(Words(r)) > 1 /\ Words(r)[1].start = r.start
        /\ \A i \in 1 .. Len(Words(r)) : Proper(r, Words(r)[i], i, Len(Words(r)))
    BY <1>3, WordsProper
  <2>3. Words(r) # <<>>
    BY <2>2, EmptySeq
  <2> QED
    BY <1>3, <2>1, <2>2, <2>3
<1>4. CASE r.op \notin {"read", "write", "aai"}
  <2>1. Pieces(r) = <<r>>
    BY <1>4 DEF Pieces
  <2>2. Len(<<r>>) = 1 /\ <<r>>[1] = r /\ <<r>> \in Seq(PieceRec) /\ <<r>> # <<>>
    BY <1>0
  <2>3. Tiling(<<r>>, r.start, r.start + r.len)
    BY <1>0, <2>2 DEF Tiling
  <2>4. \A i \in 1 .. 1 : Proper(r, <<r>>[i], i, 1)
    BY <1>0, <1>4, <2>2 DEF Proper
  <2> QED
    BY <1>4, <2>1, <2>2, <2>3, <2>4
<1> QED
  BY <1>1, <1>2, <1>3, <1>4

-----------------------------------------------------------------------------
(* Where the bytes go                                                      *)

\* A remainder and a bit more
LEMMA ModAdd ==
  ASSUME NEW x \in Int, NEW i \in Int, NEW m \in Nat \ {0}
  PROVE  (x % m) + i \in Int /\ ((x % m) + i) % m = (x + i) % m
<1> DEFINE d == x \div m
           r == x % m
<1>1. d \in Int /\ r \in 0 .. m - 1 /\ x = m * d + r
  BY DivMod
<1> HIDE DEF d, r
<1>2. PICK k \in Int : k = 0 - d
  BY <1>1
<1>3. m * k = 0 - (m * d) /\ m * d \in Int
  BY <1>1, <1>2
<1>4. r + i = (x + i) + m * k /\ r + i \in Int /\ x + i \in Int
  BY <1>1, <1>3
<1> DEFINE y == x + i
<1>5. y \in Int
  BY <1>4
<1> HIDE DEF y
<1>6. (y + m * k) % m = y % m
  BY <1>5, ModPlus
<1> QED
  BY <1>4, <1>6 DEF y, r

LEMMA ModLess ==
  ASSUME NEW a \in Int, NEW m \in Nat \ {0}, NEW size \in Int, size % m = 0
  PROVE  (a - size) % m = a % m
<1>1. PICK k \in Int : size = m * k
  <2> DEFINE q == size \div m
  <2>1. q \in Int /\ size = m * q + (size % m)
    BY DivMod
  <2> HIDE DEF q
  <2>2. size = m * q
    BY <2>1
  <2> QED
    BY <2>1, <2>2
<1>2. PICK j \in Int : j = 0 - k
  OBVIOUS
<1>3. m * j = 0 - (m * k) /\ m * k \in Int
  BY <1>2
<1>4. (a + m * j) % m = a % m
  BY ModPlus
<1>5. a + m * j = a - size
  BY <1>1, <1>3
<1> QED
  BY <1>4, <1>5

\* The address of cell a as the master gives it, i less: perhaps as if the chip were at the end
\* of what the master reaches
SeenAs(x, i, a, size) == x + i = a \/ x + i = a - size

\* What is left of it in m addresses, and i more
Wrapped(x, i, a, size, m) ==
  /\ m % size = 0 => ((x % m) + i) % size = a
  /\ m % size = 0 => (((x % m) + i) % m) % size = a
  /\ size % m = 0 => ((x % m) + i) % m = a % m

LEMMA Wraps ==
  ASSUME NEW size \in Nat \ {0}, NEW m \in Nat \ {0}, NEW a \in 0 .. size - 1, NEW x \in Int, NEW i \in Int,
         SeenAs(x, i, a, size)
  PROVE  Wrapped(x, i, a, size, m)
<1> DEFINE y == x + i
           z == (x % m) + i
<1>1. y \in Int /\ (y = a \/ y = a - size) /\ a \in Int /\ size \in Int
  BY DEF SeenAs
<1>2. z \in Int /\ z % m = y % m
  BY ModAdd
<1> HIDE DEF y, z
<1>3. size % size = 0
  <2>1. size * 1 <= size /\ size < size * 1 + size /\ size - size * 1 = 0 /\ 1 \in Int
    OBVIOUS
  <2>2. size % size = size - size * 1
    BY <1>1, <2>1, DivUnique
  <2> QED
    BY <2>1, <2>2
<1>4. y % size = a
  <2>1. a % size = a
    BY ModSmall
  <2>2. (a - size) % size = a % size
    BY <1>1, <1>3, ModLess
  <2> QED
    BY <1>1, <2>1, <2>2
<1>5. m % size = 0 => z % size = a /\ (z % m) % size = a
  <2> SUFFICES ASSUME m % size = 0
               PROVE  z % size = a /\ (z % m) % size = a
    OBVIOUS
  <2>1. (z % m) % size = z % size
    BY <1>2, ModMod
  <2>2. (y % m) % size = y % size
    BY <1>1, ModMod
  <2> QED
    BY <1>2, <1>4, <2>1, <2>2
<1>6. size % m = 0 => z % m = a % m
  <2> SUFFICES ASSUME size % m = 0
               PROVE  y % m = a % m
    BY <1>2
  <2>1. (a - size) % m = a % m
    BY <1>1, ModLess
  <2> QED
    BY <1>1, <2>1
<1> QED
  BY <1>5, <1>6 DEF z, Wrapped

LEMMA InFirstBank ==
  ASSUME NEW size \in Nat \ {0}, NEW m \in Nat \ {0}, m % size = 0, NEW a \in 0 .. size - 1
  PROVE  a \div m = 0
<1> DEFINE q == m \div size
<1>1. m = size * q + (m % size) /\ q \in Nat
  BY DivMod
<1> HIDE DEF q
<1>2. m = size * q
  BY <1>1
<1>3. q # 0
  BY <1>2
<1>4. size * 1 <= size * q
  BY <1>1, <1>3, TimesMonotonic
<1>5. a \in 0 .. m - 1
  BY <1>2, <1>4
<1> QED
  BY <1>5, ModSmall

\* The same for the two address lengths, in four bytes and in three
Divides(m, n) == n % m = 0
InFour(x, k, i, size) == ((x % k) + i) % size
InThree(b, x, m, i, size) == (b * m + (((x % m) + i) % m)) % size

LEMMA ReachesFour ==
  ASSUME NEW size \in Nat \ {0}, NEW k \in Nat \ {0},
         NEW a \in 0 .. size - 1, NEW x \in Int, NEW i \in Int, SeenAs(x, i, a, size)
  PROVE  Divides(size, k) => InFour(x, k, i, size) = a
<1>1. Wrapped(x, i, a, size, k)
  BY Wraps
<1> QED
  BY <1>1 DEF Wrapped, Divides, InFour

LEMMA ReachesThree ==
  ASSUME NEW size \in Nat \ {0}, NEW m \in Nat \ {0},
         NEW a \in 0 .. size - 1, NEW x \in Int, NEW i \in Int, SeenAs(x, i, a, size)
  PROVE  Divides(size, m) \/ Divides(m, size) => InThree(a \div m, x, m, i, size) = a
<1>1. /\ m % size = 0 => ((x % m) + i) % size = a
      /\ m % size = 0 => (((x % m) + i) % m) % size = a
      /\ size % m = 0 => ((x % m) + i) % m = a % m
  <2>1. Wrapped(x, i, a, size, m)
    BY Wraps
  <2> QED
    BY <2>1 DEF Wrapped
<1>2. ((x % m) + i) % m \in Int
  <2>1. (x % m) + i \in Int
    BY ModAdd
  <2> QED
    BY <2>1, DivMod
<1>3. a % m \in 0 .. m - 1 /\ a = m * (a \div m) + (a % m) /\ a \div m \in Int
  <2>1. a \in Int
    OBVIOUS
  <2> QED
    BY <2>1, DivMod
<1>4. m % size = 0 => a \div m = 0
  BY InFirstBank
<1> PICK b \in Int : b = a \div m
  BY <1>3
<1> PICK y \in Int : y = ((x % m) + i) % m
  BY <1>2
<1>5. m * b = b * m /\ b * m \in Int
  OBVIOUS
<1>6. InThree(b, x, m, i, size) = (b * m + y) % size
  BY DEF InThree
<1>7. CASE size % m = 0
  <2>1. b * m + y = a
    <3>1. y = a % m
      BY <1>1, <1>7
    <3> QED
      BY <1>3, <1>5, <3>1
  <2>2. a % size = a
    BY ModSmall
  <2> QED
    BY <1>6, <2>1, <2>2
<1>8. CASE m % size = 0
  <2>1. b = 0
    BY <1>4, <1>8
  <2>2. b * m + y = y
    BY <2>1
  <2>3. y % size = a
    BY <1>1, <1>8
  <2> QED
    BY <1>6, <2>2, <2>3
<1> QED
  BY <1>7, <1>8 DEF Divides

\* A chip that sees the address in four bytes, or in three and the right bank, takes the i-th
\* byte from, or to, the i-th cell of the piece, also at the top of the address space
LEMMA Reaches ==
  ASSUME dev \in Devices, NEW n, NEW c, NEW p \in PieceRec, NEW i \in Nat
  PROVE  /\ p.start + i < dev.size
         /\ c.alen = AddressLength(p) /\ c.addr = Encoded(p)
         /\ c.alen = 3 => /\ (IF dev.ear THEN n.ear ELSE 0) = BankOf(p)
                          /\ (p.start + i) \div Bank = p.start \div Bank
         => Where(n, c, i) = p.start + i
<1>0. /\ dev.size \in Nat \ {0} /\ Bank \in Nat \ {0} /\ (dev.size % Bank = 0 \/ Bank % dev.size = 0)
      /\ 256 * Bank \in Nat \ {0} /\ (256 * Bank) % dev.size = 0 /\ p.start \in Nat
  BY DeviceType, SpiAssumption DEF Device, PieceRec
<1> PICK size \in Nat \ {0} : size = dev.size
  BY <1>0
<1> PICK k \in Nat \ {0} : k = 256 * Bank
  BY <1>0
<1> PICK a \in Nat : a = p.start + i
  BY <1>0
<1> PICK x \in Int : x = IF dev.top THEN p.start - dev.size ELSE p.start
  BY <1>0
<1>1. Bank \in Nat \ {0} /\ i \in Int
  BY <1>0
<1>2. SeenAs(x, i, a, size)
  BY <1>0 DEF SeenAs
<1>a. Divides(Bank, size) \/ Divides(size, Bank)
  BY <1>0 DEF Divides
<1>b. Divides(size, k)
  BY <1>0 DEF Divides
<1>3. ASSUME a < size
      PROVE  InFour(x, k, i, size) = a /\ InThree(a \div Bank, x, Bank, i, size) = a
  <2>1. a \in 0 .. size - 1
    BY <1>3
  <2>2. InFour(x, k, i, size) = a
    BY ZenonT(30), <1>b, <1>1, <1>2, <2>1, ReachesFour
  <2>3. InThree(a \div Bank, x, Bank, i, size) = a
    BY <1>a, <1>1, <1>2, <2>1, ReachesThree
  <2> QED
    BY <2>2, <2>3
<1>4. SUFFICES ASSUME a < size, c.alen = AddressLength(p), c.addr = Encoded(p),
                      c.alen = 3 => /\ (IF dev.ear THEN n.ear ELSE 0) = BankOf(p)
                                    /\ a \div Bank = p.start \div Bank
               PROVE  Where(n, c, i) = a
  OBVIOUS
<1>5. CASE c.alen = 4
  <2>1. c.addr = x % k /\ Where(n, c, i) = (c.addr + i) % size
    BY <1>4, <1>5 DEF Encoded, Where
  <2> QED
    BY <1>3, <1>4, <2>1 DEF InFour
<1>6. CASE c.alen = 3
  <2>1. c.addr = x % Bank
    BY <1>4, <1>6 DEF Encoded
  <2>2. Where(n, c, i) = ((IF dev.ear THEN n.ear * Bank ELSE 0) + ((c.addr + i) % Bank)) % size
    BY <1>6 DEF Where
  <2>3. (IF dev.ear THEN n.ear * Bank ELSE 0) = (a \div Bank) * Bank
    <3>1. (IF dev.ear THEN n.ear ELSE 0) = a \div Bank
      BY <1>4, <1>6 DEF BankOf
    <3>2. 0 * Bank = 0
      BY <1>1
    <3> QED
      BY <3>1, <3>2
  <2> QED
    BY <1>3, <1>4, <2>1, <2>2, <2>3 DEF InThree
<1>7. c.alen \in {3, 4}
  BY <1>4 DEF AddressLength
<1> QED
  BY <1>5, <1>6, <1>7

\* Programming stays in the page
LEMMA ReachesPage ==
  ASSUME NEW n, NEW c, NEW a \in Nat, NEW i \in Nat, Where(n, c, 0) = a,
         (a + i) \div Page = a \div Page
  PROVE  WhereInPage(n, c, i) = a + i
<1>1. Page \in Nat \ {0} /\ a \in Int /\ a + i \in Int
  BY SpiAssumption
<1>2. a % Page \in Int /\ a = Page * (a \div Page) + (a % Page) /\ a \div Page \in Int
  BY <1>1, DivMod
<1>3. (a + i) % Page \in Int /\ a + i = Page * ((a + i) \div Page) + ((a + i) % Page)
  BY <1>1, DivMod
<1> DEFINE d == a \div Page
           r == a % Page
           s == (a + i) % Page
<1>4. WhereInPage(n, c, i) = (a - r) + s
  BY DEF WhereInPage
<1>5. r \in Int /\ s \in Int /\ d \in Int /\ a = Page * d + r /\ a + i = Page * d + s
  BY <1>2, <1>3
<1> HIDE DEF d, r, s
<1>6. Page * d \in Int
  BY <1>1, <1>5
<1> QED
  BY <1>1, <1>4, <1>5, <1>6

\* A cell on the way between two cells of a block
LEMMA BetweenSame ==
  ASSUME NEW k \in Nat \ {0}, NEW a \in Int, NEW b \in Int, NEW x \in Int,
         a <= x, x <= b, a \div k = b \div k
  PROVE  x \div k = a \div k
<1>1. a \div k <= x \div k /\ x \div k <= b \div k
  BY DivMonotonic
<1>2. a \div k \in Int /\ b \div k \in Int /\ x \div k \in Int
  BY DivMod
<1> QED
  BY <1>1, <1>2

\* Every address is one of the chip's
LEMMA WhereInChip ==
  ASSUME dev \in Devices, NEW n, NEW c, NEW i \in Int, c.addr \in Int, n.ear \in Int
  PROVE  Where(n, c, i) \in Cells
<1>1. dev.size \in Nat \ {0} /\ Bank \in Nat \ {0}
  BY DeviceType, SpiAssumption DEF Device
<1>2. ASSUME NEW x \in Int
      PROVE  x % dev.size \in Cells
  BY <1>1, <1>2, DivMod DEF Cells
<1>3. c.addr + i \in Int
  OBVIOUS
<1>4. (IF dev.ear THEN n.ear * Bank ELSE 0) + ((c.addr + i) % Bank) \in Int
  <2>1. (c.addr + i) % Bank \in Int
    BY SMTT(30), <1>1, <1>3, DivMod
  <2>2. n.ear * Bank \in Int
    BY <1>1
  <2> QED
    BY <2>1, <2>2
<1> QED
  BY <1>2, <1>3, <1>4 DEF Where

-----------------------------------------------------------------------------
(* The inductive invariant                                                 *)

Content == (Nat \X Nat) \cup {Blank}
Nor ==
  [cells : [Cells -> Content], fourba : BOOLEAN, ear : Nat, qe : BOOLEAN, qpi : BOOLEAN,
   wel : BOOLEAN, busy : BOOLEAN, aai : Cells \cup {NoAai}, garbled : BOOLEAN]
ReadOps == [io : IoModes, native : BOOLEAN]
FastOps == {<<>>} \cup {<<op>> : op \in ReadOps}
Host ==
  [fourba : BOOLEAN, high : -1 .. Bit7, qpi : BOOLEAN, vqe : BOOLEAN, quad : BOOLEAN,
   fast : FastOps]
CommandOps ==
  {"wren", "wrdi", "enter", "exit", "qpi", "unqpi", "rdqe", "wrqe", "ear", "program", "erase",
   "wipe", "aai", "cont", "read"}
Commands ==
  [op : CommandOps, io : IoModes, alen : {0, 3, 4}, native : BOOLEAN, addr : Int, len : Nat,
   data : Seq(Content), value : Nat]
PieceIn == {p \in PieceRec : p.start < dev.size /\ p.start + p.len <= dev.size}

Types ==
  /\ dev \in Devices /\ nor \in Nor /\ host \in Host /\ pc \in PCs
  /\ res \in 0 .. 1 /\ reg \in BOOLEAN /\ ret \in {0, 1, 4}
  /\ call \in Requests \cup {NoCall} /\ todo \in Seq(PieceIn) /\ got \in Seq(Content)
  /\ faults \in Nat /\ calls \in Nat /\ found \in BOOLEAN /\ astray \in BOOLEAN
  /\ before \in [Cells -> Content]

Running ==
  {"enter4ba", "qeread", "qecheck", "qewrite", "enterqpi", "leaveqpi", "ear", "data",
   "finishqpi", "finishqe", "finished"}
Accessing == {"piece", "ear", "data", "poll"}
Steady == {"ready"} \cup Accessing

\* The command that is to be carried out, and whether it needs the write enable
Enters ==
  IF dev.enter = "ear7" THEN [Single("ear") EXCEPT !.value = IF dev.master4ba THEN Bit7 ELSE 0]
  ELSE Single(IF dev.master4ba THEN "enter" ELSE "exit")
Carries(p) ==
  CASE p.op = "cont" -> [Plain("cont") EXCEPT !.data = Data(p)]
    [] p.op = "wrdi" -> Plain("wrdi")
    [] p.op = "wipe" -> Plain("wipe")
    [] OTHER         -> WithAddress(p)
Last1 ==
  CASE pc = "enter4ba"                        -> Enters
    [] pc \in {"qeread", "qecheck", "finishqe"} -> Plain("rdqe")
    [] pc = "qewrite"                         -> Value("wrqe", 1)
    [] pc = "finished"                        -> Value("wrqe", 0)
    [] pc = "enterqpi"                        -> Plain("qpi")
    [] pc \in {"leaveqpi", "finishqpi"}       -> Plain("unqpi")
    [] pc = "ear"                             -> Value("ear", BankOf(Head(todo)))
    [] pc = "data"                            -> Carries(Head(todo))
Enabled ==
  \/ pc \in {"qewrite", "finished", "ear"}
  \/ pc = "enter4ba" /\ dev.enter # "plain"
  \/ pc = "data" /\ Head(todo).op \notin {"read", "cont", "wrdi"}
Enable == IF pc = "enter4ba" THEN Single("wren") ELSE Wren

\* The commands that are left belong to the place where the program is
Ordered ==
  /\ pc \notin Running => cmds = <<>>
  /\ pc \in Running => \/ cmds = <<>>
                       \/ cmds = <<Last1>>
                       \/ Enabled /\ cmds = <<Enable, Last1>>
  /\ pc \in {"ear", "data", "poll"} => todo # <<>>
  /\ pc \notin Accessing => todo = <<>>

\* What the program has found out and decided
Decided ==
  /\ pc = "poll" => Head(todo).op \notin {"read", "wrdi"}
  /\ pc = "ear" => NeedsBank(Head(todo)) /\ dev.ear
  /\ pc = "data" /\ NeedsBank(Head(todo)) =>
       IF dev.ear THEN host.high = BankOf(Head(todo)) ELSE BankOf(Head(todo)) = 0
  /\ pc \in {"qeread", "qecheck", "qewrite"} => dev.qe /\ Quad
  /\ pc = "enterqpi" => "qpi" \in dev.masterIo
  /\ pc \in {"finishqe", "finished"} => host.vqe
  /\ host.vqe => dev.qe
  /\ dev.enter = "none" => ~host.fourba
  /\ pc = "enter4ba" => dev.enter # "none" /\ ~host.fourba /\ host.high = -1
  /\ pc \in {"leaveqpi", "finishqpi"} => host.qpi
  /\ pc \in {"enter4ba", "quad", "qeread", "qecheck", "qewrite", "enterqpi"} => ~host.qpi /\ host.quad
  /\ host.qpi => Quad /\ host.quad
  /\ pc \in Steady =>
       /\ host.qpi => host.fast # <<>>
       /\ host.fast # <<>> => /\ (Head(host.fast).io = "qpi") = host.qpi
                              /\ Head(host.fast).io \in QuadIo => host.quad /\ Quad

\* What the program knows of the chip, unless the chip went astray
Modes ==
  /\ ~nor.garbled
  /\ nor.fourba => dev.enter # "none"
  /\ pc # "closed" =>
       /\ cmds # <<>> \/ pc \notin {"enterqpi", "leaveqpi", "finishqpi"} => nor.qpi = host.qpi
       /\ cmds = <<>> /\ pc = "enterqpi" => nor.qpi = (res = 0)
       /\ cmds = <<>> /\ pc \in {"leaveqpi", "finishqpi"} => nor.qpi = (res # 0)
       /\ nor.qpi /\ dev.qe /\ ~(pc = "finished" /\ cmds = <<>>) => nor.qe
       /\ pc # "enter4ba" => nor.fourba = host.fourba
       /\ pc = "enter4ba" /\ cmds = <<>> /\ res = 0 =>
            nor.fourba = dev.master4ba /\ (dev.enter = "ear7" => nor.ear = 0)
       /\ ~host.fourba /\ host.high # -1 /\ ~(pc = "ear" /\ cmds = <<>>) => nor.ear = host.high
       /\ pc = "ear" /\ cmds = <<>> =>
            IF res = 0 THEN nor.ear = BankOf(Head(todo)) ELSE host.high # -1 => nor.ear = host.high
       /\ pc \in {"qeread", "qecheck"} /\ cmds = <<>> /\ res = 0 => reg = nor.qe
       /\ pc \in Steady \cup {"enterqpi", "select", "leaveqpi"} /\ host.quad /\ Quad /\ dev.qe => nor.qe

\* When it is busy, or increments addresses by itself, or can be written to
Idling ==
  /\ nor.busy =>
       \/ pc = "poll"
       \/ /\ pc = "data" /\ cmds = <<>> /\ Head(todo).op \notin {"read", "wrdi"}
          /\ Head(todo).op = "cont" => res = 0
  /\ nor.aai # NoAai =>
       /\ pc \in {"piece", "data", "poll"} /\ todo # <<>>
       /\ \/ Head(todo).op = "cont"
          \/ Head(todo).op = "wrdi" /\ ~(pc = "data" /\ cmds = <<>>)
          \/ Head(todo).op = "aai" /\ (pc = "poll" \/ (pc = "data" /\ cmds = <<>>))
  /\ Enabled /\ cmds = <<Last1>> => nor.wel

\* The pieces that are left of the running access
Rest ==
  pc \in Accessing =>
    /\ call \in Requests /\ Possible(call)
    /\ \A i \in 1 .. Len(todo) : Proper(call, todo[i], i, Len(todo))
    /\ ret # 0 => (todo # <<>> => call.op = "aai" /\ Len(todo) = 1)

\* As long as no command failed that the quad-enable bit or QPI mode depends on
Quiet ==
  ~spoilt /\ ~astray =>
    /\ pc \in Delicate /\ cmds = <<>> => res = 0
    /\ pc = "closed" => ~nor.qpi /\ nor.qe = found
    /\ pc \in {"enter4ba", "quad", "qeread"} => nor.qe = found /\ ~host.vqe
    /\ pc = "qewrite" => ~found /\ ~host.vqe /\ nor.qe = (cmds = <<>>)
    /\ pc = "qecheck" => nor.qe /\ ~found /\ ~host.vqe
    /\ pc \in {"enterqpi", "select", "leaveqpi", "finishqpi", "finishqe"} \cup Steady =>
         nor.qe = (found \/ host.vqe) /\ (host.vqe => ~found)
    /\ pc = "finished" => ~found /\ host.vqe /\ (cmds = <<>> => ~nor.qe)
    /\ pc \in {"enter4ba", "finishqe", "finished"} => ~nor.qpi

-----------------------------------------------------------------------------
(* Types of what the operators build                                       *)

LEMMA BankRange ==
  ASSUME dev \in Devices, NEW p \in PieceIn
  PROVE  BankOf(p) \in 0 .. 127
<1>1. dev.size \in Nat /\ dev.size <= 128 * Bank /\ Bank \in Nat \ {0}
  BY DeviceType, SpiAssumption DEF Device
<1>2. p.start \in Nat /\ p.start < dev.size
  BY DEF PieceIn, PieceRec
<1>3. ASSUME NEW x \in Int, NEW z \in Int, x \in Nat, x <= z, z = Bank * 127 + Bank - 1
      PROVE  x \div Bank \in 0 .. 127
  <2>1. z \div Bank = 127
    <3>1. Bank * 127 <= z /\ z < Bank * 127 + Bank /\ 127 \in Int
      BY <1>1, <1>3
    <3> QED
      BY <1>1, <3>1, DivUnique
  <2>2. x \div Bank <= z \div Bank
    BY <1>1, <1>3, DivMonotonic
  <2>3. x \div Bank \in Nat
    BY <1>1, <1>3, DivMod
  <2> QED
    BY <2>1, <2>2, <2>3
<1>4. p.start \in Int /\ Bank * 127 + Bank - 1 \in Int /\ p.start <= Bank * 127 + Bank - 1
  <2>1. 128 * Bank = Bank * 127 + Bank
    BY <1>1
  <2> QED
    BY <1>1, <1>2, <2>1
<1> QED
  BY <1>2, <1>3, <1>4 DEF BankOf

LEMMA DeviceFields ==
  ASSUME dev \in Devices
  PROVE  /\ dev.size \in Nat \ {0} /\ dev.enter \in {"none", "plain", "wren", "ear7"}
         /\ dev.ear \in BOOLEAN /\ dev.qpi \in BOOLEAN /\ dev.qpi4b \in BOOLEAN /\ dev.qe \in BOOLEAN
         /\ dev.ewsr \in BOOLEAN /\ dev.master4ba \in BOOLEAN /\ dev.top \in BOOLEAN
         /\ dev.io \subseteq MultiIo /\ dev.masterIo \subseteq IoModes
         /\ Bank \in Nat \ {0} /\ Page \in Nat \ {0}
BY DeviceType, SpiAssumption DEF Device

LEMMA HostFields ==
  ASSUME host \in Host
  PROVE  /\ host.fourba \in BOOLEAN /\ host.high \in -1 .. Bit7 /\ host.qpi \in BOOLEAN
         /\ host.vqe \in BOOLEAN /\ host.quad \in BOOLEAN /\ host.fast \in FastOps
         /\ host.fast # <<>> => Head(host.fast) \in ReadOps
         /\ Io(host) \in {"single", "qpi"}
<1>1. /\ host.fourba \in BOOLEAN /\ host.high \in -1 .. Bit7 /\ host.qpi \in BOOLEAN
      /\ host.vqe \in BOOLEAN /\ host.quad \in BOOLEAN /\ host.fast \in FastOps
  BY DEF Host
<1>2. host.fast # <<>> => Head(host.fast) \in ReadOps
  BY <1>1 DEF FastOps
<1> QED
  BY <1>1, <1>2 DEF Io

LEMMA PlainType ==
  ASSUME host \in Host, NEW op \in CommandOps
  PROVE  Plain(op) \in Commands /\ Single(op) \in Commands
<1>1. Io(host) \in IoModes /\ "single" \in IoModes
  BY HostFields DEF IoModes
<1>2. <<>> \in Seq(Content) /\ 0 \in {0, 3, 4} /\ 0 \in Int /\ 0 \in Nat /\ FALSE \in BOOLEAN
  OBVIOUS
<1>3. ASSUME NEW io \in IoModes
      PROVE  Simple(op, io) \in Commands
  BY <1>2 DEF Simple, Commands
<1> QED
  BY <1>1, <1>3 DEF Single, Plain

LEMMA DataType ==
  ASSUME NEW p \in PieceRec, calls \in Nat
  PROVE  Data(p) \in Seq(Content) /\ Len(Data(p)) = p.len
         /\ \A i \in 1 .. p.len : Data(p)[i] = <<p.start + i - 1, calls>>
<1>1. p.len \in Nat /\ p.start \in Nat
  BY DEF PieceRec
<1>2. Data(p) \in [1 .. p.len -> Content]
  BY <1>1 DEF Data, Content
<1>3. Data(p) \in Seq(Content) /\ Len(Data(p)) = p.len
  BY <1>1, <1>2, FunSeq
<1>4. \A i \in 1 .. p.len : Data(p)[i] = <<p.start + i - 1, calls>>
  BY DEF Data
<1> QED
  BY <1>3, <1>4

LEMMA ReadWithType ==
  ASSUME host \in Host, dev \in Devices
  PROVE  ReadWith \in ReadOps
<1>1. host.fast # <<>> => Head(host.fast) \in ReadOps
  BY HostFields
<1>2. ReadOp("single", "read" \in dev.native /\ dev.master4ba) \in ReadOps
  BY DeviceFields DEF ReadOp, ReadOps, IoModes
<1> QED
  BY <1>1, <1>2 DEF ReadWith

LEMMA NativeType ==
  ASSUME host \in Host, dev \in Devices, NEW p
  PROVE  Native(p) \in BOOLEAN
<1>1. ReadWith.native \in BOOLEAN
  BY ReadWithType DEF ReadOps
<1>2. ("write" \in dev.native /\ dev.master4ba) \in BOOLEAN
  BY DeviceFields
<1> QED
  BY <1>1, <1>2 DEF Native

LEMMA EncodedType ==
  ASSUME dev \in Devices, NEW p \in PieceRec
  PROVE  Encoded(p) \in Int
<1>1. Bank \in Nat \ {0} /\ 256 * Bank \in Nat \ {0} /\ dev.size \in Int /\ p.start \in Int
  BY DeviceFields DEF PieceRec
<1>0. ASSUME NEW x \in Int, NEW k \in Nat \ {0}
      PROVE  x % k \in Int
  BY DivMod
<1> PICK x \in Int : x = IF dev.top THEN p.start - dev.size ELSE p.start
  BY <1>1
<1>2. x % Bank \in Int
  BY <1>0, <1>1
<1>3. x % (256 * Bank) \in Int
  BY <1>0, <1>1
<1> QED
  BY <1>2, <1>3 DEF Encoded

LEMMA WithAddressType ==
  ASSUME host \in Host, dev \in Devices, calls \in Nat, NEW p \in PieceRec, HasAddress(p)
  PROVE  WithAddress(p) \in Commands
<1>1. Native(p) \in BOOLEAN /\ AddressLength(p) \in {0, 3, 4} /\ Encoded(p) \in Int /\ p.len \in Nat
  BY NativeType, EncodedType DEF AddressLength, PieceRec
<1>2. (IF p.op = "read" THEN ReadWith.io ELSE Io(host)) \in IoModes
  BY ReadWithType, HostFields DEF ReadOps, IoModes
<1>3. (IF p.op \in {"write", "aai"} THEN Data(p) ELSE <<>>) \in Seq(Content)
  BY DataType
<1>4. (CASE p.op = "write" -> "program" [] p.op = "erase4" -> "erase" [] OTHER -> p.op) \in CommandOps
  BY DEF PieceRec, PieceOps, Ops, CommandOps, HasAddress
<1> QED
  BY <1>1, <1>2, <1>3, <1>4 DEF WithAddress, Commands

LEMMA CarriesType ==
  ASSUME host \in Host, dev \in Devices, calls \in Nat, NEW p \in PieceRec
  PROVE  Carries(p) \in Commands
<1>1. CASE p.op = "cont"
  <2>1. Plain("cont") \in Commands
    BY PlainType DEF CommandOps
  <2>2. Data(p) \in Seq(Content)
    BY DataType
  <2>3. Carries(p) = [Plain("cont") EXCEPT !.data = Data(p)]
    BY <1>1 DEF Carries
  <2> QED
    BY <2>1, <2>2, <2>3 DEF Commands
<1>2. CASE p.op = "wrdi"
  BY <1>2, PlainType DEF Carries, CommandOps
<1>3. CASE p.op = "wipe"
  BY <1>3, PlainType DEF Carries, CommandOps
<1>4. CASE p.op \notin {"cont", "wrdi", "wipe"}
  <2>1. HasAddress(p)
    BY <1>4 DEF HasAddress
  <2>2. Carries(p) = WithAddress(p)
    BY <1>4 DEF Carries
  <2> QED
    BY <2>1, <2>2, WithAddressType
<1> QED
  BY <1>1, <1>2, <1>3, <1>4

LEMMA CommandIs ==
  ASSUME NEW p
  PROVE  Command(p) = IF p.op \in {"read", "cont", "wrdi"} THEN <<Carries(p)>> ELSE <<Wren, Carries(p)>>
BY DEF Command, Carries

LEMMA EntersIs ==
  ASSUME dev \in Devices, dev.enter # "none"
  PROVE  EnterExit(dev.master4ba) = IF dev.enter = "plain" THEN <<Enters>> ELSE <<Single("wren"), Enters>>
BY DeviceFields DEF EnterExit, Enters

LEMMA LastType ==
  ASSUME Types, Ordered, pc \in Running
  PROVE  Last1 \in Commands /\ Enable \in Commands
<1>1. host \in Host /\ dev \in Devices /\ calls \in Nat /\ todo \in Seq(PieceIn)
  BY DEF Types
<1>2. \A op \in CommandOps : Plain(op) \in Commands /\ Single(op) \in Commands
  BY <1>1, PlainType
<1>3. Enable \in Commands
  BY <1>2 DEF Enable, Wren, CommandOps
<1>4. \A v \in Nat : Value("ear", v) \in Commands /\ Value("wrqe", v) \in Commands
                     /\ [Single("ear") EXCEPT !.value = v] \in Commands
  <2>1. Plain("ear") \in Commands /\ Plain("wrqe") \in Commands /\ Single("ear") \in Commands
    BY <1>2 DEF CommandOps
  <2> QED
    BY <2>1 DEF Value, Commands
<1>5. pc \in {"ear", "data"} => Head(todo) \in PieceIn /\ Head(todo) \in PieceRec
  <2>1. pc \in {"ear", "data"} => Len(todo) > 0 /\ Head(todo) = todo[1]
    BY <1>1, EmptySeq DEF Ordered
  <2> QED
    BY <1>1, <2>1, ElementOfSeq DEF PieceIn
<1>6. CASE pc = "enter4ba"
  <2>1. Enters \in Commands
    <3>1. (IF dev.master4ba THEN Bit7 ELSE 0) \in Nat
      BY DEF Bit7
    <3> QED
      BY <1>2, <1>4, <3>1 DEF Enters, CommandOps
  <2> QED
    BY <1>3, <1>6, <2>1 DEF Last1
<1>7. CASE pc \in {"qeread", "qecheck", "finishqe", "qewrite", "finished", "enterqpi", "leaveqpi", "finishqpi"}
  BY <1>2, <1>3, <1>4, <1>7 DEF Last1, CommandOps
<1>8. CASE pc = "ear"
  <2>0. BankOf(Head(todo)) \in 0 .. 127
    BY <1>1, <1>5, <1>8, BankRange
  <2>1. BankOf(Head(todo)) \in Nat
    BY <2>0
  <2> QED
    BY <1>3, <1>4, <1>8, <2>1 DEF Last1
<1>9. CASE pc = "data"
  BY <1>1, <1>3, <1>5, <1>9, CarriesType DEF Last1
<1> QED
  BY <1>6, <1>7, <1>8, <1>9 DEF Running

-----------------------------------------------------------------------------
(* What a chip makes of a command                                          *)

\* The bytes of a command, written to the cells at[1], at[2], ...
LEMMA WrittenType ==
  ASSUME NEW n \in Nor, NEW c \in Commands, NEW at
  PROVE  Written(n, c, at) \in [Cells -> Content]
<1>1. c.data \in Seq(Content) /\ n.cells \in [Cells -> Content]
  BY DEF Commands, Nor
<1>2. Len(c.data) \in Nat /\ DOMAIN c.data = 1 .. Len(c.data)
  BY <1>1, LenProperties
<1>3. ASSUME NEW a \in Cells
      PROVE  (LET hits == {i \in DOMAIN c.data : at[i] = a}
              IN  IF hits = {} THEN n.cells[a] ELSE c.data[Max(hits)]) \in Content
  <2> DEFINE hits == {i \in DOMAIN c.data : at[i] = a}
  <2>1. n.cells[a] \in Content
    BY <1>1
  <2>2. ASSUME hits # {}
        PROVE  c.data[Max(hits)] \in Content
    <3>1. hits \in SUBSET (1 .. Len(c.data)) /\ hits \in SUBSET (0 .. Len(c.data))
      BY <1>2
    <3> HIDE DEF hits
    <3>2. Max(hits) \in 1 .. Len(c.data)
      BY <1>2, <2>2, <3>1, MaxIn
    <3> QED
      BY <1>1, <3>2, ElementOfSeq
  <2> QED
    BY <2>1, <2>2
<1> QED
  BY <1>3 DEF Written

LEMMA ErasedType ==
  ASSUME NEW n \in Nor, NEW S
  PROVE  Erased(n, S) \in [Cells -> Content]
<1>1. n.cells \in [Cells -> Content]
  BY DEF Nor
<1>2. Blank \in Content
  BY DEF Content
<1> QED
  BY <1>1, <1>2 DEF Erased

\* What a command has done to a chip that understands it and listens
Effect(n, c, o) ==
  \/ o = n
  \/ c.op = "wren" /\ o = [n EXCEPT !.wel = TRUE]
  \/ c.op = "wrdi" /\ o = [n EXCEPT !.wel = FALSE, !.aai = NoAai]
  \/ /\ c.op \in {"enter", "exit"} /\ (dev.enter = "wren" => n.wel)
     /\ o = [n EXCEPT !.fourba = (c.op = "enter"), !.wel = FALSE]
  \/ c.op = "qpi" /\ (dev.qe => n.qe) /\ o = [n EXCEPT !.qpi = TRUE]
  \/ c.op = "unqpi" /\ o = [n EXCEPT !.qpi = FALSE]
  \/ /\ c.op = "ear" /\ n.wel
     /\ o = [n EXCEPT !.ear = c.value % Bit7, !.wel = FALSE,
                      !.fourba = IF dev.enter = "ear7" THEN c.value >= Bit7 ELSE n.fourba]
  \/ c.op = "wrqe" /\ n.wel /\ o = [n EXCEPT !.qe = (c.value = 1), !.wel = FALSE]
  \/ /\ c.op = "program" /\ n.wel
     /\ o = [n EXCEPT !.cells = Written(n, c, [i \in DOMAIN c.data |-> WhereInPage(n, c, i - 1)]),
                      !.wel = FALSE, !.busy = TRUE]
  \/ /\ c.op = "erase" /\ n.wel
     /\ o = [n EXCEPT !.cells = Erased(n, BlockAt(Where(n, c, 0), c.len)), !.wel = FALSE, !.busy = TRUE]
  \/ /\ c.op = "wipe" /\ n.wel
     /\ o = [n EXCEPT !.cells = Erased(n, Cells), !.wel = FALSE, !.busy = TRUE]
  \/ /\ c.op = "aai" /\ n.wel
     /\ o = [n EXCEPT !.cells = Written(n, c, [i \in DOMAIN c.data |-> Where(n, c, i - 1)]),
                      !.aai = Where(n, c, 2), !.busy = TRUE]
  \/ /\ c.op = "cont" /\ n.aai # NoAai
     /\ o = [n EXCEPT !.cells = Written(n, c, [i \in DOMAIN c.data |-> (n.aai + i - 1) % dev.size]),
                      !.aai = (n.aai + 2) % dev.size, !.busy = TRUE]

LEMMA ObeyEffect ==
  ASSUME NEW n, NEW c
  PROVE  \/ ~Understands(n, c) /\ Obey(n, c) = [n EXCEPT !.garbled = TRUE]
         \/ Understands(n, c) /\ Effect(n, c, Obey(n, c))
<1>1. CASE ~Understands(n, c)
  BY <1>1 DEF Obey
<1>2. CASE Understands(n, c) /\ (n.busy \/ (n.aai # NoAai /\ c.op \notin {"cont", "wrdi"}))
  BY <1>2 DEF Obey, Effect
<1>3. CASE Understands(n, c) /\ ~(n.busy \/ (n.aai # NoAai /\ c.op \notin {"cont", "wrdi"}))
  BY SMTT(30), <1>3 DEF Obey, Effect
<1> QED
  BY <1>1, <1>2, <1>3

LEMMA ObeyType ==
  ASSUME dev \in Devices, NEW n \in Nor, NEW c \in Commands
  PROVE  Obey(n, c) \in Nor
<1>0. dev.size \in Nat \ {0} /\ dev.enter \in {"none", "plain", "wren", "ear7"}
  BY DeviceFields
<1> DEFINE o == Obey(n, c)
<1>1. /\ n.cells \in [Cells -> Content] /\ n.fourba \in BOOLEAN /\ n.ear \in Nat /\ n.qe \in BOOLEAN
      /\ n.qpi \in BOOLEAN /\ n.wel \in BOOLEAN /\ n.busy \in BOOLEAN /\ n.aai \in Cells \cup {NoAai}
      /\ n.garbled \in BOOLEAN
  BY DEF Nor
<1>2. c.addr \in Int /\ c.value \in Nat /\ c.data \in Seq(Content) /\ c.len \in Nat
  BY DEF Commands
<1>3. \A at : Written(n, c, at) \in [Cells -> Content]
  BY WrittenType
<1>4. \A S : Erased(n, S) \in [Cells -> Content]
  BY ErasedType
<1>5. Where(n, c, 2) \in Cells
  <2>1. 2 \in Int /\ n.ear \in Int
    BY <1>1
  <2> QED
    BY <1>2, <2>1, WhereInChip
<1>6. c.value % Bit7 \in Nat /\ (c.value >= Bit7) \in BOOLEAN
  BY <1>2 DEF Bit7
<1>7. n.aai # NoAai => (n.aai + 2) % dev.size \in Cells
  <2>1. ASSUME NEW x \in Int, NEW m \in Nat \ {0}
        PROVE  x % m \in 0 .. m - 1
    BY DivMod
  <2>2. n.aai # NoAai => n.aai + 2 \in Int
    BY <1>0, <1>1 DEF Cells, NoAai
  <2> QED
    BY <1>0, <2>1, <2>2 DEF Cells
<1>8. CASE Understands(n, c) /\ Effect(n, c, o)
  <2> SUFFICES o \in Nor
    OBVIOUS
  <2> HIDE DEF o
  <2>1. CASE o = n
    BY <2>1
  <2>2. CASE c.op = "wren" /\ o = [n EXCEPT !.wel = TRUE]
    BY <2>2 DEF Nor
  <2>3. CASE c.op = "wrdi" /\ o = [n EXCEPT !.wel = FALSE, !.aai = NoAai]
    BY <2>3 DEF Nor
  <2>4. CASE c.op \in {"enter", "exit"} /\ o = [n EXCEPT !.fourba = (c.op = "enter"), !.wel = FALSE]
    <3>1. (c.op = "enter") \in BOOLEAN
      OBVIOUS
    <3> QED
      BY <2>4, <3>1 DEF Nor
  <2>5. CASE c.op = "qpi" /\ o = [n EXCEPT !.qpi = TRUE]
    BY <2>5 DEF Nor
  <2>6. CASE c.op = "unqpi" /\ o = [n EXCEPT !.qpi = FALSE]
    BY <2>6 DEF Nor
  <2>7. CASE /\ c.op = "ear"
             /\ o = [n EXCEPT !.ear = c.value % Bit7, !.wel = FALSE,
                              !.fourba = IF dev.enter = "ear7" THEN c.value >= Bit7 ELSE n.fourba]
    <3>1. (IF dev.enter = "ear7" THEN c.value >= Bit7 ELSE n.fourba) \in BOOLEAN
      BY <1>1, <1>6
    <3> QED
      BY <1>6, <2>7, <3>1 DEF Nor
  <2>8. CASE c.op = "wrqe" /\ o = [n EXCEPT !.qe = (c.value = 1), !.wel = FALSE]
    <3>1. (c.value = 1) \in BOOLEAN
      OBVIOUS
    <3> QED
      BY <2>8, <3>1 DEF Nor
  <2>9. CASE /\ c.op = "program"
             /\ o = [n EXCEPT !.cells = Written(n, c, [i \in DOMAIN c.data |-> WhereInPage(n, c, i - 1)]),
                              !.wel = FALSE, !.busy = TRUE]
    BY <1>3, <2>9 DEF Nor
  <2>10. CASE /\ c.op = "erase"
              /\ o = [n EXCEPT !.cells = Erased(n, BlockAt(Where(n, c, 0), c.len)),
                               !.wel = FALSE, !.busy = TRUE]
    BY <1>4, <2>10 DEF Nor
  <2>11. CASE c.op = "wipe" /\ o = [n EXCEPT !.cells = Erased(n, Cells), !.wel = FALSE, !.busy = TRUE]
    BY <1>4, <2>11 DEF Nor
  <2>12. CASE /\ c.op = "aai"
              /\ o = [n EXCEPT !.cells = Written(n, c, [i \in DOMAIN c.data |-> Where(n, c, i - 1)]),
                               !.aai = Where(n, c, 2), !.busy = TRUE]
    BY <1>3, <1>5, <2>12 DEF Nor
  <2>13. CASE /\ c.op = "cont" /\ n.aai # NoAai
              /\ o = [n EXCEPT !.cells = Written(n, c, [i \in DOMAIN c.data |-> (n.aai + i - 1) % dev.size]),
                               !.aai = (n.aai + 2) % dev.size, !.busy = TRUE]
    BY <1>3, <1>7, <2>13 DEF Nor
  <2> QED
    BY <1>8, <2>1, <2>2, <2>3, <2>4, <2>5, <2>6, <2>7, <2>8, <2>9, <2>10, <2>11, <2>12, <2>13 DEF Effect
<1>9. CASE o = [n EXCEPT !.garbled = TRUE]
  <2> SUFFICES o \in Nor
    OBVIOUS
  <2> HIDE DEF o
  <2> QED
    BY <1>9 DEF Nor
<1> QED
  BY <1>8, <1>9, ObeyEffect

\* What a command leaves alone
LEMMA ObeyFrame ==
  ASSUME NEW n \in Nor, NEW c
  PROVE  LET o == Obey(n, c)
         IN  /\ Understands(n, c) => o.garbled = n.garbled
             /\ c.op \notin {"enter", "exit", "ear"} => o.fourba = n.fourba
             /\ c.op # "ear" => o.ear = n.ear
             /\ c.op # "wrqe" => o.qe = n.qe
             /\ c.op \notin {"qpi", "unqpi"} => o.qpi = n.qpi
             /\ c.op \notin {"program", "erase", "wipe", "aai", "cont"} => o.busy = n.busy /\ o.cells = n.cells
             /\ c.op \notin {"wrdi", "aai", "cont"} => o.aai = n.aai
<1> DEFINE o == Obey(n, c)
<1>1. CASE ~Understands(n, c) /\ o = [n EXCEPT !.garbled = TRUE]
  <2> HIDE DEF o
  <2>1. /\ o.fourba = n.fourba /\ o.ear = n.ear /\ o.qe = n.qe /\ o.qpi = n.qpi /\ o.busy = n.busy
        /\ o.cells = n.cells /\ o.aai = n.aai
    BY <1>1 DEF Nor
  <2> QED
    BY <1>1, <2>1 DEF o
<1>2. CASE Understands(n, c) /\ Effect(n, c, o)
  <2> HIDE DEF o
  <2>1. o.garbled = n.garbled
    BY <1>2 DEF Effect, Nor
  <2>2. c.op \notin {"enter", "exit", "ear"} => o.fourba = n.fourba
    BY <1>2 DEF Effect, Nor
  <2>3. c.op # "ear" => o.ear = n.ear
    BY <1>2 DEF Effect, Nor
  <2>4. c.op # "wrqe" => o.qe = n.qe
    BY <1>2 DEF Effect, Nor
  <2>5. c.op \notin {"qpi", "unqpi"} => o.qpi = n.qpi
    BY <1>2 DEF Effect, Nor
  <2>6. c.op \notin {"program", "erase", "wipe", "aai", "cont"} => o.busy = n.busy /\ o.cells = n.cells
    BY <1>2 DEF Effect, Nor
  <2>7. c.op \notin {"wrdi", "aai", "cont"} => o.aai = n.aai
    BY <1>2 DEF Effect, Nor
  <2> QED
    BY <2>1, <2>2, <2>3, <2>4, <2>5, <2>6, <2>7 DEF o
<1> QED
  BY <1>1, <1>2, ObeyEffect

-----------------------------------------------------------------------------
(* The actions, with their alternatives apart                              *)

FreshHost ==
  [fourba |-> FALSE, high |-> -1, qpi |-> FALSE, vqe |-> FALSE, quad |-> TRUE, fast |-> <<>>]

LEMMA OpenIs ==
  ASSUME Open
  PROVE  /\ pc = "closed" /\ ~nor.qpi /\ ~Deaf(nor) /\ host' = FreshHost /\ found' = nor.qe
         /\ before' = nor.cells /\ call' = NoCall /\ got' = <<>>
         /\ dev' = dev /\ nor' = nor /\ res' = res /\ reg' = reg /\ todo' = todo /\ faults' = faults
         /\ calls' = calls /\ astray' = astray
         /\ \/ pc' = "closed" /\ cmds' = cmds /\ ret' = 4
            \/ dev.enter = "none" /\ pc' = "quad" /\ cmds' = cmds /\ ret' = ret
            \/ dev.enter # "none" /\ pc' = "enter4ba" /\ cmds' = EnterExit(dev.master4ba) /\ ret' = ret
BY DEF Open, GiveUp, Goto, Issue, FreshHost

LEMMA EnteredIs ==
  ASSUME Entered
  PROVE  /\ pc = "enter4ba" /\ cmds = <<>> /\ cmds' = <<>>
         /\ dev' = dev /\ nor' = nor /\ res' = res /\ reg' = reg /\ call' = call /\ todo' = todo
         /\ got' = got /\ faults' = faults /\ calls' = calls /\ found' = found /\ before' = before
         /\ astray' = astray
         /\ \/ /\ res = 0 /\ pc' = "quad" /\ ret' = ret
               /\ host' = [host EXCEPT !.fourba = dev.master4ba,
                             !.high = IF dev.enter # "ear7" THEN -1
                                      ELSE IF dev.master4ba THEN Bit7 ELSE 0]
            \/ res # 0 /\ pc' = "closed" /\ ret' = 4 /\ host' = host
BY DEF Entered, Idle, GiveUp, Goto, counts, history

\* Either QPI is tried, or not
TriesQpi(quad) ==
  IF quad /\ dev.qpi /\ "qpi" \in dev.masterIo
    THEN pc' = "enterqpi" /\ cmds' = <<Plain("qpi")>>
    ELSE pc' = "select" /\ cmds' = cmds

LEMMA PrepareQuadIs ==
  ASSUME PrepareQuad
  PROVE  /\ pc = "quad" /\ cmds = <<>>
         /\ dev' = dev /\ nor' = nor /\ host' = host /\ res' = res /\ reg' = reg /\ call' = call
         /\ todo' = todo /\ ret' = ret /\ got' = got /\ faults' = faults /\ calls' = calls
         /\ found' = found /\ before' = before /\ astray' = astray
         /\ \/ ~Quad /\ pc' = "select" /\ cmds' = <<>>
            \/ Quad /\ dev.qe /\ pc' = "qeread" /\ cmds' = <<Plain("rdqe")>>
            \/ Quad /\ ~dev.qe /\ TriesQpi(TRUE)
<1>0. PrepareQuad
  OBVIOUS
<1>1. CASE ~Quad
  BY <1>0, <1>1 DEF PrepareQuad, Idle, Goto, counts, history
<1>2. CASE Quad /\ dev.qe
  BY <1>0, <1>2 DEF PrepareQuad, Idle, Goto, Issue, counts, history
<1>3. CASE Quad /\ ~dev.qe
  BY <1>0, <1>3 DEF PrepareQuad, Idle, Goto, Issue, TryQpi, TriesQpi, counts, history
<1> QED
  BY <1>1, <1>2, <1>3

LEMMA QeReadIs ==
  ASSUME QeRead
  PROVE  /\ pc \in {"qeread", "qecheck"} /\ cmds = <<>>
         /\ dev' = dev /\ nor' = nor /\ res' = res /\ reg' = reg /\ call' = call
         /\ todo' = todo /\ ret' = ret /\ got' = got /\ faults' = faults /\ calls' = calls
         /\ found' = found /\ before' = before /\ astray' = astray
         /\ \/ res = 0 /\ reg /\ TriesQpi(TRUE) /\ host' = [host EXCEPT !.vqe = (pc = "qecheck")]
            \/ /\ res = 0 /\ ~reg /\ pc = "qeread" /\ host' = host
               /\ pc' = "qewrite" /\ cmds' = <<Wren, Value("wrqe", 1)>>
            \/ /\ (res = 0 => ~reg) /\ (faults = 0 /\ res = 0 => pc = "qecheck" \/ ~dev.ewsr)
               /\ pc' = "select" /\ cmds' = <<>> /\ host' = [host EXCEPT !.quad = FALSE]
<1>0. QeRead
  OBVIOUS
<1>1. CASE res = 0 /\ reg
  BY <1>0, <1>1 DEF QeRead, Idle, Goto, Issue, TryQpi, TriesQpi, counts, history
<1>2. CASE res = 0 /\ ~reg /\ pc = "qeread" /\ dev.ewsr
  BY <1>0, <1>2 DEF QeRead, Idle, Goto, Issue, counts, history
<1>3. CASE ~(res = 0 /\ reg) /\ ~(res = 0 /\ ~reg /\ pc = "qeread" /\ dev.ewsr)
  BY <1>0, <1>3 DEF QeRead, Idle, Goto, Issue, TryQpi, counts, history
<1> QED
  BY <1>1, <1>2, <1>3

LEMMA QeWrittenIs ==
  ASSUME QeWritten
  PROVE  /\ pc = "qewrite" /\ cmds = <<>>
         /\ dev' = dev /\ nor' = nor /\ res' = res /\ reg' = reg /\ call' = call
         /\ todo' = todo /\ ret' = ret /\ got' = got /\ faults' = faults /\ calls' = calls
         /\ found' = found /\ before' = before /\ astray' = astray
         /\ \/ res = 0 /\ pc' = "qecheck" /\ cmds' = <<Plain("rdqe")>> /\ host' = host
            \/ res # 0 /\ pc' = "select" /\ cmds' = <<>> /\ host' = [host EXCEPT !.quad = FALSE]
BY DEF QeWritten, Idle, Goto, Issue, TryQpi, counts, history

LEMMA QpiEnteredIs ==
  ASSUME QpiEntered
  PROVE  /\ pc = "enterqpi" /\ cmds = <<>> /\ pc' = "select" /\ cmds' = <<>>
         /\ host' = [host EXCEPT !.qpi = (res = 0)]
         /\ dev' = dev /\ nor' = nor /\ res' = res /\ reg' = reg /\ call' = call
         /\ todo' = todo /\ ret' = ret /\ got' = got /\ faults' = faults /\ calls' = calls
         /\ found' = found /\ before' = before /\ astray' = astray
BY DEF QpiEntered, Idle, Goto, counts, history

\* A fast read is chosen for h, or there is no memory for one
Chooses(h) == host' = [h EXCEPT !.fast = FastRead(h)] \/ host' = [h EXCEPT !.fast = <<>>]

LEMMA SelectIs ==
  ASSUME Select, faults \in Nat
  PROVE  /\ pc = "select" /\ cmds = <<>> /\ Chooses(host)
         /\ faults' = faults => host' = [host EXCEPT !.fast = FastRead(host)]
         /\ faults' \in {faults, faults + 1}
         /\ dev' = dev /\ nor' = nor /\ res' = res /\ reg' = reg /\ call' = call
         /\ todo' = todo /\ got' = got /\ calls' = calls
         /\ found' = found /\ before' = before /\ astray' = astray
         /\ \/ host'.fast = <<>> /\ host.qpi /\ pc' = "leaveqpi" /\ cmds' = <<Plain("unqpi")>> /\ ret' = ret
            \/ ~(host'.fast = <<>> /\ host.qpi) /\ pc' = "ready" /\ cmds' = <<>> /\ ret' = 0
BY DEF Select, Selects, Chooses, Fault, NoFault, Ready, Idle, Goto, Issue, counts, history

LEMMA QpiLeftIs ==
  ASSUME QpiLeft
  PROVE  /\ pc = "leaveqpi" /\ cmds = <<>> /\ cmds' = <<>>
         /\ faults' \in {faults, faults + 1}
         /\ dev' = dev /\ nor' = nor /\ res' = res /\ reg' = reg /\ call' = call
         /\ todo' = todo /\ got' = got /\ calls' = calls
         /\ found' = found /\ before' = before /\ astray' = astray
         /\ \/ res = 0 /\ Chooses([host EXCEPT !.qpi = FALSE]) /\ pc' = "ready" /\ ret' = 0
            \/ res # 0 /\ host' = host /\ pc' = "closed" /\ ret' = 4
BY DEF QpiLeft, Selects, Chooses, Fault, NoFault, Ready, GiveUp, Idle, Goto, counts, history

\* An access that an error ends
Failing(s) ==
  /\ ret' = 1
  /\ \/ Head(s).op \in {"aai", "cont"} /\ pc' = "piece" /\ todo' = <<Last(s)>>
     \/ Head(s).op \notin {"aai", "cont"} /\ pc' = "ready" /\ todo' = <<>>

LEMMA CallIs ==
  ASSUME NEW r \in Requests, Call(r)
  PROVE  /\ pc = "ready" /\ Possible(r) /\ pc' = "piece" /\ call' = r /\ todo' = Pieces(r)
         /\ calls' = calls + 1 /\ ret' = 0 /\ got' = <<>> /\ before' = nor.cells
         /\ dev' = dev /\ nor' = nor /\ host' = host /\ cmds' = cmds /\ res' = res /\ reg' = reg
         /\ faults' = faults /\ found' = found /\ astray' = astray
BY DEF Call, Goto

LEMMA NextPieceIs ==
  ASSUME NextPiece
  PROVE  /\ pc = "piece" /\ cmds = <<>>
         /\ dev' = dev /\ nor' = nor /\ host' = host /\ res' = res /\ reg' = reg /\ call' = call
         /\ got' = got /\ faults' = faults /\ calls' = calls
         /\ found' = found /\ before' = before /\ astray' = astray
         /\ \/ todo = <<>> /\ pc' = "ready" /\ cmds' = <<>> /\ todo' = todo /\ ret' = ret
            \/ /\ todo # <<>> /\ NeedsBank(Head(todo)) /\ dev.ear
               /\ pc' = "ear" /\ cmds' = <<Wren, Value("ear", BankOf(Head(todo)))>>
               /\ todo' = todo /\ ret' = ret
            \/ /\ todo # <<>> /\ NeedsBank(Head(todo)) /\ ~dev.ear /\ cmds' = <<>> /\ Failing(todo)
            \/ /\ todo # <<>> /\ pc' = "data" /\ cmds' = Command(Head(todo)) /\ todo' = todo /\ ret' = ret
               /\ NeedsBank(Head(todo)) =>
                    IF dev.ear THEN host.high = BankOf(Head(todo)) ELSE ~(BankOf(Head(todo)) > 0)
<1>0. NextPiece
  OBVIOUS
<1> DEFINE p == Head(todo)
           One == NeedsBank(p) /\ dev.ear /\ host.high # BankOf(p)
           Two == NeedsBank(p) /\ ~dev.ear /\ BankOf(p) > 0
<1>1. CASE todo = <<>>
  BY <1>0, <1>1 DEF NextPiece, Idle, Goto, counts, history
<1>2. CASE todo # <<>> /\ One
  BY <1>0, <1>2 DEF NextPiece, Idle, Issue, counts, history
<1>3. CASE todo # <<>> /\ Two /\ ~One
  BY <1>0, <1>3 DEF NextPiece, Idle, Goto, Fails, Failing, counts, history
<1>4. CASE todo # <<>> /\ ~One /\ ~Two
  BY <1>0, <1>4 DEF NextPiece, Idle, Issue, counts, history
<1> QED
  BY <1>1, <1>2, <1>3, <1>4

LEMMA EarWrittenIs ==
  ASSUME EarWritten
  PROVE  /\ pc = "ear" /\ cmds = <<>>
         /\ dev' = dev /\ nor' = nor /\ res' = res /\ reg' = reg /\ call' = call
         /\ got' = got /\ faults' = faults /\ calls' = calls
         /\ found' = found /\ before' = before /\ astray' = astray
         /\ \/ /\ res = 0 /\ host' = [host EXCEPT !.high = BankOf(Head(todo))]
               /\ pc' = "data" /\ cmds' = Command(Head(todo)) /\ todo' = todo /\ ret' = ret
            \/ res # 0 /\ host' = [host EXCEPT !.high = host.high] /\ cmds' = <<>> /\ Failing(todo)
BY DEF EarWritten, HighByte, Idle, Goto, Issue, Fails, Failing, counts, history

Advances == pc' = "piece" /\ todo' = Tail(todo) /\ ret' = ret

LEMMA SentIs ==
  ASSUME Sent
  PROVE  /\ pc = "data" /\ cmds = <<>> /\ cmds' = <<>>
         /\ dev' = dev /\ nor' = nor /\ host' = host /\ res' = res /\ reg' = reg /\ call' = call
         /\ got' = got /\ faults' = faults /\ calls' = calls
         /\ found' = found /\ before' = before /\ astray' = astray
         /\ \/ Head(todo).op \in {"read", "wrdi"} /\ res = 0 /\ Advances
            \/ Head(todo).op \in {"read", "wrdi", "cont"} /\ res # 0 /\ Failing(todo)
            \/ /\ Head(todo).op \notin {"read", "wrdi"} /\ (Head(todo).op = "cont" => res = 0)
               /\ pc' = "poll" /\ todo' = todo /\ ret' = ret
<1>0. Sent
  OBVIOUS
<1> DEFINE p == Head(todo)
<1>1. CASE p.op \in {"read", "wrdi"}
  BY <1>0, <1>1 DEF Sent, Idle, Goto, Advance, Advances, Fails, Failing, counts, history
<1>2. CASE p.op = "cont" /\ res # 0
  BY <1>0, <1>2 DEF Sent, Idle, Goto, Fails, Failing, counts, history
<1>3. CASE p.op \notin {"read", "wrdi"} /\ ~(p.op = "cont" /\ res # 0)
  BY <1>0, <1>3 DEF Sent, Idle, Goto, counts, history
<1> QED
  BY <1>1, <1>2, <1>3

LEMMA PollIs ==
  ASSUME Poll
  PROVE  /\ pc = "poll" /\ cmds = <<>> /\ cmds' = <<>>
         /\ dev' = dev /\ nor' = nor /\ host' = host /\ res' = res /\ reg' = reg /\ call' = call
         /\ got' = got /\ calls' = calls /\ found' = found /\ before' = before
         /\ \/ ~nor.busy /\ faults' = faults /\ astray' = astray /\ res = 0 /\ Advances
            \/ ~nor.busy /\ faults' = faults /\ astray' = astray /\ res # 0 /\ Failing(todo)
            \/ faults' = faults + 1 /\ astray' = (astray \/ nor.busy) /\ Failing(todo)
BY DEF Poll, WipSeen, Fault, NoFault, Idle, Goto, Advance, Advances, Fails, Failing, counts, history

\* The bit is read if it is to be taken back
Finishes(h) ==
  IF h.vqe THEN pc' = "finishqe" /\ cmds' = <<Simple("rdqe", Io(h))>>
           ELSE pc' = "closed" /\ cmds' = cmds

LEMMA ReleaseIs ==
  ASSUME Release
  PROVE  /\ pc = "ready" /\ cmds = <<>>
         /\ dev' = dev /\ nor' = nor /\ host' = host /\ res' = res /\ reg' = reg /\ call' = call
         /\ todo' = todo /\ ret' = ret /\ got' = got /\ faults' = faults /\ calls' = calls
         /\ found' = found /\ before' = before /\ astray' = astray
         /\ \/ host.qpi /\ pc' = "finishqpi" /\ cmds' = <<Plain("unqpi")>>
            \/ ~host.qpi /\ Finishes(host)
BY DEF Release, FinishQe, Finishes, Idle, Goto, Issue, counts, history

LEMMA FinishQpiIs ==
  ASSUME FinishQpi
  PROVE  /\ pc = "finishqpi" /\ cmds = <<>>
         /\ host' = [host EXCEPT !.qpi = (res # 0)] /\ Finishes([host EXCEPT !.qpi = (res # 0)])
         /\ dev' = dev /\ nor' = nor /\ res' = res /\ reg' = reg /\ call' = call
         /\ todo' = todo /\ ret' = ret /\ got' = got /\ faults' = faults /\ calls' = calls
         /\ found' = found /\ before' = before /\ astray' = astray
BY DEF FinishQpi, FinishQe, Finishes, Idle, Goto, Issue, counts, history

LEMMA QeRestoredIs ==
  ASSUME QeRestored
  PROVE  /\ pc = "finishqe" /\ cmds = <<>>
         /\ dev' = dev /\ nor' = nor /\ host' = host /\ res' = res /\ reg' = reg /\ call' = call
         /\ todo' = todo /\ ret' = ret /\ got' = got /\ faults' = faults /\ calls' = calls
         /\ found' = found /\ before' = before /\ astray' = astray
         /\ \/ res = 0 /\ pc' = "finished" /\ cmds' = <<Wren, Value("wrqe", 0)>>
            \/ res # 0 /\ pc' = "closed" /\ cmds' = <<>>
BY DEF QeRestored, Idle, Goto, Issue, counts, history

LEMMA FinishedIs ==
  ASSUME Finished
  PROVE  /\ pc = "finished" /\ cmds = <<>> /\ pc' = "closed" /\ cmds' = <<>>
         /\ dev' = dev /\ nor' = nor /\ host' = host /\ res' = res /\ reg' = reg /\ call' = call
         /\ todo' = todo /\ ret' = ret /\ got' = got /\ faults' = faults /\ calls' = calls
         /\ found' = found /\ before' = before /\ astray' = astray
BY DEF Finished, Idle, Goto, counts, history

LEMMA SendIs ==
  ASSUME Send
  PROVE  /\ cmds # <<>>
         /\ dev' = dev /\ host' = host /\ pc' = pc /\ call' = call /\ todo' = todo /\ ret' = ret
         /\ calls' = calls /\ found' = found /\ before' = before
         /\ \/ /\ faults' = faults /\ nor' = Obey(nor, Head(cmds)) /\ cmds' = Tail(cmds) /\ res' = 0
               /\ reg' = (IF Head(cmds).op = "rdqe" THEN nor.qe ELSE reg)
               /\ got' = (IF Head(cmds).op = "read" THEN got \o Answer(nor, Head(cmds)) ELSE got)
               /\ astray' = astray
            \/ /\ faults' = faults + 1 /\ cmds' = <<>> /\ res' = 1 /\ reg' = reg /\ got' = got
               /\ nor' = nor /\ astray' = (astray \/ Head(cmds).op = "wrdi")
            \/ /\ faults' = faults + 1 /\ cmds' = <<>> /\ res' = 1 /\ reg' = reg /\ got' = got
               /\ nor' = Obey(nor, Head(cmds)) /\ astray' = (astray \/ Head(cmds).op \in ModeOps)
BY DEF Send, Fault, NoFault, counts, history

LEMMA SettleIs ==
  ASSUME Settle
  PROVE  /\ nor' = [nor EXCEPT !.busy = FALSE]
         /\ dev' = dev /\ host' = host /\ pc' = pc /\ cmds' = cmds /\ res' = res /\ reg' = reg
         /\ call' = call /\ todo' = todo /\ ret' = ret /\ got' = got /\ faults' = faults
         /\ calls' = calls /\ found' = found /\ before' = before /\ astray' = astray
BY DEF Settle, counts, history

-----------------------------------------------------------------------------
(* Types                                                                   *)

LEMMA FastReadIs ==
  ASSUME dev \in Devices, NEW h
  PROVE  /\ FastRead(h) \in FastOps
         /\ h.qpi => FastRead(h) # <<>> /\ Head(FastRead(h)).io = "qpi"
         /\ ~h.qpi /\ FastRead(h) # <<>> =>
              /\ Head(FastRead(h)).io \in MultiIo /\ Head(FastRead(h)).io \in dev.masterIo
              /\ Head(FastRead(h)).io \in QuadIo => h.quad
<1>1. dev.qpi4b \in BOOLEAN /\ dev.master4ba \in BOOLEAN /\ dev.io \subseteq MultiIo
  BY DeviceFields
<1> DEFINE fitting == {i \in DOMAIN Preferred : Fits(h, Preferred[i])}
<1>2. CASE h.qpi
  <2>1. FastRead(h) = <<ReadOp("qpi", dev.qpi4b /\ dev.master4ba)>>
    BY <1>2 DEF FastRead
  <2>2. (dev.qpi4b /\ dev.master4ba) \in BOOLEAN
    BY <1>1
  <2>3. ReadOp("qpi", dev.qpi4b /\ dev.master4ba) \in ReadOps /\ ReadOp("qpi", dev.qpi4b /\ dev.master4ba).io = "qpi"
    BY <2>2 DEF ReadOp, ReadOps, IoModes
  <2> PICK op \in ReadOps : op = ReadOp("qpi", dev.qpi4b /\ dev.master4ba)
    BY <2>3
  <2>4. FastRead(h) = <<op>> /\ op.io = "qpi"
    BY <2>1, <2>3
  <2> QED
    BY <1>2, <2>4 DEF FastOps
<1>3. CASE ~h.qpi /\ fitting = {}
  BY <1>3 DEF FastRead, FastOps
<1>4. CASE ~h.qpi /\ fitting # {}
  <2>1. FastRead(h) = <<Preferred[Min(fitting)]>>
    BY <1>4 DEF FastRead
  <2>2. DOMAIN Preferred = 1 .. 8 /\ fitting \in SUBSET (0 .. 8)
    BY DEF Preferred
  <2> PICK m : m = Min(fitting)
    OBVIOUS
  <2>3. m \in fitting
    <3> HIDE DEF fitting
    <3> QED
      BY <1>4, <2>2, MinIn
  <2> PICK op : op = Preferred[m]
    OBVIOUS
  <2>4. m \in 1 .. 8 /\ Fits(h, op)
    BY <2>2, <2>3
  <2>5. op.native \in BOOLEAN /\ op = [io |-> op.io, native |-> op.native]
    <3>1. op = ReadOp(<<"quad_io", "quad_out", "dual_io", "dual_out">>[((m - 1) % 4) + 1], m <= 4)
      BY <2>4 DEF Preferred
    <3>2. (m <= 4) \in BOOLEAN
      OBVIOUS
    <3> QED
      BY <3>1, <3>2 DEF ReadOp
  <2>6. op.io \in MultiIo /\ op.io \in dev.masterIo /\ (op.io \in QuadIo => h.quad)
    BY <1>1, <2>4 DEF Fits
  <2>7. op \in ReadOps
    BY <2>5, <2>6 DEF ReadOps, MultiIo
  <2>8. FastRead(h) = <<op>>
    BY <2>1
  <2> QED
    BY <1>4, <2>6, <2>7, <2>8 DEF FastOps
<1> QED
  BY <1>2, <1>3, <1>4

LEMMA PiecesIn ==
  ASSUME dev \in Devices, NEW r \in Requests, Possible(r)
  PROVE  Pieces(r) \in Seq(PieceIn) /\ Pieces(r) # <<>>
<1> DEFINE s == Pieces(r)
           n == Len(s)
<1>1. /\ s \in Seq(PieceRec) /\ s # <<>>
      /\ \A i \in 1 .. n : Proper(r, s[i], i, n)
      /\ r.op # "aai" => Tiling(s, r.start, r.start + r.len)
  BY PiecesProper
<1>2. r.start \in Nat /\ r.len \in Nat /\ r.start + r.len \in Nat /\ r.start + r.len <= dev.size /\ dev.size \in Nat \ {0}
  BY RequestType, DeviceFields DEF Possible
<1> HIDE DEF s
<1>3. n \in Nat /\ DOMAIN s = 1 .. n /\ s \in [1 .. n -> PieceRec]
  BY <1>1, LenProperties
<1> HIDE DEF n
<1>4. \A i \in 1 .. n : s[i] \in PieceIn
  <2> TAKE i \in 1 .. n
  <2>1. s[i] \in PieceRec
    BY <1>3
  <2>2. s[i].start \in Nat /\ s[i].len \in Nat
    BY <2>1 DEF PieceRec
  <2>3. CASE r.op # "aai"
    <3>1. Tiling(s, r.start, r.start + r.len)
      BY <1>1, <2>3
    <3>2. s[i].start + s[i].len <= r.start + r.len
      BY <1>1, <1>2, <3>1, TilingBounds DEF n
    <3>3. s[i].len # 0
      BY <1>1, <2>3 DEF Proper
    <3>4. s[i].start < dev.size /\ s[i].start + s[i].len <= dev.size
      <4> DEFINE a == s[i].start
                 l == s[i].len
                 e == r.start + r.len
      <4>1. a \in Nat /\ l \in Nat /\ l # 0 /\ e \in Nat /\ dev.size \in Nat /\ a + l <= e /\ e <= dev.size
        BY <1>2, <2>2, <3>2, <3>3
      <4> HIDE DEF a, l, e
      <4>2. a < dev.size /\ a + l <= dev.size
        BY <4>1
      <4> QED
        BY <4>2 DEF a, l
    <3> QED
      BY <2>1, <3>4 DEF PieceIn
  <2>4. CASE r.op = "aai" /\ i = n
    <3>1. s[i] = Wrdi
      BY <1>1, <2>4 DEF Proper
    <3> QED
      BY <1>2, <2>1, <3>1 DEF Wrdi, PieceIn
  <2>5. CASE r.op = "aai" /\ i # n
    <3>1. s[i].len = 2 /\ s[i].start = r.start + r.len - 2 * (n - i)
      BY <1>1, <2>5 DEF Proper
    <3> QED
      BY SMTT(30), <1>2, <1>3, <2>1, <2>2, <2>5, <3>1 DEF PieceIn
  <2> QED
    BY <2>3, <2>4, <2>5
<1>5. s \in [1 .. n -> PieceIn]
  BY <1>3, <1>4
<1>6. s \in Seq(PieceIn)
  BY <1>3, <1>5, FunSeq
<1> QED
  BY <1>1, <1>6 DEF s

\* What is left of a sequence of pieces
LEMMA LeftType ==
  ASSUME NEW S, NEW s \in Seq(S), s # <<>>
  PROVE  /\ Len(s) \in Nat \ {0} /\ Head(s) = s[1] /\ Head(s) \in S
         /\ Tail(s) \in Seq(S) /\ Len(Tail(s)) = Len(s) - 1 /\ \A i \in 1 .. Len(s) - 1 : Tail(s)[i] = s[i + 1]
         /\ Last(s) = s[Len(s)] /\ Last(s) \in S /\ <<Last(s)>> \in Seq(S)
<1>1. Len(s) \in Nat \ {0} /\ Head(s) = s[1]
  BY EmptySeq
<1>2. 1 \in 1 .. Len(s) /\ Len(s) \in 1 .. Len(s)
  BY <1>1
<1>3. s[1] \in S /\ s[Len(s)] \in S
  BY <1>2, ElementOfSeq
<1>4. Tail(s) \in Seq(S) /\ Len(Tail(s)) = Len(s) - 1 /\ \A i \in 1 .. Len(s) - 1 : Tail(s)[i] = s[i + 1]
  BY HeadTailProperties
<1>5. Last(s) = s[Len(s)]
  BY DEF Last
<1> QED
  BY <1>1, <1>3, <1>4, <1>5

LEMMA AnswerType ==
  ASSUME dev \in Devices, NEW n \in Nor, NEW c \in Commands
  PROVE  Answer(n, c) \in Seq(Content) /\ Len(Answer(n, c)) = c.len
<1>1. c.len \in Nat /\ c.addr \in Int /\ n.ear \in Int /\ n.cells \in [Cells -> Content]
  BY DEF Commands, Nor
<1>2. \A i \in 1 .. c.len : Where(n, c, i - 1) \in Cells
  <2> TAKE i \in 1 .. c.len
  <2>1. i - 1 \in Int
    OBVIOUS
  <2> QED
    BY <1>1, <2>1, WhereInChip
<1>3. Answer(n, c) \in [1 .. c.len -> Content]
  BY <1>1, <1>2 DEF Answer, Content
<1> QED
  BY <1>1, <1>3, FunSeq

LEMMA CmdsAre ==
  ASSUME Types, Ordered, cmds # <<>>
  PROVE  /\ pc \in Running /\ Head(cmds) \in Commands
         /\ \/ cmds = <<Last1>> /\ Head(cmds) = Last1 /\ Tail(cmds) = <<>>
            \/ Enabled /\ cmds = <<Enable, Last1>> /\ Head(cmds) = Enable /\ Tail(cmds) = <<Last1>>
<1>1. pc \in Running
  BY DEF Ordered
<1> PICK x \in Commands : x = Last1
  BY <1>1, LastType
<1> PICK y \in Commands : y = Enable
  BY <1>1, LastType
<1>2. cmds = <<x>> \/ (Enabled /\ cmds = <<y, x>>)
  BY <1>1 DEF Ordered
<1>3. Head(<<x>>) = x /\ Tail(<<x>>) = <<>> /\ Head(<<y, x>>) = y /\ Tail(<<y, x>>) = <<x>>
  OBVIOUS
<1>4. CASE cmds = <<x>>
  BY <1>1, <1>3, <1>4
<1>5. CASE Enabled /\ cmds = <<y, x>>
  BY <1>1, <1>3, <1>5
<1> QED
  BY <1>2, <1>4, <1>5

LEMMA TypesInit ==
  ASSUME Init
  PROVE  Types
<1>1. dev \in Devices /\ dev.size \in Nat \ {0}
  BY DeviceFields DEF Init
<1>2. nor \in Nor
  <2> PICK fourba \in BOOLEAN, qe \in BOOLEAN, ear \in 0 .. 1 :
         nor = [cells |-> [a \in Cells |-> <<a, 0>>], fourba |-> fourba, ear |-> ear, qe |-> qe,
                qpi |-> FALSE, wel |-> FALSE, busy |-> FALSE, aai |-> NoAai, garbled |-> FALSE]
    BY DEF Init
  <2>1. [a \in Cells |-> <<a, 0>>] \in [Cells -> Content]
    BY <1>1 DEF Cells, Content
  <2> QED
    BY <2>1 DEF Nor
<1>3. host \in Host
  BY DEF Init, Host, Bit7, FastOps
<1>4. found \in BOOLEAN /\ before \in [Cells -> Content]
  BY <1>2 DEF Init, Nor
<1>5. todo \in Seq(PieceIn) /\ got \in Seq(Content) /\ pc \in PCs
  BY DEF Init, PCs
<1>6. call = NoCall /\ res = 0 /\ reg = FALSE /\ ret = 0 /\ faults = 0 /\ calls = 0 /\ astray = FALSE
  BY DEF Init
<1>7. /\ call \in Requests \cup {NoCall} /\ res \in 0 .. 1 /\ ret \in {0, 1, 4} /\ faults \in Nat
      /\ calls \in Nat
  BY <1>6
<1>8. reg \in BOOLEAN /\ astray \in BOOLEAN
  BY <1>6
<1> QED
  BY <1>1, <1>2, <1>3, <1>4, <1>5, <1>7, <1>8 DEF Types

LEMMA FailingType ==
  ASSUME Types, todo # <<>>, Failing(todo), dev' = dev
  PROVE  todo' \in Seq(PieceIn)' /\ pc' \in PCs /\ ret' \in {0, 1, 4}
<1>1. <<Last(todo)>> \in Seq(PieceIn) /\ <<>> \in Seq(PieceIn) /\ PieceIn' = PieceIn
  BY LeftType DEF Types, PieceIn
<1> QED
  BY <1>1 DEF Failing, PCs

LEMMA TypesStep ==
  ASSUME Types, Ordered, Next
  PROVE  Types'
<1>0. /\ dev \in Devices /\ nor \in Nor /\ host \in Host /\ pc \in PCs
      /\ res \in 0 .. 1 /\ reg \in BOOLEAN /\ ret \in {0, 1, 4}
      /\ call \in Requests \cup {NoCall} /\ todo \in Seq(PieceIn) /\ got \in Seq(Content)
      /\ faults \in Nat /\ calls \in Nat /\ found \in BOOLEAN /\ astray \in BOOLEAN
      /\ before \in [Cells -> Content]
  BY DEF Types
<1>a. /\ host.fourba \in BOOLEAN /\ host.high \in -1 .. Bit7 /\ host.qpi \in BOOLEAN
      /\ host.vqe \in BOOLEAN /\ host.quad \in BOOLEAN /\ host.fast \in FastOps
  BY <1>0, HostFields
<1>b. dev' = dev => Cells' = Cells /\ Nor' = Nor /\ Host' = Host /\ PieceIn' = PieceIn
  BY DEF Cells, Nor, Host, PieceIn
<1>c. ASSUME dev' = dev, host' \in Host, todo' \in Seq(PieceIn), pc' \in PCs, ret' \in {0, 1, 4},
             nor' = nor, res' = res, reg' = reg, call' = call, got' = got, faults' \in Nat,
             calls' = calls, found' = found, astray' \in BOOLEAN, before' = before
      PROVE  Types'
  BY <1>0, <1>b, <1>c DEF Types
<1>d. faults + 1 \in Nat /\ calls + 1 \in Nat
  BY <1>0
<1>e. \A h \in Host, f \in FastOps : [h EXCEPT !.fast = f] \in Host
  BY DEF Host
<1>1. CASE Open
  <2>0. FreshHost \in Host
    BY DEF FreshHost, Host, Bit7, FastOps
  <2>1. host' \in Host /\ pc' \in PCs /\ ret' \in {0, 1, 4}
    BY <1>0, <1>1, <2>0, OpenIs DEF PCs
  <2>2. /\ found' \in BOOLEAN /\ before' \in [Cells -> Content] /\ call' \in Requests \cup {NoCall}
        /\ got' \in Seq(Content)
    BY <1>0, <1>1, OpenIs DEF Nor
  <2> QED
    BY <1>0, <1>1, <1>b, <2>1, <2>2, OpenIs DEF Types
<1>2. CASE Entered
  <2>1. (IF dev.enter # "ear7" THEN -1 ELSE IF dev.master4ba THEN Bit7 ELSE 0) \in -1 .. Bit7
        /\ dev.master4ba \in BOOLEAN
    BY <1>0, DeviceFields DEF Bit7
  <2>2. host' \in Host
    BY <1>0, <1>2, <2>1, EnteredIs DEF Host
  <2>3. pc' \in PCs /\ ret' \in {0, 1, 4}
    BY <1>0, <1>2, EnteredIs DEF PCs
  <2> QED
    BY <1>0, <1>2, <1>c, <2>2, <2>3, EnteredIs
<1>3. CASE PrepareQuad
  <2>1. pc' \in PCs
    BY <1>3, PrepareQuadIs DEF PCs, TriesQpi
  <2> QED
    BY <1>0, <1>3, <1>c, <2>1, PrepareQuadIs
<1>4. CASE QeRead
  <2>1. pc' \in PCs
    BY <1>4, QeReadIs DEF PCs, TriesQpi
  <2>2. host' \in Host
    <3>1. (pc = "qecheck") \in BOOLEAN
      OBVIOUS
    <3>2. [host EXCEPT !.vqe = (pc = "qecheck")] \in Host
      BY <1>0, <3>1 DEF Host
    <3>3. [host EXCEPT !.quad = FALSE] \in Host
      BY <1>0 DEF Host
    <3> QED
      BY <1>0, <1>4, <3>2, <3>3, QeReadIs
  <2> QED
    BY <1>0, <1>4, <1>c, <2>1, <2>2, QeReadIs
<1>5. CASE QeWritten
  <2>1. pc' \in PCs
    BY <1>5, QeWrittenIs DEF PCs
  <2>2. host' \in Host
    BY <1>0, <1>5, QeWrittenIs DEF Host
  <2> QED
    BY <1>0, <1>5, <1>c, <2>1, <2>2, QeWrittenIs
<1>6. CASE QpiEntered
  <2>1. pc' \in PCs
    BY <1>6, QpiEnteredIs DEF PCs
  <2>2. (res = 0) \in BOOLEAN
    OBVIOUS
  <2>3. host' \in Host
    BY <1>0, <1>6, <2>2, QpiEnteredIs DEF Host
  <2> QED
    BY <1>0, <1>6, <1>c, <2>1, <2>3, QpiEnteredIs
<1>7. CASE Select
  <2>1. pc' \in PCs /\ ret' \in {0, 1, 4} /\ faults' \in Nat
    BY <1>0, <1>7, <1>d, SelectIs DEF PCs
  <2>2. FastRead(host) \in FastOps /\ <<>> \in FastOps
    BY <1>0, FastReadIs DEF FastOps
  <2>3. host' \in Host
    BY <1>0, <1>7, <1>e, <2>2, SelectIs DEF Chooses
  <2> QED
    BY <1>0, <1>7, <1>c, <2>1, <2>3, SelectIs
<1>8. CASE QpiLeft
  <2>1. pc' \in PCs /\ ret' \in {0, 1, 4} /\ faults' \in Nat
    BY <1>0, <1>8, <1>d, QpiLeftIs DEF PCs
  <2> DEFINE h == [host EXCEPT !.qpi = FALSE]
  <2>2. FastRead(h) \in FastOps /\ <<>> \in FastOps
    BY <1>0, FastReadIs DEF FastOps
  <2>3. h \in Host
    BY <1>0 DEF Host
  <2>4. host' = host \/ Chooses(h)
    BY <1>8, QpiLeftIs
  <2>5. host' \in Host
    <3> HIDE DEF h
    <3> QED
      BY <1>0, <1>e, <2>2, <2>3, <2>4 DEF Chooses
  <2> QED
    BY <1>0, <1>8, <1>c, <2>1, <2>5, QpiLeftIs
<1>9. CASE NextPiece
  <2>1. pc' \in PCs /\ ret' \in {0, 1, 4} /\ todo' \in Seq(PieceIn)
    BY <1>0, <1>9, <1>b, NextPieceIs, FailingType DEF PCs
  <2> QED
    BY <1>0, <1>9, <1>c, <2>1, NextPieceIs
<1>10. CASE EarWritten
  <2>1. todo # <<>> /\ Head(todo) \in PieceIn
    BY <1>0, <1>10, EarWrittenIs, LeftType DEF Ordered
  <2>2. pc' \in PCs /\ ret' \in {0, 1, 4} /\ todo' \in Seq(PieceIn)
    BY <1>0, <1>10, <1>b, <2>1, EarWrittenIs, FailingType DEF PCs
  <2>3. BankOf(Head(todo)) \in 0 .. 127
    BY <1>0, <2>1, BankRange
  <2>4. BankOf(Head(todo)) \in -1 .. Bit7
    BY <2>3 DEF Bit7
  <2>5. host' \in Host
    BY <1>0, <1>10, <1>a, <2>4, EarWrittenIs DEF Host
  <2> QED
    BY <1>0, <1>10, <1>c, <2>2, <2>5, EarWrittenIs
<1>11. CASE Sent
  <2>1. todo # <<>> /\ Tail(todo) \in Seq(PieceIn)
    BY <1>0, <1>11, SentIs, LeftType DEF Ordered
  <2>2. pc' \in PCs /\ ret' \in {0, 1, 4} /\ todo' \in Seq(PieceIn)
    BY <1>0, <1>11, <1>b, <2>1, SentIs, FailingType DEF PCs, Advances
  <2> QED
    BY <1>0, <1>11, <1>c, <2>2, SentIs
<1>12. CASE Poll
  <2>1. todo # <<>> /\ Tail(todo) \in Seq(PieceIn)
    BY <1>0, <1>12, PollIs, LeftType DEF Ordered
  <2>2. pc' \in PCs /\ ret' \in {0, 1, 4} /\ todo' \in Seq(PieceIn)
    BY <1>0, <1>12, <1>b, <2>1, PollIs, FailingType DEF PCs, Advances
  <2>3. nor.busy \in BOOLEAN
    BY <1>0 DEF Nor
  <2>4. astray' \in BOOLEAN /\ faults' \in Nat
    BY <1>0, <1>12, <1>d, <2>3, PollIs
  <2> QED
    BY <1>0, <1>12, <1>c, <2>2, <2>4, PollIs
<1>13. CASE Release
  <2>1. pc' \in PCs
    BY <1>13, ReleaseIs DEF PCs, Finishes
  <2> QED
    BY <1>0, <1>13, <1>c, <2>1, ReleaseIs
<1>14. CASE FinishQpi
  <2>1. pc' \in PCs
    BY <1>14, FinishQpiIs DEF PCs, Finishes
  <2>2. (res # 0) \in BOOLEAN
    OBVIOUS
  <2>3. host' \in Host
    BY <1>0, <1>14, <2>2, FinishQpiIs DEF Host
  <2> QED
    BY <1>0, <1>14, <1>c, <2>1, <2>3, FinishQpiIs
<1>15. CASE QeRestored
  <2>1. pc' \in PCs
    BY <1>15, QeRestoredIs DEF PCs
  <2> QED
    BY <1>0, <1>15, <1>c, <2>1, QeRestoredIs
<1>16. CASE Finished
  <2>1. pc' \in PCs
    BY <1>16, FinishedIs DEF PCs
  <2> QED
    BY <1>0, <1>16, <1>c, <2>1, FinishedIs
<1>17. ASSUME NEW r \in Requests, Call(r)
       PROVE  Types'
  <2>1. Pieces(r) \in Seq(PieceIn)
    BY <1>0, <1>17, CallIs, PiecesIn
  <2>2. before' = nor.cells /\ got' = <<>> /\ pc' = "piece"
    BY <1>17, CallIs
  <2>3. before' \in [Cells -> Content] /\ got' \in Seq(Content) /\ pc' \in PCs
    BY <1>0, <2>2 DEF Nor, PCs
  <2> QED
    BY <1>0, <1>17, <1>b, <1>d, <2>1, <2>3, CallIs DEF Types
<1>18. CASE Send
  <2> DEFINE c == Head(cmds)
  <2>0. dev' = dev /\ cmds # <<>>
    BY <1>18, SendIs
  <2>1. c \in Commands
    BY <2>0, CmdsAre
  <2>2. Obey(nor, c) \in Nor /\ Answer(nor, c) \in Seq(Content)
    BY <1>0, <2>1, ObeyType, AnswerType
  <2>3. got \o Answer(nor, c) \in Seq(Content)
    BY <1>0, <2>2, ConcatProperties
  <2>4. nor.qe \in BOOLEAN
    BY <1>0 DEF Nor
  <2>5. nor' \in Nor /\ res' \in 0 .. 1 /\ faults' \in Nat
    BY <1>0, <1>18, <1>d, <2>2, SendIs
  <2>6. reg' \in BOOLEAN /\ got' \in Seq(Content)
    BY <1>0, <1>18, <2>3, <2>4, SendIs
  <2>7. astray' \in BOOLEAN
    BY <1>0, <1>18, SendIs
  <2> QED
    BY <1>0, <1>18, <1>b, <2>5, <2>6, <2>7, SendIs DEF Types
<1>19. CASE Settle
  <2>1. nor' \in Nor
    BY <1>0, <1>19, SettleIs DEF Nor
  <2> QED
    BY <1>0, <1>19, <1>b, <2>1, SettleIs DEF Types
<1> QED
  BY <1>1, <1>2, <1>3, <1>4, <1>5, <1>6, <1>7, <1>8, <1>9, <1>10, <1>11, <1>12, <1>13, <1>14,
     <1>15, <1>16, <1>17, <1>18, <1>19 DEF Next, Program, PrepareIo, Access, FinishIo

-----------------------------------------------------------------------------
(* The commands that are left                                              *)

LEMMA LastSame ==
  ASSUME pc' = pc, host' = host, dev' = dev, todo' = todo, calls' = calls
  PROVE  Last1' = Last1 /\ Enable' = Enable /\ (Enabled' <=> Enabled)
<1>1. Last1' = Last1
  BY DEF Last1, Enters, Carries, Plain, Single, Value, Io, BankOf, Data, WithAddress, AddressLength,
         Native, ReadWith, ReadOp, Encoded
<1>2. Enable' = Enable
  BY DEF Enable, Single, Wren, Plain, Io
<1>3. Enabled' <=> Enabled
  BY DEF Enabled
<1> QED
  BY <1>1, <1>2, <1>3

LEMMA PlainSame ==
  ASSUME Io(host') = Io(host), NEW op
  PROVE  Plain(op)' = Plain(op)
BY DEF Plain, Io

LEMMA CarriesSame ==
  ASSUME Io(host') = Io(host), host'.fourba = host.fourba, host'.fast = host.fast, dev' = dev,
         calls' = calls, todo' = todo
  PROVE  Carries(Head(todo))' = Carries(Head(todo))
BY ZenonT(30) DEF Carries, Plain, Io, Data, WithAddress, AddressLength, Native, ReadWith, ReadOp, Encoded

\* One command is left, or two of which the first is the write enable
Starts ==
  /\ pc \in Running
  /\ cmds = <<Last1>> \/ (Enabled /\ cmds = <<Enable, Last1>>)

LEMMA OrderedInit ==
  ASSUME Init
  PROVE  Ordered
BY DEF Init, Ordered, Running, Accessing

LEMMA StartsOrdered ==
  ASSUME Starts', pc' \in {"ear", "data"} => todo' # <<>>, pc' \notin Accessing => todo' = <<>>
  PROVE  Ordered'
<1>1. pc' \in Running /\ (cmds' = <<Last1'>> \/ (Enabled' /\ cmds' = <<Enable', Last1'>>))
  BY DEF Starts
<1>2. pc' # "poll"
  BY <1>1 DEF Running
<1> QED
  BY <1>1, <1>2 DEF Ordered

LEMMA StopsOrdered ==
  ASSUME cmds' = <<>>, pc' \in {"ear", "data", "poll"} => todo' # <<>>, pc' \notin Accessing => todo' = <<>>
  PROVE  Ordered'
BY DEF Ordered

LEMMA TriesOrdered ==
  ASSUME NEW quad, TriesQpi(quad), Io(host') = Io(host), cmds = <<>>, todo' = <<>>
  PROVE  Ordered'
<1>1. CASE pc' = "enterqpi" /\ cmds' = <<Plain("qpi")>>
  <2>1. Last1' = Plain("qpi")
    BY <1>1, PlainSame DEF Last1
  <2>2. Starts'
    BY <1>1, <2>1 DEF Starts, Running
  <2> QED
    BY <1>1, <2>2, StartsOrdered DEF Accessing
<1>2. CASE pc' = "select" /\ cmds' = <<>>
  BY <1>2, StopsOrdered DEF Accessing
<1> QED
  BY <1>1, <1>2 DEF TriesQpi

LEMMA FinishesOrdered ==
  ASSUME Finishes(host'), cmds = <<>>, todo' = <<>>
  PROVE  Ordered'
<1>1. CASE pc' = "finishqe" /\ cmds' = <<Simple("rdqe", Io(host'))>>
  <2>1. Simple("rdqe", Io(host')) = Plain("rdqe")'
    BY DEF Plain, Io
  <2>2. Last1' = Plain("rdqe")'
    BY <1>1 DEF Last1
  <2>3. Starts'
    BY <1>1, <2>1, <2>2 DEF Starts, Running
  <2> QED
    BY <1>1, <2>3, StartsOrdered DEF Accessing
<1>2. CASE pc' = "closed" /\ cmds' = <<>>
  BY <1>2, StopsOrdered DEF Accessing
<1> QED
  BY <1>1, <1>2 DEF Finishes

LEMMA FailingOrdered ==
  ASSUME Failing(todo), cmds' = <<>>
  PROVE  Ordered'
<1>1. CASE pc' = "piece"
  BY <1>1, StopsOrdered DEF Accessing
<1>2. CASE pc' = "ready" /\ todo' = <<>>
  BY <1>2, StopsOrdered DEF Accessing
<1> QED
  BY <1>1, <1>2 DEF Failing

\* The command of a piece
LEMMA CommandOrdered ==
  ASSUME pc' = "data", cmds' = Command(Head(todo)), todo' = todo, todo # <<>>, dev' = dev, calls' = calls,
         Io(host') = Io(host), host'.fourba = host.fourba, host'.fast = host.fast
  PROVE  Ordered'
<1> DEFINE p == Head(todo)
<1>1. Last1' = Carries(p)
  BY CarriesSame DEF Last1
<1>2. Enable' = Wren
  BY PlainSame DEF Enable, Wren
<1>3. Enabled' <=> p.op \notin {"read", "cont", "wrdi"}
  BY DEF Enabled
<1>4. cmds' = IF p.op \in {"read", "cont", "wrdi"} THEN <<Carries(p)>> ELSE <<Wren, Carries(p)>>
  BY CommandIs
<1>5. Starts'
  BY <1>1, <1>2, <1>3, <1>4 DEF Starts, Running
<1> QED
  BY <1>5, StartsOrdered DEF Accessing

LEMMA OrderedStep ==
  ASSUME Types, Ordered, Next
  PROVE  Ordered'
<1>0. /\ pc \notin Running => cmds = <<>>
      /\ pc \in {"ear", "data", "poll"} => todo # <<>>
      /\ pc \notin Accessing => todo = <<>>
  BY DEF Ordered
<1>1. CASE Open
  <2>1. CASE dev.enter # "none" /\ pc' = "enter4ba" /\ cmds' = EnterExit(dev.master4ba)
    <3>1. EnterExit(dev.master4ba) = IF dev.enter = "plain" THEN <<Enters>> ELSE <<Single("wren"), Enters>>
      BY <2>1, EntersIs DEF Types
    <3>2. Enters' = Enters /\ Single("wren")' = Single("wren")
      BY <1>1, OpenIs DEF Enters, Single
    <3>3. Last1' = Enters /\ Enable' = Single("wren")
      BY <2>1, <3>2 DEF Last1, Enable
    <3>4. Enabled' <=> dev.enter # "plain"
      BY <1>1, <2>1, OpenIs DEF Enabled
    <3>5. Starts'
      BY <2>1, <3>1, <3>3, <3>4 DEF Starts, Running
    <3> QED
      BY <1>0, <1>1, <2>1, <3>5, OpenIs, StartsOrdered DEF Accessing
  <2>2. CASE pc' \in {"closed", "quad"} /\ cmds' = cmds
    BY <1>0, <1>1, <2>2, OpenIs, StopsOrdered DEF Accessing, Running
  <2> QED
    BY <1>1, <2>1, <2>2, OpenIs
<1>2. CASE Entered
  BY <1>0, <1>2, EnteredIs, StopsOrdered DEF Accessing
<1>3. CASE PrepareQuad
  <2>1. cmds = <<>> /\ todo' = <<>> /\ host' = host
    BY <1>0, <1>3, PrepareQuadIs DEF Accessing
  <2>2. CASE pc' = "select" /\ cmds' = <<>>
    BY <2>1, <2>2, StopsOrdered DEF Accessing
  <2>3. CASE pc' = "qeread" /\ cmds' = <<Plain("rdqe")>>
    <3>1. Last1' = Plain("rdqe")
      BY <2>1, <2>3, PlainSame DEF Last1
    <3>2. Starts'
      BY <2>3, <3>1 DEF Starts, Running
    <3> QED
      BY <2>1, <2>3, <3>2, StartsOrdered DEF Accessing
  <2>4. CASE TriesQpi(TRUE)
    BY <2>1, <2>4, TriesOrdered
  <2> QED
    BY <1>3, <2>2, <2>3, <2>4, PrepareQuadIs
<1>4. CASE QeRead
  <2>1. cmds = <<>> /\ todo' = <<>>
    BY <1>0, <1>4, QeReadIs DEF Accessing
  <2>2. CASE TriesQpi(TRUE) /\ host' = [host EXCEPT !.vqe = (pc = "qecheck")]
    <3>1. Io(host') = Io(host)
      BY <2>2 DEF Types, Host, Io
    <3> QED
      BY <2>1, <2>2, <3>1, TriesOrdered
  <2>3. CASE pc' = "qewrite" /\ cmds' = <<Wren, Value("wrqe", 1)>> /\ host' = host
    <3>1. Last1' = Value("wrqe", 1) /\ Enable' = Wren
      BY <2>3 DEF Last1, Value, Enable, Wren, Plain
    <3>2. Starts'
      BY <2>3, <3>1 DEF Starts, Running, Enabled
    <3> QED
      BY <2>1, <2>3, <3>2, StartsOrdered DEF Accessing
  <2>4. CASE pc' = "select" /\ cmds' = <<>>
    BY <2>1, <2>4, StopsOrdered DEF Accessing
  <2> QED
    BY <1>4, <2>2, <2>3, <2>4, QeReadIs
<1>5. CASE QeWritten
  <2>1. cmds = <<>> /\ todo' = <<>>
    BY <1>0, <1>5, QeWrittenIs DEF Accessing
  <2>2. CASE pc' = "qecheck" /\ cmds' = <<Plain("rdqe")>> /\ host' = host
    <3>1. Last1' = Plain("rdqe")
      BY <2>2, PlainSame DEF Last1
    <3>2. Starts'
      BY <2>2, <3>1 DEF Starts, Running
    <3> QED
      BY <2>1, <2>2, <3>2, StartsOrdered DEF Accessing
  <2>3. CASE pc' = "select" /\ cmds' = <<>>
    BY <2>1, <2>3, StopsOrdered DEF Accessing
  <2> QED
    BY <1>5, <2>2, <2>3, QeWrittenIs
<1>6. CASE QpiEntered
  BY <1>0, <1>6, QpiEnteredIs, StopsOrdered DEF Accessing
<1>7. CASE Select
  <2>0. faults \in Nat /\ host \in Host
    BY DEF Types
  <2>1. cmds = <<>> /\ todo' = <<>>
    BY <1>0, <1>7, <2>0, SelectIs DEF Accessing
  <2>2. CASE pc' = "leaveqpi" /\ cmds' = <<Plain("unqpi")>>
    <3>1. Io(host') = Io(host)
      BY <1>7, <2>0, SelectIs DEF Chooses, Host, Io
    <3>2. Last1' = Plain("unqpi")
      BY <2>2, <3>1, PlainSame DEF Last1
    <3>3. Starts'
      BY <2>2, <3>2 DEF Starts, Running
    <3> QED
      BY <2>1, <2>2, <3>3, StartsOrdered DEF Accessing
  <2>3. CASE pc' = "ready" /\ cmds' = <<>>
    BY <2>1, <2>3, StopsOrdered DEF Accessing
  <2> QED
    BY <1>7, <2>0, <2>2, <2>3, SelectIs
<1>8. CASE QpiLeft
  BY <1>0, <1>8, QpiLeftIs, StopsOrdered DEF Accessing
<1>9. CASE NextPiece
  <2>1. cmds = <<>> /\ dev' = dev /\ host' = host /\ calls' = calls
    BY <1>9, NextPieceIs
  <2>2. CASE todo = <<>> /\ pc' = "ready" /\ cmds' = <<>> /\ todo' = todo
    BY <2>2, StopsOrdered DEF Accessing
  <2>3. CASE todo # <<>> /\ pc' = "ear" /\ cmds' = <<Wren, Value("ear", BankOf(Head(todo)))>> /\ todo' = todo
    <3>1. Last1' = Value("ear", BankOf(Head(todo))) /\ Enable' = Wren
      BY <2>1, <2>3 DEF Last1, Value, BankOf, Enable, Wren, Plain
    <3>2. Starts'
      BY <2>3, <3>1 DEF Starts, Running, Enabled
    <3> QED
      BY <2>3, <3>2, StartsOrdered DEF Accessing
  <2>4. CASE cmds' = <<>> /\ Failing(todo)
    BY <2>4, FailingOrdered
  <2>5. CASE todo # <<>> /\ pc' = "data" /\ cmds' = Command(Head(todo)) /\ todo' = todo
    BY <2>1, <2>5, CommandOrdered
  <2> QED
    BY <1>9, <2>2, <2>3, <2>4, <2>5, NextPieceIs
<1>10. CASE EarWritten
  <2>1. CASE /\ host' = [host EXCEPT !.high = BankOf(Head(todo))]
             /\ pc' = "data" /\ cmds' = Command(Head(todo)) /\ todo' = todo
    <3>1. Io(host') = Io(host) /\ host'.fourba = host.fourba /\ host'.fast = host.fast
      BY <2>1 DEF Types, Host, Io
    <3> QED
      BY <1>0, <1>10, <2>1, <3>1, EarWrittenIs, CommandOrdered
  <2>2. CASE cmds' = <<>> /\ Failing(todo)
    BY <2>2, FailingOrdered
  <2> QED
    BY <1>10, <2>1, <2>2, EarWrittenIs
<1>11. CASE Sent
  <2>1. CASE Advances
    BY <1>11, <2>1, SentIs, StopsOrdered DEF Advances, Accessing
  <2>2. CASE Failing(todo)
    BY <1>11, <2>2, SentIs, FailingOrdered
  <2>3. CASE pc' = "poll" /\ todo' = todo
    BY <1>0, <1>11, <2>3, SentIs, StopsOrdered DEF Accessing
  <2> QED
    BY <1>11, <2>1, <2>2, <2>3, SentIs
<1>12. CASE Poll
  <2>1. CASE Advances
    BY <1>12, <2>1, PollIs, StopsOrdered DEF Advances, Accessing
  <2>2. CASE Failing(todo)
    BY <1>12, <2>2, PollIs, FailingOrdered
  <2> QED
    BY <1>12, <2>1, <2>2, PollIs
<1>13. CASE Release
  <2>1. cmds = <<>> /\ todo' = <<>> /\ host' = host
    BY <1>0, <1>13, ReleaseIs DEF Accessing
  <2>2. CASE pc' = "finishqpi" /\ cmds' = <<Plain("unqpi")>>
    <3>1. Last1' = Plain("unqpi")
      BY <2>1, <2>2, PlainSame DEF Last1
    <3>2. Starts'
      BY <2>2, <3>1 DEF Starts, Running
    <3> QED
      BY <2>1, <2>2, <3>2, StartsOrdered DEF Accessing
  <2>3. CASE Finishes(host)
    BY <2>1, <2>3, FinishesOrdered
  <2> QED
    BY <1>13, <2>2, <2>3, ReleaseIs
<1>14. CASE FinishQpi
  <2>1. cmds = <<>> /\ todo' = <<>>
    BY <1>0, <1>14, FinishQpiIs DEF Accessing
  <2>2. Finishes(host')
    BY <1>14, FinishQpiIs
  <2> QED
    BY <2>1, <2>2, FinishesOrdered
<1>15. CASE QeRestored
  <2>1. cmds = <<>> /\ todo' = <<>> /\ host' = host
    BY <1>0, <1>15, QeRestoredIs DEF Accessing
  <2>2. CASE pc' = "finished" /\ cmds' = <<Wren, Value("wrqe", 0)>>
    <3>1. Last1' = Value("wrqe", 0) /\ Enable' = Wren
      BY <2>1, <2>2 DEF Last1, Value, Enable, Wren, Plain
    <3>2. Starts'
      BY <2>2, <3>1 DEF Starts, Running, Enabled
    <3> QED
      BY <2>1, <2>2, <3>2, StartsOrdered DEF Accessing
  <2>3. CASE pc' = "closed" /\ cmds' = <<>>
    BY <2>1, <2>3, StopsOrdered DEF Accessing
  <2> QED
    BY <1>15, <2>2, <2>3, QeRestoredIs
<1>16. CASE Finished
  BY <1>0, <1>16, FinishedIs, StopsOrdered DEF Accessing
<1>17. ASSUME NEW r \in Requests, Call(r)
       PROVE  Ordered'
  BY <1>0, <1>17, CallIs, StopsOrdered DEF Accessing, Running
<1>18. CASE Send
  <2>1. cmds # <<>> /\ pc' = pc /\ host' = host /\ dev' = dev /\ todo' = todo /\ calls' = calls
    BY <1>18, SendIs
  <2>2. /\ pc \in Running
        /\ \/ Tail(cmds) = <<>>
           \/ Enabled /\ Tail(cmds) = <<Last1>>
    BY <2>1, CmdsAre
  <2>3. CASE cmds' = <<>>
    BY <1>0, <2>1, <2>3, StopsOrdered
  <2>4. CASE cmds' = <<Last1>>
    <3>1. Starts'
      BY <2>1, <2>2, <2>4, LastSame DEF Starts
    <3> QED
      BY <1>0, <2>1, <3>1, StartsOrdered
  <2> QED
    BY <1>18, <2>2, <2>3, <2>4, SendIs
<1>19. CASE Settle
  <2>1. pc' = pc /\ host' = host /\ dev' = dev /\ todo' = todo /\ calls' = calls /\ cmds' = cmds
    BY <1>19, SettleIs
  <2>2. CASE cmds = <<>>
    BY <1>0, <2>1, <2>2, StopsOrdered
  <2>3. CASE cmds # <<>>
    <3>1. Starts
      BY <2>3, CmdsAre DEF Starts
    <3>2. Starts'
      BY <2>1, <3>1, LastSame DEF Starts
    <3> QED
      BY <1>0, <2>1, <3>2, StartsOrdered
  <2> QED
    BY <2>2, <2>3
<1> QED
  BY <1>1, <1>2, <1>3, <1>4, <1>5, <1>6, <1>7, <1>8, <1>9, <1>10, <1>11, <1>12, <1>13, <1>14,
     <1>15, <1>16, <1>17, <1>18, <1>19 DEF Next, Program, PrepareIo, Access, FinishIo

-----------------------------------------------------------------------------
(* What is known and decided                                               *)

LEMMA DecidedInit ==
  ASSUME Init
  PROVE  Decided
BY DEF Init, Decided, Steady, Accessing

LEMMA NeedsBankSame ==
  ASSUME host'.fourba = host.fourba, host'.fast = host.fast, dev' = dev, todo' = todo
  PROVE  /\ NeedsBank(Head(todo))' <=> NeedsBank(Head(todo))
         /\ BankOf(Head(todo))' = BankOf(Head(todo))
BY DEF NeedsBank, HasAddress, AddressLength, Native, ReadWith, ReadOp, BankOf

LEMMA DecidedStep ==
  ASSUME Types, Ordered, Decided, Next
  PROVE  Decided'
<1>0. dev \in Devices /\ host \in Host /\ faults \in Nat /\ todo \in Seq(PieceIn)
  BY DEF Types
<1>a. dev' = dev => (Quad' <=> Quad)
  BY DEF Quad
<1>b. "qpi" \in dev.masterIo => Quad
  BY DEF Quad, QuadIo
<1>c. ASSUME NEW io \in dev.masterIo, io \in QuadIo
      PROVE  Quad
  BY <1>c DEF Quad
<1>d. "qpi" \in QuadIo /\ "qpi" \notin MultiIo /\ "single" # "qpi"
  BY DEF QuadIo, MultiIo
<1>1. CASE Open
  BY <1>1, OpenIs DEF Decided, Steady, Accessing, FreshHost
<1>2. CASE Entered
  <2>1. host'.qpi = host.qpi /\ host'.vqe = host.vqe /\ host'.quad = host.quad
    BY <1>0, <1>2, EnteredIs DEF Host
  <2> QED
    BY <1>a, <1>2, <2>1, EnteredIs DEF Decided, Steady, Accessing
<1>3. CASE PrepareQuad
  BY <1>a, <1>b, <1>3, PrepareQuadIs DEF Decided, Steady, Accessing, TriesQpi
<1>4. CASE QeRead
  <2>1. host'.qpi = host.qpi /\ host'.fourba = host.fourba /\ host'.vqe \in {host.vqe, pc = "qecheck"}
    BY <1>0, <1>4, QeReadIs DEF Host
  <2>2. CASE TriesQpi(TRUE) /\ host' = [host EXCEPT !.vqe = (pc = "qecheck")]
    <3>1. host'.quad = host.quad
      BY <1>0, <2>2 DEF Host
    <3> QED
      BY <1>a, <1>b, <1>4, <2>1, <2>2, <3>1, QeReadIs DEF Decided, Steady, Accessing, TriesQpi
  <2>3. CASE pc' = "qewrite" /\ host' = host
    BY <1>a, <1>4, <2>3, QeReadIs DEF Decided, Steady, Accessing
  <2>4. CASE pc' = "select"
    BY <1>a, <1>4, <2>1, <2>4, QeReadIs DEF Decided, Steady, Accessing
  <2> QED
    BY <1>4, <2>2, <2>3, <2>4, QeReadIs
<1>5. CASE QeWritten
  <2>1. CASE host' = host /\ pc' = "qecheck"
    BY <1>a, <1>5, <2>1, QeWrittenIs DEF Decided, Steady, Accessing
  <2>2. CASE host' = [host EXCEPT !.quad = FALSE] /\ pc' = "select"
    <3>1. host'.qpi = host.qpi /\ host'.fourba = host.fourba /\ host'.vqe = host.vqe
      BY <1>0, <2>2 DEF Host
    <3> QED
      BY <1>a, <1>5, <2>2, <3>1, QeWrittenIs DEF Decided, Steady, Accessing
  <2> QED
    BY <1>5, <2>1, <2>2, QeWrittenIs
<1>6. CASE QpiEntered
  <2>1. host'.quad = host.quad /\ host'.fourba = host.fourba /\ host'.vqe = host.vqe
    BY <1>0, <1>6, QpiEnteredIs DEF Host
  <2> QED
    BY <1>a, <1>b, <1>6, <2>1, QpiEnteredIs DEF Decided, Steady, Accessing
<1>7. CASE Select
  <2>1. /\ host'.quad = host.quad /\ host'.fourba = host.fourba /\ host'.vqe = host.vqe
        /\ host'.qpi = host.qpi /\ host'.fast \in {FastRead(host), <<>>}
    BY <1>0, <1>7, SelectIs DEF Host, Chooses
  <2>2. /\ host.qpi => Head(FastRead(host)).io = "qpi"
        /\ ~host.qpi /\ FastRead(host) # <<>> =>
              /\ Head(FastRead(host)).io \in MultiIo /\ Head(FastRead(host)).io \in dev.masterIo
              /\ Head(FastRead(host)).io \in QuadIo => host.quad
    BY <1>0, FastReadIs
  <2>3. host'.fast # <<>> => /\ (Head(host'.fast).io = "qpi") = host.qpi
                             /\ Head(host'.fast).io \in QuadIo => host.quad /\ Quad
    <3>1. CASE host.qpi
      BY <2>1, <2>2, <3>1 DEF Decided
    <3>2. CASE ~host.qpi
      <4>1. host.qpi = FALSE
        BY <1>0, <3>2 DEF Host
      <4> QED
        BY <1>c, <1>d, <2>1, <2>2, <4>1
    <3> QED
      BY <3>1, <3>2
  <2> QED
    BY <1>0, <1>a, <1>7, <2>1, <2>3, SelectIs DEF Decided, Steady, Accessing
<1>8. CASE QpiLeft
  <2> DEFINE h == [host EXCEPT !.qpi = FALSE]
  <2>1. CASE res = 0 /\ Chooses(h) /\ pc' = "ready"
    <3>1. h \in Host /\ h.quad = host.quad /\ h.fourba = host.fourba /\ h.vqe = host.vqe /\ h.qpi = FALSE
      BY <1>0 DEF Host
    <3> HIDE DEF h
    <3>2. /\ host'.quad = host.quad /\ host'.fourba = host.fourba /\ host'.vqe = host.vqe
          /\ host'.qpi = FALSE /\ host'.fast \in {FastRead(h), <<>>}
      BY <2>1, <3>1 DEF Host, Chooses
    <3>3. FastRead(h) # <<>> => /\ Head(FastRead(h)).io \in MultiIo /\ Head(FastRead(h)).io \in dev.masterIo
                                /\ Head(FastRead(h)).io \in QuadIo => host.quad
      BY <1>0, <3>1, FastReadIs
    <3>4. host'.fast # <<>> => /\ (Head(host'.fast).io = "qpi") = FALSE
                               /\ Head(host'.fast).io \in QuadIo => host.quad /\ Quad
      BY <1>c, <1>d, <3>2, <3>3
    <3> QED
      BY <1>a, <1>8, <2>1, <3>2, <3>4, QpiLeftIs DEF Decided, Steady, Accessing
  <2>2. CASE host' = host /\ pc' = "closed"
    BY <1>a, <1>8, <2>2, QpiLeftIs DEF Decided, Steady, Accessing
  <2> QED
    BY <1>8, <2>1, <2>2, QpiLeftIs
<1>e. ASSUME dev' = dev, host' = host, pc \in Steady, pc' \in {"ready", "piece", "closed"}
      PROVE  Decided'
  BY <1>a, <1>e DEF Decided, Steady, Accessing
<1>9. CASE NextPiece
  <2>1. dev' = dev /\ host' = host /\ pc = "piece" /\ pc \in Steady
    BY <1>9, NextPieceIs DEF Steady, Accessing
  <2>2. CASE pc' \in {"ready", "piece"}
    BY <1>e, <2>1, <2>2
  <2>3. CASE todo # <<>> /\ NeedsBank(Head(todo)) /\ dev.ear /\ pc' = "ear" /\ todo' = todo
    <3>1. NeedsBank(Head(todo))' <=> NeedsBank(Head(todo))
      BY <2>1, <2>3, NeedsBankSame
    <3> QED
      BY <1>a, <2>1, <2>3, <3>1 DEF Decided, Steady, Accessing
  <2>4. CASE /\ todo # <<>> /\ pc' = "data" /\ todo' = todo
             /\ NeedsBank(Head(todo)) =>
                  IF dev.ear THEN host.high = BankOf(Head(todo)) ELSE ~(BankOf(Head(todo)) > 0)
    <3>1. /\ NeedsBank(Head(todo))' <=> NeedsBank(Head(todo))
          /\ BankOf(Head(todo))' = BankOf(Head(todo))
      BY <2>1, <2>4, NeedsBankSame
    <3>2. BankOf(Head(todo)) \in 0 .. 127
      <4>1. Head(todo) \in PieceIn
        BY <1>0, <2>4, LeftType
      <4> QED
        BY <1>0, <4>1, BankRange
    <3>3. ~(BankOf(Head(todo)) > 0) => BankOf(Head(todo)) = 0
      BY <3>2
    <3> QED
      BY <1>a, <2>1, <2>4, <3>1, <3>3 DEF Decided, Steady, Accessing
  <2> QED
    BY <1>9, <2>2, <2>3, <2>4, NextPieceIs DEF Failing
<1>10. CASE EarWritten
  <2>1. dev' = dev /\ pc = "ear" /\ pc \in Steady
    BY <1>10, EarWrittenIs DEF Steady, Accessing
  <2>2. CASE host' = [host EXCEPT !.high = BankOf(Head(todo))] /\ pc' = "data" /\ todo' = todo
    <3>1. /\ host'.quad = host.quad /\ host'.fourba = host.fourba /\ host'.vqe = host.vqe
          /\ host'.qpi = host.qpi /\ host'.fast = host.fast /\ host'.high = BankOf(Head(todo))
      BY <1>0, <2>2 DEF Host
    <3>2. BankOf(Head(todo))' = BankOf(Head(todo))
      BY <2>1, <2>2, <3>1, NeedsBankSame
    <3> QED
      BY <1>a, <2>1, <2>2, <3>1, <3>2 DEF Decided, Steady, Accessing
  <2>3. CASE host' = [host EXCEPT !.high = host.high] /\ Failing(todo)
    <3>1. host' = host
      BY <1>0, <2>3 DEF Host
    <3> QED
      BY <1>e, <2>1, <2>3, <3>1 DEF Failing
  <2> QED
    BY <1>10, <2>2, <2>3, EarWrittenIs
<1>11. CASE Sent
  <2>1. CASE Head(todo).op \notin {"read", "wrdi"} /\ pc' = "poll" /\ todo' = todo
    BY <1>a, <1>11, <2>1, SentIs DEF Decided, Steady, Accessing
  <2>2. CASE Advances \/ Failing(todo)
    BY <1>e, <1>11, <2>2, SentIs DEF Advances, Failing, Steady, Accessing
  <2> QED
    BY <1>11, <2>1, <2>2, SentIs
<1>12. CASE Poll
  BY <1>e, <1>12, PollIs DEF Advances, Failing, Steady, Accessing
<1>13. CASE Release
  BY <1>a, <1>13, ReleaseIs DEF Decided, Steady, Accessing, Finishes
<1>14. CASE FinishQpi
  <2>1. /\ host'.quad = host.quad /\ host'.fourba = host.fourba /\ host'.vqe = host.vqe
        /\ host'.qpi = (res # 0)
    BY <1>0, <1>14, FinishQpiIs DEF Host
  <2>2. \/ pc' = "finishqe" /\ host'.vqe
        \/ pc' = "closed"
    BY <1>14, FinishQpiIs DEF Finishes
  <2>3. pc = "finishqpi" /\ dev' = dev
    BY <1>14, FinishQpiIs
  <2> QED
    BY <1>a, <2>1, <2>2, <2>3 DEF Decided, Steady, Accessing
<1>15. CASE QeRestored
  BY <1>a, <1>15, QeRestoredIs DEF Decided, Steady, Accessing
<1>16. CASE Finished
  BY <1>a, <1>16, FinishedIs DEF Decided, Steady, Accessing
<1>17. ASSUME NEW r \in Requests, Call(r)
       PROVE  Decided'
  BY <1>e, <1>17, CallIs DEF Steady, Accessing
<1>f. ASSUME dev' = dev, host' = host, pc' = pc, todo' = todo
      PROVE  Decided'
  <2>1. /\ NeedsBank(Head(todo))' <=> NeedsBank(Head(todo))
        /\ BankOf(Head(todo))' = BankOf(Head(todo))
    BY <1>f, NeedsBankSame
  <2> QED
    BY <1>a, <1>f, <2>1 DEF Decided
<1>18. CASE Send
  BY <1>f, <1>18, SendIs
<1>19. CASE Settle
  BY <1>f, <1>19, SettleIs
<1> QED
  BY <1>1, <1>2, <1>3, <1>4, <1>5, <1>6, <1>7, <1>8, <1>9, <1>10, <1>11, <1>12, <1>13, <1>14,
     <1>15, <1>16, <1>17, <1>18, <1>19 DEF Next, Program, PrepareIo, Access, FinishIo

-----------------------------------------------------------------------------
(* The pieces that are left                                                *)

LEMMA RestInit ==
  ASSUME Init
  PROVE  Rest
BY DEF Init, Rest, Accessing

LEMMA ProperTail ==
  ASSUME NEW r, NEW s \in Seq(PieceIn), s # <<>>,
         \A i \in 1 .. Len(s) : Proper(r, s[i], i, Len(s))
  PROVE  \A i \in 1 .. Len(Tail(s)) : Proper(r, Tail(s)[i], i, Len(Tail(s)))
<1> DEFINE n == Len(s)
           t == Tail(s)
<1>1. n \in Nat \ {0} /\ Len(t) = n - 1 /\ \A i \in 1 .. n - 1 : t[i] = s[i + 1]
  BY LeftType
<1> HIDE DEF n, t
<1>2. ASSUME NEW i \in 1 .. n - 1
      PROVE  Proper(r, t[i], i, n - 1)
  <2>1. i + 1 \in 1 .. n /\ t[i] = s[i + 1] /\ n - (i + 1) = n - 1 - i /\ (i + 1 = n <=> i = n - 1)
    BY <1>1
  <2>2. Proper(r, t[i], i + 1, n)
    BY <2>1 DEF n
  <2> QED
    BY <2>1, <2>2 DEF Proper
<1> QED
  BY <1>1, <1>2 DEF t

\* An AAI write: its words, and the command that ends it
LEMMA AaiPieces ==
  ASSUME dev \in Devices, NEW r \in Requests, NEW s \in Seq(PieceIn), s # <<>>,
         \A i \in 1 .. Len(s) : Proper(r, s[i], i, Len(s))
  PROVE  /\ r.op = "aai" <=> Head(s).op \in {"aai", "cont", "wrdi"}
         /\ r.op = "aai" => Last(s) = Wrdi
         /\ Head(s).op = "wrdi" => Len(s) = 1
         /\ Head(s).op \in {"aai", "cont"} =>
              /\ Len(s) > 1 /\ Tail(s) # <<>>
              /\ Head(Tail(s)).op = "wrdi" \/ (Head(Tail(s)).op = "cont" /\ Head(Tail(s)).start = Head(s).start + 2)
         /\ r.op \notin {"read", "write", "aai"} => Head(s) = r
         /\ r.op \in {"read", "write"} => Head(s).op = r.op
<1> DEFINE n == Len(s)
           p == Head(s)
<1>1. n \in Nat \ {0} /\ p = s[1] /\ Last(s) = s[n] /\ p \in PieceIn
      /\ Len(Tail(s)) = n - 1 /\ \A i \in 1 .. n - 1 : Tail(s)[i] = s[i + 1]
      /\ Tail(s) \in Seq(PieceIn)
  BY LeftType
<1>2. r.op \in Ops /\ "cont" \notin Ops /\ "wrdi" \notin Ops /\ r.start \in Nat /\ r.len \in Nat
  BY RequestType DEF Ops
<1> HIDE DEF n, p
<1>3. Proper(r, p, 1, n) /\ Proper(r, s[n], n, n)
  BY <1>1 DEF n
<1>4. r.op = "aai" <=> p.op \in {"aai", "cont", "wrdi"}
  <2>1. CASE r.op = "aai"
    BY <1>3, <2>1 DEF Proper, Wrdi
  <2>2. CASE r.op # "aai"
    BY <1>2, <1>3, <2>2 DEF Proper
  <2> QED
    BY <2>1, <2>2
<1>5. r.op = "aai" => s[n] = Wrdi
  BY <1>3 DEF Proper
<1>6. p.op = "wrdi" => n = 1
  BY <1>3, <1>4 DEF Proper
<1>7. ASSUME p.op \in {"aai", "cont"}
      PROVE  n > 1 /\ Tail(s) # <<>>
             /\ (Head(Tail(s)).op = "wrdi" \/ (Head(Tail(s)).op = "cont" /\ Head(Tail(s)).start = p.start + 2))
  <2>1. r.op = "aai" /\ n # 1
    BY <1>3, <1>4, <1>7 DEF Proper, Wrdi
  <2>2. n > 1 /\ 2 \in 1 .. n /\ 1 \in 1 .. n - 1 /\ Len(Tail(s)) > 0
    BY <1>1, <2>1
  <2>3. Tail(s) # <<>> /\ Head(Tail(s)) = Tail(s)[1]
    <3>1. Tail(s) # <<>>
      BY <1>1, <2>2, EmptySeq
    <3> QED
      BY <1>1, <3>1, LeftType
  <2>4. Head(Tail(s)) = s[2]
    BY <1>1, <2>2, <2>3
  <2>5. Proper(r, s[2], 2, n)
    BY <2>2 DEF n
  <2>6. p.start = r.start + r.len - 2 * (n - 1) /\ p.start \in Nat
    BY <1>1, <1>3, <2>1 DEF Proper, PieceIn, PieceRec
  <2>7. CASE n = 2
    BY <1>5, <2>1, <2>2, <2>3, <2>4, <2>7 DEF Wrdi
  <2>8. CASE n # 2
    <3>1. s[2].op = (IF s[2].start = r.start THEN "aai" ELSE "cont") /\ s[2].start = r.start + r.len - 2 * (n - 2)
      BY <2>1, <2>5, <2>8 DEF Proper
    <3>2. s[2].start = p.start + 2
      BY <1>1, <1>2, <2>6, <3>1
    <3>3. p.start >= r.start
      BY <1>3, <2>1 DEF Proper
    <3>4. s[2].op = "cont"
      BY <1>2, <2>6, <3>1, <3>2, <3>3
    <3> QED
      BY <2>2, <2>3, <2>4, <3>2, <3>4
  <2> QED
    BY <2>7, <2>8
<1>8. r.op \notin {"read", "write", "aai"} => p = r
  BY <1>3 DEF Proper
<1>9. r.op \in {"read", "write"} => p.op = r.op
  BY <1>3 DEF Proper
<1> QED
  BY <1>1, <1>4, <1>5, <1>6, <1>7, <1>8, <1>9 DEF n, p

LEMMA RestStep ==
  ASSUME Types, Ordered, Rest, Next
  PROVE  Rest'
<1>0. dev \in Devices /\ todo \in Seq(PieceIn)
  BY DEF Types
<1>1. ASSUME dev' = dev, call' = call, ret' = ret, todo' = todo, pc' \in Accessing => pc \in Accessing
      PROVE  Rest'
  BY <1>1 DEF Rest, Possible, Big, Quad
<1>2. ASSUME pc' \notin Accessing
      PROVE  Rest'
  BY <1>2 DEF Rest
<1>3. ASSUME dev' = dev
      PROVE  \A r : Possible(r)' <=> Possible(r)
  BY <1>3 DEF Possible, Big, Quad
<1>4. ASSUME dev' = dev, call' = call, pc \in Accessing, todo # <<>>, Advances
      PROVE  Rest'
  <2>1. \A i \in 1 .. Len(todo) : Proper(call, todo[i], i, Len(todo))
    BY <1>4 DEF Rest
  <2>2. \A i \in 1 .. Len(Tail(todo)) : Proper(call, Tail(todo)[i], i, Len(Tail(todo)))
    BY <1>0, <1>4, <2>1, ProperTail
  <2>3. ret # 0 => Tail(todo) = <<>>
    <3>1. ret # 0 => Len(todo) = 1
      BY <1>4 DEF Rest
    <3>2. Len(Tail(todo)) = Len(todo) - 1 /\ Tail(todo) \in Seq(PieceIn)
      BY <1>0, <1>4, LeftType
    <3> QED
      BY <3>1, <3>2, EmptySeq
  <2>4. call \in Requests /\ Possible(call)
    BY <1>4 DEF Rest
  <2>5. Possible(call)'
    BY <1>3, <1>4, <2>4
  <2> QED
    BY <1>4, <2>2, <2>3, <2>4, <2>5 DEF Rest, Advances
<1>5. ASSUME dev' = dev, call' = call, pc \in Accessing, todo # <<>>, Failing(todo)
      PROVE  Rest'
  <2>1. CASE pc' = "ready"
    BY <1>2, <2>1 DEF Accessing
  <2>2. CASE Head(todo).op \in {"aai", "cont"} /\ todo' = <<Last(todo)>>
    <3>1. call \in Requests /\ Possible(call) /\ \A i \in 1 .. Len(todo) : Proper(call, todo[i], i, Len(todo))
      BY <1>5 DEF Rest
    <3>2. call.op = "aai" /\ Last(todo) = Wrdi
      BY <1>0, <1>5, <2>2, <3>1, AaiPieces
    <3>3. Proper(call, Wrdi, 1, 1)
      BY <3>2 DEF Proper
    <3>4. Len(<<Wrdi>>) = 1 /\ <<Wrdi>>[1] = Wrdi
      OBVIOUS
    <3>5. todo' = <<Wrdi>>
      BY <2>2, <3>2
    <3>6. \A i \in 1 .. Len(todo') : Proper(call', todo'[i], i, Len(todo'))
      BY <1>5, <3>3, <3>4, <3>5
    <3>7. Possible(call)'
      BY <1>3, <1>5, <3>1
    <3> QED
      BY <1>5, <3>1, <3>2, <3>4, <3>5, <3>6, <3>7 DEF Rest
  <2> QED
    BY <1>5, <2>1, <2>2 DEF Failing
<1>6. CASE Open
  BY <1>2, <1>6, OpenIs DEF Accessing
<1>7. CASE PrepareIo
  <2>1. pc' \notin Accessing
    BY <1>7, EnteredIs, PrepareQuadIs, QeReadIs, QeWrittenIs, QpiEnteredIs, SelectIs, QpiLeftIs
       DEF PrepareIo, Accessing, TriesQpi, Types
  <2> QED
    BY <1>2, <2>1
<1>8. CASE NextPiece
  <2>1. dev' = dev /\ call' = call /\ pc \in Accessing
    BY <1>8, NextPieceIs DEF Accessing
  <2> QED
    BY <1>1, <1>5, <1>8, <2>1, NextPieceIs
<1>9. CASE EarWritten
  <2>1. dev' = dev /\ call' = call /\ pc \in Accessing /\ todo # <<>>
    BY <1>9, EarWrittenIs DEF Accessing, Ordered
  <2> QED
    BY <1>1, <1>5, <1>9, <2>1, EarWrittenIs
<1>10. CASE Sent
  <2>1. dev' = dev /\ call' = call /\ pc \in Accessing /\ todo # <<>>
    BY <1>10, SentIs DEF Accessing, Ordered
  <2> QED
    BY <1>1, <1>4, <1>5, <1>10, <2>1, SentIs
<1>11. CASE Poll
  <2>1. dev' = dev /\ call' = call /\ pc \in Accessing /\ todo # <<>>
    BY <1>11, PollIs DEF Accessing, Ordered
  <2> QED
    BY <1>4, <1>5, <1>11, <2>1, PollIs
<1>12. CASE Release \/ FinishIo
  <2>1. pc' \notin Accessing
    BY <1>12, ReleaseIs, FinishQpiIs, QeRestoredIs, FinishedIs DEF FinishIo, Accessing, Finishes
  <2> QED
    BY <1>2, <2>1
<1>13. ASSUME NEW r \in Requests, Call(r)
       PROVE  Rest'
  <2>1. /\ Possible(r) /\ call' = r /\ todo' = Pieces(r) /\ ret' = 0 /\ dev' = dev
    BY <1>13, CallIs
  <2>2. \A i \in 1 .. Len(Pieces(r)) : Proper(r, Pieces(r)[i], i, Len(Pieces(r)))
    BY <1>0, PiecesProper
  <2>3. Possible(call)'
    <3>1. Possible(r)'
      BY <1>3, <2>1
    <3> QED
      BY <2>1, <3>1
  <2> QED
    BY <2>1, <2>2, <2>3 DEF Rest
<1>14. CASE Send
  BY <1>1, <1>14, SendIs
<1>15. CASE Settle
  BY <1>1, <1>15, SettleIs
<1> QED
  BY <1>6, <1>7, <1>8, <1>9, <1>10, <1>11, <1>12, <1>13, <1>14, <1>15 DEF Next, Program, Access

-----------------------------------------------------------------------------
(* Every command is understood and heard                                   *)

\* The command was made for the modes the program knows of
Suits(c) ==
  /\ (c.io = "qpi") = host.qpi
  /\ c.io \in QuadIo /\ dev.qe => host.qpi \/ (pc \in Steady /\ host.quad /\ Quad)
  /\ c.alen > 0 => pc # "enter4ba" /\ c.alen = IF c.native \/ host.fourba THEN 4 ELSE 3

LEMMA SimpleSuits ==
  ASSUME host \in Host, NEW c, c.io = Io(host), c.alen = 0
  PROVE  Suits(c)
BY HostFields DEF Suits, Io, QuadIo

LEMMA CommandsSuit ==
  ASSUME Types, Ordered, Decided, pc \in Running
  PROVE  Suits(Last1) /\ Suits(Enable)
<1>0. host \in Host /\ dev \in Devices /\ todo \in Seq(PieceIn)
  BY DEF Types
<1>1. \A op : Suits(Plain(op)) /\ \A v : Suits(Value(op, v))
  <2> TAKE op
  <2>1. Plain(op).io = Io(host) /\ Plain(op).alen = 0
    BY DEF Plain, Simple
  <2>2. \A v : Value(op, v).io = Io(host) /\ Value(op, v).alen = 0
    BY DEF Value, Plain, Simple
  <2> QED
    BY <1>0, <2>1, <2>2, SimpleSuits
<1>2. ASSUME pc = "enter4ba"
      PROVE  Suits(Enters) /\ Suits(Single("wren"))
  <2>1. host.qpi = FALSE /\ Io(host) = "single"
    BY <1>0, <1>2, HostFields DEF Decided, Io
  <2>2. Enters.io = Io(host) /\ Enters.alen = 0 /\ Single("wren").io = Io(host) /\ Single("wren").alen = 0
    BY <2>1 DEF Enters, Single, Simple
  <2> QED
    BY <1>0, <2>2, SimpleSuits
<1>3. Suits(Enable)
  BY <1>1, <1>2 DEF Enable, Wren
<1>4. ASSUME pc = "data"
      PROVE  Suits(Carries(Head(todo)))
  <2> DEFINE p == Head(todo)
             c == Carries(p)
  <2>1. CASE p.op \in {"cont", "wrdi", "wipe"}
    <3>1. c.io = Io(host) /\ c.alen = 0
      BY <2>1 DEF Carries, Plain, Simple
    <3> QED
      BY <1>0, <3>1, SimpleSuits
  <2>2. CASE p.op \notin {"cont", "wrdi", "wipe"}
    <3>1. c = WithAddress(p)
      BY <2>2 DEF Carries
    <3>2. c.alen = AddressLength(p) /\ c.native = Native(p)
          /\ c.io = IF p.op = "read" THEN ReadWith.io ELSE Io(host)
      BY <3>1 DEF WithAddress
    <3> HIDE DEF c
    <3>3. pc # "enter4ba" /\ c.alen = IF c.native \/ host.fourba THEN 4 ELSE 3
      BY <1>4, <3>2 DEF AddressLength
    <3>4. host.qpi \in BOOLEAN
      BY <1>0, HostFields
    <3>5. CASE p.op # "read"
      <4>1. c.io = Io(host)
        BY <3>2, <3>5
      <4> QED
        BY <3>3, <3>4, <4>1 DEF Suits, Io, QuadIo, c
    <3>6. CASE p.op = "read" /\ host.fast # <<>>
      <4>1. c.io = Head(host.fast).io
        BY <3>2, <3>6 DEF ReadWith
      <4>2. (Head(host.fast).io = "qpi") = host.qpi /\ (Head(host.fast).io \in QuadIo => host.quad /\ Quad)
            /\ pc \in Steady
        BY <1>4, <3>6 DEF Decided, Steady, Accessing
      <4> QED
        BY <3>3, <4>1, <4>2 DEF Suits, c
    <3>7. CASE p.op = "read" /\ host.fast = <<>>
      <4>1. c.io = "single"
        BY <3>2, <3>7 DEF ReadWith, ReadOp
      <4>2. host.qpi = FALSE
        BY <1>4, <3>4, <3>7 DEF Decided, Steady, Accessing
      <4> QED
        BY <3>3, <4>1, <4>2 DEF Suits, QuadIo, c
    <3> QED
      BY <3>5, <3>6, <3>7
  <2> QED
    BY <2>1, <2>2
<1> QED
  BY <1>1, <1>2, <1>3, <1>4 DEF Last1, Running

LEMMA Heard ==
  ASSUME Types, Ordered, Decided, Modes, cmds # <<>>
  PROVE  Understands(nor, Head(cmds))
<1> DEFINE c == Head(cmds)
<1>1. pc \in Running /\ c \in {Last1, Enable}
  BY CmdsAre
<1>2. Suits(c)
  BY <1>1, CommandsSuit
<1>3. pc # "closed"
  BY <1>1 DEF Running
<1>4. nor.qpi = host.qpi
  BY <1>3 DEF Modes
<1>5. nor.qpi /\ dev.qe => nor.qe
  BY <1>3 DEF Modes
<1>6. pc \in Steady /\ host.quad /\ Quad /\ dev.qe => nor.qe
  BY <1>3 DEF Modes
<1>7. pc # "enter4ba" => nor.fourba = host.fourba
  BY <1>3 DEF Modes
<1> HIDE DEF c
<1>8. (c.io = "qpi") = nor.qpi
  BY <1>2, <1>4 DEF Suits
<1>9. c.io \in QuadIo /\ dev.qe => nor.qe
  BY <1>2, <1>4, <1>5, <1>6 DEF Suits
<1>10. c.alen > 0 => c.alen = IF c.native \/ nor.fourba THEN 4 ELSE 3
  BY <1>2, <1>7 DEF Suits
<1> QED
  BY <1>8, <1>9, <1>10 DEF Understands, c

\* The names of the commands
LEMMA LastOp ==
  ASSUME Types, Ordered, pc \in Running
  PROVE  /\ Enable.op = "wren"
         /\ pc = "enter4ba" => Last1.op = IF dev.enter = "ear7" THEN "ear" ELSE IF dev.master4ba THEN "enter" ELSE "exit"
         /\ pc = "enter4ba" => Last1.value = IF dev.enter = "ear7" /\ dev.master4ba THEN Bit7 ELSE 0
         /\ pc \in {"qeread", "qecheck", "finishqe"} => Last1.op = "rdqe"
         /\ pc = "qewrite" => Last1.op = "wrqe" /\ Last1.value = 1
         /\ pc = "finished" => Last1.op = "wrqe" /\ Last1.value = 0
         /\ pc = "enterqpi" => Last1.op = "qpi"
         /\ pc \in {"leaveqpi", "finishqpi"} => Last1.op = "unqpi"
         /\ pc = "ear" => Last1.op = "ear" /\ Last1.value = BankOf(Head(todo))
         /\ pc = "data" => Last1 = Carries(Head(todo))
<1>1. Enable.op = "wren"
  BY DEF Enable, Single, Wren, Plain, Simple
<1>2. ASSUME pc = "enter4ba"
      PROVE  /\ Last1.op = IF dev.enter = "ear7" THEN "ear" ELSE IF dev.master4ba THEN "enter" ELSE "exit"
             /\ Last1.value = IF dev.enter = "ear7" /\ dev.master4ba THEN Bit7 ELSE 0
  BY <1>2 DEF Last1, Enters, Single, Simple
<1>3. pc \in {"qeread", "qecheck", "finishqe"} => Last1.op = "rdqe"
  BY DEF Last1, Plain, Simple
<1>4. pc = "qewrite" => Last1.op = "wrqe" /\ Last1.value = 1
  BY DEF Last1, Value, Plain, Simple
<1>5. pc = "finished" => Last1.op = "wrqe" /\ Last1.value = 0
  BY DEF Last1, Value, Plain, Simple
<1>6. pc = "enterqpi" => Last1.op = "qpi"
  BY DEF Last1, Plain, Simple
<1>7. pc \in {"leaveqpi", "finishqpi"} => Last1.op = "unqpi"
  BY DEF Last1, Plain, Simple
<1>8. pc = "ear" => Last1.op = "ear" /\ Last1.value = BankOf(Head(todo))
  BY DEF Last1, Value, Plain, Simple
<1>9. pc = "data" => Last1 = Carries(Head(todo))
  BY DEF Last1
<1> QED
  BY <1>1, <1>2, <1>3, <1>4, <1>5, <1>6, <1>7, <1>8, <1>9

LEMMA CarriesOp ==
  ASSUME NEW p
  PROVE  Carries(p).op = CASE p.op = "write" -> "program" [] p.op = "erase4" -> "erase" [] OTHER -> p.op
<1>1. CASE p.op \in {"cont", "wrdi", "wipe"}
  BY <1>1 DEF Carries, Plain, Simple
<1>2. CASE p.op \notin {"cont", "wrdi", "wipe"}
  BY <1>2 DEF Carries, WithAddress
<1> QED
  BY <1>1, <1>2

\* A chip that is given a command is not busy, nor does it increment addresses but for a word of AAI
LEMMA Listens ==
  ASSUME Types, Ordered, Idling, cmds # <<>>
  PROVE  ~nor.busy /\ (nor.aai # NoAai => Head(cmds).op \in {"cont", "wrdi"} /\ pc = "data" /\ cmds = <<Last1>>)
<1>1. pc \in Running
  BY CmdsAre
<1>2. ~nor.busy
  BY <1>1 DEF Idling, Running
<1>3. ASSUME nor.aai # NoAai
      PROVE  Head(cmds).op \in {"cont", "wrdi"} /\ pc = "data" /\ cmds = <<Last1>>
  <2>1. pc = "data" /\ Head(todo).op \in {"cont", "wrdi"}
    BY <1>1, <1>3 DEF Idling, Running
  <2>2. ~Enabled
    BY <2>1 DEF Enabled
  <2>3. Head(cmds) = Last1 /\ cmds = <<Last1>>
    BY <2>2, CmdsAre
  <2>4. Head(cmds) = Carries(Head(todo))
    BY <1>1, <2>1, <2>3, LastOp
  <2>5. Head(cmds).op \in {"cont", "wrdi"}
    BY <2>1, <2>4, CarriesOp
  <2> QED
    BY <2>1, <2>3, <2>5
<1> QED
  BY <1>2, <1>3

\* What a command does to a chip that understands it and listens
LEMMA Obeys ==
  ASSUME NEW n \in Nor, NEW c, Understands(n, c), ~n.busy, n.aai # NoAai => c.op \in {"cont", "wrdi"}
  PROVE  LET o == Obey(n, c)
         IN  /\ c.op = "wren" => o = [n EXCEPT !.wel = TRUE]
             /\ c.op = "wrdi" => o = [n EXCEPT !.wel = FALSE, !.aai = NoAai]
             /\ c.op \in {"enter", "exit"} /\ (dev.enter = "wren" => n.wel) =>
                  o = [n EXCEPT !.fourba = (c.op = "enter"), !.wel = FALSE]
             /\ c.op = "qpi" /\ (dev.qe => n.qe) => o = [n EXCEPT !.qpi = TRUE]
             /\ c.op = "unqpi" => o = [n EXCEPT !.qpi = FALSE]
             /\ c.op = "program" /\ n.wel =>
                  o = [n EXCEPT !.cells = Written(n, c, [i \in DOMAIN c.data |-> WhereInPage(n, c, i - 1)]),
                                !.wel = FALSE, !.busy = TRUE]
             /\ c.op = "erase" /\ n.wel =>
                  o = [n EXCEPT !.cells = Erased(n, BlockAt(Where(n, c, 0), c.len)), !.wel = FALSE, !.busy = TRUE]
             /\ c.op = "wipe" /\ n.wel =>
                  o = [n EXCEPT !.cells = Erased(n, Cells), !.wel = FALSE, !.busy = TRUE]
             /\ c.op = "aai" /\ n.wel =>
                  o = [n EXCEPT !.cells = Written(n, c, [i \in DOMAIN c.data |-> Where(n, c, i - 1)]),
                                !.aai = Where(n, c, 2), !.busy = TRUE]
             /\ c.op = "cont" /\ n.aai # NoAai =>
                  o = [n EXCEPT !.cells = Written(n, c, [i \in DOMAIN c.data |-> (n.aai + i - 1) % dev.size]),
                                !.aai = (n.aai + 2) % dev.size, !.busy = TRUE]
             /\ c.op \in {"rdqe", "read"} => o = n
<1>1. ~(~Understands(n, c)) /\ ~(n.busy \/ (n.aai # NoAai /\ c.op \notin {"cont", "wrdi"}))
  OBVIOUS
<1>2. c.op = "wren" => Obey(n, c) = [n EXCEPT !.wel = TRUE]
  BY <1>1 DEF Obey
<1>3. c.op = "wrdi" => Obey(n, c) = [n EXCEPT !.wel = FALSE, !.aai = NoAai]
  BY <1>1 DEF Obey
<1>4. c.op \in {"enter", "exit"} /\ (dev.enter = "wren" => n.wel) =>
        Obey(n, c) = [n EXCEPT !.fourba = (c.op = "enter"), !.wel = FALSE]
  BY <1>1 DEF Obey
<1>5. c.op = "qpi" /\ (dev.qe => n.qe) => Obey(n, c) = [n EXCEPT !.qpi = TRUE]
  BY <1>1 DEF Obey
<1>6. c.op = "unqpi" => Obey(n, c) = [n EXCEPT !.qpi = FALSE]
  BY <1>1 DEF Obey
<1>9. c.op = "program" /\ n.wel =>
        Obey(n, c) = [n EXCEPT !.cells = Written(n, c, [i \in DOMAIN c.data |-> WhereInPage(n, c, i - 1)]),
                               !.wel = FALSE, !.busy = TRUE]
  BY <1>1 DEF Obey
<1>10. c.op = "erase" /\ n.wel =>
         Obey(n, c) = [n EXCEPT !.cells = Erased(n, BlockAt(Where(n, c, 0), c.len)), !.wel = FALSE, !.busy = TRUE]
  BY <1>1 DEF Obey
<1>11. c.op = "wipe" /\ n.wel =>
         Obey(n, c) = [n EXCEPT !.cells = Erased(n, Cells), !.wel = FALSE, !.busy = TRUE]
  BY <1>1 DEF Obey
<1>12. c.op = "aai" /\ n.wel =>
         Obey(n, c) = [n EXCEPT !.cells = Written(n, c, [i \in DOMAIN c.data |-> Where(n, c, i - 1)]),
                                !.aai = Where(n, c, 2), !.busy = TRUE]
  BY <1>1 DEF Obey
<1>13. c.op = "cont" /\ n.aai # NoAai =>
         Obey(n, c) = [n EXCEPT !.cells = Written(n, c, [i \in DOMAIN c.data |-> (n.aai + i - 1) % dev.size]),
                                !.aai = (n.aai + 2) % dev.size, !.busy = TRUE]
  BY <1>1 DEF Obey
<1>14. c.op \in {"rdqe", "read"} => Obey(n, c) = n
  BY <1>1 DEF Obey
<1> QED
  BY <1>2, <1>3, <1>4, <1>5, <1>6, <1>9, <1>10, <1>11, <1>12, <1>13, <1>14

\* The same for the registers
LEMMA ObeysRegister ==
  ASSUME NEW n \in Nor, NEW c, Understands(n, c), ~n.busy, n.aai = NoAai, n.wel
  PROVE  /\ c.op = "ear" =>
              Obey(n, c) = [n EXCEPT !.ear = c.value % Bit7, !.wel = FALSE,
                                     !.fourba = IF dev.enter = "ear7" THEN c.value >= Bit7 ELSE n.fourba]
         /\ c.op = "wrqe" => Obey(n, c) = [n EXCEPT !.qe = (c.value = 1), !.wel = FALSE]
<1>1. c.op = "ear" =>
        Obey(n, c) = [n EXCEPT !.ear = c.value % Bit7, !.wel = FALSE,
                               !.fourba = IF dev.enter = "ear7" THEN c.value >= Bit7 ELSE n.fourba]
  BY DEF Obey
<1>2. c.op = "wrqe" => Obey(n, c) = [n EXCEPT !.qe = (c.value = 1), !.wel = FALSE]
  BY DEF Obey
<1> QED
  BY <1>1, <1>2

-----------------------------------------------------------------------------
(* What sending a command does                                             *)

Told == Types /\ Ordered /\ Decided /\ Rest /\ Modes /\ Idling

LEMMA EnableDoes ==
  ASSUME Told, cmds # <<>>, Head(cmds) = Enable
  PROVE  Obey(nor, Enable) = [nor EXCEPT !.wel = TRUE]
<1>1. Types /\ Ordered /\ Decided /\ Modes /\ Idling /\ nor \in Nor
  BY DEF Told, Types
<1>2. pc \in Running
  BY <1>1, CmdsAre
<1>3. Enable.op = "wren"
  BY <1>1, <1>2, LastOp
<1>4. Understands(nor, Enable) /\ ~nor.busy /\ nor.aai = NoAai
  BY <1>1, <1>3, Heard, Listens
<1> PICK c : c = Enable
  OBVIOUS
<1> QED
  BY <1>1, <1>3, <1>4, Obeys

\* The command itself
LEMMA LastDoes ==
  ASSUME Told, cmds = <<Last1>>
  PROVE  LET o == Obey(nor, Last1)
         IN  /\ o.garbled = nor.garbled
             /\ pc = "enter4ba" => o.fourba = dev.master4ba /\ (dev.enter = "ear7" => o.ear = 0)
             /\ pc = "ear" => o.ear = BankOf(Head(todo)) /\ o.fourba = nor.fourba
             /\ pc \notin {"enter4ba", "ear"} => o.fourba = nor.fourba /\ o.ear = nor.ear
             /\ pc = "qewrite" => o.qe = TRUE
             /\ pc = "finished" => o.qe = FALSE
             /\ pc \notin {"qewrite", "finished"} => o.qe = nor.qe
             /\ pc = "enterqpi" => o.qpi = TRUE
             /\ pc \in {"leaveqpi", "finishqpi"} => o.qpi = FALSE
             /\ pc \notin {"enterqpi", "leaveqpi", "finishqpi"} => o.qpi = nor.qpi
             /\ pc # "data" => o.busy = nor.busy /\ o.aai = nor.aai
             /\ pc = "data" /\ Head(todo).op \in {"read", "wrdi"} => o.busy = nor.busy
             /\ pc = "data" /\ Head(todo).op = "wrdi" => o.aai = NoAai
             /\ pc = "data" /\ Head(todo).op \notin {"aai", "cont"} => o.aai \in {nor.aai, NoAai}
<1> DEFINE c == Last1
           o == Obey(nor, c)
<1>1. Types /\ Ordered /\ Decided /\ Modes /\ Idling /\ nor \in Nor /\ dev \in Devices
  BY DEF Told, Types
<1>2. cmds # <<>> /\ Head(cmds) = c
  OBVIOUS
<1>3. pc \in Running
  BY <1>1, <1>2, CmdsAre
<1>4. Understands(nor, c)
  BY <1>1, <1>2, Heard
<1>5. ~nor.busy /\ (nor.aai # NoAai => c.op \in {"cont", "wrdi"} /\ pc = "data")
  BY <1>1, <1>2, Listens
<1>6. Enabled => nor.wel
  BY <1>1 DEF Idling
<1>7. /\ pc = "enter4ba" => c.op = (IF dev.enter = "ear7" THEN "ear" ELSE IF dev.master4ba THEN "enter" ELSE "exit")
      /\ pc = "enter4ba" => c.value = IF dev.enter = "ear7" /\ dev.master4ba THEN Bit7 ELSE 0
      /\ pc \in {"qeread", "qecheck", "finishqe"} => c.op = "rdqe"
      /\ pc = "qewrite" => c.op = "wrqe" /\ c.value = 1
      /\ pc = "finished" => c.op = "wrqe" /\ c.value = 0
      /\ pc = "enterqpi" => c.op = "qpi"
      /\ pc \in {"leaveqpi", "finishqpi"} => c.op = "unqpi"
      /\ pc = "ear" => c.op = "ear" /\ c.value = BankOf(Head(todo))
  BY <1>1, <1>3, LastOp
<1>8. pc = "data" => c.op = CASE Head(todo).op = "write" -> "program" [] Head(todo).op = "erase4" -> "erase"
                                [] OTHER -> Head(todo).op
  <2>1. pc = "data" => c = Carries(Head(todo))
    BY <1>1, <1>3, LastOp
  <2> HIDE DEF c
  <2> QED
    BY <2>1, CarriesOp
<1>9. pc = "data" => Head(todo).op \in PieceOps
  <2>1. todo \in Seq(PieceIn) /\ (pc = "data" => todo # <<>>)
    BY <1>1 DEF Types, Ordered
  <2> QED
    BY <2>1, LeftType DEF PieceIn, PieceRec
<1> HIDE DEF c
<1>10. /\ o.garbled = nor.garbled
       /\ c.op \notin {"enter", "exit", "ear"} => o.fourba = nor.fourba
       /\ c.op # "ear" => o.ear = nor.ear
       /\ c.op # "wrqe" => o.qe = nor.qe
       /\ c.op \notin {"qpi", "unqpi"} => o.qpi = nor.qpi
       /\ c.op \notin {"program", "erase", "wipe", "aai", "cont"} => o.busy = nor.busy
       /\ c.op \notin {"wrdi", "aai", "cont"} => o.aai = nor.aai
  BY <1>1, <1>4, ObeyFrame
<1>11. pc = "data" => c.op \in {"program", "erase", "wipe", "aai", "cont", "wrdi", "read"}
  BY <1>8, <1>9 DEF PieceOps, Ops
<1>a. c.op = "wrdi" => o = [nor EXCEPT !.wel = FALSE, !.aai = NoAai]
  BY <1>1, <1>4, <1>5, Obeys
<1>b. c.op \in {"enter", "exit"} /\ (dev.enter = "wren" => nor.wel) => o = [nor EXCEPT !.fourba = (c.op = "enter"), !.wel = FALSE]
  BY <1>1, <1>4, <1>5, Obeys
<1>c. c.op = "qpi" /\ (dev.qe => nor.qe) => o = [nor EXCEPT !.qpi = TRUE]
  BY <1>1, <1>4, <1>5, Obeys
<1>d. c.op = "unqpi" => o = [nor EXCEPT !.qpi = FALSE]
  BY <1>1, <1>4, <1>5, Obeys
<1>e. c.op = "ear" /\ nor.wel =>
        o = [nor EXCEPT !.ear = c.value % Bit7, !.wel = FALSE,
                        !.fourba = IF dev.enter = "ear7" THEN c.value >= Bit7 ELSE nor.fourba]
  <2>1. c.op = "ear" => nor.aai = NoAai
    BY <1>5
  <2> QED
    BY <1>1, <1>4, <1>5, <2>1, ObeysRegister
<1>f. c.op = "wrqe" /\ nor.wel => o = [nor EXCEPT !.qe = (c.value = 1), !.wel = FALSE]
  <2>1. c.op = "wrqe" => nor.aai = NoAai
    BY <1>5
  <2> QED
    BY <1>1, <1>4, <1>5, <2>1, ObeysRegister
<1> HIDE DEF o
<1>12. ASSUME pc = "enter4ba"
       PROVE  o.fourba = dev.master4ba /\ (dev.enter = "ear7" => o.ear = 0)
  <2>1. dev.enter \in {"plain", "wren", "ear7"} /\ dev.master4ba \in BOOLEAN
    BY <1>1, <1>12, DeviceFields DEF Decided
  <2>2. dev.enter # "plain" => nor.wel
    BY <1>6, <1>12 DEF Enabled
  <2>3. CASE dev.enter = "ear7"
    <3>1. c.op = "ear" /\ nor.wel /\ c.value = (IF dev.master4ba THEN 128 ELSE 0)
      BY <1>7, <1>12, <2>2, <2>3 DEF Bit7
    <3>2. c.value % Bit7 = 0 /\ (c.value >= Bit7 <=> dev.master4ba)
      BY <2>1, <3>1 DEF Bit7
    <3>3. (c.value >= Bit7) = dev.master4ba
      BY <2>1, <3>2
    <3>4. o = [nor EXCEPT !.ear = 0, !.wel = FALSE, !.fourba = dev.master4ba]
      BY <1>e, <2>3, <3>1, <3>2, <3>3
    <3> QED
      BY <1>1, <3>4 DEF Nor
  <2>4. CASE dev.enter # "ear7"
    <3>1. c.op = (IF dev.master4ba THEN "enter" ELSE "exit") /\ (dev.enter = "wren" => nor.wel)
      BY <1>7, <1>12, <2>2, <2>4
    <3>2. (c.op = "enter") = dev.master4ba
      BY <2>1, <3>1
    <3>3. o = [nor EXCEPT !.fourba = dev.master4ba, !.wel = FALSE]
      BY <1>b, <3>1, <3>2
    <3> QED
      BY <1>1, <2>4, <3>3 DEF Nor
  <2> QED
    BY <2>3, <2>4
<1>13. ASSUME pc = "ear"
       PROVE  o.ear = BankOf(Head(todo)) /\ o.fourba = nor.fourba
  <2>1. c.op = "ear" /\ c.value = BankOf(Head(todo)) /\ nor.wel
    BY <1>6, <1>7, <1>13 DEF Enabled
  <2>2. NeedsBank(Head(todo)) /\ todo # <<>> /\ todo \in Seq(PieceIn)
    BY <1>1, <1>13 DEF Decided, Ordered, Types
  <2>3. BankOf(Head(todo)) \in 0 .. 127
    BY <1>1, <2>2, LeftType, BankRange
  <2>4. host.fourba = FALSE /\ nor.fourba = host.fourba
    <3>1. host.fourba \in BOOLEAN
      BY <1>1, HostFields DEF Types
    <3>2. nor.fourba = host.fourba
      BY <1>1, <1>13 DEF Modes
    <3> QED
      BY <2>2, <3>1, <3>2 DEF NeedsBank, AddressLength
  <2>5. c.value % Bit7 = c.value /\ ~(c.value >= Bit7)
    BY <2>1, <2>3 DEF Bit7
  <2>6. (c.value >= Bit7) = FALSE
    BY <2>5
  <2>7. o = [nor EXCEPT !.ear = c.value, !.wel = FALSE, !.fourba = nor.fourba]
    BY <1>e, <2>1, <2>4, <2>5, <2>6
  <2> QED
    BY <1>1, <2>1, <2>7 DEF Nor
<1>14. pc \notin {"enter4ba", "ear"} => c.op \notin {"enter", "exit", "ear"}
  BY <1>3, <1>7, <1>11 DEF Running
<1>15. ASSUME pc \in {"qewrite", "finished"}
       PROVE  o.qe = (pc = "qewrite")
  <2>1. c.op = "wrqe" /\ nor.wel
    BY <1>6, <1>7, <1>15 DEF Enabled
  <2>2. (c.value = 1) = (pc = "qewrite")
    BY <1>7, <1>15
  <2>3. o = [nor EXCEPT !.qe = (pc = "qewrite"), !.wel = FALSE]
    BY <1>f, <2>1, <2>2
  <2> QED
    BY <1>1, <2>3 DEF Nor
<1>16. pc \notin {"qewrite", "finished"} => c.op # "wrqe"
  BY <1>3, <1>7, <1>11 DEF Running
<1>17. ASSUME pc = "enterqpi"
       PROVE  o.qpi = TRUE
  <2>1. dev.qe => nor.qe
    <3>1. "qpi" \in dev.masterIo /\ host.quad
      BY <1>1, <1>17 DEF Decided
    <3>2. Quad
      BY <3>1 DEF Quad, QuadIo
    <3> QED
      BY <1>1, <1>17, <3>1, <3>2 DEF Modes
  <2> QED
    BY <1>1, <1>7, <1>17, <1>c, <2>1 DEF Nor
<1>18. pc \in {"leaveqpi", "finishqpi"} => o.qpi = FALSE
  BY <1>1, <1>7, <1>d DEF Nor
<1>19. pc \notin {"enterqpi", "leaveqpi", "finishqpi"} => c.op \notin {"qpi", "unqpi"}
  BY <1>3, <1>7, <1>11 DEF Running
<1>20. pc # "data" => c.op \notin {"program", "erase", "wipe", "aai", "cont", "wrdi"}
  BY <1>3, <1>7 DEF Running
<1>21. pc = "data" /\ Head(todo).op \in {"read", "wrdi"} => c.op \in {"read", "wrdi"}
  BY <1>8
<1>22. pc = "data" /\ Head(todo).op = "wrdi" => o.aai = NoAai
  BY <1>1, <1>8, <1>a DEF Nor
<1>23. pc = "data" /\ Head(todo).op \notin {"aai", "cont"} => o.aai \in {nor.aai, NoAai}
  <2>1. pc = "data" /\ Head(todo).op \notin {"aai", "cont", "wrdi"} => c.op \notin {"wrdi", "aai", "cont"}
    BY <1>8
  <2> QED
    BY <1>10, <1>22, <2>1
<1>24. (pc = "qewrite" => o.qe = TRUE) /\ (pc = "finished" => o.qe = FALSE)
  BY <1>15
<1>25. pc \notin {"enter4ba", "ear"} => o.fourba = nor.fourba /\ o.ear = nor.ear
  BY <1>10, <1>14
<1>26. pc \notin {"qewrite", "finished"} => o.qe = nor.qe
  BY <1>10, <1>16
<1>27. pc \notin {"enterqpi", "leaveqpi", "finishqpi"} => o.qpi = nor.qpi
  BY <1>10, <1>19
<1>28. pc # "data" => o.busy = nor.busy /\ o.aai = nor.aai
  BY <1>10, <1>20
<1>29. pc = "data" /\ Head(todo).op \in {"read", "wrdi"} => o.busy = nor.busy
  BY <1>10, <1>21
<1> QED
  BY <1>10, <1>12, <1>13, <1>17, <1>18, <1>22, <1>23, <1>24, <1>25, <1>26, <1>27, <1>28, <1>29 DEF o, c

\* What sending comes to while the chip is where the program takes it to be
SentEnable == Enabled /\ cmds = <<Enable, Last1>> /\ cmds' = <<Last1>> /\ res' = 0 /\ reg' = reg /\ got' = got
              /\ nor' = [nor EXCEPT !.wel = TRUE]
SentLast == /\ cmds = <<Last1>> /\ cmds' = <<>> /\ res' = 0 /\ nor' = Obey(nor, Last1)
            /\ reg' = (IF Last1.op = "rdqe" THEN nor.qe ELSE reg)
            /\ got' = (IF Last1.op = "read" THEN got \o Answer(nor, Last1) ELSE got)
LostOne == /\ faults' = faults + 1 /\ cmds' = <<>> /\ res' = 1 /\ reg' = reg /\ got' = got
           /\ nor' = nor \/ nor' = [nor EXCEPT !.wel = TRUE]
           /\ cmds = <<Last1>> => Last1.op # "wrdi"
DoneAnyway == /\ faults' = faults + 1 /\ cmds = <<Last1>> /\ cmds' = <<>> /\ res' = 1 /\ reg' = reg /\ got' = got
              /\ nor' = Obey(nor, Last1) /\ Last1.op \notin ModeOps

LEMMA SendOutcome ==
  ASSUME Told, Send, ~astray'
  PROVE  /\ pc \in Running /\ cmds # <<>>
         /\ SentEnable \/ SentLast \/ LostOne \/ DoneAnyway
<1>1. cmds # <<>> /\ Types /\ Ordered
  BY SendIs DEF Told
<1>2. /\ pc \in Running
      /\ \/ cmds = <<Last1>> /\ Head(cmds) = Last1 /\ Tail(cmds) = <<>>
         \/ Enabled /\ cmds = <<Enable, Last1>> /\ Head(cmds) = Enable /\ Tail(cmds) = <<Last1>>
  BY <1>1, CmdsAre
<1>3. Enable.op = "wren"
  BY <1>1, <1>2, LastOp
<1> DEFINE c == Head(cmds)
           Well == /\ nor' = Obey(nor, c) /\ cmds' = Tail(cmds) /\ res' = 0
                   /\ reg' = (IF c.op = "rdqe" THEN nor.qe ELSE reg)
                   /\ got' = (IF c.op = "read" THEN got \o Answer(nor, c) ELSE got)
           Ill == faults' = faults + 1 /\ cmds' = <<>> /\ res' = 1 /\ reg' = reg /\ got' = got
           Never == Ill /\ nor' = nor /\ c.op # "wrdi"
           Still == Ill /\ nor' = Obey(nor, c) /\ c.op \notin ModeOps
<1>6. Well \/ Never \/ Still
  <2>1. ASSUME NEW a, NEW x, a = (astray \/ x), ~a
        PROVE  ~x
    BY <2>1
  <2>2. astray' = (astray \/ Head(cmds).op = "wrdi") => Head(cmds).op # "wrdi"
    BY <2>1
  <2>3. astray' = (astray \/ Head(cmds).op \in ModeOps) => Head(cmds).op \notin ModeOps
    BY <2>1
  <2> QED
    BY <2>2, <2>3, SendIs
<1>4. CASE cmds = <<Last1>> /\ Head(cmds) = Last1 /\ Tail(cmds) = <<>>
  <2>1. CASE Well
    BY <1>1, <1>2, <1>4, <2>1 DEF SentLast
  <2>2. CASE Never
    BY <1>1, <1>2, <1>4, <2>2 DEF LostOne
  <2>3. CASE Still
    BY <1>1, <1>2, <1>4, <2>3 DEF DoneAnyway
  <2> QED
    BY <1>1, <1>2, <1>6, <2>1, <2>2, <2>3
<1>5. CASE Enabled /\ cmds = <<Enable, Last1>> /\ Head(cmds) = Enable /\ Tail(cmds) = <<Last1>>
  <2>1. Obey(nor, Head(cmds)) = [nor EXCEPT !.wel = TRUE]
    BY <1>1, <1>5, EnableDoes
  <2>2. Head(cmds).op = "wren"
    BY <1>3, <1>5
  <2>3. cmds # <<Last1>>
    <3>1. Len(<<Enable, Last1>>) = 2 /\ Len(<<Last1>>) = 1
      OBVIOUS
    <3> QED
      BY <1>5, <3>1
  <2>4. CASE Well
    <3>1. c.op \notin {"rdqe", "read"}
      BY <2>2
    <3> QED
      BY <1>1, <1>2, <1>5, <2>1, <2>4, <3>1 DEF SentEnable
  <2>5. CASE Never \/ Still
    BY <1>1, <1>2, <1>5, <2>1, <2>3, <2>5 DEF LostOne
  <2> QED
    BY <1>1, <1>2, <1>6, <2>4, <2>5
<1> QED
  BY <1>1, <1>2, <1>4, <1>5

-----------------------------------------------------------------------------
(* The modes                                                               *)

LEMMA ModesInit ==
  ASSUME Init
  PROVE  Modes
BY DEF Init, Modes

\* A step in which the modes of the chip stay as they are
ModesSame ==
  /\ nor'.garbled = nor.garbled /\ nor'.fourba = nor.fourba /\ nor'.ear = nor.ear
  /\ nor'.qe = nor.qe /\ nor'.qpi = nor.qpi

LEMMA ModesSend ==
  ASSUME Told, Send, ~astray'
  PROVE  Modes'
<1>0. /\ dev' = dev /\ host' = host /\ pc' = pc /\ todo' = todo
      /\ pc \in Running /\ cmds # <<>>
      /\ nor \in Nor /\ host \in Host /\ dev \in Devices
  BY SendIs, SendOutcome DEF Told, Types
<1>1. /\ Quad' <=> Quad
      /\ BankOf(Head(todo))' = BankOf(Head(todo))
  BY <1>0 DEF Quad, BankOf
<1>2. Modes /\ Decided /\ pc # "closed" /\ nor.qpi = host.qpi
  BY <1>0 DEF Told, Running, Modes
<1>a. ASSUME ModesSame, cmds' # <<>>
      PROVE  Modes'
  BY <1>0, <1>1, <1>2, <1>a DEF Modes, ModesSame
<1>b. ASSUME ModesSame, cmds' = <<>>, res' = 1
      PROVE  Modes'
  <2>1. pc = "ear" => ~host.fourba
    BY <1>2 DEF Decided, NeedsBank, AddressLength
  <2>2. pc \in {"leaveqpi", "finishqpi"} => host.qpi = TRUE
    BY <1>0, <1>2, HostFields DEF Decided
  <2>3. pc = "enterqpi" => host.qpi = FALSE
    BY <1>0, <1>2, HostFields DEF Decided
  <2>4. nor'.qpi = host.qpi /\ (res' = 0) = FALSE /\ (res' # 0) = TRUE
    BY <1>2, <1>b DEF ModesSame
  <2>5. ~nor'.garbled /\ (nor'.fourba => dev.enter # "none")
    BY <1>2, <1>b DEF Modes, ModesSame
  <2>6. /\ pc = "enterqpi" => nor'.qpi = (res' = 0)
        /\ pc \in {"leaveqpi", "finishqpi"} => nor'.qpi = (res' # 0)
    BY <2>2, <2>3, <2>4
  <2>7. nor'.qpi /\ dev.qe => nor'.qe
    BY <1>0, <1>2, <1>b DEF Modes, ModesSame
  <2>8. pc # "enter4ba" => nor'.fourba = host.fourba
    BY <1>2, <1>b DEF Modes, ModesSame
  <2>9. ~host.fourba /\ host.high # -1 => nor'.ear = host.high
    BY <1>0, <1>2, <1>b DEF Modes, ModesSame
  <2>10. pc \in Steady \cup {"enterqpi", "select", "leaveqpi"} /\ host.quad /\ Quad /\ dev.qe => nor'.qe
    BY <1>2, <1>b DEF Modes, ModesSame
  <2> QED
    BY <1>0, <1>1, <1>b, <2>1, <2>4, <2>5, <2>6, <2>7, <2>8, <2>9, <2>10 DEF Modes
<1>3. CASE SentEnable
  <2>1. ModesSame
    BY <1>0, <1>3 DEF SentEnable, ModesSame, Nor
  <2>2. cmds' # <<>>
    BY <1>3 DEF SentEnable
  <2> QED
    BY <1>a, <2>1, <2>2
<1>4. CASE LostOne
  <2>1. ModesSame
    BY <1>0, <1>4 DEF LostOne, ModesSame, Nor
  <2> QED
    BY <1>b, <1>4, <2>1 DEF LostOne
<1>5. CASE SentLast \/ DoneAnyway
  <2> PICK o : o = Obey(nor, Last1)
    OBVIOUS
  <2>1. nor' = o /\ cmds = <<Last1>> /\ cmds' = <<>>
    BY <1>5 DEF SentLast, DoneAnyway
  <2>2. /\ o.garbled = nor.garbled
        /\ pc = "enter4ba" => o.fourba = dev.master4ba /\ (dev.enter = "ear7" => o.ear = 0)
        /\ pc = "ear" => o.ear = BankOf(Head(todo)) /\ o.fourba = nor.fourba
        /\ pc \notin {"enter4ba", "ear"} => o.fourba = nor.fourba /\ o.ear = nor.ear
        /\ pc = "qewrite" => o.qe = TRUE
        /\ pc = "finished" => o.qe = FALSE
        /\ pc \notin {"qewrite", "finished"} => o.qe = nor.qe
        /\ pc = "enterqpi" => o.qpi = TRUE
        /\ pc \in {"leaveqpi", "finishqpi"} => o.qpi = FALSE
        /\ pc \notin {"enterqpi", "leaveqpi", "finishqpi"} => o.qpi = nor.qpi
    BY <2>1, LastDoes
  <2>3. /\ pc \in {"qeread", "qecheck"} => Last1.op = "rdqe"
        /\ pc = "enterqpi" => Last1.op = "qpi"
        /\ pc \in {"leaveqpi", "finishqpi"} => Last1.op = "unqpi"
        /\ pc = "ear" => Last1.op = "ear"
    BY <1>0, LastOp DEF Told
  <2>4. (res' = 0 /\ reg' = (IF Last1.op = "rdqe" THEN nor.qe ELSE reg)) \/ (res' = 1 /\ Last1.op \notin ModeOps)
    BY <1>5 DEF SentLast, DoneAnyway
  <2>5. /\ pc = "enter4ba" => dev.enter # "none" /\ host.high = -1 /\ ~host.fourba /\ ~host.qpi
        /\ pc = "qewrite" => ~host.qpi
        /\ pc = "ear" => ~host.fourba
    BY <1>2 DEF Decided, NeedsBank, AddressLength
  <2>6. ~o.garbled /\ (o.fourba => dev.enter # "none")
    <3>1. pc \notin {"enter4ba"} => o.fourba = nor.fourba
      BY <2>2
    <3> QED
      BY <1>2, <2>2, <2>5, <3>1 DEF Modes
  <2>7. /\ pc \notin {"enterqpi", "leaveqpi", "finishqpi"} => o.qpi = host.qpi
        /\ pc = "enterqpi" => o.qpi = (res' = 0)
        /\ pc \in {"leaveqpi", "finishqpi"} => o.qpi = (res' # 0)
    BY <1>2, <2>2, <2>3, <2>4 DEF ModeOps
  <2>8. o.qpi /\ dev.qe /\ pc # "finished" => o.qe
    <3>1. CASE pc = "enterqpi"
      <4>1. "qpi" \in dev.masterIo /\ host.quad
        BY <1>2, <3>1 DEF Decided
      <4>2. Quad
        BY <4>1 DEF Quad, QuadIo
      <4> QED
        BY <1>2, <2>2, <3>1, <4>1, <4>2 DEF Modes
    <3>2. CASE pc \in {"leaveqpi", "finishqpi"}
      BY <2>2, <3>2
    <3>3. CASE pc = "qewrite"
      BY <2>2, <3>3
    <3>4. CASE pc \notin {"enterqpi", "leaveqpi", "finishqpi", "qewrite", "finished"}
      BY <1>2, <2>2, <3>4 DEF Modes
    <3> QED
      BY <3>1, <3>2, <3>3, <3>4
  <2>9. /\ pc # "enter4ba" => o.fourba = host.fourba
        /\ pc = "enter4ba" /\ res' = 0 => o.fourba = dev.master4ba /\ (dev.enter = "ear7" => o.ear = 0)
    BY <1>2, <2>2 DEF Modes
  <2>10. /\ ~host.fourba /\ host.high # -1 /\ pc # "ear" => o.ear = host.high
         /\ pc = "ear" => IF res' = 0 THEN o.ear = BankOf(Head(todo)) ELSE host.high # -1 => o.ear = host.high
    BY <1>0, <1>2, <2>2, <2>3, <2>4, <2>5 DEF Modes, ModeOps
  <2>11. pc \in {"qeread", "qecheck"} /\ res' = 0 => reg' = o.qe
    BY <2>2, <2>3, <2>4
  <2>12. pc \in Steady \cup {"enterqpi", "select", "leaveqpi"} /\ host.quad /\ Quad /\ dev.qe => o.qe
    BY <1>2, <2>2 DEF Modes, Steady, Accessing
  <2> QED
    BY <1>0, <1>1, <2>1, <2>6, <2>7, <2>8, <2>9, <2>10, <2>11, <2>12 DEF Modes
<1> QED
  BY <1>3, <1>4, <1>5, SendOutcome

\* What is known to be set before quad I/O is used
Sets == Steady \cup {"enterqpi", "select", "leaveqpi"}
\* Where the outcome of a command is not known to the host yet
Awaiting == {"enter4ba", "qeread", "qecheck", "enterqpi", "leaveqpi", "finishqpi", "ear"}

\* A step that learns nothing of the modes
LEMMA ModesKept ==
  ASSUME nor \in Nor, Modes, ModesSame, dev' = dev, host' = host,
         pc \notin {"closed", "enter4ba", "finished"}, pc' # "enter4ba",
         pc \in {"enterqpi", "leaveqpi", "finishqpi", "ear"} => cmds # <<>>,
         pc' \in Awaiting => cmds' # <<>>,
         pc' \in Sets => pc \in Sets \/ ~(host.quad /\ Quad /\ dev.qe)
  PROVE  Modes'
<1>1. Quad' <=> Quad
  BY DEF Quad
<1>2. /\ ~nor.garbled /\ (nor.fourba => dev.enter # "none")
      /\ nor.qpi = host.qpi /\ (nor.qpi /\ dev.qe => nor.qe) /\ nor.fourba = host.fourba
      /\ ~host.fourba /\ host.high # -1 => nor.ear = host.high
      /\ pc \in Sets /\ host.quad /\ Quad /\ dev.qe => nor.qe
  BY DEF Modes, Sets
<1>3. pc' \notin {"enterqpi", "leaveqpi", "finishqpi", "ear", "qeread", "qecheck", "enter4ba"} \/ cmds' # <<>>
  BY DEF Awaiting
<1>4. pc' \in Sets /\ host.quad /\ Quad /\ dev.qe => nor.qe
  BY <1>2
<1> QED
  BY <1>1, <1>2, <1>3, <1>4 DEF Modes, ModesSame, Sets

LEMMA ModesClosed ==
  ASSUME Modes, nor' = nor, dev' = dev, pc' = "closed"
  PROVE  Modes'
BY DEF Modes

LEMMA TriesEither ==
  ASSUME NEW quad, TriesQpi(quad)
  PROVE  pc' = "select" \/ (pc' = "enterqpi" /\ cmds' # <<>>)
<1>1. CASE pc' = "enterqpi" /\ cmds' = <<Plain("qpi")>>
  BY <1>1
<1>2. CASE pc' = "select"
  BY <1>2
<1> QED
  BY <1>1, <1>2 DEF TriesQpi

LEMMA ModesPrepare ==
  ASSUME Told, Open \/ PrepareIo
  PROVE  Modes'
<1>0. /\ nor \in Nor /\ host \in Host /\ dev \in Devices /\ Modes /\ Decided /\ faults \in Nat /\ res \in 0 .. 1
      /\ reg \in BOOLEAN
  BY DEF Told, Types
<1>1. /\ nor.fourba \in BOOLEAN /\ nor.qpi \in BOOLEAN /\ nor.qe \in BOOLEAN
      /\ dev.master4ba \in BOOLEAN /\ dev.enter \in {"none", "plain", "wren", "ear7"}
  BY <1>0, DeviceFields DEF Nor
<1>a. dev' = dev => (Quad' <=> Quad)
  BY DEF Quad
<1>b. nor' = nor => ModesSame
  BY DEF ModesSame
<1>2. CASE Open
  <2>1. nor' = nor /\ dev' = dev /\ ~nor.qpi /\ nor.qpi = FALSE
    BY <1>1, <1>2, OpenIs
  <2>2. host'.fourba = FALSE /\ host'.high = -1 /\ host'.qpi = FALSE
    BY <1>2, OpenIs DEF FreshHost
  <2>3. CASE pc' = "closed"
    BY <1>0, <2>1, <2>3, ModesClosed
  <2>4. CASE dev.enter = "none" /\ pc' = "quad"
    <3>1. nor.fourba = FALSE
      BY <1>0, <1>1, <2>4 DEF Modes
    <3> QED
      BY <1>0, <2>1, <2>2, <2>4, <3>1 DEF Modes, Steady, Accessing
  <2>5. CASE dev.enter # "none" /\ pc' = "enter4ba" /\ cmds' = EnterExit(dev.master4ba)
    <3>1. cmds' # <<>>
      BY <1>1, <2>5 DEF EnterExit
    <3> QED
      BY <1>0, <2>1, <2>2, <2>5, <3>1 DEF Modes, Steady, Accessing
  <2> QED
    BY <1>2, <2>3, <2>4, <2>5, OpenIs
<1>3. CASE Entered
  <2>1. nor' = nor /\ dev' = dev /\ pc = "enter4ba" /\ cmds = <<>>
    BY <1>3, EnteredIs
  <2>2. CASE pc' = "closed"
    BY <1>0, <2>1, <2>2, ModesClosed
  <2>3. CASE /\ res = 0 /\ pc' = "quad"
             /\ host' = [host EXCEPT !.fourba = dev.master4ba,
                           !.high = IF dev.enter # "ear7" THEN -1
                                    ELSE IF dev.master4ba THEN Bit7 ELSE 0]
    <3>1. /\ host'.fourba = dev.master4ba /\ host'.qpi = host.qpi
          /\ host'.high = IF dev.enter # "ear7" THEN -1 ELSE IF dev.master4ba THEN Bit7 ELSE 0
      BY <1>0, <2>3 DEF Host
    <3>2. nor.fourba = dev.master4ba /\ (dev.enter = "ear7" => nor.ear = 0) /\ nor.qpi = host.qpi
      BY <1>0, <2>1, <2>3 DEF Modes
    <3> QED
      BY <1>0, <2>1, <2>3, <3>1, <3>2 DEF Modes, Steady, Accessing
  <2> QED
    BY <1>3, <2>2, <2>3, EnteredIs
<1>4. CASE PrepareQuad
  <2>1. /\ nor' = nor /\ dev' = dev /\ host' = host /\ pc = "quad"
        /\ \/ ~Quad /\ pc' = "select"
           \/ pc' = "qeread" /\ cmds' # <<>>
           \/ ~dev.qe /\ (pc' = "select" \/ (pc' = "enterqpi" /\ cmds' # <<>>))
    <3>1. CASE ~Quad /\ pc' = "select"
      BY <1>4, <3>1, PrepareQuadIs
    <3>2. CASE pc' = "qeread" /\ cmds' = <<Plain("rdqe")>>
      <4>1. <<Plain("rdqe")>> # <<>>
        OBVIOUS
      <4> QED
        BY <1>4, <3>2, <4>1, PrepareQuadIs
    <3>3. CASE ~dev.qe /\ TriesQpi(TRUE)
      BY <1>4, <3>3, PrepareQuadIs, TriesEither
    <3> QED
      BY <1>4, <3>1, <3>2, <3>3, PrepareQuadIs
  <2> QED
    BY <1>0, <1>b, <2>1, ModesKept DEF Awaiting, Sets, Steady, Accessing
<1>5. CASE QeRead
  <2>1. nor' = nor /\ dev' = dev /\ pc \in {"qeread", "qecheck"} /\ cmds = <<>>
    BY <1>5, QeReadIs
  <2>2. nor.qpi = host.qpi /\ nor.fourba = host.fourba /\ (res = 0 => reg = nor.qe)
        /\ (~host.fourba /\ host.high # -1 => nor.ear = host.high)
    BY <1>0, <2>1 DEF Modes
  <2>3. CASE res = 0 /\ reg /\ TriesQpi(TRUE) /\ host' = [host EXCEPT !.vqe = (pc = "qecheck")]
    <3>1. host'.qpi = host.qpi /\ host'.fourba = host.fourba /\ host'.high = host.high
      BY <1>0, <2>3 DEF Host
    <3>2. nor.qe
      BY <2>2, <2>3
    <3>3. pc' = "select" \/ (pc' = "enterqpi" /\ cmds' # <<>>)
      BY <2>3, TriesEither
    <3> QED
      BY <1>0, <2>1, <2>2, <3>1, <3>2, <3>3 DEF Modes, Steady, Accessing
  <2>4. CASE host' = host /\ pc' = "qewrite" /\ cmds' = <<Wren, Value("wrqe", 1)>>
    BY <1>0, <1>b, <2>1, <2>4, ModesKept DEF Awaiting, Sets, Steady, Accessing
  <2>5. CASE pc' = "select" /\ host' = [host EXCEPT !.quad = FALSE]
    <3>1. host'.qpi = host.qpi /\ host'.fourba = host.fourba /\ host'.high = host.high /\ host'.quad = FALSE
      BY <1>0, <2>5 DEF Host
    <3> QED
      BY <1>0, <2>1, <2>2, <2>5, <3>1 DEF Modes, Steady, Accessing
  <2> QED
    BY <1>5, <2>3, <2>4, <2>5, QeReadIs
<1>6. CASE QeWritten
  <2>1. nor' = nor /\ dev' = dev /\ pc = "qewrite"
    BY <1>6, QeWrittenIs
  <2>2. nor.qpi = host.qpi /\ nor.fourba = host.fourba
        /\ (~host.fourba /\ host.high # -1 => nor.ear = host.high)
    BY <1>0, <2>1 DEF Modes
  <2>3. CASE pc' = "qecheck" /\ cmds' = <<Plain("rdqe")>> /\ host' = host
    BY <1>0, <1>b, <2>1, <2>3, ModesKept DEF Awaiting, Sets, Steady, Accessing
  <2>4. CASE pc' = "select" /\ host' = [host EXCEPT !.quad = FALSE]
    <3>1. host'.qpi = host.qpi /\ host'.fourba = host.fourba /\ host'.high = host.high /\ host'.quad = FALSE
      BY <1>0, <2>4 DEF Host
    <3> QED
      BY <1>0, <2>1, <2>2, <2>4, <3>1 DEF Modes, Steady, Accessing
  <2> QED
    BY <1>6, <2>3, <2>4, QeWrittenIs
<1>7. CASE QpiEntered
  <2>1. nor' = nor /\ dev' = dev /\ pc = "enterqpi" /\ cmds = <<>> /\ pc' = "select"
    BY <1>7, QpiEnteredIs
  <2>2. /\ nor.qpi = (res = 0) /\ nor.fourba = host.fourba /\ (nor.qpi /\ dev.qe => nor.qe)
        /\ (~host.fourba /\ host.high # -1 => nor.ear = host.high)
        /\ (host.quad /\ Quad /\ dev.qe => nor.qe)
    BY <1>0, <2>1 DEF Modes
  <2>3. host'.qpi = (res = 0) /\ host'.fourba = host.fourba /\ host'.high = host.high /\ host'.quad = host.quad
    BY <1>0, <1>7, QpiEnteredIs DEF Host
  <2> QED
    BY <1>0, <1>a, <2>1, <2>2, <2>3 DEF Modes, Steady, Accessing
<1>8. CASE Select
  <2>1. nor' = nor /\ dev' = dev /\ pc = "select" /\ (pc' = "ready" \/ (pc' = "leaveqpi" /\ cmds' # <<>>))
    <3>1. pc' = "ready" \/ (pc' = "leaveqpi" /\ cmds' = <<Plain("unqpi")>>)
      BY <1>0, <1>8, SelectIs
    <3>2. <<Plain("unqpi")>> # <<>>
      OBVIOUS
    <3> QED
      BY <1>0, <1>8, <3>1, <3>2, SelectIs
  <2>2. /\ nor.qpi = host.qpi /\ nor.fourba = host.fourba /\ (nor.qpi /\ dev.qe => nor.qe)
        /\ (~host.fourba /\ host.high # -1 => nor.ear = host.high)
        /\ (host.quad /\ Quad /\ dev.qe => nor.qe)
    BY <1>0, <2>1 DEF Modes
  <2>3. host'.qpi = host.qpi /\ host'.fourba = host.fourba /\ host'.high = host.high /\ host'.quad = host.quad
    BY <1>0, <1>8, SelectIs DEF Host, Chooses
  <2> QED
    BY <1>0, <1>a, <2>1, <2>2, <2>3 DEF Modes, Steady, Accessing
<1>9. CASE QpiLeft
  <2>1. nor' = nor /\ dev' = dev /\ pc = "leaveqpi" /\ cmds = <<>>
    BY <1>9, QpiLeftIs
  <2>2. CASE pc' = "closed"
    BY <1>0, <2>1, <2>2, ModesClosed
  <2>3. CASE res = 0 /\ Chooses([host EXCEPT !.qpi = FALSE]) /\ pc' = "ready"
    <3>1. /\ nor.qpi = (res # 0) /\ nor.fourba = host.fourba /\ (nor.qpi /\ dev.qe => nor.qe)
          /\ (~host.fourba /\ host.high # -1 => nor.ear = host.high)
          /\ (host.quad /\ Quad /\ dev.qe => nor.qe)
      BY <1>0, <2>1 DEF Modes
    <3>2. host'.qpi = FALSE /\ host'.fourba = host.fourba /\ host'.high = host.high /\ host'.quad = host.quad
      BY <1>0, <2>3 DEF Host, Chooses
    <3>3. nor.qpi = FALSE
      BY <2>3, <3>1
    <3> QED
      BY <1>0, <1>a, <2>1, <2>3, <3>1, <3>2, <3>3 DEF Modes, Steady, Accessing
  <2> QED
    BY <1>9, <2>2, <2>3, QpiLeftIs
<1> QED
  BY <1>2, <1>3, <1>4, <1>5, <1>6, <1>7, <1>8, <1>9 DEF PrepareIo

LEMMA ModesAccess ==
  ASSUME Told, NextPiece \/ EarWritten \/ Sent \/ Poll \/ (\E r \in Requests : Call(r)), ~astray'
  PROVE  Modes'
<1>0. nor \in Nor /\ host \in Host /\ Modes /\ Decided
  BY DEF Told, Types
<1>b. nor' = nor => ModesSame
  BY DEF ModesSame
<1>c. ASSUME nor' = nor, dev' = dev, host' = host, pc \in {"ready", "piece", "data", "poll"},
             pc' \in {"ready", "piece", "data", "poll"} \/ (pc' = "ear" /\ cmds' # <<>>)
      PROVE  Modes'
  BY <1>0, <1>b, <1>c, ModesKept DEF Awaiting, Sets, Steady, Accessing
<1>1. CASE NextPiece
  BY <1>1, <1>c, NextPieceIs DEF Failing
<1>2. CASE EarWritten
  <2>1. nor' = nor /\ dev' = dev /\ pc = "ear" /\ cmds = <<>> /\ (Quad' <=> Quad)
    BY <1>2, EarWrittenIs DEF Quad
  <2>2. /\ nor.qpi = host.qpi /\ nor.fourba = host.fourba /\ (nor.qpi /\ dev.qe => nor.qe)
        /\ (host.quad /\ Quad /\ dev.qe => nor.qe)
        /\ IF res = 0 THEN nor.ear = BankOf(Head(todo)) ELSE host.high # -1 => nor.ear = host.high
    BY <1>0, <2>1 DEF Modes, Steady, Accessing
  <2>3. /\ pc' \in {"ready", "piece", "data"}
        /\ \/ res = 0 /\ host' = [host EXCEPT !.high = BankOf(Head(todo))]
           \/ res # 0 /\ host' = [host EXCEPT !.high = host.high]
    BY <1>2, EarWrittenIs DEF Failing
  <2>4. host'.qpi = host.qpi /\ host'.fourba = host.fourba /\ host'.quad = host.quad
        /\ host'.high = IF res = 0 THEN BankOf(Head(todo)) ELSE host.high
    BY <1>0, <2>3 DEF Host
  <2> QED
    BY <1>0, <2>1, <2>2, <2>3, <2>4 DEF Modes, Steady, Accessing
<1>3. CASE Sent
  BY <1>3, <1>c, SentIs DEF Advances, Failing
<1>4. CASE Poll
  BY <1>4, <1>c, PollIs DEF Advances, Failing
<1>5. ASSUME NEW r \in Requests, Call(r)
      PROVE  Modes'
  BY <1>5, <1>c, CallIs
<1> QED
  BY <1>1, <1>2, <1>3, <1>4, <1>5

LEMMA ModesFinish ==
  ASSUME Told, Release \/ FinishIo \/ Settle
  PROVE  Modes'
<1>0. nor \in Nor /\ host \in Host /\ Modes /\ Decided
  BY DEF Told, Types
<1>b. nor' = nor => ModesSame
  BY DEF ModesSame
<1>1. CASE Release
  <2>1. /\ nor' = nor /\ dev' = dev /\ host' = host /\ pc = "ready"
        /\ pc' = "closed" \/ (pc' \in {"finishqpi", "finishqe"} /\ cmds' # <<>>)
    BY <1>1, ReleaseIs DEF Finishes
  <2> QED
    BY <1>0, <1>b, <2>1, ModesKept DEF Awaiting, Sets, Steady, Accessing
<1>2. CASE FinishQpi
  <2>1. nor' = nor /\ dev' = dev /\ pc = "finishqpi" /\ cmds = <<>>
        /\ (pc' = "closed" \/ (pc' = "finishqe" /\ cmds' # <<>>))
    BY <1>2, FinishQpiIs DEF Finishes
  <2>2. /\ nor.qpi = (res # 0) /\ nor.fourba = host.fourba /\ (nor.qpi /\ dev.qe => nor.qe)
        /\ (~host.fourba /\ host.high # -1 => nor.ear = host.high)
    BY <1>0, <2>1 DEF Modes
  <2>3. host'.qpi = (res # 0) /\ host'.fourba = host.fourba /\ host'.high = host.high
    BY <1>0, <1>2, FinishQpiIs DEF Host
  <2> QED
    BY <1>0, <2>1, <2>2, <2>3 DEF Modes, Steady, Accessing
<1>3. CASE QeRestored
  <2>1. /\ nor' = nor /\ dev' = dev /\ host' = host /\ pc = "finishqe"
        /\ pc' \in {"closed", "finished"}
    BY <1>3, QeRestoredIs
  <2> QED
    BY <1>0, <1>b, <2>1, ModesKept DEF Awaiting, Sets, Steady, Accessing
<1>4. CASE Finished
  BY <1>0, <1>4, FinishedIs, ModesClosed
<1>5. CASE Settle
  <2>1. /\ dev' = dev /\ host' = host /\ pc' = pc /\ cmds' = cmds /\ res' = res /\ reg' = reg /\ todo' = todo
        /\ (Quad' <=> Quad) /\ BankOf(Head(todo))' = BankOf(Head(todo))
    BY <1>5, SettleIs DEF Quad, BankOf
  <2>2. ModesSame
    BY <1>0, <1>5, SettleIs DEF ModesSame, Nor
  <2> QED
    BY <1>0, <2>1, <2>2 DEF Modes, ModesSame
<1> QED
  BY <1>1, <1>2, <1>3, <1>4, <1>5 DEF FinishIo

LEMMA ModesStep ==
  ASSUME Told, Next, ~astray'
  PROVE  Modes'
BY ModesPrepare, ModesAccess, ModesFinish, ModesSend DEF Next, Program, Access

-----------------------------------------------------------------------------
(* When the chip is idle                                                   *)

\* Before the write enable is sent, the command it is for does not stand alone
NotAlone == Enabled => Len(cmds) # 1

LEMMA NotAloneIdling ==
  ASSUME NotAlone', nor'.busy => pc' = "poll",
         nor'.aai # NoAai =>
           /\ pc' \in {"piece", "data", "poll"} /\ todo' # <<>>
           /\ \/ Head(todo').op = "cont"
              \/ Head(todo').op = "wrdi" /\ ~(pc' = "data" /\ cmds' = <<>>)
              \/ Head(todo').op = "aai" /\ (pc' = "poll" \/ (pc' = "data" /\ cmds' = <<>>))
  PROVE  Idling'
<1>1. ASSUME NEW x, cmds' = <<x>>
      PROVE  Len(cmds') = 1
  BY <1>1
<1>2. Enabled' => cmds' # <<Last1'>>
  BY <1>1 DEF NotAlone
<1> QED
  BY <1>2 DEF Idling

LEMMA TwoCommands ==
  ASSUME NEW x, NEW y
  PROVE  Len(<<x, y>>) # 1 /\ <<x, y>> # <<>> /\ <<x>> # <<>>
OBVIOUS

LEMMA EmptyNotAlone ==
  ASSUME cmds' = <<>>
  PROVE  NotAlone'
BY DEF NotAlone

LEMMA CommandNotAlone ==
  ASSUME pc' = "data", todo' = todo, cmds' = Command(Head(todo))
  PROVE  NotAlone' /\ cmds' # <<>>
<1>1. CASE Head(todo).op \in {"read", "cont", "wrdi"}
  <2>1. cmds' = <<Carries(Head(todo))>>
    BY <1>1, CommandIs
  <2>2. ~Enabled'
    BY <1>1 DEF Enabled
  <2> QED
    BY <2>1, <2>2, TwoCommands DEF NotAlone
<1>2. CASE Head(todo).op \notin {"read", "cont", "wrdi"}
  <2>1. cmds' = <<Wren, Carries(Head(todo))>>
    BY <1>2, CommandIs
  <2> QED
    BY <2>1, TwoCommands DEF NotAlone
<1> QED
  BY <1>1, <1>2

LEMMA NotAlonePrepare ==
  ASSUME Told, Open \/ PrepareIo \/ Release \/ FinishIo \/ (\E r \in Requests : Call(r))
  PROVE  NotAlone'
<1>0. dev \in Devices /\ faults \in Nat /\ Ordered
  BY DEF Told, Types
<1>1. ASSUME pc' \notin {"qewrite", "finished", "ear", "enter4ba", "data"}
      PROVE  NotAlone'
  BY <1>1 DEF NotAlone, Enabled
<1>2. CASE Open
  <2>1. CASE dev.enter # "none" /\ pc' = "enter4ba" /\ cmds' = EnterExit(dev.master4ba)
    <3>1. CASE dev.enter = "plain"
      BY <1>2, <2>1, <3>1, OpenIs DEF NotAlone, Enabled
    <3>2. CASE dev.enter # "plain"
      BY <1>0, <2>1, <3>2, EntersIs, TwoCommands DEF NotAlone
    <3> QED
      BY <3>1, <3>2
  <2>2. CASE pc' \in {"closed", "quad"}
    BY <1>1, <2>2
  <2> QED
    BY <1>2, <2>1, <2>2, OpenIs
<1>3. CASE Entered
  BY <1>3, EnteredIs, EmptyNotAlone
<1>4. CASE PrepareQuad
  <2>1. pc' \in {"select", "qeread", "enterqpi"}
    BY <1>4, PrepareQuadIs, TriesEither
  <2> QED
    BY <1>1, <2>1
<1>5. CASE QeRead
  <2>1. CASE pc' = "qewrite" /\ cmds' = <<Wren, Value("wrqe", 1)>>
    BY <2>1, TwoCommands DEF NotAlone
  <2>2. CASE pc' \in {"select", "enterqpi"}
    BY <1>1, <2>2
  <2>3. CASE TriesQpi(TRUE)
    BY <2>2, <2>3, TriesEither
  <2> QED
    BY <1>5, <2>1, <2>2, <2>3, QeReadIs
<1>6. CASE QeWritten
  BY <1>1, <1>6, QeWrittenIs
<1>7. CASE QpiEntered
  BY <1>7, QpiEnteredIs, EmptyNotAlone
<1>8. CASE Select
  <2>1. pc' \in {"ready", "leaveqpi"}
    BY <1>0, <1>8, SelectIs
  <2> QED
    BY <1>1, <2>1
<1>9. CASE QpiLeft
  BY <1>9, QpiLeftIs, EmptyNotAlone
<1>10. CASE Release
  <2>1. pc' \in {"closed", "finishqpi", "finishqe"}
    BY <1>10, ReleaseIs DEF Finishes
  <2> QED
    BY <1>1, <2>1
<1>11. CASE FinishQpi
  <2>1. pc' \in {"closed", "finishqe"}
    BY <1>11, FinishQpiIs DEF Finishes
  <2> QED
    BY <1>1, <2>1
<1>12. CASE QeRestored
  <2>1. CASE cmds' = <<Wren, Value("wrqe", 0)>>
    BY <2>1, TwoCommands DEF NotAlone
  <2>2. CASE cmds' = <<>>
    BY <2>2, EmptyNotAlone
  <2> QED
    BY <1>12, <2>1, <2>2, QeRestoredIs
<1>13. CASE Finished
  BY <1>13, FinishedIs, EmptyNotAlone
<1>14. ASSUME NEW r \in Requests, Call(r)
       PROVE  NotAlone'
  BY <1>1, <1>14, CallIs
<1> QED
  BY <1>2, <1>3, <1>4, <1>5, <1>6, <1>7, <1>8, <1>9, <1>10, <1>11, <1>12, <1>13, <1>14
     DEF PrepareIo, FinishIo

\* After a word of AAI there is another one, or the command that ends it
LEMMA AfterWord ==
  ASSUME Told, pc \in Accessing, todo # <<>>, Head(todo).op \in {"aai", "cont"},
         Advances \/ Failing(todo)
  PROVE  pc' = "piece" /\ todo' # <<>> /\ Head(todo').op \in {"cont", "wrdi"}
<1>1. /\ dev \in Devices /\ call \in Requests /\ todo \in Seq(PieceIn)
      /\ \A i \in 1 .. Len(todo) : Proper(call, todo[i], i, Len(todo))
  BY DEF Told, Types, Rest
<1>2. /\ Tail(todo) # <<>> /\ Head(Tail(todo)).op \in {"cont", "wrdi"}
  BY <1>1, AaiPieces
<1>3. Last(todo) = Wrdi
  BY <1>1, AaiPieces
<1>4. <<Wrdi>> # <<>> /\ Head(<<Wrdi>>) = Wrdi /\ Wrdi.op = "wrdi"
  BY DEF Wrdi
<1>5. CASE Advances
  BY <1>2, <1>5 DEF Advances
<1>6. CASE Failing(todo)
  <2>1. pc' = "piece" /\ todo' = <<Wrdi>>
    BY <1>3, <1>6 DEF Failing
  <2> QED
    BY <1>4, <2>1
<1> QED
  BY <1>5, <1>6

LEMMA IdlingInit ==
  ASSUME Init
  PROVE  Idling
<1>1. ~nor.busy /\ nor.aai = NoAai
  BY DEF Init
<1>2. pc = "closed"
  BY DEF Init
<1> QED
  BY <1>1, <1>2 DEF Idling, Enabled

LEMMA IdlingSend ==
  ASSUME Told, Send, ~astray'
  PROVE  Idling'
<1>0. /\ dev' = dev /\ host' = host /\ pc' = pc /\ todo' = todo /\ calls' = calls
      /\ pc \in Running /\ cmds # <<>> /\ nor \in Nor /\ (pc = "data" => todo # <<>>)
  BY SendIs, SendOutcome DEF Told, Types, Ordered
<1>1. /\ ~nor.busy
      /\ nor.aai # NoAai => pc = "data" /\ cmds = <<Last1>> /\ Head(todo).op \in {"cont", "wrdi"}
  <2>1. ~nor.busy /\ (nor.aai # NoAai => pc = "data" /\ cmds = <<Last1>>)
    BY <1>0, Listens DEF Told
  <2>2. nor.aai # NoAai => Head(todo).op \in {"cont", "wrdi"}
    BY <1>0, <2>1 DEF Told, Idling
  <2> QED
    BY <2>1, <2>2
<1>2. CASE SentEnable
  <2>1. cmds # <<Last1>>
    <3>1. Len(<<Enable, Last1>>) = 2 /\ Len(<<Last1>>) = 1
      OBVIOUS
    <3> QED
      BY <1>2, <3>1 DEF SentEnable
  <2>2. nor.aai = NoAai
    BY <1>1, <2>1
  <2>3. nor'.busy = nor.busy /\ nor'.aai = nor.aai /\ nor'.wel = TRUE
    BY <1>0, <1>2 DEF SentEnable, Nor
  <2> QED
    BY <1>1, <2>2, <2>3 DEF Idling
<1>3. CASE LostOne
  <2>1. nor'.busy = nor.busy /\ nor'.aai = nor.aai /\ cmds' = <<>>
    BY <1>0, <1>3 DEF LostOne, Nor
  <2>2. nor.aai # NoAai => Head(todo).op = "cont"
    <3>1. pc = "data" => Last1.op = Carries(Head(todo)).op
      BY <1>0, LastOp DEF Told
    <3>2. pc = "data" /\ Head(todo).op = "wrdi" => Last1.op = "wrdi"
      BY <3>1, CarriesOp
    <3>3. cmds = <<Last1>> => Last1.op # "wrdi"
      BY <1>3 DEF LostOne
    <3> QED
      BY <1>1, <3>2, <3>3
  <2>3. <<Last1>>' # <<>>
    OBVIOUS
  <2> QED
    BY <1>0, <1>1, <2>1, <2>2, <2>3 DEF Idling
<1>4. CASE SentLast \/ DoneAnyway
  <2> PICK o : o = Obey(nor, Last1)
    OBVIOUS
  <2>1. nor' = o /\ cmds = <<Last1>> /\ cmds' = <<>>
    BY <1>4 DEF SentLast, DoneAnyway
  <2>2. /\ pc # "data" => o.busy = nor.busy /\ o.aai = nor.aai
        /\ pc = "data" /\ Head(todo).op \in {"read", "wrdi"} => o.busy = nor.busy
        /\ pc = "data" /\ Head(todo).op = "wrdi" => o.aai = NoAai
        /\ pc = "data" /\ Head(todo).op \notin {"aai", "cont"} => o.aai \in {nor.aai, NoAai}
    BY <2>1, LastDoes
  <2>3. pc = "data" /\ Head(todo).op = "cont" => res' = 0
    <3>1. pc = "data" => Last1.op = Carries(Head(todo)).op
      BY <1>0, LastOp DEF Told
    <3>2. pc = "data" /\ Head(todo).op = "cont" => Last1.op \in ModeOps
      BY <3>1, CarriesOp DEF ModeOps
    <3> QED
      BY <1>4, <3>2 DEF SentLast, DoneAnyway
  <2>4. o.busy => pc = "data" /\ Head(todo).op \notin {"read", "wrdi"}
    BY <1>1, <2>2
  <2>5. o.aai # NoAai => pc = "data" /\ Head(todo).op \in {"aai", "cont"}
    BY <1>1, <2>2
  <2>6. <<Last1>>' # <<>>
    OBVIOUS
  <2> QED
    BY <1>0, <2>1, <2>3, <2>4, <2>5, <2>6 DEF Idling
<1> QED
  BY <1>2, <1>3, <1>4, SendOutcome

LEMMA IdlingAccess ==
  ASSUME Told, Access, ~astray'
  PROVE  Idling'
<1>0. /\ dev \in Devices /\ nor \in Nor /\ astray \in BOOLEAN
      /\ pc \in {"ear", "data", "poll"} => todo # <<>>
      /\ nor.busy =>
           \/ pc = "poll"
           \/ /\ pc = "data" /\ cmds = <<>> /\ Head(todo).op \notin {"read", "wrdi"}
              /\ Head(todo).op = "cont" => res = 0
      /\ nor.aai # NoAai =>
           /\ pc \in {"piece", "data", "poll"} /\ todo # <<>>
           /\ \/ Head(todo).op = "cont"
              \/ Head(todo).op = "wrdi" /\ ~(pc = "data" /\ cmds = <<>>)
              \/ Head(todo).op = "aai" /\ (pc = "poll" \/ (pc = "data" /\ cmds = <<>>))
  BY DEF Told, Types, Ordered, Idling
<1>1. CASE NextPiece
  <2>1. pc = "piece" /\ nor' = nor /\ ~nor.busy /\ (nor.aai # NoAai => todo # <<>> /\ Head(todo).op \in {"cont", "wrdi"})
    BY <1>0, <1>1, NextPieceIs
  <2>2. NeedsBank(Head(todo)) => nor.aai = NoAai
    BY <2>1 DEF NeedsBank, HasAddress
  <2>3. CASE todo = <<>> /\ cmds' = <<>>
    BY <2>1, <2>3, EmptyNotAlone, NotAloneIdling
  <2>4. CASE NeedsBank(Head(todo)) /\ cmds' = <<Wren, Value("ear", BankOf(Head(todo)))>>
    <3>1. NotAlone'
      BY <2>4, TwoCommands DEF NotAlone
    <3> QED
      BY <2>1, <2>2, <2>4, <3>1, NotAloneIdling
  <2>5. CASE NeedsBank(Head(todo)) /\ cmds' = <<>>
    BY <2>1, <2>2, <2>5, EmptyNotAlone, NotAloneIdling
  <2>6. CASE todo # <<>> /\ pc' = "data" /\ cmds' = Command(Head(todo)) /\ todo' = todo
    <3>1. NotAlone' /\ cmds' # <<>>
      BY <2>6, CommandNotAlone
    <3> QED
      BY <2>1, <2>6, <3>1, NotAloneIdling
  <2> QED
    BY <1>1, <2>3, <2>4, <2>5, <2>6, NextPieceIs
<1>2. CASE EarWritten
  <2>1. nor' = nor /\ ~nor.busy /\ nor.aai = NoAai
    BY <1>0, <1>2, EarWrittenIs
  <2>2. NotAlone'
    BY <1>2, EarWrittenIs, EmptyNotAlone, CommandNotAlone
  <2> QED
    BY <2>1, <2>2, NotAloneIdling
<1>3. CASE Sent
  <2>1. nor' = nor /\ cmds' = <<>> /\ pc = "data" /\ cmds = <<>> /\ NotAlone' /\ todo # <<>>
    BY <1>0, <1>3, SentIs, EmptyNotAlone
  <2>2. nor.aai # NoAai => Head(todo).op \in {"aai", "cont"}
    BY <1>0, <2>1
  <2>3. CASE Head(todo).op \in {"read", "wrdi"}
    <3>1. ~nor.busy /\ nor.aai = NoAai
      BY <1>0, <2>1, <2>2, <2>3
    <3> QED
      BY <2>1, <3>1, NotAloneIdling
  <2>4. CASE Head(todo).op = "cont" /\ res # 0 /\ Failing(todo)
    <3>1. ~nor.busy
      BY <1>0, <2>1, <2>4
    <3>2. pc' = "piece" /\ todo' # <<>> /\ Head(todo').op \in {"cont", "wrdi"}
      BY <2>1, <2>4, AfterWord DEF Accessing
    <3> QED
      BY <2>1, <3>1, <3>2, NotAloneIdling
  <2>5. CASE pc' = "poll" /\ todo' = todo
    BY <2>1, <2>2, <2>5, NotAloneIdling
  <2> QED
    BY <1>3, <2>3, <2>4, <2>5, SentIs
<1>4. CASE Poll
  <2>1. nor' = nor /\ cmds' = <<>> /\ pc = "poll" /\ cmds = <<>> /\ NotAlone' /\ todo # <<>>
        /\ (Advances \/ Failing(todo))
    BY <1>0, <1>4, PollIs, EmptyNotAlone
  <2>2. ~nor.busy
    BY <1>4, PollIs
  <2>3. nor.aai # NoAai => Head(todo).op \in {"aai", "cont"}
    BY <1>0, <2>1 DEF Told, Decided
  <2>4. nor.aai # NoAai => pc' = "piece" /\ todo' # <<>> /\ Head(todo').op \in {"cont", "wrdi"}
    BY <2>1, <2>3, AfterWord DEF Accessing
  <2> QED
    BY <2>1, <2>2, <2>4, NotAloneIdling
<1> QED
  BY <1>1, <1>2, <1>3, <1>4 DEF Access

LEMMA IdlingStep ==
  ASSUME Told, Next, ~astray'
  PROVE  Idling'
<1>1. CASE Send
  BY <1>1, IdlingSend
<1>2. CASE Access
  BY <1>2, IdlingAccess
<1>3. CASE Open \/ PrepareIo \/ Release \/ FinishIo \/ (\E r \in Requests : Call(r))
  <2>1. NotAlone'
    BY <1>3, NotAlonePrepare
  <2>2. pc \notin {"piece", "data", "poll"} /\ nor' = nor
    <3>1. faults \in Nat
      BY DEF Told, Types
    <3> QED
      BY <1>3, <3>1, OpenIs, EnteredIs, PrepareQuadIs, QeReadIs, QeWrittenIs, QpiEnteredIs, SelectIs,
         QpiLeftIs, ReleaseIs, FinishQpiIs, QeRestoredIs, FinishedIs, CallIs DEF PrepareIo, FinishIo
  <2>3. ~nor.busy /\ nor.aai = NoAai
    BY <2>2 DEF Told, Idling
  <2> QED
    BY <2>1, <2>2, <2>3, NotAloneIdling
<1>4. CASE Settle
  <2>1. /\ pc' = pc /\ host' = host /\ dev' = dev /\ todo' = todo /\ calls' = calls /\ cmds' = cmds /\ res' = res
    BY <1>4, SettleIs
  <2>2. ~nor'.busy /\ nor'.aai = nor.aai /\ nor'.wel = nor.wel
    BY <1>4, SettleIs DEF Told, Types, Nor
  <2>3. Last1' = Last1 /\ (Enabled' <=> Enabled)
    BY <2>1, LastSame
  <2> QED
    BY <2>1, <2>2, <2>3 DEF Told, Idling
<1> QED
  BY <1>1, <1>2, <1>3, <1>4 DEF Next, Program

-----------------------------------------------------------------------------
(* The quad-enable bit and QPI mode                                        *)

LEMMA QuietInit ==
  ASSUME Init
  PROVE  Quiet
<1>1. ~nor.qpi /\ nor.qe = found /\ pc = "closed"
  BY DEF Init
<1> QED
  BY <1>1 DEF Quiet, Steady, Accessing, Delicate

\* Where the bit is as it was found, or set for the time being
Settled == {"enterqpi", "select", "leaveqpi", "finishqpi", "finishqe"} \cup Steady

\* What is spoilt stays so until the next preparation
LEMMA SpoiltIs ==
  ASSUME Next, ~Open
  PROVE  (spoilt => spoilt') /\ (Send => spoilt' \/ res' = 0 \/ pc \notin Delicate)
<1>1. CASE Send
  <2>1. CASE NoFault /\ res' = 0 /\ UNCHANGED <<astray, spoilt>>
    BY <2>1
  <2>2. CASE Fault /\ spoilt' = (spoilt \/ pc \in Delicate)
    BY <2>2
  <2> QED
    BY <1>1, <2>1, <2>2 DEF Send
<1>2. CASE PrepareIo /\ ~Send
  <2>1. CASE Entered \/ QpiEntered
    BY <1>2, <2>1 DEF Entered, QpiEntered, history
  <2>4. CASE PrepareQuad
    BY <1>2, <2>4 DEF PrepareQuad, history
  <2>5. CASE QeWritten
    BY <1>2, <2>5 DEF QeWritten, history
  <2>2. CASE QeRead
    BY <1>2, <2>2 DEF QeRead, history
  <2>3. CASE Select \/ QpiLeft
    BY <1>2, <2>3 DEF Select, QpiLeft, history
  <2> QED
    BY <1>2, <2>1, <2>2, <2>3, <2>4, <2>5 DEF PrepareIo
<1>3. CASE (Access \/ FinishIo) /\ ~Send
  BY <1>3 DEF Access, NextPiece, EarWritten, Sent, Poll, FinishIo, FinishQpi, QeRestored, Finished, history
<1>4. CASE (Release \/ Settle \/ \E r \in Requests : Call(r)) /\ ~Send
  BY <1>4 DEF Release, Settle, Call, history
<1> QED
  BY <1>1, <1>2, <1>3, <1>4 DEF Next, Program

\* A step that leaves the chip neither astray nor spoilt
Safely == Told /\ Quiet /\ ~astray /\ ~spoilt /\ ~astray' /\ ~spoilt'

LEMMA QuietSend ==
  ASSUME Safely, Send, res' = 0 \/ pc \notin Delicate
  PROVE  Quiet'
<1>1. Told /\ Quiet /\ ~astray /\ ~spoilt /\ ~astray'
  BY DEF Safely
<1>2. /\ pc' = pc /\ host' = host /\ found' = found /\ pc \in Running /\ cmds # <<>> /\ nor \in Nor
      /\ SentEnable \/ SentLast \/ LostOne \/ DoneAnyway
  BY <1>1, SendOutcome, SendIs DEF Told, Types
<1>3. CASE SentEnable
  <2>1. nor'.qe = nor.qe /\ nor'.qpi = nor.qpi /\ cmds' # <<>>
    BY <1>2, <1>3 DEF SentEnable, Nor
  <2> QED
    BY <1>1, <1>2, <2>1 DEF Quiet, Running
<1>4. ASSUME cmds = <<Last1>>, cmds' = <<>>, nor' = Obey(nor, Last1), res' = 0 \/ pc \notin Delicate
      PROVE  Quiet'
  <2> PICK o : o = Obey(nor, Last1)
    OBVIOUS
  <2>1. /\ pc = "qewrite" => o.qe = TRUE
        /\ pc = "finished" => o.qe = FALSE
        /\ pc \notin {"qewrite", "finished"} => o.qe = nor.qe
        /\ pc \notin {"enterqpi", "leaveqpi", "finishqpi"} => o.qpi = nor.qpi
    BY <1>1, <1>4, LastDoes
  <2> QED
    BY <1>1, <1>2, <1>4, <2>1 DEF Quiet, Running, Steady, Accessing, Delicate
<1>5. CASE LostOne
  <2>1. nor'.qe = nor.qe /\ nor'.qpi = nor.qpi /\ cmds' = <<>> /\ pc \notin Delicate
    BY <1>2, <1>5 DEF LostOne, Nor
  <2> QED
    BY <1>1, <1>2, <2>1 DEF Quiet, Running, Delicate
<1>6. SentLast \/ DoneAnyway => Quiet'
  BY <1>4 DEF SentLast, DoneAnyway
<1> QED
  BY <1>2, <1>3, <1>5, <1>6

LEMMA QuietPrepare ==
  ASSUME Safely, PrepareIo
  PROVE  Quiet'
<1>0. /\ nor \in Nor /\ host \in Host /\ faults \in Nat /\ reg \in BOOLEAN /\ found \in BOOLEAN
      /\ Told /\ Quiet /\ ~astray /\ ~spoilt
  BY DEF Safely, Told, Types
<1>r. pc \in Delicate /\ cmds = <<>> => res = 0
  BY <1>0 DEF Quiet
<1>1. nor.qe \in BOOLEAN /\ nor.qpi \in BOOLEAN /\ host.vqe \in BOOLEAN
  BY <1>0 DEF Nor, Host
<1>3. CASE Entered
  <2>1. host'.vqe = host.vqe /\ nor' = nor /\ found' = found /\ pc = "enter4ba" /\ pc' \in {"quad", "closed"}
    <3>1. host' = host \/ \E x : host' = [host EXCEPT !.fourba = dev.master4ba, !.high = x]
      BY <1>0, <1>3, EnteredIs
    <3>2. host'.vqe = host.vqe
      BY <1>0, <3>1 DEF Host
    <3> QED
      BY <1>0, <1>3, <3>2, EnteredIs
  <2>2. nor.qe = found /\ ~host.vqe /\ ~nor.qpi
    BY <1>0, <2>1 DEF Quiet
  <2> QED
    BY <2>1, <2>2 DEF Quiet, Steady, Accessing, Delicate
<1>a. ASSUME nor' = nor, found' = found,
             pc' \in {"enterqpi", "select", "leaveqpi", "ready"}, pc' = "leaveqpi" => cmds' # <<>>,
             nor.qe = (found \/ host'.vqe), host'.vqe => ~found
      PROVE  Quiet'
  BY <1>a DEF Quiet, Steady, Accessing, Delicate
<1>4. CASE PrepareQuad
  <2>1. /\ host' = host /\ nor' = nor /\ found' = found /\ pc = "quad"
        /\ pc' \in {"select", "enterqpi", "qeread"}
    <3>1. pc' \in {"select", "enterqpi", "qeread"}
      BY <1>4, PrepareQuadIs, TriesEither
    <3> QED
      BY <1>0, <1>4, <3>1, PrepareQuadIs
  <2>2. nor.qe = found /\ host.vqe = FALSE
    BY <1>0, <1>1, <2>1 DEF Quiet
  <2>3. CASE pc' = "qeread"
    BY <2>1, <2>2, <2>3 DEF Quiet, Steady, Accessing, Delicate
  <2>4. CASE pc' # "qeread"
    <3>1. nor.qe = (found \/ host.vqe)
      BY <1>0, <1>1, <2>2
    <3> QED
      BY <1>a, <2>1, <2>2, <2>4, <3>1
  <2> QED
    BY <2>3, <2>4
<1>5. CASE QeRead
  <2>1. /\ nor' = nor /\ found' = found /\ pc \in {"qeread", "qecheck"} /\ cmds = <<>>
        /\ pc = "qecheck" => res = 0
    BY <1>0, <1>r, <1>5, QeReadIs DEF Delicate
  <2>2. res = 0 => reg = nor.qe
    BY <1>0, <2>1 DEF Told, Modes
  <2>3. /\ pc = "qeread" => nor.qe = found /\ host.vqe = FALSE
        /\ pc = "qecheck" => nor.qe = TRUE /\ found = FALSE /\ host.vqe = FALSE
    BY <1>0, <1>1, <2>1 DEF Quiet
  <2>4. CASE res = 0 /\ reg /\ TriesQpi(TRUE) /\ host' = [host EXCEPT !.vqe = (pc = "qecheck")]
    <3>1. host'.vqe = (pc = "qecheck") /\ pc' \in {"select", "enterqpi"}
      BY <1>0, <2>4, TriesEither DEF Host
    <3>2. nor.qe = (found \/ host'.vqe) /\ (host'.vqe => ~found)
      BY <1>0, <2>1, <2>2, <2>3, <2>4, <3>1
    <3> QED
      BY <1>a, <2>1, <3>1, <3>2
  <2>5. CASE res = 0 /\ ~reg /\ pc = "qeread" /\ host' = host /\ pc' = "qewrite" /\ cmds' = <<Wren, Value("wrqe", 1)>>
    <3>1. cmds' # <<>> /\ ~nor.qe /\ ~found
      BY <2>2, <2>3, <2>5
    <3> QED
      BY <1>1, <2>1, <2>3, <2>5, <3>1 DEF Quiet, Steady, Accessing
  <2>6. CASE (res = 0 => ~reg) /\ pc' = "select" /\ host' = [host EXCEPT !.quad = FALSE]
    <3>1. host'.vqe = host.vqe
      BY <1>0, <2>6 DEF Host
    <3>2. pc # "qecheck"
      BY <2>1, <2>2, <2>3, <2>6
    <3>3. nor.qe = (found \/ host'.vqe) /\ (host'.vqe => ~found)
      BY <1>0, <1>1, <2>1, <2>3, <3>1, <3>2
    <3> QED
      BY <1>a, <2>1, <2>6, <3>3
  <2> QED
    BY <1>5, <2>4, <2>5, <2>6, QeReadIs
<1>6. CASE QeWritten
  <2>1. /\ nor' = nor /\ found' = found /\ pc = "qewrite" /\ cmds = <<>>
        /\ pc' = "qecheck" /\ host' = host /\ cmds' # <<>>
    BY <1>r, <1>6, QeWrittenIs DEF Delicate
  <2>2. nor.qe = TRUE /\ ~found /\ ~host.vqe
    BY <1>0, <1>1, <2>1 DEF Quiet
  <2> QED
    BY <2>1, <2>2 DEF Quiet, Steady, Accessing
<1>b. ASSUME pc \in Settled
      PROVE  nor.qe = (found \/ host.vqe) /\ (host.vqe => ~found)
  BY <1>0, <1>b DEF Quiet, Settled
<1>7. CASE QpiEntered
  <2>1. /\ nor' = nor /\ found' = found /\ pc \in Settled /\ pc' = "select"
        /\ host'.vqe = host.vqe
    BY <1>0, <1>7, QpiEnteredIs DEF Host, Settled
  <2> QED
    BY <1>a, <1>b, <2>1
<1>8. CASE Select
  <2>1. /\ nor' = nor /\ found' = found /\ pc \in Settled /\ pc' \in {"leaveqpi", "ready"}
        /\ pc' = "leaveqpi" => cmds' # <<>>
    <3>1. nor' = nor /\ found' = found /\ pc = "select"
      BY <1>0, <1>8, SelectIs
    <3>2. pc' = "ready" \/ (pc' = "leaveqpi" /\ cmds' = <<Plain("unqpi")>>)
      BY <1>0, <1>8, SelectIs
    <3> QED
      BY <3>1, <3>2 DEF Settled
  <2>2. host'.vqe = host.vqe
    BY <1>0, <1>8, SelectIs DEF Chooses, Host
  <2> QED
    BY <1>a, <1>b, <2>1, <2>2
<1>9. CASE QpiLeft
  <2>1. /\ nor' = nor /\ found' = found /\ pc \in Settled /\ pc' = "ready"
        /\ Chooses([host EXCEPT !.qpi = FALSE])
    BY <1>0, <1>r, <1>9, QpiLeftIs DEF Settled, Delicate
  <2>2. host'.vqe = host.vqe
    BY <1>0, <2>1 DEF Chooses, Host
  <2> QED
    BY <1>a, <1>b, <2>1, <2>2
<1> QED
  BY <1>3, <1>4, <1>5, <1>6, <1>7, <1>8, <1>9 DEF PrepareIo

LEMMA QuietAccess ==
  ASSUME Safely, Access \/ (\E r \in Requests : Call(r))
  PROVE  Quiet'
<1>0. host \in Host /\ Quiet /\ ~astray /\ ~spoilt
  BY DEF Safely, Told, Types
<1>1. /\ pc \in Steady /\ pc' \in Steady /\ nor' = nor /\ found' = found
      /\ host' = host \/ (\E h : host' = [host EXCEPT !.high = h])
  BY <1>0, NextPieceIs, EarWrittenIs, SentIs, PollIs, CallIs DEF Access, Advances, Failing, Steady, Accessing
<1>2. host'.vqe = host.vqe
  BY <1>0, <1>1 DEF Host
<1> QED
  BY <1>0, <1>1, <1>2 DEF Quiet, Steady, Accessing, Delicate

LEMMA QuietFinish ==
  ASSUME Safely, Release \/ FinishIo \/ Settle
  PROVE  Quiet'
<1>0. nor \in Nor /\ host \in Host /\ found \in BOOLEAN /\ Told /\ Quiet /\ ~astray /\ ~spoilt
  BY DEF Safely, Told, Types
<1>r. pc \in Delicate /\ cmds = <<>> => res = 0
  BY <1>0 DEF Quiet
<1>1. nor.qe \in BOOLEAN /\ nor.qpi \in BOOLEAN /\ host.vqe \in BOOLEAN /\ host.qpi \in BOOLEAN
  BY <1>0 DEF Nor, Host
<1>b. ASSUME pc \in Settled
      PROVE  nor.qe = (found \/ host.vqe) /\ (host.vqe => ~found)
  BY <1>0, <1>b DEF Quiet, Settled
<1>f. ASSUME NEW h, Finishes(h), h.vqe = host.vqe
      PROVE  (pc' = "finishqe" /\ cmds' # <<>>) \/ (pc' = "closed" /\ ~host.vqe)
  BY <1>f DEF Finishes
<1>a. ASSUME nor' = nor, found' = found, ~nor.qpi, pc \in Settled, host'.vqe = host.vqe,
             (pc' = "finishqe" /\ cmds' # <<>>) \/ (pc' = "closed" /\ ~host.vqe)
      PROVE  Quiet'
  <2>1. nor.qe = (found \/ host.vqe) /\ (host.vqe => ~found)
    BY <1>a, <1>b
  <2>2. ~host.vqe => nor.qe = found
    BY <1>0, <2>1
  <2> QED
    BY <1>a, <2>1, <2>2 DEF Quiet, Steady, Accessing, Delicate
<1>2. CASE Release
  <2>1. /\ nor' = nor /\ found' = found /\ pc = "ready" /\ pc \in Settled /\ host' = host
        /\ (pc' = "finishqpi" /\ cmds' # <<>>) \/ (~host.qpi /\ Finishes(host))
    BY <1>2, ReleaseIs DEF Settled, Steady
  <2>2. nor.qpi = host.qpi
    BY <1>0, <2>1 DEF Told, Modes
  <2>3. CASE pc' = "finishqpi" /\ cmds' # <<>>
    BY <1>b, <2>1, <2>3 DEF Quiet, Steady, Accessing
  <2>4. CASE ~host.qpi /\ Finishes(host)
    BY <1>a, <1>f, <2>1, <2>2, <2>4
  <2> QED
    BY <2>1, <2>3, <2>4
<1>3. CASE FinishQpi
  <2> DEFINE h == [host EXCEPT !.qpi = (res # 0)]
  <2>1. /\ nor' = nor /\ found' = found /\ pc = "finishqpi" /\ pc \in Settled /\ cmds = <<>>
        /\ host' = h /\ Finishes(h) /\ res = 0
    BY <1>r, <1>3, FinishQpiIs DEF Settled, Delicate
  <2>2. h.vqe = host.vqe
    BY <1>0 DEF Host
  <2> HIDE DEF h
  <2>3. ~nor.qpi
    BY <1>0, <2>1 DEF Told, Modes
  <2>4. (pc' = "finishqe" /\ cmds' # <<>>) \/ (pc' = "closed" /\ ~host.vqe)
    BY <1>f, <2>1, <2>2
  <2> QED
    BY <1>a, <2>1, <2>2, <2>3, <2>4
<1>4. CASE QeRestored
  <2>1. /\ nor' = nor /\ found' = found /\ pc = "finishqe" /\ pc \in Settled /\ host' = host
        /\ pc' = "finished" /\ cmds' # <<>>
    BY <1>r, <1>4, QeRestoredIs DEF Settled, Delicate
  <2>2. host.vqe /\ ~found /\ ~nor.qpi
    BY <1>0, <1>b, <2>1 DEF Told, Decided, Quiet
  <2> QED
    BY <2>1, <2>2 DEF Quiet, Steady, Accessing
<1>5. CASE Finished
  <2>1. nor' = nor /\ found' = found /\ pc = "finished" /\ cmds = <<>> /\ pc' = "closed"
    BY <1>5, FinishedIs
  <2>2. nor.qe = found /\ ~nor.qpi
    BY <1>0, <1>1, <2>1 DEF Quiet
  <2> QED
    BY <2>1, <2>2 DEF Quiet, Steady, Accessing, Delicate
<1>6. CASE Settle
  <2>1. /\ nor'.qe = nor.qe /\ nor'.qpi = nor.qpi /\ found' = found /\ res' = res /\ pc' = pc
        /\ host' = host /\ cmds' = cmds
    BY <1>0, <1>6, SettleIs DEF Nor
  <2> QED
    BY <1>0, <2>1 DEF Quiet
<1> QED
  BY <1>2, <1>3, <1>4, <1>5, <1>6 DEF FinishIo

LEMMA QuietStep ==
  ASSUME Types, Told \/ astray, astray => astray', Quiet, Next
  PROVE  Quiet'
<1>1. CASE astray' \/ spoilt'
  BY <1>1 DEF Quiet
<1>2. CASE Open
  <2>1. /\ nor' = nor /\ found' = nor.qe /\ ~nor.qpi /\ host' = FreshHost
        /\ pc' \in {"closed", "quad", "enter4ba"}
    BY <1>2, OpenIs
  <2>2. host'.vqe = FALSE
    BY <2>1 DEF FreshHost
  <2> QED
    BY <2>1, <2>2 DEF Quiet, Steady, Accessing, Delicate
<1>3. CASE ~astray' /\ ~spoilt' /\ ~Open
  <2>1. Told /\ ~astray
    BY <1>3
  <2>2. ~spoilt /\ (Send => res' = 0 \/ pc \notin Delicate)
    BY <1>3, SpoiltIs
  <2>3. Safely
    BY <1>3, <2>1, <2>2 DEF Safely
  <2> QED
    BY <1>3, <2>2, <2>3, QuietSend, QuietPrepare, QuietAccess, QuietFinish DEF Next, Program
<1> QED
  BY <1>1, <1>2, <1>3

-----------------------------------------------------------------------------
(* The inductive invariant                                                 *)

IInv == Types /\ Ordered /\ Decided /\ Rest /\ (~astray => Modes /\ Idling) /\ Quiet

LEMMA IInvInit ==
  ASSUME Init
  PROVE  IInv
BY TypesInit, OrderedInit, DecidedInit, RestInit, ModesInit, IdlingInit, QuietInit DEF IInv

\* A chip that went astray does not come back
LEMMA AstrayStays ==
  ASSUME Types, Next, astray
  PROVE  astray'
<1>0. faults \in Nat
  BY DEF Types
<1>1. CASE Send
  BY <1>1, SendIs
<1>2. CASE Open \/ PrepareIo
  BY <1>0, <1>2, OpenIs, EnteredIs, PrepareQuadIs, QeReadIs, QeWrittenIs, QpiEnteredIs, SelectIs,
     QpiLeftIs DEF PrepareIo
<1>3. CASE Access \/ (\E r \in Requests : Call(r))
  BY <1>3, NextPieceIs, EarWrittenIs, SentIs, PollIs, CallIs DEF Access
<1>4. CASE Release \/ FinishIo \/ Settle
  BY <1>4, ReleaseIs, FinishQpiIs, QeRestoredIs, FinishedIs, SettleIs DEF FinishIo
<1> QED
  BY <1>1, <1>2, <1>3, <1>4 DEF Next, Program

LEMMA IInvNext ==
  ASSUME IInv, Next
  PROVE  IInv'
<1>1. Types /\ Ordered /\ Decided /\ Rest /\ (~astray => Told) /\ Quiet
  BY DEF IInv, Told
<1>2. Types' /\ Ordered' /\ Decided' /\ Rest'
  BY <1>1, TypesStep, OrderedStep, DecidedStep, RestStep
<1>3. ~astray' => Modes' /\ Idling'
  BY <1>1, AstrayStays, ModesStep, IdlingStep
<1>4. Quiet'
  BY <1>1, AstrayStays, QuietStep
<1> QED
  BY <1>2, <1>3, <1>4 DEF IInv

LEMMA IInvStutter ==
  ASSUME IInv, UNCHANGED vars
  PROVE  IInv'
<1>1. /\ dev' = dev /\ nor' = nor /\ host' = host /\ pc' = pc /\ cmds' = cmds /\ res' = res /\ reg' = reg
      /\ call' = call /\ todo' = todo /\ ret' = ret /\ got' = got /\ faults' = faults /\ calls' = calls
      /\ found' = found /\ before' = before /\ astray' = astray /\ spoilt' = spoilt
  BY DEF vars, counts, history
<1>2. Last1' = Last1 /\ Enable' = Enable /\ (Enabled' <=> Enabled)
  BY <1>1, LastSame
<1>3. NeedsBank(Head(todo))' <=> NeedsBank(Head(todo))
  BY <1>1, NeedsBankSame
<1>4. Types'
  BY <1>1 DEF IInv, Types, Nor, Cells, PieceIn
<1>5. Ordered'
  BY <1>1, <1>2 DEF IInv, Ordered
<1>6. Decided'
  BY <1>1, <1>3 DEF IInv, Decided, Quad, BankOf
<1>7. Rest'
  BY <1>1 DEF IInv, Rest, Possible, Big, Quad
<1>8. ~astray' => Modes' /\ Idling'
  BY <1>1, <1>2 DEF IInv, Modes, Idling, Quad, BankOf
<1>9. Quiet'
  BY <1>1 DEF IInv, Quiet
<1> QED
  BY <1>4, <1>5, <1>6, <1>7, <1>8, <1>9 DEF IInv

LEMMA IInvAlways == Spec => []IInv
<1>1. Init => IInv
  BY IInvInit
<1>2. IInv /\ [Next]_vars => IInv'
  BY IInvNext, IInvStutter
<1> QED
  BY <1>1, <1>2, PTL DEF Spec

-----------------------------------------------------------------------------
(* How far an access has come, and what it has done                        *)

Prep == {"enter4ba", "quad", "qeread", "qewrite", "qecheck", "enterqpi", "select", "leaveqpi"}
End == call.start + call.len
Over == todo = <<>> \/ Head(todo).op = "wrdi"
Pos == IF Over THEN End ELSE Head(todo).start
\* The next piece is done, although it still is the next
HeadDone == ~Over /\ ((pc = "data" /\ cmds = <<>> /\ res = 0) \/ (pc = "poll" /\ res = 0))
At == IF HeadDone THEN Pos + Head(todo).len ELSE Pos

Tiled ==
  pc \in Accessing /\ ret = 0 => call.start <= Pos /\ (call.op # "aai" => Tiling(todo, Pos, End))

Fetched ==
  /\ call.op # "read" => got = <<>>
  /\ Len(got) <= call.len
  /\ pc \in Prep => call = NoCall /\ got = <<>>
  /\ pc \in Accessing /\ ret = 0 /\ call.op = "read" => Len(got) = At - call.start
  /\ pc = "ready" /\ ret = 0 /\ call.op = "read" => Len(got) = call.len

Reached(x) ==
  IF call.op = "read" THEN \A i \in 1 .. x - call.start : got[i] = nor.cells[call.start + i - 1]
  ELSE \A a \in call.start .. x - 1 : nor.cells[a] = Wanted(a)
Kept == \A a \in Cells : nor.cells[a] # before[a] => a \in Span(call) /\ call.op # "read"
\* The chip increments addresses to where the next word belongs
Pointer ==
  /\ ~Over /\ Head(todo).op = "cont" /\ (pc = "piece" \/ (pc = "data" /\ cmds # <<>>)) =>
       nor.aai = Head(todo).start
  /\ HeadDone /\ Head(todo).op \in {"aai", "cont"} /\ Head(todo).start + 2 < dev.size =>
       nor.aai = Head(todo).start + 2
Stored ==
  /\ Kept
  /\ pc \in Accessing /\ ret = 0 => Reached(At)
  /\ pc = "ready" /\ ret = 0 => Reached(End)
  /\ Pointer

LEMMA CallType ==
  ASSUME Types
  PROVE  call.start \in Nat /\ call.len \in Nat /\ End \in Nat /\ calls \in Nat /\ ret \in {0, 1, 4}
<1>1. CASE call \in Requests
  BY <1>1, RequestType DEF Types, End
<1>2. CASE call = NoCall
  BY <1>2 DEF Types, End, NoCall
<1> QED
  BY <1>1, <1>2 DEF Types

LEMMA HeadType ==
  ASSUME Types, todo # <<>>
  PROVE  /\ Head(todo) \in PieceIn /\ Head(todo) \in PieceRec
         /\ Head(todo).start \in Nat /\ Head(todo).len \in Nat /\ Head(todo).op \in PieceOps
         /\ Head(todo).start + Head(todo).len <= dev.size
BY LeftType DEF Types, PieceIn, PieceRec

\* The next piece lies within what is left of the access
LEMMA Within ==
  ASSUME Types, Rest, Tiled, pc \in Accessing, ret = 0
  PROVE  /\ Pos \in Nat /\ call.start <= Pos /\ Pos <= End
         /\ ~Over => /\ todo # <<>> /\ Pos = Head(todo).start /\ Head(todo).len \in Nat \ {0}
                     /\ Pos + Head(todo).len <= End
         /\ At \in Nat /\ call.start <= At /\ At <= End
<1>1. call.start \in Nat /\ call.len \in Nat /\ End \in Nat /\ call.start <= End
  BY CallType DEF End
<1>2. call.start <= Pos
  BY DEF Tiled
<1>3. CASE Over
  <2>1. Pos = End /\ At = End
    BY <1>3 DEF Pos, At, HeadDone
  <2> QED
    BY <1>1, <1>3, <2>1
<1>4. CASE ~Over
  <2>1. todo # <<>> /\ Pos = Head(todo).start /\ Head(todo).op # "wrdi"
    BY <1>4 DEF Over, Pos
  <2>2. /\ Len(todo) \in Nat \ {0} /\ Head(todo) = todo[1] /\ Pos \in Nat /\ Head(todo).len \in Nat
        /\ todo \in Seq(PieceIn)
    BY <2>1, LeftType, HeadType DEF Types
  <2>3. Head(todo).len # 0 /\ Pos + Head(todo).len <= End
    <3>1. CASE call.op = "aai"
      <4>1. Proper(call, todo[1], 1, Len(todo)) /\ call \in Requests
        BY <2>2 DEF Rest
      <4>2. Len(todo) # 1
        BY <2>1, <2>2, <3>1, <4>1 DEF Proper, Wrdi
      <4>3. Head(todo).len = 2 /\ Head(todo).start = call.start + call.len - 2 * (Len(todo) - 1)
        BY <2>2, <3>1, <4>1, <4>2 DEF Proper
      <4>4. \A s, l, n \in Int : n >= 2 => (s + l - 2 * (n - 1)) + 2 <= s + l
        OBVIOUS
      <4>5. Len(todo) \in Int /\ Len(todo) >= 2
        <5>1. \A n \in Nat \ {0} : n # 1 => n \in Int /\ n >= 2
          OBVIOUS
        <5> QED
          BY <2>2, <4>2, <5>1
      <4>6. (call.start + call.len - 2 * (Len(todo) - 1)) + 2 <= call.start + call.len
        BY <1>1, <4>4, <4>5
      <4> QED
        BY <2>1, <4>3, <4>6 DEF End
    <3>2. CASE call.op # "aai"
      <4>1. Tiling(todo, Pos, End)
        BY <3>2 DEF Tiled
      <4>2. todo[1].start = Pos /\ todo[1].len \in Nat \ {0}
        <5>1. todo[1].start = Pos /\ todo[1].len \in Nat
          BY <1>1, <2>1, <2>2, <4>1, TilingTail
        <5>2. Proper(call, todo[1], 1, Len(todo))
          BY <2>2 DEF Rest
        <5> QED
          BY <3>2, <5>1, <5>2 DEF Proper
      <4>3. todo[1].start + todo[1].len <= End
        <5>1. 1 \in 1 .. Len(todo)
          BY <2>2
        <5> QED
          BY <1>1, <2>2, <4>1, <5>1, TilingBounds
      <4> QED
        BY <2>2, <4>2, <4>3
    <3> QED
      BY <3>1, <3>2
  <2>4. At \in {Pos, Pos + Head(todo).len}
    BY DEF At
  <2> QED
    BY <1>1, <1>2, <1>4, <2>1, <2>2, <2>3, <2>4
<1> QED
  BY <1>3, <1>4

\* The next piece gives way to the one behind it
LEMMA AdvanceTiled ==
  ASSUME Types, Rest, Tiled, pc \in Accessing, ret = 0, todo # <<>>, todo' = Tail(todo), call' = call
  PROVE  /\ Pos' = IF Over THEN Pos ELSE Pos + Head(todo).len
         /\ call.start <= Pos'
         /\ call.op # "aai" => Tiling(todo', Pos', End')
<1>1. /\ call.start \in Nat /\ End \in Nat /\ End' = End /\ Pos \in Nat /\ call.start <= Pos
      /\ ~Over => Pos = Head(todo).start /\ Head(todo).len \in Nat \ {0} /\ Pos + Head(todo).len <= End
  BY CallType, Within DEF End
<1>2. /\ Len(todo) \in Nat \ {0} /\ Head(todo) = todo[1] /\ Tail(todo) \in Seq(PieceIn)
      /\ Len(Tail(todo)) = Len(todo) - 1 /\ \A i \in 1 .. Len(todo) - 1 : Tail(todo)[i] = todo[i + 1]
      /\ todo \in Seq(PieceIn) /\ dev \in Devices
  BY LeftType DEF Types
<1>3. CASE call.op = "aai"
  <2>1. call \in Requests /\ \A i \in 1 .. Len(todo) : Proper(call, todo[i], i, Len(todo))
    BY DEF Rest
  <2>2. CASE Over
    <3>1. Len(todo) = 1
      BY <1>2, <2>1, <2>2, AaiPieces DEF Over
    <3>2. todo' = <<>>
      BY <1>2, <3>1, EmptySeq
    <3> QED
      BY <1>1, <1>3, <2>2, <3>2 DEF Pos, Over
  <2>3. CASE ~Over
    <3>1. Head(todo).op \in {"aai", "cont"} /\ Head(todo).len = 2
      <4>1. Head(todo).op \in {"aai", "cont", "wrdi"}
        BY <1>2, <1>3, <2>1, AaiPieces
      <4>2. Proper(call, todo[1], 1, Len(todo))
        BY <1>2, <2>1
      <4>3. Head(todo).op # "wrdi"
        BY <2>3 DEF Over
      <4> QED
        BY <1>2, <1>3, <4>1, <4>2, <4>3 DEF Proper, Wrdi
    <3>2. /\ Len(todo) > 1 /\ Tail(todo) # <<>>
          /\ \/ Head(Tail(todo)).op = "wrdi"
             \/ (Head(Tail(todo)).op = "cont" /\ Head(Tail(todo)).start = Head(todo).start + 2)
      BY <1>2, <2>1, <3>1, AaiPieces
    <3>3. CASE Head(Tail(todo)).op = "wrdi"
      <4>1. \A i \in 1 .. Len(Tail(todo)) : Proper(call, Tail(todo)[i], i, Len(Tail(todo)))
        BY <1>2, <2>1, ProperTail
      <4>2. Len(Tail(todo)) = 1
        BY <1>2, <2>1, <3>2, <3>3, <4>1, AaiPieces
      <4>3. Proper(call, todo[1], 1, 2)
        BY SMTT(30), <1>2, <2>1, <4>2
      <4>4. todo[1].start = call.start + call.len - 2 * (2 - 1)
        BY <1>3, <4>3 DEF Proper
      <4>5. Pos' = End'
        BY <3>3 DEF Pos, Over
      <4>6. todo[1].start + 2 = End
        BY <4>4, CallType DEF End
      <4>7. Pos + Head(todo).len = End
        BY <1>1, <1>2, <2>3, <3>1, <4>6
      <4> QED
        BY <1>1, <1>3, <2>3, <4>5, <4>7
    <3>4. CASE Head(Tail(todo)).op = "cont"
      <4>1. Pos' = Head(Tail(todo)).start
        BY <3>2, <3>4 DEF Pos, Over
      <4> QED
        BY <1>1, <1>3, <2>3, <3>1, <3>2, <3>4, <4>1
    <3> QED
      BY <3>2, <3>3, <3>4
  <2> QED
    BY <2>2, <2>3
<1>4. CASE call.op # "aai"
  <2>1. ~Over
    <3>1. call \in Requests /\ \A i \in 1 .. Len(todo) : Proper(call, todo[i], i, Len(todo))
      BY DEF Rest
    <3> QED
      BY <1>2, <1>4, <3>1, AaiPieces DEF Over
  <2>2. Tiling(todo, Pos, End)
    BY <1>4 DEF Tiled
  <2>3. Tiling(Tail(todo), Pos + todo[1].len, End)
    BY <1>1, <1>2, <2>2, TilingTail
  <2>4. CASE Tail(todo) = <<>>
    <3>1. Pos' = End'
      BY <2>4 DEF Pos, Over
    <3>2. Len(Tail(todo)) = 0
      BY <1>2, <2>4, EmptySeq
    <3>3. Pos + todo[1].len = End
      BY <2>3, <3>2 DEF Tiling
    <3> QED
      BY <1>1, <1>2, <2>1, <2>3, <3>1, <3>3
  <2>5. CASE Tail(todo) # <<>>
    <3>1. Head(Tail(todo)).start = Pos + todo[1].len
      <4>1. Len(Tail(todo)) # 0 /\ Head(Tail(todo)) = Tail(todo)[1]
        BY <1>2, <2>5, LeftType
      <4> QED
        BY <2>3, <4>1 DEF Tiling
    <3>2. Head(Tail(todo)).op # "wrdi"
      <4>1. call \in Requests /\ \A i \in 1 .. Len(Tail(todo)) : Proper(call, Tail(todo)[i], i, Len(Tail(todo)))
        BY <1>2, ProperTail DEF Rest
      <4> QED
        BY <1>2, <1>4, <2>5, <4>1, AaiPieces
    <3>3. Pos' = Head(Tail(todo)).start
      BY <2>5, <3>2 DEF Pos, Over
    <3>4. Pos' = Pos + Head(todo).len
      BY <1>2, <3>1, <3>3
    <3>5. Tiling(todo', Pos', End')
      BY <1>1, <1>2, <2>3, <3>4
    <3> QED
      BY <1>1, <2>1, <3>4, <3>5
  <2> QED
    BY <2>4, <2>5
<1> QED
  BY <1>3, <1>4

LEMMA SameAt ==
  ASSUME todo' = todo, call' = call, HeadDone' <=> HeadDone
  PROVE  At' = At /\ Pos' = Pos /\ End' = End /\ (Over' <=> Over)
BY DEF At, Pos, End, Over

LEMMA AdvanceAt ==
  ASSUME Types, Rest, Tiled, pc \in Accessing, ret = 0, todo # <<>>, HeadDone \/ Head(todo).op = "wrdi",
         todo' = Tail(todo), call' = call, pc' = "piece"
  PROVE  At' = At
<1>1. Pos' = IF Over THEN Pos ELSE Pos + Head(todo).len
  BY AdvanceTiled
<1>2. At' = Pos'
  BY DEF At, HeadDone
<1>3. CASE Over
  <2>1. ~HeadDone
    BY <1>3 DEF HeadDone
  <2> QED
    BY <1>1, <1>2, <1>3, <2>1 DEF At
<1>4. CASE ~Over
  <2>1. HeadDone
    BY <1>4 DEF Over
  <2> QED
    BY <1>1, <1>2, <1>4, <2>1 DEF At
<1> QED
  BY <1>3, <1>4

LEMMA CommandSome ==
  ASSUME NEW p
  PROVE  Command(p) # <<>>
<1>1. \A x, y : <<x>> # <<>> /\ <<x, y>> # <<>>
  BY TwoCommands
<1> QED
  BY <1>1, CommandIs

\* What the steps between two commands of an access do to its progress: nothing
LEMMA AccessAt ==
  ASSUME Types, Ordered, Decided, Rest, Tiled, Access
  PROVE  /\ call' = call /\ got' = got /\ before' = before /\ nor' = nor /\ calls' = calls /\ dev' = dev
         /\ pc \in Accessing /\ Tiled' /\ pc' \in Accessing \cup {"ready"}
         /\ ret' = 0 => /\ ret = 0
                        /\ \/ pc' \in Accessing /\ At' = At
                           \/ pc' = "ready" /\ At = End
<1> DEFINE Goal ==
      /\ pc \in Accessing /\ Tiled' /\ pc' \in Accessing \cup {"ready"}
      /\ ret' = 0 => /\ ret = 0
                     /\ \/ pc' \in Accessing /\ At' = At
                        \/ pc' = "ready" /\ At = End
<1>1. ASSUME Failing(todo), pc \in Accessing PROVE Goal
  BY <1>1 DEF Failing, Tiled, Accessing
<1>2. ASSUME todo' = todo, call' = call, ret' = ret, HeadDone' <=> HeadDone, pc \in Accessing, pc' \in Accessing
      PROVE  Goal
  <2>1. At' = At /\ Pos' = Pos /\ End' = End
    BY <1>2, SameAt
  <2>2. Tiled'
    BY <1>2, <2>1 DEF Tiled
  <2> QED
    BY <1>2, <2>1, <2>2
<1>3. ASSUME Advances, call' = call, pc \in Accessing, todo # <<>>, HeadDone \/ Head(todo).op = "wrdi" PROVE Goal
  <2>1. CASE ret = 0
    <3>1. todo' = Tail(todo) /\ pc' = "piece" /\ ret' = ret
      BY <1>3 DEF Advances
    <3>2. At' = At
      BY <1>3, <2>1, <3>1, AdvanceAt
    <3>3. /\ call.start <= Pos' /\ (call.op # "aai" => Tiling(todo', Pos', End'))
      BY <1>3, <2>1, <3>1, AdvanceTiled
    <3>4. Tiled'
      BY <1>3, <3>3 DEF Tiled
    <3> QED
      BY <1>3, <2>1, <3>1, <3>2, <3>4 DEF Accessing
  <2>2. CASE ret # 0
    BY <1>3, <2>2 DEF Advances, Tiled, Accessing
  <2> QED
    BY <2>1, <2>2
<1> HIDE DEF Goal
<1>4. CASE NextPiece
  <2>1. /\ pc = "piece" /\ cmds = <<>> /\ nor' = nor /\ dev' = dev /\ call' = call
        /\ got' = got /\ calls' = calls /\ before' = before
        /\ \/ todo = <<>> /\ pc' = "ready" /\ todo' = todo /\ ret' = ret
           \/ pc' = "ear" /\ todo' = todo /\ ret' = ret
           \/ Failing(todo)
           \/ pc' = "data" /\ cmds' = Command(Head(todo)) /\ todo' = todo /\ ret' = ret
    BY <1>4, NextPieceIs
  <2>2. ~HeadDone /\ pc \in Accessing
    BY <2>1 DEF HeadDone, Accessing
  <2>3. CASE todo = <<>> /\ pc' = "ready" /\ todo' = todo /\ ret' = ret
    <3>1. At = End /\ Tiled'
      BY <2>2, <2>3 DEF At, Pos, Over, Tiled, Accessing
    <3>2. Goal
      BY <2>2, <2>3, <3>1 DEF Goal
    <3> QED
      BY <2>1, <3>2 DEF Goal
  <2>4. CASE pc' = "ear" /\ todo' = todo /\ ret' = ret
    <3>1. ~HeadDone' /\ pc' \in Accessing
      BY <2>4 DEF HeadDone, Accessing
    <3>2. Goal
      BY <1>2, <2>1, <2>2, <2>4, <3>1
    <3> QED
      BY <2>1, <3>2 DEF Goal
  <2>5. CASE Failing(todo)
    BY <1>1, <2>1, <2>2, <2>5 DEF Goal
  <2>6. CASE pc' = "data" /\ cmds' = Command(Head(todo)) /\ todo' = todo /\ ret' = ret
    <3>1. cmds' # <<>>
      BY <2>6, CommandSome
    <3>2. ~HeadDone' /\ pc' \in Accessing
      BY <2>6, <3>1 DEF HeadDone, Accessing
    <3>3. Goal
      BY <1>2, <2>1, <2>2, <2>6, <3>2
    <3> QED
      BY <2>1, <3>3 DEF Goal
  <2> QED
    BY <2>1, <2>3, <2>4, <2>5, <2>6
<1>5. CASE EarWritten
  <2>1. /\ pc = "ear" /\ cmds = <<>> /\ nor' = nor /\ dev' = dev /\ call' = call
        /\ got' = got /\ calls' = calls /\ before' = before
        /\ \/ Failing(todo)
           \/ pc' = "data" /\ cmds' = Command(Head(todo)) /\ todo' = todo /\ ret' = ret
    BY <1>5, EarWrittenIs
  <2>2. ~HeadDone /\ pc \in Accessing
    BY <2>1 DEF HeadDone, Accessing
  <2>3. CASE Failing(todo)
    BY <1>1, <2>1, <2>2, <2>3 DEF Goal
  <2>4. CASE pc' = "data" /\ cmds' = Command(Head(todo)) /\ todo' = todo /\ ret' = ret
    <3>1. cmds' # <<>>
      BY <2>4, CommandSome
    <3>2. ~HeadDone' /\ pc' \in Accessing
      BY <2>4, <3>1 DEF HeadDone, Accessing
    <3>3. Goal
      BY <1>2, <2>1, <2>2, <2>4, <3>2
    <3> QED
      BY <2>1, <3>3 DEF Goal
  <2> QED
    BY <2>1, <2>3, <2>4
<1>6. CASE Sent
  <2>1. /\ pc = "data" /\ cmds = <<>> /\ cmds' = <<>> /\ nor' = nor /\ dev' = dev /\ call' = call
        /\ got' = got /\ calls' = calls /\ before' = before /\ res' = res
        /\ \/ Head(todo).op \in {"read", "wrdi"} /\ res = 0 /\ Advances
           \/ Failing(todo)
           \/ pc' = "poll" /\ todo' = todo /\ ret' = ret
    BY <1>6, SentIs
  <2>2. pc \in Accessing /\ todo # <<>>
    BY <2>1 DEF Ordered, Accessing
  <2>3. CASE Head(todo).op \in {"read", "wrdi"} /\ res = 0 /\ Advances
    <3>1. HeadDone \/ Head(todo).op = "wrdi"
      BY <2>1, <2>2, <2>3 DEF HeadDone, Over
    <3>2. Goal
      BY <1>3, <2>1, <2>2, <2>3, <3>1
    <3> QED
      BY <2>1, <3>2 DEF Goal
  <2>4. CASE Failing(todo)
    BY <1>1, <2>1, <2>2, <2>4 DEF Goal
  <2>5. CASE pc' = "poll" /\ todo' = todo /\ ret' = ret
    <3>1. (HeadDone' <=> HeadDone) /\ pc' \in Accessing
      BY <2>1, <2>5 DEF HeadDone, Accessing, Over
    <3>2. Goal
      BY <1>2, <2>1, <2>2, <2>5, <3>1
    <3> QED
      BY <2>1, <3>2 DEF Goal
  <2> QED
    BY <2>1, <2>3, <2>4, <2>5
<1>7. CASE Poll
  <2>1. /\ pc = "poll" /\ cmds = <<>> /\ cmds' = <<>> /\ nor' = nor /\ dev' = dev /\ call' = call
        /\ got' = got /\ calls' = calls /\ before' = before /\ res' = res
        /\ (res = 0 /\ Advances) \/ Failing(todo)
    BY <1>7, PollIs
  <2>2. pc \in Accessing /\ todo # <<>> /\ Head(todo).op \notin {"read", "wrdi"}
    BY <2>1 DEF Ordered, Decided, Accessing
  <2>3. CASE res = 0 /\ Advances
    <3>1. HeadDone
      BY <2>1, <2>2, <2>3 DEF HeadDone, Over
    <3>2. Goal
      BY <1>3, <2>1, <2>2, <2>3, <3>1
    <3> QED
      BY <2>1, <3>2 DEF Goal
  <2>4. CASE Failing(todo)
    BY <1>1, <2>1, <2>2, <2>4 DEF Goal
  <2> QED
    BY <2>1, <2>3, <2>4
<1> QED
  BY <1>4, <1>5, <1>6, <1>7 DEF Access

LEMMA StartAt ==
  ASSUME Types, NEW r \in Requests, Call(r)
  PROVE  /\ At' = r.start /\ End' = r.start + r.len /\ call' = r /\ pc' = "piece"
         /\ Tiled' /\ (~Over)'
<1>1. /\ pc = "ready" /\ Possible(r) /\ pc' = "piece" /\ call' = r /\ todo' = Pieces(r)
  BY CallIs
<1>2. r.start \in Nat /\ r.len \in Nat \ {0} /\ End' = r.start + r.len /\ dev \in Devices
  BY <1>1, RequestType DEF End, Types
<1>3. /\ Pieces(r) \in Seq(PieceIn) /\ Pieces(r) # <<>>
      /\ \A i \in 1 .. Len(Pieces(r)) : Proper(r, Pieces(r)[i], i, Len(Pieces(r)))
      /\ r.op # "aai" => Tiling(Pieces(r), r.start, r.start + r.len)
      /\ r.op = "aai" => Len(Pieces(r)) > 1 /\ Pieces(r)[1].start = r.start
  BY <1>1, <1>2, PiecesIn, PiecesProper
<1>4. Len(Pieces(r)) \in Nat \ {0} /\ Head(Pieces(r)) = Pieces(r)[1]
  BY <1>3, LeftType
<1>5. Head(Pieces(r)).op # "wrdi"
  <2>1. Head(Pieces(r)).op = "wrdi" => Len(Pieces(r)) = 1 /\ r.op = "aai"
    BY <1>2, <1>3, AaiPieces
  <2> QED
    BY <1>3, <1>4, <2>1
<1>6. Head(Pieces(r)).start = r.start
  <2>1. CASE r.op = "aai"
    BY <1>3, <1>4, <2>1
  <2>2. CASE r.op # "aai"
    BY <1>2, <1>3, <1>4, <2>2 DEF Tiling
  <2> QED
    BY <2>1, <2>2
<1>7. (~Over)' /\ Pos' = r.start
  BY <1>1, <1>3, <1>5, <1>6 DEF Over, Pos
<1>8. At' = r.start
  BY <1>1, <1>7 DEF At, HeadDone
<1>9. Tiled'
  BY <1>1, <1>2, <1>3, <1>7 DEF Tiled
<1> QED
  BY <1>1, <1>2, <1>7, <1>8, <1>9

\* Where a step outside of an access leads
LEMMA Elsewhere ==
  ASSUME Types, Open \/ PrepareIo \/ Release \/ FinishIo
  PROVE  /\ nor' = nor /\ dev' = dev /\ calls' = calls /\ pc' \notin Accessing
         /\ pc' = "ready" => pc \in Prep /\ call' = call /\ got' = got
         /\ ~Open => call' = call /\ got' = got /\ before' = before
         /\ Open => call' = NoCall /\ got' = <<>> /\ before' = nor.cells
         /\ ~Open => (pc' \in Prep => pc \in Prep)
<1>1. CASE Open
  BY <1>1, OpenIs DEF Accessing, Prep
<1>2. CASE Entered
  BY <1>2, EnteredIs, OpenIs DEF Accessing, Prep
<1>3. CASE PrepareQuad
  <2>1. pc' \in {"select", "qeread", "enterqpi"}
    BY <1>3, PrepareQuadIs, TriesEither
  <2> QED
    BY <1>3, <2>1, PrepareQuadIs, OpenIs DEF Accessing, Prep
<1>4. CASE QeRead
  <2>1. pc' \in {"select", "qewrite", "enterqpi"}
    BY <1>4, QeReadIs, TriesEither
  <2> QED
    BY <1>4, <2>1, QeReadIs, OpenIs DEF Accessing, Prep
<1>5. CASE QeWritten
  BY <1>5, QeWrittenIs, OpenIs DEF Accessing, Prep
<1>6. CASE QpiEntered
  BY <1>6, QpiEnteredIs, OpenIs DEF Accessing, Prep
<1>7. CASE Select
  <2>1. faults \in Nat
    BY DEF Types
  <2> QED
    BY <1>7, <2>1, SelectIs, OpenIs DEF Accessing, Prep
<1>8. CASE QpiLeft
  BY <1>8, QpiLeftIs, OpenIs DEF Accessing, Prep
<1>9. CASE Release
  BY <1>9, ReleaseIs, OpenIs DEF Accessing, Prep, Finishes
<1>10. CASE FinishQpi
  BY <1>10, FinishQpiIs, OpenIs DEF Accessing, Prep, Finishes
<1>11. CASE QeRestored
  BY <1>11, QeRestoredIs, OpenIs DEF Accessing, Prep
<1>12. CASE Finished
  BY <1>12, FinishedIs, OpenIs DEF Accessing, Prep
<1> QED
  BY <1>1, <1>2, <1>3, <1>4, <1>5, <1>6, <1>7, <1>8, <1>9, <1>10, <1>11, <1>12 DEF PrepareIo, FinishIo

LEMMA NextCases ==
  ASSUME Next
  PROVE  \/ Open \/ PrepareIo \/ Release \/ FinishIo
         \/ Access
         \/ Send
         \/ Settle
         \/ \E r \in Requests : Call(r)
BY DEF Next, Program

LEMMA TiledStep ==
  ASSUME Types, Ordered, Decided, Rest, Tiled, Next
  PROVE  Tiled'
<1>1. CASE Open \/ PrepareIo \/ Release \/ FinishIo
  BY <1>1, Elsewhere DEF Tiled
<1>2. CASE Access
  BY <1>2, AccessAt
<1>3. CASE Send
  <2>1. pc' = pc /\ call' = call /\ todo' = todo /\ ret' = ret
    BY <1>3, SendIs
  <2> QED
    BY <2>1 DEF Tiled, Pos, End, Over
<1>4. CASE Settle
  <2>1. pc' = pc /\ call' = call /\ todo' = todo /\ ret' = ret
    BY <1>4, SettleIs
  <2> QED
    BY <2>1 DEF Tiled, Pos, End, Over
<1>5. CASE \E r \in Requests : Call(r)
  BY <1>5, StartAt
<1> QED
  BY <1>1, <1>2, <1>3, <1>4, <1>5, NextCases

\* What a read asks for
LEMMA CarriesRead ==
  ASSUME NEW p
  PROVE  /\ Carries(p).op = "read" <=> p.op = "read"
         /\ p.op = "read" => Carries(p).len = p.len /\ Carries(p) = WithAddress(p)
<1>1. CASE p.op = "read"
  BY <1>1 DEF Carries, WithAddress
<1>2. CASE p.op # "read"
  BY <1>2, CarriesOp
<1> QED
  BY <1>1, <1>2

\* A command is sent: what is read, and how far the access has come then
LEMMA SendAt ==
  ASSUME Types, Ordered, Rest, Tiled, Send
  PROVE  /\ pc' = pc /\ call' = call /\ todo' = todo /\ ret' = ret /\ before' = before /\ dev' = dev
         /\ calls' = calls /\ Pos' = Pos /\ At = Pos /\ pc \in Running
         /\ \/ /\ pc = "data" /\ cmds = <<Last1>> /\ res' = 0 /\ cmds' = <<>> /\ todo # <<>>
               /\ At' = IF Over THEN Pos ELSE Pos + Head(todo).len
               /\ got' = IF Head(todo).op = "read" THEN got \o Answer(nor, Carries(Head(todo))) ELSE got
            \/ At' = At /\ got' = got
<1>1. /\ cmds # <<>> /\ dev' = dev /\ host' = host /\ pc' = pc /\ call' = call /\ todo' = todo /\ ret' = ret
      /\ calls' = calls /\ before' = before
      /\ \/ /\ cmds' = Tail(cmds) /\ res' = 0
            /\ got' = (IF Head(cmds).op = "read" THEN got \o Answer(nor, Head(cmds)) ELSE got)
         \/ res' = 1 /\ got' = got
  BY SendIs
<1>2. /\ pc \in Running
      /\ \/ cmds = <<Last1>> /\ Head(cmds) = Last1 /\ Tail(cmds) = <<>>
         \/ Enabled /\ cmds = <<Enable, Last1>> /\ Head(cmds) = Enable /\ Tail(cmds) = <<Last1>>
  BY <1>1, CmdsAre
<1>3. ~HeadDone /\ Pos' = Pos /\ At = Pos
  BY <1>1, <1>2 DEF HeadDone, Running, Pos, End, Over, At
<1>4. ~HeadDone' => At' = At
  BY <1>1, <1>3, SameAt
<1>5. CASE res' = 1 /\ got' = got
  <2>1. ~HeadDone'
    BY <1>5 DEF HeadDone
  <2> QED
    BY <1>1, <1>2, <1>3, <1>4, <1>5, <2>1
<1>6. CASE /\ cmds' = Tail(cmds) /\ res' = 0
           /\ got' = (IF Head(cmds).op = "read" THEN got \o Answer(nor, Head(cmds)) ELSE got)
  <2>1. CASE Enabled /\ cmds = <<Enable, Last1>> /\ Head(cmds) = Enable /\ Tail(cmds) = <<Last1>>
    <3>1. cmds' # <<>> /\ got' = got
      BY <1>2, <1>6, <2>1, LastOp, TwoCommands
    <3>2. ~HeadDone'
      BY <1>1, <1>2, <3>1 DEF HeadDone, Running
    <3> QED
      BY <1>1, <1>2, <1>3, <1>4, <3>1, <3>2
  <2>2. CASE cmds = <<Last1>> /\ Head(cmds) = Last1 /\ Tail(cmds) = <<>> /\ pc # "data"
    <3>1. ~HeadDone'
      BY <1>1, <1>2, <2>2 DEF HeadDone, Running
    <3>2. got' = got
      <4>1. Last1.op # "read"
        BY <1>2, <2>2, LastOp DEF Running
      <4> QED
        BY <1>6, <2>2, <4>1
    <3> QED
      BY <1>1, <1>2, <1>3, <1>4, <3>1, <3>2
  <2>3. CASE cmds = <<Last1>> /\ Head(cmds) = Last1 /\ Tail(cmds) = <<>> /\ pc = "data"
    <3>1. todo # <<>> /\ Last1 = Carries(Head(todo))
      BY <1>2, <2>3, LastOp DEF Ordered
    <3>2. got' = IF Head(todo).op = "read" THEN got \o Answer(nor, Carries(Head(todo))) ELSE got
      BY <1>6, <2>3, <3>1, CarriesRead
    <3>3. At' = IF Over THEN Pos ELSE Pos + Head(todo).len
      BY <1>1, <1>3, <1>6, <2>3 DEF HeadDone, At, Over
    <3> QED
      BY <1>1, <1>2, <1>3, <1>6, <2>3, <3>1, <3>2, <3>3
  <2> QED
    BY <1>2, <2>1, <2>2, <2>3
<1> QED
  BY <1>1, <1>5, <1>6

LEMMA FetchedInit ==
  ASSUME Init
  PROVE  Fetched
<1>1. call = NoCall /\ got = <<>> /\ pc = "closed"
  BY DEF Init
<1>2. Len(got) = 0
  BY <1>1, EmptySeq
<1> QED
  BY <1>1, <1>2 DEF Fetched, NoCall, Accessing

\* The next piece of an access is of its kind
LEMMA HeadKind ==
  ASSUME Types, Rest, pc \in Accessing, todo # <<>>
  PROVE  /\ call.op = "read" <=> Head(todo).op = "read"
         /\ call.op \in {"write", "aai"} <=> Head(todo).op \in {"write", "aai", "cont", "wrdi"}
         /\ call.op = "aai" <=> Head(todo).op \in {"aai", "cont", "wrdi"}
         /\ call.op \notin {"read", "write", "aai"} => Head(todo) = call
         /\ ret # 0 => Head(todo).op = "wrdi"
         /\ Proper(call, Head(todo), 1, Len(todo)) /\ call \in Requests /\ Possible(call)
<1>1. /\ Len(todo) \in Nat \ {0} /\ Head(todo) = todo[1] /\ Last(todo) = todo[Len(todo)]
      /\ todo \in Seq(PieceIn) /\ dev \in Devices
  BY LeftType DEF Types
<1>2. /\ call \in Requests /\ Possible(call) /\ \A i \in 1 .. Len(todo) : Proper(call, todo[i], i, Len(todo))
      /\ ret # 0 => call.op = "aai" /\ Len(todo) = 1
  BY DEF Rest
<1>3. /\ call.op = "aai" <=> Head(todo).op \in {"aai", "cont", "wrdi"}
      /\ call.op = "aai" => Last(todo) = Wrdi
      /\ call.op \notin {"read", "write", "aai"} => Head(todo) = call
      /\ call.op \in {"read", "write"} => Head(todo).op = call.op
  BY <1>1, <1>2, AaiPieces
<1>4. call.op \in Ops
  BY <1>2, RequestType
<1>5. ret # 0 => Head(todo).op = "wrdi"
  <2>1. SUFFICES ASSUME ret # 0 PROVE Head(todo).op = "wrdi"
    OBVIOUS
  <2>2. Len(todo) = 1 /\ Last(todo) = Wrdi
    BY <1>2, <1>3, <2>1
  <2>3. Head(todo) = Wrdi
    BY <1>1, <2>2
  <2> QED
    BY <2>3 DEF Wrdi
<1>6. Proper(call, Head(todo), 1, Len(todo))
  BY <1>1, <1>2
<1>7. call.op = "read" <=> Head(todo).op = "read"
  BY <1>3
<1>8. call.op \in {"write", "aai"} <=> Head(todo).op \in {"write", "aai", "cont", "wrdi"}
  BY <1>3
<1> QED
  BY <1>2, <1>3, <1>5, <1>6, <1>7, <1>8

LEMMA FetchedStep ==
  ASSUME Types, Ordered, Decided, Rest, Tiled, Fetched, Next
  PROVE  Fetched'
<1>1. call.start \in Nat /\ call.len \in Nat /\ End = call.start + call.len /\ got \in Seq(Content)
  BY CallType DEF Types, End
<1>2. CASE Open
  <2>1. call' = NoCall /\ got' = <<>> /\ pc' \notin Accessing /\ pc' # "ready"
    BY <1>2, OpenIs DEF Accessing
  <2>2. Len(got') = 0
    BY <2>1, EmptySeq
  <2> QED
    BY <2>1, <2>2 DEF Fetched, NoCall
<1>3. CASE ~Open /\ (PrepareIo \/ Release \/ FinishIo)
  <2>1. /\ call' = call /\ got' = got /\ pc' \notin Accessing /\ (pc' = "ready" => pc \in Prep)
        /\ pc' \in Prep => pc \in Prep
    BY <1>3, Elsewhere
  <2>2. pc' = "ready" => Len(got') = call'.len
    <3>1. Len(<<>>) = 0
      OBVIOUS
    <3> QED
      BY <2>1, <3>1 DEF Fetched, NoCall
  <2> QED
    BY <2>1, <2>2 DEF Fetched
<1>4. CASE Access
  <2>1. /\ call' = call /\ got' = got
        /\ pc \in Accessing /\ pc' \in Accessing \cup {"ready"}
        /\ ret' = 0 => /\ ret = 0
                       /\ \/ pc' \in Accessing /\ At' = At
                          \/ pc' = "ready" /\ At = End
    BY <1>4, AccessAt
  <2>2. pc' \notin Prep
    BY <2>1 DEF Accessing, Prep
  <2>3. ret' = 0 /\ call.op = "read" /\ pc' \in Accessing => Len(got') = At' - call'.start
    BY <2>1 DEF Fetched, Accessing
  <2>4. ret' = 0 /\ call.op = "read" /\ pc' = "ready" => Len(got') = call'.len
    <3>1. SUFFICES ASSUME ret' = 0, call.op = "read", pc' = "ready" PROVE Len(got') = call'.len
      OBVIOUS
    <3>2. Len(got) = At - call.start /\ At = End
      BY <2>1, <3>1 DEF Fetched, Accessing
    <3> QED
      BY <1>1, <2>1, <3>2
  <2> QED
    BY <2>1, <2>2, <2>3, <2>4 DEF Fetched
<1>5. CASE Send
  <2>1. /\ pc' = pc /\ call' = call /\ todo' = todo /\ ret' = ret /\ At = Pos /\ pc \in Running
        /\ \/ /\ pc = "data" /\ todo # <<>>
              /\ At' = IF Over THEN Pos ELSE Pos + Head(todo).len
              /\ got' = IF Head(todo).op = "read" THEN got \o Answer(nor, Carries(Head(todo))) ELSE got
           \/ At' = At /\ got' = got
    BY <1>5, SendAt
  <2>2. CASE At' = At /\ got' = got
    BY <2>1, <2>2 DEF Fetched
  <2>3. CASE /\ pc = "data" /\ todo # <<>>
             /\ At' = IF Over THEN Pos ELSE Pos + Head(todo).len
             /\ got' = IF Head(todo).op = "read" THEN got \o Answer(nor, Carries(Head(todo))) ELSE got
    <3>1. pc \in Accessing /\ pc \notin Prep
      BY <2>3 DEF Accessing, Prep
    <3>2. call.op = "read" <=> Head(todo).op = "read"
      BY <2>3, <3>1, HeadKind
    <3>3. CASE call.op # "read"
      BY <2>1, <2>3, <3>1, <3>2, <3>3 DEF Fetched, Accessing
    <3>4. CASE call.op = "read"
      <4>1. ret = 0 /\ ~Over
        BY <2>3, <3>1, <3>2, <3>4, HeadKind DEF Over
      <4>2. /\ Pos \in Nat /\ call.start <= Pos /\ Head(todo).len \in Nat \ {0} /\ Pos + Head(todo).len <= End
        BY <3>1, <4>1, Within
      <4>3. Head(todo) \in PieceRec /\ dev \in Devices /\ nor \in Nor /\ host \in Host /\ calls \in Nat
        BY <2>3, HeadType DEF Types
      <4>4. Carries(Head(todo)) \in Commands /\ Carries(Head(todo)).len = Head(todo).len
        BY <3>2, <3>4, <4>3, CarriesType, CarriesRead
      <4>5. Answer(nor, Carries(Head(todo))) \in Seq(Content) /\ Len(Answer(nor, Carries(Head(todo)))) = Head(todo).len
        BY <4>3, <4>4, AnswerType
      <4>6. Len(got') = Len(got) + Head(todo).len
        <5> DEFINE ans == Answer(nor, Carries(Head(todo)))
        <5>1. ans \in Seq(Content) /\ Len(ans) = Head(todo).len /\ got' = got \o ans
          BY <2>3, <3>2, <3>4, <4>5
        <5> HIDE DEF ans
        <5>2. Len(got \o ans) = Len(got) + Len(ans)
          BY <1>1, <5>1, ConcatElements
        <5> QED
          BY <5>1, <5>2
      <4>7. Len(got) = Pos - call.start
        BY <2>1, <3>1, <3>4, <4>1 DEF Fetched
      <4>8. At' = Pos + Head(todo).len
        BY <2>3, <4>1
      <4>9. Len(got') = At' - call.start /\ Len(got') <= call.len
        <5>1. \A l, x, c, h, n \in Int : x + h <= c + n /\ l = x - c => l + h = (x + h) - c /\ l + h <= n
          OBVIOUS
        <5>2. Len(got) \in Int /\ Pos \in Int /\ call.start \in Int /\ Head(todo).len \in Int /\ call.len \in Int
          BY <1>1, <4>2, <4>7
        <5>3. Pos + Head(todo).len <= call.start + call.len
          BY <1>1, <4>2
        <5>4. Len(got) + Head(todo).len = (Pos + Head(todo).len) - call.start
              /\ Len(got) + Head(todo).len <= call.len
          BY <4>7, <5>1, <5>2, <5>3
        <5> QED
          BY <4>6, <4>8, <5>4
      <4> QED
        BY <2>1, <2>3, <3>1, <3>4, <4>9 DEF Fetched
    <3> QED
      BY <3>3, <3>4
  <2> QED
    BY <2>1, <2>2, <2>3
<1>6. CASE Settle
  <2>1. pc' = pc /\ call' = call /\ todo' = todo /\ ret' = ret /\ got' = got /\ cmds' = cmds /\ res' = res
    BY <1>6, SettleIs
  <2>2. At' = At
    BY <2>1, SameAt DEF HeadDone, Over
  <2> QED
    BY <2>1, <2>2 DEF Fetched
<1>7. CASE \E r \in Requests : Call(r)
  <2>1. PICK r \in Requests : Call(r)
    BY <1>7
  <2>2. At' = r.start /\ call' = r /\ pc' = "piece" /\ got' = <<>>
    BY <2>1, StartAt, CallIs
  <2>3. r.start \in Nat /\ r.len \in Nat /\ Len(got') = 0
    BY <2>2, RequestType, EmptySeq
  <2>4. "piece" \notin Prep
    BY DEF Prep
  <2> QED
    BY <2>2, <2>3, <2>4 DEF Fetched
<1> QED
  BY <1>2, <1>3, <1>4, <1>5, <1>6, <1>7, NextCases

-----------------------------------------------------------------------------
(* What the commands of an access do to the cells                          *)

LEMMA ErasedIs ==
  ASSUME NEW n, NEW S, NEW a \in Cells
  PROVE  Erased(n, S)[a] = IF a \in S THEN Blank ELSE n.cells[a]
BY DEF Erased

\* The command of a piece arrives at a chip that takes it for what it is
LEMMA Arrives ==
  ASSUME Told, pc = "data", cmds = <<Last1>>
  PROVE  /\ Last1 = Carries(Head(todo)) /\ Understands(nor, Last1) /\ ~nor.busy
         /\ nor.aai # NoAai => Last1.op \in {"cont", "wrdi"}
         /\ Head(todo).op \notin {"read", "cont", "wrdi"} => nor.wel /\ nor.aai = NoAai
         /\ todo # <<>> /\ Head(todo) \in PieceIn /\ Head(todo) \in PieceRec
         /\ nor \in Nor /\ host \in Host /\ dev \in Devices /\ calls \in Nat
         /\ Last1 \in Commands
<1>1. pc \in Running /\ cmds # <<>> /\ Head(cmds) = Last1
  BY TwoCommands DEF Running
<1>2. Types /\ Ordered /\ Decided /\ Modes /\ Idling
  BY DEF Told
<1>3. Last1 = Carries(Head(todo)) /\ todo # <<>>
  BY <1>1, <1>2, LastOp DEF Ordered
<1>4. Understands(nor, Last1)
  BY <1>1, <1>2, Heard
<1>5. ~nor.busy /\ (nor.aai # NoAai => Last1.op \in {"cont", "wrdi"})
  BY <1>1, <1>2, Listens
<1>6. Head(todo) \in PieceIn /\ Head(todo) \in PieceRec
  BY <1>2, <1>3, HeadType
<1>7. nor \in Nor /\ host \in Host /\ dev \in Devices /\ calls \in Nat
  BY <1>2 DEF Types
<1>8. Last1 \in Commands
  BY <1>3, <1>6, <1>7, CarriesType
<1>9. Head(todo).op \notin {"read", "cont", "wrdi"} => nor.wel
  BY <1>2 DEF Idling, Enabled
<1>10. Head(todo).op \notin {"read", "cont", "wrdi"} => nor.aai = NoAai
  <2>1. Head(todo).op \notin {"read", "cont", "wrdi"} => Last1.op \notin {"cont", "wrdi"}
    <3>1. Head(todo).op \in PieceOps
      BY <1>6 DEF PieceRec
    <3> QED
      BY <1>3, CarriesOp
  <2> QED
    BY <1>5, <2>1
<1> QED
  BY <1>3, <1>4, <1>5, <1>6, <1>7, <1>8, <1>9, <1>10

\* ... at the address where it belongs
LEMMA Places ==
  ASSUME Told, pc = "data", HasAddress(Head(todo)), todo # <<>>,
         NEW i \in Nat, Head(todo).start + i < dev.size,
         (Head(todo).start + i) \div Bank = BankOf(Head(todo))
  PROVE  Where(nor, WithAddress(Head(todo)), i) = Head(todo).start + i
<1> DEFINE p == Head(todo)
           c == WithAddress(p)
<1>1. Types /\ Decided /\ Modes
  BY DEF Told
<1>2. p \in PieceRec /\ p \in PieceIn /\ dev \in Devices /\ host \in Host
  BY <1>1, HeadType DEF Types
<1>3. c.alen = AddressLength(p) /\ c.addr = Encoded(p)
  BY DEF WithAddress
<1>4. c.alen = 3 => (IF dev.ear THEN nor.ear ELSE 0) = BankOf(p)
  <2>1. SUFFICES ASSUME c.alen = 3 PROVE (IF dev.ear THEN nor.ear ELSE 0) = BankOf(p)
    OBVIOUS
  <2>2. AddressLength(p) = 3 /\ ~host.fourba
    BY <1>3, <2>1 DEF AddressLength
  <2>3. NeedsBank(p)
    BY <2>2 DEF NeedsBank
  <2>4. IF dev.ear THEN host.high = BankOf(p) ELSE BankOf(p) = 0
    BY <1>1, <2>3 DEF Decided
  <2>5. BankOf(p) \in 0 .. 127
    BY <1>2, BankRange
  <2>6. dev.ear => nor.ear = host.high
    <3>1. dev.ear => host.high # -1
      <4>1. \A b \in 0 .. 127 : b # -1
        OBVIOUS
      <4>2. BankOf(p) # -1
        BY <2>5, <4>1
      <4> QED
        BY <2>4, <4>2
    <3> QED
      BY <1>1, <2>2, <3>1 DEF Modes
  <2> QED
    BY <2>4, <2>6
<1>5. (p.start + i) \div Bank = p.start \div Bank
  BY DEF BankOf
<1> HIDE DEF c
<1>6. Where(nor, c, i) = p.start + i
  BY <1>2, <1>3, <1>4, <1>5, Reaches
<1> QED
  BY <1>6 DEF c

LEMMA PlacesFirst ==
  ASSUME Told, pc = "data", HasAddress(Head(todo)), todo # <<>>
  PROVE  Where(nor, WithAddress(Head(todo)), 0) = Head(todo).start
<1>1. Head(todo) \in PieceIn /\ Head(todo).start \in Nat
  BY HeadType DEF Told
<1>2. Head(todo).start + 0 = Head(todo).start /\ Head(todo).start + 0 < dev.size
  BY <1>1 DEF PieceIn
<1>3. (Head(todo).start + 0) \div Bank = BankOf(Head(todo))
  BY <1>2 DEF BankOf
<1>4. Where(nor, WithAddress(Head(todo)), 0) = Head(todo).start + 0
  BY <1>2, <1>3, Places
<1> QED
  BY <1>2, <1>4

\* The range of a piece, and what belongs there
PieceSpan(p) == p.start .. p.start + p.len - 1
Belongs(p, a) == IF p.op \in {"write", "aai", "cont"} THEN <<a, calls>> ELSE Blank
Stores(p, n) ==
  \A a \in Cells : n.cells[a] = IF a \in PieceSpan(p) THEN Belongs(p, a) ELSE nor.cells[a]

\* Data that is written where it belongs
LEMMA DataStored ==
  ASSUME dev \in Devices, calls \in Nat, NEW p \in PieceRec, p.op \in {"write", "aai", "cont"},
         NEW c, c.data = Data(p), NEW at, \A i \in 1 .. p.len : at[i] = p.start + i - 1,
         NEW o, o.cells = Written(nor, c, at)
  PROVE  Stores(p, o)
<1> SUFFICES ASSUME NEW a \in Cells
             PROVE  o.cells[a] = IF a \in PieceSpan(p) THEN Belongs(p, a) ELSE nor.cells[a]
  BY DEF Stores
<1>1. /\ p.start \in Nat /\ p.len \in Nat /\ c.data \in Seq(Content) /\ Len(c.data) = p.len
      /\ \A i \in 1 .. p.len : c.data[i] = <<p.start + i - 1, calls>>
  BY DataType DEF PieceRec
<1>2. a \in Int
  BY DeviceFields DEF Cells
<1> DEFINE hits == {i \in DOMAIN c.data : at[i] = a}
<1>3. DOMAIN c.data = 1 .. p.len
  BY <1>1, LenProperties
<1>4. o.cells[a] = IF hits = {} THEN nor.cells[a] ELSE c.data[Max(hits)]
  BY DEF Written
<1>5. \A i \in 1 .. p.len : at[i] = p.start + i - 1
  OBVIOUS
<1>6. CASE a \in p.start .. p.start + p.len - 1
  <2>1. a - p.start + 1 \in 1 .. p.len /\ a - p.start + 1 \in Int /\ p.start + (a - p.start + 1) - 1 = a
    BY <1>1, <1>2, <1>6
  <2>2. \A i \in 1 .. p.len : at[i] = a <=> i = a - p.start + 1
    <3> TAKE i \in 1 .. p.len
    <3>1. at[i] = p.start + i - 1
      BY <1>5
    <3>2. \A s, j, x \in Int : s + j - 1 = x <=> j = x - s + 1
      OBVIOUS
    <3>3. p.start \in Int /\ i \in Int
      BY <1>1
    <3>4. p.start + i - 1 = a <=> i = a - p.start + 1
      BY <1>2, <3>2, <3>3
    <3> QED
      BY <3>1, <3>4
  <2>3. hits = {a - p.start + 1}
    BY <1>3, <2>1, <2>2
  <2>4. Max(hits) = a - p.start + 1
    BY <2>1, <2>3, MaxOne
  <2>5. hits # {}
    BY <2>3
  <2> HIDE DEF hits
  <2>6. o.cells[a] = c.data[a - p.start + 1]
    BY <1>4, <2>4, <2>5
  <2>7. c.data[a - p.start + 1] = <<a, calls>>
    BY <1>1, <2>1
  <2> QED
    BY <1>6, <2>6, <2>7 DEF PieceSpan, Belongs
<1>7. CASE a \notin p.start .. p.start + p.len - 1
  <2>1. \A i \in 1 .. p.len : at[i] # a
    <3> TAKE i \in 1 .. p.len
    <3>1. at[i] = p.start + i - 1
      BY <1>5
    <3>2. p.start + i - 1 \in p.start .. p.start + p.len - 1
      BY <1>1
    <3> QED
      BY <1>7, <3>1, <3>2
  <2>2. hits = {}
    BY <1>3, <2>1
  <2> HIDE DEF hits
  <2> QED
    BY <1>4, <1>7, <2>2 DEF PieceSpan
<1> QED
  BY <1>6, <1>7

LEMMA WriteStores ==
  ASSUME Told, pc = "data", cmds = <<Last1>>, Head(todo).op = "write"
  PROVE  Stores(Head(todo), Obey(nor, Last1))
<1> DEFINE p == Head(todo)
<1>1. /\ Last1 = Carries(p) /\ Understands(nor, Last1) /\ ~nor.busy /\ nor.wel /\ nor.aai = NoAai
      /\ todo # <<>> /\ p \in PieceIn /\ p \in PieceRec /\ nor \in Nor /\ dev \in Devices /\ calls \in Nat
  BY Arrives
<1>2. Last1 = WithAddress(p) /\ Last1.op = "program" /\ Last1.data = Data(p) /\ HasAddress(p)
  BY <1>1 DEF Carries, WithAddress, HasAddress
<1> PICK o : o = Obey(nor, Last1)
  OBVIOUS
<1> PICK at : at = [i \in DOMAIN Last1.data |-> WhereInPage(nor, Last1, i - 1)]
  OBVIOUS
<1>3. o.cells = Written(nor, Last1, at)
  <2>1. o = [nor EXCEPT !.cells = Written(nor, Last1, at), !.wel = FALSE, !.busy = TRUE]
    BY ZenonT(30), <1>1, <1>2, Obeys
  <2> QED
    BY <1>1, <2>1 DEF Nor
<1>4. Where(nor, Last1, 0) = p.start
  BY <1>1, <1>2, PlacesFirst
<1>5. p.start \in Nat /\ p.len \in Nat
  BY <1>1 DEF PieceRec
<1>6. p.start \div Page = (p.start + p.len - 1) \div Page
  <2>1. pc \in Accessing /\ Types /\ Rest
    BY DEF Accessing, Told
  <2>2. Proper(call, p, 1, Len(todo)) /\ call.op \in {"write", "aai"} /\ call.op # "aai"
    BY <1>1, <2>1, HeadKind
  <2> QED
    BY <2>2 DEF Proper
<1>7. \A i \in 1 .. p.len : at[i] = p.start + i - 1
  <2> TAKE i \in 1 .. p.len
  <2>1. i \in DOMAIN Last1.data
    <3>1. Data(p) \in Seq(Content) /\ Len(Data(p)) = p.len
      BY <1>1, DataType
    <3> QED
      BY <1>2, <3>1
  <2>2. i - 1 \in Nat /\ p.start <= p.start + (i - 1) /\ p.start + (i - 1) <= p.start + p.len - 1
        /\ p.start + (i - 1) \in Int /\ p.start + p.len - 1 \in Int /\ p.start \in Int
    BY <1>5
  <2>3. (p.start + (i - 1)) \div Page = p.start \div Page
    BY ZenonT(30), <1>6, <2>2, BetweenSame, SpiAssumption
  <2>4. WhereInPage(nor, Last1, i - 1) = p.start + (i - 1)
    BY <1>4, <1>5, <2>2, <2>3, ReachesPage
  <2>5. p.start + (i - 1) = p.start + i - 1
    BY <1>5
  <2> QED
    BY <2>1, <2>4, <2>5
<1>8. Stores(p, o)
  BY <1>1, <1>2, <1>3, <1>7, DataStored
<1> QED
  BY <1>8

\* The second word of an AAI write follows the first
LEMMA AaiStores ==
  ASSUME Told, pc = "data", cmds = <<Last1>>, Head(todo).op = "aai"
  PROVE  /\ Stores(Head(todo), Obey(nor, Last1))
         /\ Head(todo).start + 2 < dev.size => Obey(nor, Last1).aai = Head(todo).start + 2
<1> DEFINE p == Head(todo)
<1>1. /\ Last1 = Carries(p) /\ Understands(nor, Last1) /\ ~nor.busy /\ nor.wel /\ nor.aai = NoAai
      /\ todo # <<>> /\ p \in PieceIn /\ p \in PieceRec /\ nor \in Nor /\ dev \in Devices /\ calls \in Nat
  BY Arrives
<1>2. Last1 = WithAddress(p) /\ Last1.op = "aai" /\ Last1.data = Data(p) /\ HasAddress(p)
  BY <1>1 DEF Carries, WithAddress, HasAddress
<1> PICK o : o = Obey(nor, Last1)
  OBVIOUS
<1> PICK at : at = [i \in DOMAIN Last1.data |-> Where(nor, Last1, i - 1)]
  OBVIOUS
<1>3. o.cells = Written(nor, Last1, at) /\ o.aai = Where(nor, Last1, 2)
  <2>0. Obey(nor, Last1) =
          [nor EXCEPT !.cells = Written(nor, Last1, [i \in DOMAIN Last1.data |-> Where(nor, Last1, i - 1)]),
                      !.aai = Where(nor, Last1, 2), !.busy = TRUE]
    <3>1. nor \in Nor /\ Understands(nor, Last1) /\ ~nor.busy /\ (nor.aai # NoAai => Last1.op \in {"cont", "wrdi"})
      BY <1>1
    <3>2. LET o2 == Obey(nor, Last1)
          IN  Last1.op = "aai" /\ nor.wel =>
                   o2 = [nor EXCEPT !.cells = Written(nor, Last1, [i \in DOMAIN Last1.data |-> Where(nor, Last1, i - 1)]),
                                 !.aai = Where(nor, Last1, 2), !.busy = TRUE]
      BY <3>1, Obeys
    <3> QED
      BY <1>1, <1>2, <3>2
  <2>1. o = [nor EXCEPT !.cells = Written(nor, Last1, at), !.aai = Where(nor, Last1, 2), !.busy = TRUE]
    BY <2>0
  <2> QED
    BY <1>1, <2>1 DEF Nor
<1>5. /\ p.start \in Nat /\ p.len \in Nat /\ p.start + p.len <= dev.size /\ dev.size \in Nat \ {0}
      /\ Bank \in Nat \ {0}
  BY <1>1, DeviceFields DEF PieceRec, PieceIn
<1>6. dev.size <= Bank
  <2>1. pc \in Accessing /\ Types /\ Rest
    BY DEF Accessing, Told
  <2>2. Possible(call) /\ call.op = "aai"
    BY <1>1, <2>1, HeadKind
  <2> QED
    BY <1>5, <2>2 DEF Possible, Big
<1>7. ASSUME NEW i \in Nat, p.start + i < dev.size
      PROVE  Where(nor, Last1, i) = p.start + i
  <2>1. p.start + i \in 0 .. Bank - 1 /\ p.start \in 0 .. Bank - 1
    BY <1>5, <1>6, <1>7
  <2>2. (p.start + i) \div Bank = BankOf(p)
    BY <1>5, <2>1, ModSmall DEF BankOf
  <2> QED
    BY <1>1, <1>2, <1>7, <2>2, Places
<1>8. \A i \in 1 .. p.len : at[i] = p.start + i - 1
  <2> TAKE i \in 1 .. p.len
  <2>1. i \in DOMAIN Last1.data
    <3>1. Data(p) \in Seq(Content) /\ Len(Data(p)) = p.len
      BY <1>1, DataType
    <3> QED
      BY <1>2, <3>1
  <2>2. i - 1 \in Nat /\ p.start + (i - 1) < dev.size /\ p.start + (i - 1) = p.start + i - 1
    BY <1>5
  <2>3. Where(nor, Last1, i - 1) = p.start + (i - 1)
    BY <1>7, <2>2
  <2> QED
    BY <2>1, <2>2, <2>3
<1>9. Stores(p, o)
  BY <1>1, <1>2, <1>3, <1>8, DataStored
<1>10. p.start + 2 < dev.size => o.aai = p.start + 2
  BY <1>3, <1>7
<1> QED
  BY <1>9, <1>10

\* A further word goes where the chip increments addresses to
LEMMA ContStores ==
  ASSUME Told, pc = "data", cmds = <<Last1>>, Head(todo).op = "cont", nor.aai = Head(todo).start
  PROVE  /\ Stores(Head(todo), Obey(nor, Last1))
         /\ Head(todo).start + 2 < dev.size => Obey(nor, Last1).aai = Head(todo).start + 2
<1> DEFINE p == Head(todo)
<1>1. /\ Last1 = Carries(p) /\ Understands(nor, Last1) /\ ~nor.busy
      /\ todo # <<>> /\ p \in PieceIn /\ p \in PieceRec /\ nor \in Nor /\ dev \in Devices /\ calls \in Nat
  BY Arrives
<1>2. Last1.op = "cont" /\ Last1.data = Data(p)
  BY <1>1 DEF Carries, Plain, Simple
<1>3. /\ p.start \in Nat /\ p.len \in Nat /\ p.start + p.len <= dev.size /\ dev.size \in Nat \ {0}
  BY <1>1, DeviceFields DEF PieceRec, PieceIn
<1>4. nor.aai # NoAai
  BY <1>3 DEF NoAai
<1> PICK o : o = Obey(nor, Last1)
  OBVIOUS
<1> PICK at : at = [i \in DOMAIN Last1.data |-> (nor.aai + i - 1) % dev.size]
  OBVIOUS
<1>5. o.cells = Written(nor, Last1, at) /\ o.aai = (nor.aai + 2) % dev.size
  <2>1. Obey(nor, Last1) =
          [nor EXCEPT !.cells = Written(nor, Last1, [i \in DOMAIN Last1.data |-> (nor.aai + i - 1) % dev.size]),
                      !.aai = (nor.aai + 2) % dev.size, !.busy = TRUE]
    <3>1. nor \in Nor /\ Understands(nor, Last1) /\ ~nor.busy /\ (nor.aai # NoAai => Last1.op \in {"cont", "wrdi"})
      BY <1>1, <1>2
    <3>2. LET o2 == Obey(nor, Last1)
          IN  Last1.op = "cont" /\ nor.aai # NoAai =>
                o2 = [nor EXCEPT !.cells = Written(nor, Last1, [i \in DOMAIN Last1.data |-> (nor.aai + i - 1) % dev.size]),
                                 !.aai = (nor.aai + 2) % dev.size, !.busy = TRUE]
      BY <3>1, Obeys
    <3> QED
      BY <1>2, <1>4, <3>2
  <2>2. o = [nor EXCEPT !.cells = Written(nor, Last1, at), !.aai = (nor.aai + 2) % dev.size, !.busy = TRUE]
    BY <2>1
  <2> QED
    BY <1>1, <2>2 DEF Nor
<1>6. ASSUME NEW x \in 0 .. dev.size - 1 PROVE x % dev.size = x
  BY <1>3, ModSmall
<1>7. \A i \in 1 .. p.len : at[i] = p.start + i - 1
  <2> TAKE i \in 1 .. p.len
  <2>1. i \in DOMAIN Last1.data
    <3>1. Data(p) \in Seq(Content) /\ Len(Data(p)) = p.len
      BY <1>1, DataType
    <3> QED
      BY <1>2, <3>1
  <2>2. p.start + i - 1 \in 0 .. dev.size - 1
    BY <1>3
  <2>3. (p.start + i - 1) % dev.size = p.start + i - 1
    BY <1>6, <2>2
  <2>4. at[i] = (p.start + i - 1) % dev.size
    BY <2>1
  <2> QED
    BY <2>3, <2>4
<1>8. Stores(p, o)
  BY <1>1, <1>2, <1>5, <1>7, DataStored
<1>9. p.start + 2 < dev.size => o.aai = p.start + 2
  <2>1. SUFFICES ASSUME p.start + 2 < dev.size PROVE o.aai = p.start + 2
    OBVIOUS
  <2>2. p.start + 2 \in 0 .. dev.size - 1
    BY <1>3, <2>1
  <2>3. (p.start + 2) % dev.size = p.start + 2
    BY <1>6, <2>2
  <2> QED
    BY <1>5, <2>3
<1> QED
  BY <1>8, <1>9

LEMMA EraseStores ==
  ASSUME Told, pc = "data", cmds = <<Last1>>, Head(todo).op \in {"erase", "erase4", "wipe"}
  PROVE  Stores(Head(todo), Obey(nor, Last1))
<1> DEFINE p == Head(todo)
<1>1. /\ Last1 = Carries(p) /\ Understands(nor, Last1) /\ ~nor.busy /\ nor.wel /\ nor.aai = NoAai
      /\ todo # <<>> /\ p \in PieceIn /\ p \in PieceRec /\ nor \in Nor /\ dev \in Devices /\ calls \in Nat
  BY Arrives
<1>2. p = call /\ call \in Requests /\ Possible(call)
  <2>1. pc \in Accessing /\ Types /\ Rest
    BY DEF Accessing, Told
  <2>2. call.op \notin {"read", "write", "aai"}
    BY <1>1, <2>1, HeadKind
  <2> QED
    BY <1>1, <2>1, <2>2, HeadKind
<1>3. /\ p.start \in Nat /\ p.len \in Nat \ {0} /\ p.start + p.len <= dev.size /\ dev.size \in Nat \ {0}
      /\ p.op \in {"erase", "erase4"} => p.start % p.len = 0
  BY <1>1, <1>2, DeviceFields, RequestType DEF PieceRec, PieceIn
<1> PICK o : o = Obey(nor, Last1)
  OBVIOUS
<1>4. \E S : (\A a \in Cells : a \in S <=> a \in PieceSpan(p)) /\ o.cells = Erased(nor, S)
  <2>1. CASE p.op \in {"erase", "erase4"}
    <3>1. Last1 = WithAddress(p) /\ Last1.op = "erase" /\ Last1.len = p.len /\ HasAddress(p)
      BY <1>1, <2>1 DEF Carries, WithAddress, HasAddress
    <3>2. o.cells = Erased(nor, BlockAt(Where(nor, Last1, 0), Last1.len))
      <4>1. o = [nor EXCEPT !.cells = Erased(nor, BlockAt(Where(nor, Last1, 0), Last1.len)), !.wel = FALSE, !.busy = TRUE]
        BY <1>1, <3>1, Obeys
      <4> QED
        BY <1>1, <4>1 DEF Nor
    <3>3. Where(nor, Last1, 0) = p.start
      BY <1>1, <3>1, PlacesFirst
    <3>4. BlockAt(p.start, p.len) = PieceSpan(p)
      <4>1. p.start % p.len = 0 /\ p.start - 0 = p.start
        BY <1>3, <2>1
      <4> QED
        BY <4>1 DEF BlockAt, PieceSpan
    <3> QED
      BY <3>1, <3>2, <3>3, <3>4
  <2>2. CASE p.op = "wipe"
    <3>1. Last1.op = "wipe"
      BY <1>1, <2>2 DEF Carries, Plain, Simple
    <3>2. o.cells = Erased(nor, Cells)
      <4>1. o = [nor EXCEPT !.cells = Erased(nor, Cells), !.wel = FALSE, !.busy = TRUE]
        BY <1>1, <3>1, Obeys
      <4> QED
        BY <1>1, <4>1 DEF Nor
    <3>3. p.start = 0 /\ p.len = dev.size
      BY <1>2, <2>2 DEF Possible
    <3>4. PieceSpan(p) = Cells
      BY <1>3, <3>3 DEF PieceSpan, Cells
    <3> QED
      BY <3>2, <3>4
  <2> QED
    BY <2>1, <2>2
<1>5. PICK S : (\A a \in Cells : a \in S <=> a \in PieceSpan(p)) /\ o.cells = Erased(nor, S)
  BY <1>4
<1>6. ASSUME NEW a \in Cells
      PROVE  o.cells[a] = IF a \in PieceSpan(p) THEN Belongs(p, a) ELSE nor.cells[a]
  <2>1. Belongs(p, a) = Blank
    BY DEF Belongs
  <2>2. o.cells[a] = IF a \in S THEN Blank ELSE nor.cells[a]
    BY <1>5, ErasedIs
  <2> QED
    BY <1>5, <2>1, <2>2
<1>7. Stores(p, o)
  BY <1>6 DEF Stores
<1> QED
  BY <1>7

LEMMA ReadAnswers ==
  ASSUME Told, pc = "data", cmds = <<Last1>>, Head(todo).op = "read"
  PROVE  \A i \in 1 .. Head(todo).len : Answer(nor, Carries(Head(todo)))[i] = nor.cells[Head(todo).start + i - 1]
<1> DEFINE p == Head(todo)
<1>1. /\ Last1 = Carries(p) /\ ~nor.busy /\ (nor.aai # NoAai => Last1.op \in {"cont", "wrdi"})
      /\ todo # <<>> /\ p \in PieceIn /\ p \in PieceRec /\ nor \in Nor /\ dev \in Devices
  BY Arrives
<1>2. Carries(p) = WithAddress(p) /\ Carries(p).len = p.len /\ HasAddress(p) /\ Carries(p).op = "read"
  BY CarriesRead DEF HasAddress
<1>3. ~Deaf(nor)
  BY <1>1, <1>2 DEF Deaf
<1>4. /\ p.start \in Nat /\ p.len \in Nat /\ p.start + p.len <= dev.size
  BY <1>1 DEF PieceRec, PieceIn
<1>5. p.start \div Bank = (p.start + p.len - 1) \div Bank
  <2>1. pc \in Accessing /\ Types /\ Rest
    BY DEF Accessing, Told
  <2>2. Proper(call, p, 1, Len(todo)) /\ call.op = "read"
    BY <1>1, <2>1, HeadKind
  <2> QED
    BY <2>2 DEF Proper
<1> SUFFICES ASSUME NEW i \in 1 .. p.len
             PROVE  Answer(nor, Carries(p))[i] = nor.cells[p.start + i - 1]
  OBVIOUS
<1>6. i - 1 \in Nat /\ p.start <= p.start + (i - 1) /\ p.start + (i - 1) <= p.start + p.len - 1
      /\ p.start + (i - 1) \in Int /\ p.start + p.len - 1 \in Int /\ p.start \in Int
      /\ p.start + (i - 1) < dev.size /\ p.start + (i - 1) = p.start + i - 1
  BY SMTT(30), <1>4, DeviceFields, <1>1
<1>7. (p.start + (i - 1)) \div Bank = BankOf(p)
  <2> DEFINE x == p.start
             y == p.start + (i - 1)
             z == p.start + p.len - 1
  <2>1. x \in Int /\ y \in Int /\ z \in Int /\ x <= y /\ y <= z /\ x \div Bank = z \div Bank
    BY <1>5, <1>6
  <2>2. BankOf(p) = x \div Bank /\ Bank \in Nat \ {0}
    BY SpiAssumption DEF BankOf
  <2> HIDE DEF x, y, z
  <2>3. y \div Bank = x \div Bank
    BY <2>1, <2>2, BetweenSame
  <2> QED
    BY <2>2, <2>3 DEF y
<1>8. Where(nor, WithAddress(p), i - 1) = p.start + (i - 1)
  BY <1>1, <1>2, <1>6, <1>7, Places
<1>9. Answer(nor, Carries(p))[i] = nor.cells[Where(nor, Carries(p), i - 1)]
  BY <1>2, <1>3 DEF Answer
<1> QED
  BY <1>2, <1>6, <1>8, <1>9

LEMMA SendStores ==
  ASSUME Told, Pointer, pc = "data", cmds = <<Last1>>, nor' = Obey(nor, Last1)
  PROVE  /\ Head(todo).op \in {"read", "wrdi"} => nor'.cells = nor.cells
         /\ Head(todo).op \notin {"read", "wrdi"} => Stores(Head(todo), nor')
         /\ Head(todo).op \in {"aai", "cont"} /\ Head(todo).start + 2 < dev.size =>
              nor'.aai = Head(todo).start + 2
<1> DEFINE p == Head(todo)
<1>1. todo # <<>> /\ p.op \in PieceOps /\ Last1 = Carries(p) /\ nor \in Nor /\ p \in PieceRec
  BY Arrives, HeadType DEF Told
<1>2. p.op \in {"read", "wrdi", "write", "aai", "cont", "erase", "erase4", "wipe"}
  BY <1>1 DEF PieceOps, Ops
<1>3. p.op \in {"read", "wrdi"} => nor'.cells = nor.cells
  <2>1. SUFFICES ASSUME p.op \in {"read", "wrdi"} PROVE nor'.cells = nor.cells
    OBVIOUS
  <2>2. Last1.op = p.op
    BY <1>1, <2>1, CarriesOp
  <2>3. Obey(nor, Last1).cells = nor.cells
    BY <1>1, <2>1, <2>2, ObeyFrame
  <2> QED
    BY <2>3
<1>4. p.op = "cont" => nor.aai = p.start
  <2>1. cmds # <<>>
    BY TwoCommands
  <2> QED
    BY <1>1, <2>1 DEF Pointer, Over
<1>5. p.op = "write" => Stores(p, nor')
  BY WriteStores
<1>6. p.op = "aai" => Stores(p, nor') /\ (p.start + 2 < dev.size => nor'.aai = p.start + 2)
  BY AaiStores
<1>7. p.op = "cont" => Stores(p, nor') /\ (p.start + 2 < dev.size => nor'.aai = p.start + 2)
  BY <1>4, ContStores
<1>8. p.op \in {"erase", "erase4", "wipe"} => Stores(p, nor')
  BY EraseStores
<1> QED
  BY <1>2, <1>3, <1>5, <1>6, <1>7, <1>8

\* What a command that is sent does to the cells
LEMMA Sends ==
  ASSUME Told, Pointer, Send, ~astray'
  PROVE  /\ \/ nor'.cells = nor.cells
            \/ pc = "data" /\ Head(todo).op \notin {"read", "wrdi"} /\ Stores(Head(todo), nor')
         /\ pc = "data" /\ cmds' = <<>> /\ res' = 0 /\ Head(todo).op \notin {"read", "wrdi"} =>
              Stores(Head(todo), nor')
         /\ Pointer'
<1>0. /\ pc' = pc /\ todo' = todo /\ dev' = dev
      /\ pc \in Running /\ (SentEnable \/ SentLast \/ LostOne \/ DoneAnyway)
      /\ nor \in Nor /\ Types /\ Ordered
  BY SendIs, SendOutcome DEF Told, Types
<1>1. CASE SentEnable
  <2>1. nor'.cells = nor.cells
    BY <1>0, <1>1 DEF SentEnable, Nor
  <2>2. cmds' # <<>> /\ pc' # "poll" /\ pc' # "piece"
    BY <1>0, <1>1, TwoCommands DEF SentEnable, Running
  <2>3. pc = "data" => Head(todo).op # "cont"
    BY <1>1 DEF SentEnable, Enabled
  <2>4. Pointer'
    BY <1>0, <2>2, <2>3 DEF Pointer, HeadDone
  <2> QED
    BY <2>1, <2>2, <2>4
<1>2. CASE LostOne
  <2>1. nor'.cells = nor.cells
    BY <1>0, <1>2 DEF LostOne, Nor
  <2>2. cmds' = <<>> /\ res' = 1 /\ pc' # "poll" /\ pc' # "piece"
    BY <1>0, <1>2 DEF LostOne, Running
  <2>3. Pointer'
    BY <2>2 DEF Pointer, HeadDone
  <2> QED
    BY <2>1, <2>2, <2>3
<1>3. CASE SentLast \/ DoneAnyway
  <2>1. nor' = Obey(nor, Last1) /\ cmds = <<Last1>> /\ cmds' = <<>>
    BY <1>3 DEF SentLast, DoneAnyway
  <2>2. CASE pc # "data"
    <3>1. Last1.op \notin {"program", "erase", "wipe", "aai", "cont"}
      BY <1>0, <2>2, LastOp DEF Running
    <3>2. Obey(nor, Last1).cells = nor.cells
      BY <1>0, <3>1, ObeyFrame
    <3>3. Pointer'
      BY <1>0, <2>2 DEF Pointer, HeadDone, Running
    <3> QED
      BY <2>1, <2>2, <3>2, <3>3
  <2>3. CASE pc = "data"
    <3>1. /\ Head(todo).op \in {"read", "wrdi"} => nor'.cells = nor.cells
          /\ Head(todo).op \notin {"read", "wrdi"} => Stores(Head(todo), nor')
          /\ Head(todo).op \in {"aai", "cont"} /\ Head(todo).start + 2 < dev.size =>
               nor'.aai = Head(todo).start + 2
      BY <2>1, <2>3, SendStores
    <3>2. Pointer'
      BY <1>0, <2>1, <2>3, <3>1 DEF Pointer
    <3> QED
      BY <2>3, <3>1, <3>2
  <2> QED
    BY <2>2, <2>3
<1> QED
  BY <1>0, <1>1, <1>2, <1>3

LEMMA StoredSend ==
  ASSUME Told, Tiled, Fetched, Stored, Send, ~astray'
  PROVE  Stored'
<1> DEFINE p == Head(todo)
<1>1. Types /\ Ordered /\ Rest /\ Pointer /\ Kept
  BY DEF Told, Stored
<1>2. /\ pc' = pc /\ call' = call /\ todo' = todo /\ ret' = ret /\ before' = before /\ dev' = dev
      /\ calls' = calls /\ At = Pos /\ pc \in Running
      /\ \/ /\ pc = "data" /\ cmds = <<Last1>> /\ res' = 0 /\ cmds' = <<>> /\ todo # <<>>
            /\ At' = IF Over THEN Pos ELSE Pos + p.len
            /\ got' = IF p.op = "read" THEN got \o Answer(nor, Carries(p)) ELSE got
         \/ At' = At /\ got' = got
  BY <1>1, SendAt
<1>3. /\ \/ nor'.cells = nor.cells
         \/ pc = "data" /\ p.op \notin {"read", "wrdi"} /\ Stores(p, nor')
      /\ pc = "data" /\ cmds' = <<>> /\ res' = 0 /\ p.op \notin {"read", "wrdi"} => Stores(p, nor')
      /\ Pointer'
  BY <1>1, Sends
<1>4. Cells' = Cells /\ Span(call)' = Span(call)
  BY <1>2 DEF Cells, Span
<1>5. call.start \in Nat /\ call.len \in Nat /\ End = call.start + call.len /\ dev.size \in Nat
      /\ got \in Seq(Content)
  BY <1>1, CallType, DeviceFields DEF End, Types
\* What is being written or erased lies in the range, behind what has been reached
<1>6. ASSUME pc = "data", p.op \notin {"read", "wrdi"}
      PROVE  /\ ret = 0 /\ ~Over /\ call.op # "read" /\ Pos = p.start /\ p.len \in Nat \ {0}
             /\ Pos \in Nat /\ call.start <= Pos /\ Pos + p.len <= End
  <2>1. pc \in Accessing /\ todo # <<>>
    BY <1>1, <1>6 DEF Accessing, Ordered
  <2>2. ret = 0 /\ call.op # "read" /\ ~Over
    BY <1>1, <1>6, <2>1, HeadKind DEF Over
  <2> QED
    BY <1>1, <2>1, <2>2, Within DEF Told
<1>7. Kept'
  <2> SUFFICES ASSUME NEW a \in Cells, nor'.cells[a] # before[a]
               PROVE  a \in Span(call) /\ call.op # "read"
    BY <1>2, <1>4 DEF Kept
  <2>1. CASE nor'.cells[a] = nor.cells[a]
    BY <1>1, <2>1 DEF Kept
  <2>2. CASE pc = "data" /\ p.op \notin {"read", "wrdi"} /\ Stores(p, nor') /\ nor'.cells[a] # nor.cells[a]
    <3>1. a \in PieceSpan(p)
      BY <2>2 DEF Stores
    <3>2. a \in p.start .. p.start + p.len - 1 /\ a \in Int
      BY <3>1, <1>5 DEF PieceSpan, Cells
    <3>3. a \in call.start .. call.start + call.len - 1
      BY SMTT(30), <1>5, <1>6, <2>2, <3>2
    <3> QED
      BY <1>6, <2>2, <3>3 DEF Span
  <2> QED
    BY <1>3, <2>1, <2>2
<1>8. ASSUME pc \in Accessing, ret = 0
      PROVE  Reached(At)'
  <2>1. /\ Pos \in Nat /\ call.start <= Pos /\ Pos <= End /\ Reached(Pos)
        /\ ~Over => todo # <<>> /\ Pos = p.start /\ p.len \in Nat \ {0} /\ Pos + p.len <= End
    BY <1>1, <1>2, <1>8, Within DEF Stored
  <2>2. CASE call.op = "read"
    <3>1. nor'.cells = nor.cells
      BY <1>3, <1>6, <2>2
    <3>2. CASE At' = At /\ got' = got
      <4>1. \A i \in 1 .. Pos - call.start : got[i] = nor.cells[call.start + i - 1]
        BY <2>1, <2>2 DEF Reached
      <4> QED
        BY <1>2, <2>2, <3>1, <3>2, <4>1 DEF Reached
    <3>3. CASE /\ pc = "data" /\ cmds = <<Last1>> /\ res' = 0 /\ cmds' = <<>> /\ todo # <<>>
               /\ At' = IF Over THEN Pos ELSE Pos + p.len
               /\ got' = IF p.op = "read" THEN got \o Answer(nor, Carries(p)) ELSE got
      <4>1. p.op = "read" /\ ~Over /\ Pos = p.start /\ p.len \in Nat
        BY <1>1, <1>8, <2>1, <2>2, <3>3, HeadKind DEF Over
      <4> PICK ans : ans = Answer(nor, Carries(p))
        OBVIOUS
      <4>2. \A i \in 1 .. p.len : ans[i] = nor.cells[p.start + i - 1]
        BY <3>3, <4>1, ReadAnswers
      <4>3. ans \in Seq(Content) /\ Len(ans) = p.len
        <5>1. p \in PieceRec /\ dev \in Devices /\ nor \in Nor /\ host \in Host /\ calls \in Nat
          BY <1>1, <3>3, HeadType DEF Types
        <5>2. Carries(p) \in Commands /\ Carries(p).len = p.len
          BY <4>1, <5>1, CarriesType, CarriesRead
        <5>3. Answer(nor, Carries(p)) \in Seq(Content) /\ Len(Answer(nor, Carries(p))) = p.len
          BY <4>1, <5>1, <5>2, AnswerType
        <5> QED
          BY <5>3
      <4>4. Len(got) = Pos - call.start /\ got' = got \o ans /\ At' = Pos + p.len
        BY <1>2, <1>8, <2>2, <3>3, <4>1 DEF Fetched
      <4>5. \A i \in 1 .. Pos - call.start : got[i] = nor.cells[call.start + i - 1]
        BY <2>1, <2>2 DEF Reached
      <4>6. /\ \A i \in 1 .. Len(got) : got'[i] = got[i]
            /\ \A i \in 1 .. Len(ans) : got'[Len(got) + i] = ans[i]
        BY SMTT(30), <1>5, <4>3, <4>4, ConcatElements
      <4>7. ASSUME NEW i \in 1 .. (Pos + p.len) - call.start
            PROVE  got'[i] = nor.cells[call.start + i - 1]
        <5>1. CASE i <= Pos - call.start
          <6>1. i \in 1 .. Pos - call.start /\ i \in 1 .. Len(got)
            BY <1>5, <2>1, <4>4, <5>1
          <6> QED
            BY <4>5, <4>6, <6>1
        <5>2. CASE ~(i <= Pos - call.start)
          <6>1. PICK j \in 1 .. p.len : i = (Pos - call.start) + j
            <7>1. i - (Pos - call.start) \in 1 .. p.len
                  /\ i = (Pos - call.start) + (i - (Pos - call.start))
              BY <1>5, <2>1, <4>1, <5>2
            <7> QED
              BY <7>1
          <6>2. p.start + j - 1 = call.start + i - 1
            <7>1. \A x, c, k \in Int : x + k - 1 = c + ((x - c) + k) - 1
              OBVIOUS
            <7>2. Pos \in Int /\ call.start \in Int /\ j \in Int
              BY <1>5, <2>1, <4>1, <6>1
            <7>3. Pos + j - 1 = call.start + ((Pos - call.start) + j) - 1
              BY <7>1, <7>2
            <7> QED
              BY <4>1, <6>1, <7>3
          <6>3. got'[i] = ans[j]
            BY <4>3, <4>4, <4>6, <6>1
          <6> QED
            BY <4>2, <6>1, <6>2, <6>3
        <5> QED
          BY <5>1, <5>2
      <4> QED
        BY <1>2, <2>2, <3>1, <4>4, <4>7 DEF Reached
    <3> QED
      BY <1>2, <3>2, <3>3
  <2>3. CASE call.op # "read"
    <3>1. \A a \in call.start .. Pos - 1 : nor.cells[a] = Wanted(a)
      BY <2>1, <2>3 DEF Reached
    <3>2. \A a : Wanted(a)' = Wanted(a)
      BY <1>2 DEF Wanted
    <3>3. End <= dev.size
      <4>1. Possible(call)
        BY <1>1, <1>8 DEF Rest
      <4> QED
        BY <1>5, <4>1 DEF Possible
    <3>4. \A a \in call.start .. Pos - 1 : nor'.cells[a] = Wanted(a)
      <4> TAKE a \in call.start .. Pos - 1
      <4>1. a \in Cells /\ a \in Int /\ a < Pos
        BY <1>5, <2>1, <3>3 DEF Cells
      <4>2. nor'.cells[a] = nor.cells[a]
        <5>1. CASE pc = "data" /\ p.op \notin {"read", "wrdi"} /\ Stores(p, nor')
          <6>1. a \notin PieceSpan(p)
            BY <1>6, <4>1, <5>1 DEF PieceSpan
          <6> QED
            BY <4>1, <5>1, <6>1 DEF Stores
        <5> QED
          BY <1>3, <5>1
      <4> QED
        BY <3>1, <4>2
    <3>5. CASE At' = Pos
      BY <1>2, <2>3, <3>2, <3>4, <3>5 DEF Reached
    <3>6. CASE /\ pc = "data" /\ cmds = <<Last1>> /\ res' = 0 /\ cmds' = <<>> /\ todo # <<>>
               /\ At' = Pos + p.len /\ ~Over
      <4>1. p.op \notin {"read", "wrdi"}
        BY <1>1, <1>8, <2>3, <3>6, HeadKind DEF Over
      <4>2. Stores(p, nor')
        BY <1>3, <3>6, <4>1
      <4>3. \A a \in Cells : Belongs(p, a) = Wanted(a)
        <5>1. call.op \in {"write", "aai"} <=> p.op \in {"write", "aai", "cont", "wrdi"}
          BY <1>1, <1>8, <3>6, HeadKind
        <5> QED
          BY <4>1, <5>1 DEF Belongs, Wanted
      <4>4. \A a \in call.start .. (Pos + p.len) - 1 : nor'.cells[a] = Wanted(a)
        <5> TAKE a \in call.start .. (Pos + p.len) - 1
        <5>1. a \in Cells /\ a \in Int
          BY <1>5, <2>1, <3>3, <3>6 DEF Cells
        <5>2. CASE a < Pos
          <6>1. a \in call.start .. Pos - 1
            BY <1>5, <2>1, <5>1, <5>2
          <6> QED
            BY <3>4, <6>1
        <5>3. CASE ~(a < Pos)
          <6>1. a \in PieceSpan(p)
            BY <1>5, <2>1, <3>6, <5>1, <5>3 DEF PieceSpan
          <6> QED
            BY <4>2, <4>3, <5>1, <6>1 DEF Stores
        <5> QED
          BY <5>2, <5>3
      <4> QED
        BY <1>2, <2>3, <3>2, <3>6, <4>4 DEF Reached
    <3> QED
      BY <1>2, <3>5, <3>6
  <2> QED
    BY <2>2, <2>3
<1>9. pc' # "ready"
  BY <1>2 DEF Running
<1> QED
  BY <1>2, <1>3, <1>7, <1>8, <1>9 DEF Stored

\* The steps between the commands of an access leave the pointer where the next word belongs
LEMMA PointerAccess ==
  ASSUME Told, Pointer, Access
  PROVE  Pointer'
<1>1. Types /\ Ordered /\ Decided /\ Rest /\ dev \in Devices /\ todo \in Seq(PieceIn)
  BY DEF Told, Types
<1>2. ASSUME Failing(todo), pc \in Accessing, todo # <<>>
      PROVE  Pointer'
  <2>1. CASE Head(todo).op \in {"aai", "cont"}
    <3>1. Last(todo) = Wrdi /\ pc' = "piece"
      <4>1. call \in Requests /\ \A i \in 1 .. Len(todo) : Proper(call, todo[i], i, Len(todo))
        BY <1>1, <1>2 DEF Rest
      <4> QED
        BY <1>1, <1>2, <2>1, <4>1, AaiPieces DEF Failing
    <3>2. todo' = <<Wrdi>> /\ Head(<<Wrdi>>) = Wrdi
      BY <1>2, <2>1, <3>1 DEF Failing
    <3>3. Over'
      BY <3>2 DEF Over, Wrdi
    <3> QED
      BY <3>3 DEF Pointer, HeadDone
  <2>2. CASE Head(todo).op \notin {"aai", "cont"}
    <3>1. todo' = <<>>
      BY <1>2, <2>2 DEF Failing
    <3>2. Over'
      BY <3>1 DEF Over
    <3> QED
      BY <3>2 DEF Pointer, HeadDone
  <2> QED
    BY <2>1, <2>2
<1>3. ASSUME Advances, HeadDone, pc \in Accessing, todo # <<>>, nor' = nor
      PROVE  Pointer'
  <2>1. pc' = "piece" /\ todo' = Tail(todo) /\ ~HeadDone'
    BY <1>3 DEF Advances, HeadDone
  <2> SUFFICES ASSUME ~Over', Head(todo').op = "cont"
               PROVE  nor.aai = Head(todo').start
    BY <1>3, <2>1 DEF Pointer
  <2>2. call \in Requests /\ \A i \in 1 .. Len(todo) : Proper(call, todo[i], i, Len(todo))
    BY <1>1, <1>3 DEF Rest
  <2>3. Tail(todo) # <<>>
    BY <2>1 DEF Over
  <2>4. /\ Len(todo) \in Nat \ {0} /\ Head(todo) = todo[1] /\ Len(Tail(todo)) = Len(todo) - 1
        /\ Tail(todo) \in Seq(PieceIn) /\ Head(Tail(todo)) \in PieceIn
    BY <1>1, <1>3, <2>3, LeftType
  <2>5. call.op = "aai"
    <3>1. \A i \in 1 .. Len(Tail(todo)) : Proper(call, Tail(todo)[i], i, Len(Tail(todo)))
      BY <1>1, <1>3, <2>2, ProperTail
    <3>2. call.op = "aai" <=> Head(Tail(todo)).op \in {"aai", "cont", "wrdi"}
      BY <1>1, <2>2, <2>3, <2>4, <3>1, AaiPieces
    <3> QED
      BY <2>1, <3>2
  <2>6. Head(todo).op \in {"aai", "cont"}
    <3>1. Head(todo).op \in {"aai", "cont", "wrdi"}
      BY <1>1, <1>3, <2>2, <2>5, AaiPieces
    <3>2. Head(todo).op # "wrdi"
      BY <1>3 DEF HeadDone, Over
    <3> QED
      BY <3>1, <3>2
  <2>7. Head(Tail(todo)).start = Head(todo).start + 2
    <3>1. \/ Head(Tail(todo)).op = "wrdi"
          \/ (Head(Tail(todo)).op = "cont" /\ Head(Tail(todo)).start = Head(todo).start + 2)
      BY <1>1, <1>3, <2>2, <2>6, AaiPieces
    <3> QED
      BY <2>1, <3>1
  <2>8. Head(todo).start + 2 < dev.size
    BY <2>4, <2>7 DEF PieceIn
  <2> QED
    BY <1>3, <2>1, <2>6, <2>7, <2>8 DEF Pointer
<1>4. CASE NextPiece
  <2>1. /\ pc = "piece" /\ nor' = nor /\ dev' = dev /\ cmds = <<>>
        /\ \/ todo = <<>> /\ pc' = "ready" /\ todo' = todo
           \/ todo # <<>> /\ NeedsBank(Head(todo)) /\ pc' = "ear" /\ todo' = todo
           \/ todo # <<>> /\ Failing(todo)
           \/ pc' = "data" /\ cmds' = Command(Head(todo)) /\ todo' = todo
    BY <1>4, NextPieceIs
  <2>2. CASE todo # <<>> /\ Failing(todo)
    BY <1>2, <2>1, <2>2 DEF Accessing
  <2>3. CASE pc' \in {"ready", "ear"}
    BY <2>3 DEF Pointer, HeadDone
  <2>4. CASE pc' = "data" /\ cmds' = Command(Head(todo)) /\ todo' = todo
    <3>1. cmds' # <<>>
      BY <2>4, CommandSome
    <3> QED
      BY <2>1, <2>4, <3>1 DEF Pointer, HeadDone, Over
  <2> QED
    BY <2>1, <2>2, <2>3, <2>4
<1>5. CASE EarWritten
  <2>1. /\ pc = "ear" /\ nor' = nor /\ dev' = dev /\ todo # <<>>
        /\ \/ Failing(todo)
           \/ pc' = "data" /\ cmds' = Command(Head(todo)) /\ todo' = todo
    BY <1>1, <1>5, EarWrittenIs DEF Ordered
  <2>2. CASE Failing(todo)
    BY <1>2, <2>1, <2>2 DEF Accessing
  <2>3. CASE pc' = "data" /\ cmds' = Command(Head(todo)) /\ todo' = todo
    <3>1. cmds' # <<>>
      BY <2>3, CommandSome
    <3>2. Head(todo).op # "cont"
      BY <1>1, <2>1 DEF Decided, NeedsBank, HasAddress
    <3> QED
      BY <2>3, <3>1, <3>2 DEF Pointer, HeadDone
  <2> QED
    BY <2>1, <2>2, <2>3
<1>6. CASE Sent
  <2>1. /\ pc = "data" /\ cmds = <<>> /\ cmds' = <<>> /\ nor' = nor /\ dev' = dev /\ todo # <<>> /\ res' = res
        /\ \/ Head(todo).op \in {"read", "wrdi"} /\ res = 0 /\ Advances
           \/ Failing(todo)
           \/ pc' = "poll" /\ todo' = todo
    BY <1>1, <1>6, SentIs DEF Ordered
  <2>2. CASE Failing(todo)
    BY <1>2, <2>1, <2>2 DEF Accessing
  <2>3. CASE pc' = "poll" /\ todo' = todo
    <3>1. (HeadDone' <=> HeadDone) /\ (Over' <=> Over)
      BY <2>1, <2>3 DEF HeadDone, Over
    <3> QED
      BY <2>1, <2>3, <3>1 DEF Pointer
  <2>4. CASE Head(todo).op = "read" /\ res = 0 /\ Advances
    <3>1. HeadDone
      BY <2>1, <2>4 DEF HeadDone, Over
    <3> QED
      BY <1>3, <2>1, <2>4, <3>1 DEF Accessing
  <2>5. CASE Head(todo).op = "wrdi" /\ Advances
    <3>1. call \in Requests /\ \A i \in 1 .. Len(todo) : Proper(call, todo[i], i, Len(todo))
      BY <1>1, <2>1 DEF Rest, Accessing
    <3>2. Len(todo) = 1
      BY <1>1, <2>1, <2>5, <3>1, AaiPieces
    <3>3. todo' = <<>>
      BY <1>1, <2>1, <2>5, <3>2, LeftType, EmptySeq DEF Advances
    <3>4. Over'
      BY <3>3 DEF Over
    <3> QED
      BY <3>4 DEF Pointer, HeadDone
  <2> QED
    BY <2>1, <2>2, <2>3, <2>4, <2>5
<1>7. CASE Poll
  <2>1. /\ pc = "poll" /\ nor' = nor /\ dev' = dev /\ todo # <<>>
        /\ (res = 0 /\ Advances) \/ Failing(todo)
    BY <1>1, <1>7, PollIs DEF Ordered
  <2>2. CASE Failing(todo)
    BY <1>2, <2>1, <2>2 DEF Accessing
  <2>3. CASE res = 0 /\ Advances
    <3>1. HeadDone
      BY <1>1, <2>1, <2>3 DEF HeadDone, Over, Decided
    <3> QED
      BY <1>3, <2>1, <2>3, <3>1 DEF Accessing
  <2> QED
    BY <2>1, <2>2, <2>3
<1> QED
  BY <1>4, <1>5, <1>6, <1>7 DEF Access

LEMMA StoredStep ==
  ASSUME Told, Tiled, Fetched, Stored, Next, ~astray'
  PROVE  Stored'
<1>1. Types /\ Ordered /\ Decided /\ Rest /\ Pointer /\ Kept /\ nor \in Nor
  BY DEF Told, Types, Stored
<1>2. CASE Open
  <2>1. nor' = nor /\ pc' \notin Accessing /\ pc' # "ready" /\ before' = nor.cells
    BY <1>2, OpenIs DEF Accessing
  <2>2. Pointer'
    BY <2>1 DEF Pointer, HeadDone, Accessing
  <2> QED
    BY <2>1, <2>2 DEF Stored, Kept
<1>3. CASE ~Open /\ (PrepareIo \/ Release \/ FinishIo)
  <2>1. /\ nor' = nor /\ dev' = dev /\ calls' = calls /\ pc' \notin Accessing
        /\ pc' = "ready" => pc \in Prep
        /\ call' = call /\ got' = got /\ before' = before
    BY <1>1, <1>3, Elsewhere
  <2>2. Pointer'
    BY <2>1 DEF Pointer, HeadDone, Accessing
  <2>3. Kept'
    BY <1>1, <2>1 DEF Kept, Cells, Span
  <2>4. pc' = "ready" => Reached(End)'
    <3>1. SUFFICES ASSUME pc' = "ready" PROVE Reached(End)'
      OBVIOUS
    <3>2. call' = NoCall
      BY <2>1, <3>1 DEF Fetched
    <3>3. call'.op = "read" /\ End' - call'.start = 0
      BY <3>2 DEF NoCall, End
    <3>4. 1 .. 0 = {}
      OBVIOUS
    <3> QED
      BY <3>3, <3>4 DEF Reached
  <2> QED
    BY <2>1, <2>2, <2>3, <2>4 DEF Stored
<1>4. CASE Access
  <2>1. /\ call' = call /\ got' = got /\ before' = before /\ nor' = nor /\ calls' = calls /\ dev' = dev
        /\ pc \in Accessing /\ pc' \in Accessing \cup {"ready"}
        /\ ret' = 0 => /\ ret = 0
                       /\ \/ pc' \in Accessing /\ At' = At
                          \/ pc' = "ready" /\ At = End
    BY <1>1, <1>4, AccessAt
  <2>2. Kept'
    BY <1>1, <2>1 DEF Kept, Cells, Span
  <2>3. \A x : Reached(x) => Reached(x)'
    BY <2>1 DEF Reached, Wanted
  <2>4. End' = End /\ "ready" \notin Accessing
    BY <2>1 DEF End, Accessing
  <2>5. ret' = 0 => Reached(At)
    BY <2>1 DEF Stored
  <2>6. pc' \in Accessing /\ ret' = 0 => Reached(At)'
    BY <2>1, <2>4, <2>5 DEF Reached, Wanted
  <2>7. pc' = "ready" /\ ret' = 0 => Reached(End)'
    BY <2>1, <2>4, <2>5 DEF Reached, Wanted
  <2>8. Pointer'
    BY <1>1, <1>4, PointerAccess
  <2> QED
    BY <2>2, <2>6, <2>7, <2>8 DEF Stored
<1>5. CASE Send
  BY <1>5, StoredSend
<1>6. CASE Settle
  <2>1. /\ nor' = [nor EXCEPT !.busy = FALSE] /\ dev' = dev /\ pc' = pc /\ cmds' = cmds /\ res' = res
        /\ call' = call /\ todo' = todo /\ ret' = ret /\ got' = got /\ calls' = calls /\ before' = before
    BY <1>6, SettleIs
  <2>2. nor'.cells = nor.cells /\ nor'.aai = nor.aai
    BY <1>1, <2>1 DEF Nor
  <2>3. HeadDone' <=> HeadDone
    BY <2>1 DEF HeadDone, Over
  <2>4. At' = At /\ End' = End /\ (Over' <=> Over)
    BY <2>1, <2>3, SameAt
  <2>5. Kept'
    BY <1>1, <2>1, <2>2 DEF Kept, Cells, Span
  <2>6. Pointer'
    BY <1>1, <2>1, <2>2, <2>3, <2>4 DEF Pointer
  <2>7. pc' \in Accessing /\ ret' = 0 => Reached(At)'
    BY <2>1, <2>2, <2>4 DEF Stored, Reached, Wanted
  <2>8. pc' = "ready" /\ ret' = 0 => Reached(End)'
    BY <2>1, <2>2, <2>4 DEF Stored, Reached, Wanted
  <2> QED
    BY <2>5, <2>6, <2>7, <2>8 DEF Stored
<1>7. CASE \E r \in Requests : Call(r)
  <2>1. PICK r \in Requests : Call(r)
    BY <1>7
  <2>2. At' = r.start /\ call' = r /\ pc' = "piece" /\ todo' = Pieces(r) /\ (~Over)'
    BY <1>1, <2>1, StartAt, CallIs
  <2>3. nor' = nor /\ dev' = dev /\ before' = nor.cells /\ Possible(r)
    BY <2>1, CallIs DEF Call
  <2>4. r.start \in Nat
    BY RequestType
  <2>5. Reached(At)'
    <3>1. 1 .. r.start - r.start = {} /\ r.start .. r.start - 1 = {}
      BY <2>4
    <3> QED
      BY <2>2, <3>1 DEF Reached
  <2>6. Head(Pieces(r)).op # "cont"
    <3>1. dev \in Devices /\ r.len \in Nat
      BY <1>1, RequestType DEF Types
    <3>2. /\ Pieces(r) \in Seq(PieceIn) /\ Pieces(r) # <<>>
          /\ \A i \in 1 .. Len(Pieces(r)) : Proper(r, Pieces(r)[i], i, Len(Pieces(r)))
          /\ r.op = "aai" => Len(Pieces(r)) > 1 /\ Pieces(r)[1].start = r.start
      BY <2>3, <3>1, PiecesIn, PiecesProper
    <3>3. Len(Pieces(r)) \in Nat \ {0} /\ Head(Pieces(r)) = Pieces(r)[1]
      BY <3>2, LeftType
    <3>4. CASE r.op = "aai"
      <4>1. 1 # Len(Pieces(r)) /\ Proper(r, Pieces(r)[1], 1, Len(Pieces(r)))
        BY <3>2, <3>3, <3>4
      <4> QED
        BY <3>2, <3>3, <3>4, <4>1 DEF Proper
    <3>5. CASE r.op # "aai"
      BY <3>1, <3>2, <3>5, AaiPieces
    <3> QED
      BY <3>4, <3>5
  <2>7. Pointer'
    BY <2>2, <2>6 DEF Pointer, HeadDone
  <2>8. Kept'
    BY <2>3 DEF Kept
  <2> QED
    BY <2>2, <2>5, <2>7, <2>8 DEF Stored
<1> QED
  BY <1>2, <1>3, <1>4, <1>5, <1>6, <1>7, NextCases

LEMMA StoredInit ==
  ASSUME Init
  PROVE  Stored
<1>1. pc = "closed" /\ before = nor.cells
  BY DEF Init
<1> QED
  BY <1>1 DEF Stored, Kept, Pointer, HeadDone, Accessing

DInv == IInv /\ Tiled /\ Fetched /\ (~astray => Stored)

LEMMA DInvNext ==
  ASSUME DInv, Next
  PROVE  DInv'
<1>1. IInv /\ Types /\ Ordered /\ Decided /\ Rest /\ Tiled /\ Fetched /\ (~astray => Told /\ Stored)
  BY DEF DInv, IInv, Told
<1>2. IInv' /\ Tiled' /\ Fetched'
  BY <1>1, IInvNext, TiledStep, FetchedStep
<1>3. ~astray' => Stored'
  BY <1>1, AstrayStays, StoredStep
<1> QED
  BY <1>2, <1>3 DEF DInv

LEMMA DInvStutter ==
  ASSUME DInv, UNCHANGED vars
  PROVE  DInv'
<1>1. /\ dev' = dev /\ nor' = nor /\ pc' = pc /\ cmds' = cmds /\ res' = res
      /\ call' = call /\ todo' = todo /\ ret' = ret /\ got' = got
      /\ calls' = calls /\ before' = before /\ astray' = astray
  BY DEF vars, counts, history
<1>2. IInv /\ Tiled /\ Fetched /\ (~astray => Stored)
  BY DEF DInv
<1>3. (HeadDone' <=> HeadDone) /\ (Over' <=> Over)
  BY <1>1 DEF HeadDone, Over
<1>4. At' = At /\ Pos' = Pos /\ End' = End
  BY <1>1, <1>3, SameAt
<1>5. IInv'
  BY <1>2, IInvStutter
<1>6. Tiled' /\ Fetched'
  BY <1>1, <1>2, <1>4 DEF Tiled, Fetched
<1>7. ASSUME ~astray'
      PROVE  Stored'
  <2>1. Stored
    BY <1>1, <1>2, <1>7
  <2>2. Kept' /\ Pointer'
    BY <1>1, <1>3, <2>1 DEF Stored, Kept, Pointer, Cells, Span
  <2>3. pc' \in Accessing /\ ret' = 0 => Reached(At)'
    BY <1>1, <1>4, <2>1 DEF Stored, Reached, Wanted
  <2>4. pc' = "ready" /\ ret' = 0 => Reached(End)'
    BY <1>1, <1>4, <2>1 DEF Stored, Reached, Wanted
  <2> QED
    BY <2>2, <2>3, <2>4 DEF Stored
<1> QED
  BY <1>5, <1>6, <1>7 DEF DInv

LEMMA DInvAlways == Spec => []DInv
<1>1. Init => DInv
  <2>1. Init => IInv /\ Fetched /\ Stored
    BY IInvInit, FetchedInit, StoredInit
  <2>2. Init => Tiled
    BY DEF Init, Tiled, Accessing
  <2> QED
    BY <2>1, <2>2 DEF DInv
<1>2. DInv /\ [Next]_vars => DInv'
  BY DInvNext, DInvStutter
<1> QED
  BY <1>1, <1>2, PTL DEF Spec

-----------------------------------------------------------------------------
(* What is proved                                                          *)

\* No command is taken for another one: whatever modes the chip was found in, whichever
\* commands failed and whichever of those it carried out all the same, every command of
\* spi25.c and spi25_prepare.c finds it in the address mode and the I/O mode it was made for,
\* unless the chip went where the program could not know.
THEOREM CommandsAreUnderstood == Spec => []Understood
<1>1. IInv => Understood
  BY DEF IInv, Modes, Understood
<1> QED
  BY <1>1, IInvAlways, PTL

\* A chip that spi_finish_io() gives back (or whose preparation was given up) is not in QPI
\* mode, and its quad-enable bit is as it was found, set or not, whichever accesses, reads of
\* the bit, allocations and attempts to enter QPI failed; unless the setting of the bit or a
\* command of the way back failed, or the chip went where the program could not know.
THEOREM ChipIsGivenBack == Spec => []GivenBack
<1>1. IInv => GivenBack
  BY DEF IInv, Quiet, GivenBack
<1> QED
  BY <1>1, IInvAlways, PTL

\* An access of flashprog_read_range(), flashprog_write_range() or an eraser of spi25.c that
\* returns 0 did what it was asked to: what was read are the cells of the range, what was written
\* or erased is there, whatever the chip's size, banks and pages, in whichever pieces the master
\* takes it; and whatever fails, no cell outside of the range changes, and none by a read.  All of
\* this unless the chip went where the program could not know.
THEOREM AccessesAreDone == Spec => []Done
<1>1. DInv => Done
  <2> SUFFICES ASSUME DInv PROVE Done
    OBVIOUS
  <2>1. Types /\ Fetched /\ (~astray => Kept /\ (pc = "ready" /\ ret = 0 => Reached(End)))
    BY DEF DInv, IInv, Stored
  <2>2. /\ call.start \in Nat /\ call.len \in Nat /\ End = call.start + call.len /\ dev.size \in Nat
        /\ got \in Seq(Content)
    BY <2>1, CallType, DeviceFields DEF End, Types
  <2>3. ASSUME ~astray, pc = "ready", ret = 0, call.op = "read"
        PROVE  Len(got) = call.len /\ \A i \in DOMAIN got : got[i] = nor.cells[call.start + i - 1]
    <3>1. Len(got) = call.len /\ DOMAIN got = 1 .. call.len
      BY <2>1, <2>2, <2>3, LenProperties DEF Fetched
    <3>2. End - call.start = call.len
      BY <2>2
    <3>3. \A i \in 1 .. call.len : got[i] = nor.cells[call.start + i - 1]
      BY <2>1, <2>3, <3>2 DEF Reached
    <3> QED
      BY <3>1, <3>3
  <2>4. ASSUME ~astray, pc = "ready", ret = 0, call.op # "read", NEW a \in Cells \cap Span(call)
        PROVE  nor.cells[a] = Wanted(a)
    <3>1. a \in call.start .. End - 1
      BY <2>2 DEF Span
    <3> QED
      BY <2>1, <2>4, <3>1 DEF Reached
  <2> QED
    BY <2>1, <2>3, <2>4 DEF Done, Kept
<1> QED
  BY <1>1, DInvAlways, PTL

\* The state of struct flashctx and of the chip stays what its types say; a read never returns
\* more than it was asked for.
THEOREM TypesCorrect == Spec => []TypeOK
<1>1. DInv => TypeOK
  <2> SUFFICES ASSUME DInv PROVE TypeOK
    OBVIOUS
  <2>1. Types /\ Len(got) <= call.len
    BY DEF DInv, IInv, Fetched
  <2>2. /\ DOMAIN nor.cells = Cells /\ nor.ear \in Nat /\ nor.aai \in Cells \cup {NoAai}
        /\ {nor.fourba, nor.qe, nor.qpi, nor.wel, nor.busy, nor.garbled} \subseteq BOOLEAN
    BY <2>1 DEF Types, Nor
  <2>3. /\ host.high \in -1 .. Bit7 /\ {host.fourba, host.qpi, host.vqe, host.quad} \subseteq BOOLEAN
        /\ host.fast \in FastOps
    BY <2>1 DEF Types, Host
  <2>4. ASSUME NEW op \in ToSet(host.fast)
        PROVE  op.io \in IoModes
    <3>1. CASE host.fast = <<>>
      <4>1. DOMAIN <<>> = {}
        OBVIOUS
      <4> QED
        BY <2>4, <3>1, <4>1 DEF ToSet
    <3>2. CASE host.fast # <<>>
      <4>1. PICK o \in ReadOps : host.fast = <<o>>
        BY <2>3, <3>2 DEF FastOps
      <4>2. op = o
        BY <2>4, <4>1 DEF ToSet
      <4> QED
        BY <4>2 DEF ReadOps
    <3> QED
      BY <3>1, <3>2
  <2>5. ASSUME NEW p \in ToSet(todo)
        PROVE  p.op \in Ops \cup {"cont", "wrdi"}
    <3>1. todo \in Seq(PieceIn)
      BY <2>1 DEF Types
    <3>2. PICK i \in DOMAIN todo : p = todo[i]
      BY <2>5 DEF ToSet
    <3>3. todo[i] \in PieceIn
      BY <3>1, <3>2, LenProperties, ElementOfSeq
    <3> QED
      BY <3>2, <3>3 DEF PieceIn, PieceRec, PieceOps
  <2> QED
    BY <2>1, <2>2, <2>3, <2>4, <2>5 DEF TypeOK, Types
<1> QED
  BY <1>1, DInvAlways, PTL

=============================================================================
