-------------------------- MODULE PrivilegeProofs ---------------------------
(*****************************************************************************)
(* Proofs about what a hart does with an instruction: decoding it (Decoder,  *)
(* for any set of instructions), what physical memory it may touch (Pmp, for *)
(* any number of entries and any size of a page), multiplying and dividing   *)
(* (MulDiv, for any size of a word), walking the page table (PageWalk, for   *)
(* any number of levels and any tables), and trapping and returning          *)
(* (HartTraps, for any set of interrupts and exceptions).                    *)
(*****************************************************************************)
EXTENDS HartTraps, Decoder, Pmp, PageWalk, MulDiv, FiniteSetTheorems, WellFoundedInduction, TLAPS

-----------------------------------------------------------------------------
(* Powers of two, quotients and remainders.                                *)

\* A set of natural numbers that is not empty has a smallest member.
LEMMA SmallestNat ==
  ASSUME NEW T \in SUBSET Nat, T # {}
  PROVE  \E x \in T : \A y \in T : x <= y
<1> DEFINE R == OpToRel(<, Nat)
<1>1. IsWellFoundedOn(R, Nat)
  BY NatLessThanWellFounded
<1>2. PICK x \in T : \A y \in T : ~(<<y, x>> \in R)
  <2> HIDE DEF R
  <2> QED BY <1>1, WFMin
<1>3. \A y \in T : ~(y < x)
  BY <1>2 DEF OpToRel
<1> QED BY <1>3

\* The equation of Pow2, and a function on the numbers up to n that satisfies it.
Doubled(f, k) == IF k = 0 THEN 1 ELSE 2 * f[k - 1]
DoublesTo(f, n) == f \in [0 .. n -> Nat] /\ \A k \in 0 .. n : f[k] = Doubled(f, k)

LEMMA DoublesUnique ==
  ASSUME NEW n \in Nat, NEW m \in Nat, n <= m, NEW f, DoublesTo(f, n), NEW g, DoublesTo(g, m)
  PROVE  \A k \in 0 .. n : f[k] = g[k]
<1> DEFINE Bad == {k \in 0 .. n : f[k] # g[k]}
<1> SUFFICES ASSUME Bad # {} PROVE FALSE
  OBVIOUS
<1>1. PICK x \in Bad : \A y \in Bad : x <= y
  <2>1. Bad \in SUBSET Nat
    OBVIOUS
  <2> HIDE DEF Bad
  <2> QED BY <2>1, SmallestNat
<1>2. x \in 0 .. n /\ x \in 0 .. m /\ f[x] # g[x]
  OBVIOUS
<1>3. f[x] = Doubled(f, x) /\ g[x] = Doubled(g, x)
  BY <1>2, Zenon DEF DoublesTo
<1>4. x # 0
  BY <1>2, <1>3 DEF Doubled
<1>5. x - 1 \in 0 .. n /\ ~(x <= x - 1)
  BY <1>2, <1>4
<1>6. f[x - 1] = g[x - 1]
  BY <1>1, <1>5
<1> QED BY <1>2, <1>3, <1>4, <1>6 DEF Doubled

LEMMA DoublesExist ==
  ASSUME NEW n \in Nat
  PROVE  \E f : DoublesTo(f, n)
<1> DEFINE Bad == {k \in Nat : ~\E f : DoublesTo(f, k)}
<1>1. \E f : DoublesTo(f, 0)
  <2> DEFINE f == [i \in 0 .. 0 |-> 1]
  <2>1. f \in [0 .. 0 -> Nat] /\ \A i \in 0 .. 0 : i = 0 /\ f[i] = 1
    OBVIOUS
  <2>2. DoublesTo(f, 0)
    <3> HIDE DEF f
    <3> QED BY <2>1 DEF DoublesTo, Doubled
  <2> QED BY <2>2, Zenon
<1>2. ASSUME NEW k \in Nat, k # 0, \E f : DoublesTo(f, k - 1)
      PROVE  \E f : DoublesTo(f, k)
  <2>1. PICK f : DoublesTo(f, k - 1)
    BY <1>2
  <2> DEFINE g == [i \in 0 .. k |-> IF i = k THEN 2 * f[k - 1] ELSE f[i]]
  <2>2. f \in [0 .. k - 1 -> Nat] /\ \A i \in 0 .. k - 1 : f[i] = Doubled(f, i)
    BY <2>1, Zenon DEF DoublesTo
  <2>3. k - 1 \in Nat /\ k - 1 \in 0 .. k - 1
    BY <1>2
  <2>4. /\ \A i \in 0 .. k : i # k => i \in 0 .. k - 1
        /\ \A i \in 0 .. k : i # 0 => i - 1 \in 0 .. k - 1 /\ i - 1 \in 0 .. k /\ i - 1 # k
    BY <1>2
  <2>5. 2 * f[k - 1] \in Nat
    BY <2>2, <2>3
  <2>6. g \in [0 .. k -> Nat]
    BY <2>2, <2>4, <2>5
  <2>7. \A i \in 0 .. k : g[i] = IF i = k THEN 2 * f[k - 1] ELSE f[i]
    OBVIOUS
  <2> HIDE DEF g
  <2>8. \A i \in 0 .. k : i # 0 => g[i - 1] = f[i - 1]
    BY <2>4, <2>7, Zenon
  <2>9. \A i \in 0 .. k : Doubled(g, i) = Doubled(f, i)
    BY <2>8, Zenon DEF Doubled
  <2>10. Doubled(f, k) = 2 * f[k - 1]
    BY <1>2, Zenon DEF Doubled
  <2>11. \A i \in 0 .. k : g[i] = Doubled(g, i)
    BY <2>2, <2>4, <2>7, <2>9, <2>10, Zenon
  <2> QED BY <2>6, <2>11, Zenon DEF DoublesTo
<1>3. Bad = {}
  <2> SUFFICES ASSUME Bad # {} PROVE FALSE
    OBVIOUS
  <2>1. PICK x \in Bad : \A y \in Bad : x <= y
    <3>1. Bad \in SUBSET Nat
      OBVIOUS
    <3> HIDE DEF Bad
    <3> QED BY <3>1, SmallestNat
  <2>2. x \in Nat /\ x # 0 /\ ~\E f : DoublesTo(f, x)
    BY <1>1
  <2>3. x - 1 \in Nat /\ ~(x <= x - 1)
    BY <2>2
  <2>4. \E f : DoublesTo(f, x - 1)
    BY <2>1, <2>3
  <2> QED BY <1>2, <2>2, <2>4
<1> QED BY <1>3

\* Pow2 is a function on the natural numbers that satisfies its equation.
LEMMA Pow2Equation == Pow2 \in [Nat -> Nat] /\ \A k \in Nat : Pow2[k] = Doubled(Pow2, k)
<1> DEFINE Upto(n) == CHOOSE f : DoublesTo(f, n)
           g       == [n \in Nat |-> Upto(n)[n]]
<1>1. \A n \in Nat : DoublesTo(Upto(n), n)
  BY DoublesExist, Zenon
<1> HIDE DEF Upto
<1>2. \A n \in Nat : g[n] = Upto(n)[n]
  OBVIOUS
<1>3. g \in [Nat -> Nat]
  <2>1. \A n \in Nat : Upto(n) \in [0 .. n -> Nat] /\ n \in 0 .. n
    BY <1>1 DEF DoublesTo
  <2>2. \A n \in Nat : Upto(n)[n] \in Nat
    BY <2>1
  <2> QED BY <2>2
<1>4. g = [n \in Nat |-> g[n]]
  OBVIOUS
<1> HIDE DEF g
<1>5. ASSUME NEW n \in Nat PROVE g[n] = Doubled(g, n)
  <2>1. Upto(n)[n] = Doubled(Upto(n), n)
    <3>1. n \in 0 .. n
      OBVIOUS
    <3> QED BY <1>1, <3>1, Zenon DEF DoublesTo
  <2>2. CASE n = 0
    BY <1>2, <2>1, <2>2 DEF Doubled
  <2>3. CASE n # 0
    <3>1. n - 1 \in Nat /\ n - 1 <= n /\ n - 1 \in 0 .. n - 1
      BY <2>3
    <3>2. Upto(n - 1)[n - 1] = Upto(n)[n - 1]
      <4>1. DoublesTo(Upto(n - 1), n - 1) /\ DoublesTo(Upto(n), n)
        BY <1>1, <3>1, Zenon
      <4>2. PICK f, h : f = Upto(n - 1) /\ h = Upto(n)
        OBVIOUS
      <4>3. DoublesTo(f, n - 1) /\ DoublesTo(h, n)
        BY <4>1, <4>2, Zenon
      <4>4. \A k \in 0 .. n - 1 : f[k] = h[k]
        BY <3>1, <4>3, DoublesUnique
      <4> QED BY <3>1, <4>2, <4>4, Zenon
    <3>3. Doubled(Upto(n), n) = Doubled(g, n)
      BY <1>2, <2>3, <3>1, <3>2, Zenon DEF Doubled
    <3> QED BY <1>2, <2>1, <3>3, Zenon
  <2> QED BY <2>2, <2>3
<1>6. g = [k \in Nat |-> IF k = 0 THEN 1 ELSE 2 * g[k - 1]]
  <2>1. \A k \in Nat : g[k] = IF k = 0 THEN 1 ELSE 2 * g[k - 1]
    BY <1>5, Zenon DEF Doubled
  <2> QED BY <1>4, <2>1, Zenon
<1>7. Pow2 = [k \in Nat |-> IF k = 0 THEN 1 ELSE 2 * Pow2[k - 1]]
  BY <1>6, Zenon DEF Pow2
<1>8. ASSUME NEW f, f = [k \in Nat |-> IF k = 0 THEN 1 ELSE 2 * f[k - 1]]
      PROVE  (\A k \in Nat : f[k] = IF k = 0 THEN 1 ELSE 2 * f[k - 1]) /\ f = [k \in Nat |-> f[k]]
  <2> DEFINE h == [k \in Nat |-> IF k = 0 THEN 1 ELSE 2 * f[k - 1]]
  <2>1. \A k \in Nat : h[k] = IF k = 0 THEN 1 ELSE 2 * f[k - 1]
    BY Zenon
  <2>2. h = [k \in Nat |-> h[k]] /\ f = h
    BY <1>8
  <2> HIDE DEF h
  <2> QED BY <2>1, <2>2, Zenon
<1>9. /\ \A k \in Nat : Pow2[k] = IF k = 0 THEN 1 ELSE 2 * Pow2[k - 1]
      /\ Pow2 = [k \in Nat |-> Pow2[k]]
  BY <1>7, <1>8, Zenon
<1>10. \A k \in Nat : Pow2[k] \in Nat
  <2> DEFINE Bad == {k \in Nat : Pow2[k] \notin Nat}
  <2> SUFFICES ASSUME Bad # {} PROVE FALSE
    OBVIOUS
  <2>1. PICK x \in Bad : \A y \in Bad : x <= y
    <3>1. Bad \in SUBSET Nat
      OBVIOUS
    <3> HIDE DEF Bad
    <3> QED BY <3>1, SmallestNat
  <2>2. x \in Nat /\ Pow2[x] \notin Nat /\ Pow2[x] = IF x = 0 THEN 1 ELSE 2 * Pow2[x - 1]
    BY <1>9
  <2>3. x # 0
    BY <2>2
  <2>4. x - 1 \in Nat /\ ~(x <= x - 1)
    BY <2>2, <2>3
  <2>5. Pow2[x - 1] \in Nat
    BY <2>1, <2>4
  <2> QED BY <2>2, <2>3, <2>5
<1> QED BY <1>9, <1>10 DEF Doubled

LEMMA Pow2Values ==
  /\ Pow2[0] = 1
  /\ \A k \in Nat : Pow2[k] \in Nat /\ Pow2[k] > 0 /\ Pow2[k + 1] = 2 * Pow2[k]
<1>1. \A k \in Nat : Pow2[k] \in Nat /\ Pow2[k] = Doubled(Pow2, k)
  BY Pow2Equation
<1>2. Pow2[0] = 1
  BY <1>1 DEF Doubled
<1>3. ASSUME NEW k \in Nat PROVE Pow2[k + 1] = 2 * Pow2[k]
  <2>1. k + 1 \in Nat /\ k + 1 # 0 /\ (k + 1) - 1 = k
    OBVIOUS
  <2> QED BY <1>1, <2>1 DEF Doubled
<1>4. \A k \in Nat : Pow2[k] > 0
  <2> DEFINE Bad == {k \in Nat : ~(Pow2[k] > 0)}
  <2> SUFFICES ASSUME Bad # {} PROVE FALSE
    OBVIOUS
  <2>1. PICK x \in Bad : \A y \in Bad : x <= y
    <3>1. Bad \in SUBSET Nat
      OBVIOUS
    <3> HIDE DEF Bad
    <3> QED BY <3>1, SmallestNat
  <2>2. x \in Nat /\ x # 0 /\ ~(Pow2[x] > 0)
    BY <1>2
  <2>3. x - 1 \in Nat /\ ~(x <= x - 1) /\ (x - 1) + 1 = x
    BY <2>2
  <2>4. Pow2[x - 1] > 0 /\ Pow2[x - 1] \in Nat /\ Pow2[x] = 2 * Pow2[x - 1]
    BY <1>1, <1>3, <2>1, <2>3
  <2> QED BY <2>2, <2>4
<1> QED BY <1>1, <1>2, <1>3, <1>4

\* A larger power of two is a multiple of a smaller one.
LEMMA Pow2Split ==
  ASSUME NEW m \in Nat, NEW n \in Nat, m <= n
  PROVE  \E c \in Nat : c > 0 /\ Pow2[n] = Pow2[m] * c
<1> DEFINE Split(k) == \E c \in Nat : c > 0 /\ Pow2[k] = Pow2[m] * c
           Bad == {k \in Nat : m <= k /\ ~Split(k)}
<1>1. Split(m)
  <2>1. Pow2[m] = Pow2[m] * 1
    BY Pow2Values
  <2> QED BY <2>1
<1>2. ASSUME NEW k \in Nat, Split(k) PROVE Split(k + 1)
  <2>1. PICK c \in Nat : c > 0 /\ Pow2[k] = Pow2[m] * c
    BY <1>2
  <2>2. Pow2[k + 1] = 2 * (Pow2[m] * c) /\ Pow2[m] \in Nat
    BY <2>1, Pow2Values
  <2>3. 2 * (Pow2[m] * c) = Pow2[m] * (2 * c)
    BY <2>2
  <2>4. 2 * c \in Nat /\ 2 * c > 0
    BY <2>1
  <2> QED BY <2>2, <2>3, <2>4
<1> HIDE DEF Split
<1>3. Bad = {}
  <2> SUFFICES ASSUME Bad # {} PROVE FALSE
    OBVIOUS
  <2>1. PICK x \in Bad : \A y \in Bad : x <= y
    <3>1. Bad \in SUBSET Nat
      OBVIOUS
    <3> HIDE DEF Bad
    <3> QED BY <3>1, SmallestNat
  <2>2. x \in Nat /\ x # m /\ m <= x /\ ~Split(x)
    BY <1>1
  <2>3. x - 1 \in Nat /\ m <= x - 1 /\ ~(x <= x - 1) /\ (x - 1) + 1 = x
    BY <2>2
  <2>4. Split(x - 1)
    BY <2>1, <2>3
  <2> QED BY <1>2, <2>2, <2>3, <2>4
<1> QED BY <1>3 DEF Split

\* Multiples of m that differ do so by m at least.
LEMMA NextMultiple ==
  ASSUME NEW m \in Nat, m > 0, NEW a \in Int, NEW b \in Int, m * a < m * b
  PROVE  m * a + m <= m * b /\ a < b
<1>1. CASE a >= b
  <2>1. a - b \in Nat /\ m * (a - b) >= 0
    BY <1>1
  <2>2. m * (a - b) = m * a - m * b
    OBVIOUS
  <2> QED BY <2>1, <2>2
<1>2. CASE a < b
  <2>1. b - a - 1 \in Nat /\ m * (b - a - 1) >= 0
    BY <1>2
  <2>2. m * (b - a - 1) = m * b - m * a - m
    OBVIOUS
  <2> QED BY <1>2, <2>1, <2>2
<1> QED BY <1>1, <1>2

\* Quotient and remainder, as numbers of their own and from what they satisfy.
LEMMA Parts ==
  ASSUME NEW m \in Nat, m > 0, NEW x \in Int
  PROVE  \E q \in Int, r \in 0 .. m - 1 : q = x \div m /\ r = x % m /\ x = m * q + r
<1>1. x = m * (x \div m) + (x % m)
  OBVIOUS
<1>2. x \div m \in Int /\ x % m \in 0 .. m - 1
  OBVIOUS
<1> QED BY <1>1, <1>2, Zenon

LEMMA PartsUnique ==
  ASSUME NEW m \in Nat, m > 0, NEW x \in Int, NEW q \in Int, NEW r \in 0 .. m - 1, x = m * q + r
  PROVE  x \div m = q /\ x % m = r
<1>1. PICK p \in Int, s \in 0 .. m - 1 : p = x \div m /\ s = x % m /\ x = m * p + s
  BY Parts
<1>2. CASE p < q
  <2>1. m * (q - p) >= m
    <3>1. q - p - 1 \in Nat /\ m * (q - p - 1) >= 0
      BY <1>2
    <3>2. m * (q - p - 1) = m * (q - p) - m
      OBVIOUS
    <3> QED BY <3>1, <3>2
  <2>2. m * (q - p) = m * q - m * p
    OBVIOUS
  <2> QED BY <1>1, <2>1, <2>2
<1>3. CASE p > q
  <2>1. m * (p - q) >= m
    <3>1. p - q - 1 \in Nat /\ m * (p - q - 1) >= 0
      BY <1>3
    <3>2. m * (p - q - 1) = m * (p - q) - m
      OBVIOUS
    <3> QED BY <3>1, <3>2
  <2>2. m * (p - q) = m * p - m * q
    OBVIOUS
  <2> QED BY <1>1, <2>1, <2>2
<1>4. CASE p = q
  BY <1>1, <1>4
<1> QED BY <1>2, <1>3, <1>4

\* A multiple of m is not inside a block of another multiple of m.
LEMMA SameBlock ==
  ASSUME NEW m \in Nat, m > 0, NEW c \in Nat, c > 0, NEW q \in Int, NEW o \in 0 .. m - 1
  PROVE  (m * q + o) \div (m * c) = (m * q) \div (m * c)
<1> DEFINE n == m * c
<1>1. n \in Nat /\ n > 0
  <2>1. c - 1 \in Nat /\ m * (c - 1) >= 0 /\ m * (c - 1) = m * c - m
    OBVIOUS
  <2> QED BY <2>1
<1>2. m * q \in Int /\ m * c \in Int
  OBVIOUS
<1>3. PICK k \in Int, r \in 0 .. n - 1 : k = (m * q) \div n /\ m * q = n * k + r
  <2> HIDE DEF n
  <2> QED BY <1>1, <1>2, Parts
<1>4. r = m * (q - c * k)
  <2>1. n * k = m * (c * k)
    OBVIOUS
  <2>2. m * (q - c * k) = m * q - m * (c * k)
    OBVIOUS
  <2> QED BY <1>2, <1>3, <2>1, <2>2
<1>5. m * (q - c * k) < m * c
  BY <1>3, <1>4
<1>6. q - c * k \in Int
  OBVIOUS
<1>7. m * (q - c * k) + m <= m * c
  BY <1>5, <1>6, NextMultiple
<1>8. r + o \in 0 .. n - 1
  BY <1>3, <1>4, <1>7
<1>9. m * q + o \in Int
  OBVIOUS
<1> HIDE DEF n
<1>11. m * q + o = n * k + (r + o)
  <2>1. n * k \in Int
    BY <1>1
  <2> QED BY <1>2, <1>3, <2>1
<1>10. (m * q + o) \div n = k
  BY <1>1, <1>3, <1>8, <1>9, <1>11, PartsUnique
<1> QED BY <1>3, <1>10 DEF n

\* Two numbers in one block of n are in one block of n * c.
LEMMA LargerBlock ==
  ASSUME NEW n \in Nat, n > 0, NEW c \in Nat, c > 0, NEW x \in Int, NEW y \in Int,
         x \div n = y \div n
  PROVE  x \div (n * c) = y \div (n * c)
<1>1. PICK k \in Int, r \in 0 .. n - 1 : k = x \div n /\ x = n * k + r
  BY Parts
<1>2. PICK j \in Int, s \in 0 .. n - 1 : j = y \div n /\ y = n * j + s
  BY Parts
<1>3. (n * k + r) \div (n * c) = (n * k) \div (n * c)
  BY <1>1, SameBlock
<1>4. (n * k + s) \div (n * c) = (n * k) \div (n * c)
  BY <1>1, <1>2, SameBlock
<1>5. j = k
  BY <1>1, <1>2
<1> QED BY <1>1, <1>2, <1>3, <1>4, <1>5

-----------------------------------------------------------------------------
(* Decoder: the search and what it finds.                                  *)

LEMMA IllegalCovers ==
  ASSUME NEW w \in InsnWords
  PROVE  Covers(IllegalInsn, w)
<1>1. InsnBits \in Nat /\ InsnWords \subseteq Nat
  BY DecoderAssumption
<1>2. ASSUME NEW k \in 0 .. InsnBits - 1
      PROVE  Bit(IllegalInsn.match, k) = Bit(w, k) * Bit(IllegalInsn.mask, k)
  <2>1. k \in Nat /\ Pow2[k] \in Nat /\ Pow2[k] > 0
    BY <1>1, Pow2Values
  <2>2. 0 \div Pow2[k] = 0
    <3> DEFINE p == Pow2[k]
    <3>1. p \in Nat /\ p > 0 /\ 0 = p * 0 + 0
      BY <2>1
    <3> HIDE DEF p
    <3>2. 0 \div p = 0
      BY <3>1, PartsUnique
    <3> QED BY <3>2 DEF p
  <2>3. Bit(0, k) = 0
    BY <2>2 DEF Bit
  <2>4. Bit(w, k) \in Int
    <3> DEFINE p == Pow2[k]
    <3>1. p \in Nat /\ p > 0 /\ w \in Nat
      BY <1>1, <2>1
    <3> HIDE DEF p
    <3>2. w \div p \in Int
      BY <3>1
    <3>3. (w \div p) % 2 \in Int
      BY <3>2
    <3> QED BY <3>3 DEF Bit, p
  <2>5. Bit(w, k) * 0 = 0
    BY <2>4
  <2> QED BY <2>3, <2>5, Zenon DEF IllegalInsn
<1>3. IllegalInsn \in AllInsns
  BY DEF AllInsns
<1>4. Matching[w] = {d \in AllInsns : \A k \in 0 .. InsnBits - 1 : Bit(d.match, k) = Bit(w, k) * Bit(d.mask, k)}
  BY Zenon DEF Matching
<1> QED BY <1>2, <1>3, <1>4, Zenon DEF Covers

LEMMA InsnFacts ==
  /\ CacheSize \in Nat \ {0} /\ InsnWords \subseteq Nat
  /\ IllegalInsn \in AllInsns /\ IllegalInsn.match = 0 /\ IllegalInsn.mask = 0
  /\ \A d \in AllInsns : d.match \in Nat /\ d.mask \in Nat
  /\ AllInsns \subseteq [match : Nat, mask : Nat, name : STRING]
  /\ \A d, e \in AllInsns : d.match = e.match /\ d.mask = e.mask => d = e
  /\ \A d \in AllInsns : d # IllegalInsn => d.mask > 0
<1>1. IllegalInsn \in AllInsns /\ IllegalInsn.match = 0 /\ IllegalInsn.mask = 0
  <2>1. IllegalInsn \in AllInsns
    BY DEF AllInsns
  <2> QED BY <2>1 DEF IllegalInsn
<1>2. \A d \in AllInsns : d.match \in Nat /\ d.mask \in Nat
  BY DecoderAssumption
<1>3. \A d \in AllInsns : d # IllegalInsn => d.mask # 0
  BY DecoderAssumption, Zenon
<1>4. \A d \in AllInsns : d # IllegalInsn => d.mask > 0
  BY <1>2, <1>3
<1> QED BY <1>1, <1>2, <1>4, DecoderAssumption, Zenon

-----------------------------------------------------------------------------
(* std::sort.                                                              *)

LEMMA PrecedesOrders ==
  /\ \A d \in AllInsns : ~Precedes(d, d)
  /\ \A d, e, f \in AllInsns : Precedes(d, e) /\ Precedes(e, f) => Precedes(d, f)
  /\ \A d, e \in AllInsns : d = e \/ Precedes(d, e) \/ Precedes(e, d)
<1>1. \A d \in AllInsns : d.match \in Nat /\ d.mask \in Nat
  BY InsnFacts
<1>2. \A d, e \in AllInsns : d.match = e.match /\ d.mask = e.mask => d = e
  BY InsnFacts
<1> QED BY <1>1, <1>2 DEF Precedes

\* What std::sort leaves: every description once, in order.
SortedFrom(s, X) ==
  /\ s \in [1 .. Cardinality(X) -> X]
  /\ \A i, j \in 1 .. Cardinality(X) : i < j => Precedes(s[i], s[j])
  /\ \A d \in X : \E i \in 1 .. Cardinality(X) : s[i] = d

LEMMA Sorts ==
  ASSUME NEW X \in SUBSET AllInsns, IsFiniteSet(X)
  PROVE  SortedFrom(SortedInsns(X), X)
<1> DEFINE n      == Cardinality(X)
           Below(d) == {e \in X : Precedes(e, d)}
           Rank(d) == Cardinality(Below(d))
<1>1. n \in Nat
  BY FS_CardinalityType
<1>2. ASSUME NEW d \in X PROVE Rank(d) \in 0 .. n - 1 /\ IsFiniteSet(Below(d))
  <2>1. Below(d) \in SUBSET (X \ {d})
    BY PrecedesOrders
  <2> DEFINE L == Below(d)
  <2>2. L \in SUBSET (X \ {d})
    BY <2>1
  <2> HIDE DEF L
  <2>3. IsFiniteSet(X \ {d}) /\ Cardinality(X \ {d}) = n - 1
    BY FS_RemoveElement
  <2>4. IsFiniteSet(L) /\ Cardinality(L) <= Cardinality(X \ {d})
    BY <2>2, <2>3, FS_Subset
  <2>5. Cardinality(L) \in Nat
    BY <2>4, FS_CardinalityType
  <2>6. Cardinality(L) \in 0 .. n - 1
    <3> HIDE DEF n
    <3> QED BY <1>1, <2>3, <2>4, <2>5
  <2> QED BY <2>4, <2>6 DEF L
<1>3. ASSUME NEW d \in X, NEW e \in X, Precedes(d, e) PROVE Rank(d) < Rank(e)
  <2>1. Below(d) \cup {d} \subseteq Below(e) /\ d \notin Below(d)
    <3>1. \A f \in X : Precedes(f, d) => Precedes(f, e)
      BY <1>3, PrecedesOrders
    <3>2. ~Precedes(d, d)
      BY PrecedesOrders
    <3> QED BY <1>3, <3>1, <3>2
  <2> DEFINE L == Below(d)  G == Below(e)
  <2>2. IsFiniteSet(L) /\ IsFiniteSet(G) /\ L \cup {d} \in SUBSET G /\ d \notin L
    BY <1>2, <2>1
  <2> HIDE DEF L, G
  <2>3. Cardinality(L \cup {d}) = Cardinality(L) + 1
    BY <2>2, FS_AddElement
  <2>4. Cardinality(L \cup {d}) <= Cardinality(G)
    BY <2>2, FS_Subset
  <2>5. Cardinality(L) \in Nat /\ Cardinality(G) \in Nat
    BY <2>2, FS_CardinalityType
  <2>6. Cardinality(L) < Cardinality(G)
    BY <2>3, <2>4, <2>5
  <2> QED BY <2>6 DEF L, G
<1> HIDE DEF Rank
<1>4. \A d, e \in X : Rank(d) = Rank(e) => d = e
  <2> SUFFICES ASSUME NEW d \in X, NEW e \in X, Rank(d) = Rank(e), d # e PROVE FALSE
    OBVIOUS
  <2>1. Precedes(d, e) \/ Precedes(e, d)
    BY PrecedesOrders
  <2>2. Rank(d) \in Int /\ Rank(e) \in Int
    <3>1. Rank(d) \in 0 .. n - 1 /\ Rank(e) \in 0 .. n - 1
      BY <1>2
    <3> HIDE DEF n
    <3> QED BY <1>1, <3>1
  <2>3. Rank(d) < Rank(e) \/ Rank(e) < Rank(d)
    BY <1>3, <2>1
  <2> QED BY <2>2, <2>3
<1>5. \A k \in 0 .. n - 1 : \E d \in X : Rank(d) = k
  <2> DEFINE f == [d \in X |-> Rank(d)]  T == 0 .. n - 1
  <2>1. f \in Injection(X, T)
    <3>1. f \in [X -> T]
      BY <1>2
    <3>2. \A d, e \in X : f[d] = f[e] => d = e
      BY <1>4
    <3> HIDE DEF f, T
    <3> QED BY <3>1, <3>2 DEF Injection, IsInjective
  <2>2. IsFiniteSet(T) /\ Cardinality(T) = n
    <3> HIDE DEF n
    <3>1. 0 \in Int /\ n - 1 \in Int
      BY <1>1
    <3>2. IsFiniteSet(0 .. n - 1) /\ Cardinality(0 .. n - 1) = IF 0 > n - 1 THEN 0 ELSE n - 1 - 0 + 1
      BY <3>1, FS_Interval
    <3> QED BY <1>1, <3>2
  <2>3. f \in Surjection(X, T)
    <3> HIDE DEF f, T
    <3> QED BY <2>1, <2>2, FS_Injection
  <2>4. \A k \in T : \E d \in X : f[d] = k
    <3> HIDE DEF f, T
    <3> QED BY <2>3 DEF Surjection
  <2> QED BY <2>4
<1> DEFINE s == SortedInsns(X)
<1>6. s = [i \in 1 .. n |-> CHOOSE d \in X : Rank(d) = i - 1]
  BY Zenon DEF SortedInsns, Rank
<1>7. ASSUME NEW i \in 1 .. n PROVE s[i] \in X /\ Rank(s[i]) = i - 1
  <2>1. i - 1 \in 0 .. n - 1
    BY <1>1
  <2>2. \E d \in X : Rank(d) = i - 1
    BY <1>5, <2>1
  <2>3. s[i] = CHOOSE d \in X : Rank(d) = i - 1
    <3> HIDE DEF s, n
    <3> QED BY <1>6
  <2> HIDE DEF s
  <2> QED BY <2>2, <2>3, Zenon
<1>8. s \in [1 .. n -> X]
  <2> HIDE DEF s, n
  <2> QED BY <1>6, <1>7
<1>9. \A i, j \in 1 .. n : i < j => Precedes(s[i], s[j])
  <2> SUFFICES ASSUME NEW i \in 1 .. n, NEW j \in 1 .. n, i < j PROVE Precedes(s[i], s[j])
    OBVIOUS
  <2>1. s[i] \in X /\ s[j] \in X /\ Rank(s[i]) = i - 1 /\ Rank(s[j]) = j - 1
    BY <1>7
  <2>2. i \in Int /\ j \in Int
    BY <1>1
  <2> HIDE DEF s
  <2>3. s[i] # s[j]
    BY <2>1, <2>2
  <2>4. ~Precedes(s[j], s[i])
    <3>1. SUFFICES ASSUME Precedes(s[j], s[i]) PROVE FALSE
      OBVIOUS
    <3>2. Rank(s[j]) < Rank(s[i])
      BY <1>3, <2>1, <3>1
    <3> QED BY <2>1, <2>2, <3>2
  <2> QED BY <2>1, <2>3, <2>4, PrecedesOrders
<1>10. \A d \in X : \E i \in 1 .. n : s[i] = d
  <2> SUFFICES ASSUME NEW d \in X PROVE \E i \in 1 .. n : s[i] = d
    OBVIOUS
  <2>1. Rank(d) \in 0 .. n - 1
    BY <1>2
  <2>2. PICK i \in 1 .. n : Rank(d) = i - 1
    <3> HIDE DEF n
    <3>1. Rank(d) + 1 \in 1 .. n /\ Rank(d) = (Rank(d) + 1) - 1
      BY <1>1, <2>1
    <3> QED BY <3>1
  <2> HIDE DEF s
  <2> QED BY <1>4, <1>7, <2>2
<1> HIDE DEF s
<1> QED BY <1>8, <1>9, <1>10, Zenon DEF SortedFrom, s

\* The list: its catch-all is last, instructions with the same match are neighbours, and
\* of them the more specific ones come first.
Grouped(s, n) ==
  \A i, j, k \in 1 .. n : i < j /\ j < k /\ s[i].match = s[k].match => s[j].match = s[i].match
SpecificFirst(s, n) ==
  \A i, j \in 1 .. n : i < j /\ s[i].match = s[j].match => s[i].mask > s[j].mask
ListOf(s, n) ==
  n \in Nat \ {0} /\ s \in [1 .. n -> AllInsns] /\ s[n] = IllegalInsn /\ Grouped(s, n) /\ SpecificFirst(s, n)

CachedInsns == [match : Nat, mask : Nat, name : STRING]
CacheExact ==
  /\ opcode_cache \in [0 .. CacheSize - 1 -> CachedInsns]
  /\ \A i \in 0 .. CacheSize - 1 :
       \/ opcode_cache[i] = IllegalInsn
       \/ \E w \in InsnWords : opcode_cache[i].match = w /\ opcode_cache[i].name = Specific(w).name
DecoderInv == (\E n \in Nat \ {0} : ListOf(instructions, n)) /\ IsFiniteSet(Listed) /\ CacheExact

LEMMA SortedList ==
  ASSUME NEW X \in SUBSET AllInsns, IsFiniteSet(X), IllegalInsn \in X
  PROVE  LET s == SortedInsns(X)  n == Cardinality(X)
         IN  ListOf(s, n) /\ X = {s[i] : i \in DOMAIN s}
<1> DEFINE s == SortedInsns(X)  n == Cardinality(X)
<1>1. n \in Nat
  BY FS_CardinalityType
<1>2. SortedFrom(s, X)
  BY Sorts
<1>3. /\ s \in [1 .. n -> X]
      /\ \A i, j \in 1 .. n : i < j => Precedes(s[i], s[j])
      /\ \A d \in X : \E i \in 1 .. n : s[i] = d
  BY <1>2, Zenon DEF SortedFrom
<1> HIDE DEF s, n
<1>4. PICK i \in 1 .. n : s[i] = IllegalInsn
  BY <1>3
<1>5. n \in Nat \ {0} /\ n \in 1 .. n
  BY <1>1, <1>4
<1>6. \A j \in 1 .. n : s[j] \in AllInsns /\ s[j].match \in Nat /\ s[j].mask \in Nat
  BY <1>3, InsnFacts
<1>7. s[n] = IllegalInsn
  <2>1. CASE i < n
    <3>1. Precedes(IllegalInsn, s[n])
      BY <1>3, <1>4, <1>5, <2>1
    <3> QED BY <1>5, <1>6, <3>1, InsnFacts DEF Precedes
  <2>2. CASE i = n
    BY <1>4, <2>2
  <2> QED BY <1>5, <2>1, <2>2
<1>8. SpecificFirst(s, n)
  BY <1>3, <1>6 DEF SpecificFirst, Precedes
<1>9. Grouped(s, n)
  <2> SUFFICES ASSUME NEW a \in 1 .. n, NEW b \in 1 .. n, NEW c \in 1 .. n, a < b, b < c,
                      s[a].match = s[c].match
               PROVE  s[b].match = s[a].match
    BY DEF Grouped
  <2>1. Precedes(s[a], s[b]) /\ Precedes(s[b], s[c])
    BY <1>3
  <2> QED BY <1>6, <2>1 DEF Precedes
<1>10. s \in [1 .. n -> AllInsns] /\ X = {s[j] : j \in DOMAIN s}
  BY <1>3
<1> QED BY <1>5, <1>7, <1>8, <1>9, <1>10, Zenon DEF ListOf, s, n

\* The linear search ends at the most specific instruction that covers the word.
LEMMA SearchExact ==
  ASSUME NEW n, ListOf(instructions, n), NEW w \in InsnWords
  PROVE  Found(w) \in 1 .. n /\ instructions[Found(w)] = Specific(w)
<1>1. n \in Nat \ {0} /\ instructions \in [1 .. n -> AllInsns] /\ instructions[n] = IllegalInsn
  BY Zenon DEF ListOf
<1>2. DOMAIN instructions = 1 .. n
  BY <1>1
<1> DEFINE T == {q \in 1 .. n : Covers(instructions[q], w)}
<1>3. T \in SUBSET Nat /\ n \in T
  <2>1. Covers(instructions[n], w)
    BY <1>1, IllegalCovers
  <2> QED BY <1>1, <2>1
<1>4. \E p \in 1 .. n : Covers(instructions[p], w) /\ \A q \in 1 .. p - 1 : ~Covers(instructions[q], w)
  <2>1. PICK p \in T : \A q \in T : p <= q
    <3> HIDE DEF T
    <3>1. T # {}
      BY <1>3
    <3> QED BY <1>3, <3>1, SmallestNat
  <2>2. \A q \in 1 .. p - 1 : q \in 1 .. n /\ ~(p <= q)
    BY <1>1, <2>1
  <2> QED BY <2>1, <2>2
<1>5. PICK p \in 1 .. n : /\ p = Found(w) /\ Covers(instructions[p], w)
                          /\ \A q \in 1 .. p - 1 : ~Covers(instructions[q], w)
  BY <1>2, <1>4, Zenon DEF Found
<1> DEFINE d == instructions[p]
<1>6. \A q \in 1 .. n : instructions[q] \in AllInsns /\ instructions[q].match \in Nat /\ instructions[q].mask \in Nat
  BY <1>1, InsnFacts
<1>7. \A q \in 1 .. n : Covers(instructions[q], w) => q >= p
  <2> SUFFICES ASSUME NEW q \in 1 .. n, Covers(instructions[q], w), q < p PROVE FALSE
    BY <1>1
  <2>1. q \in 1 .. p - 1
    BY <1>1
  <2> QED BY <1>5, <2>1
<1>8. \A e \in Listed : Covers(e, w) => d.mask >= e.mask
  <2> SUFFICES ASSUME NEW e \in Listed, Covers(e, w) PROVE d.mask >= e.mask
    OBVIOUS
  <2>1. PICK j \in 1 .. n : e = instructions[j]
    BY <1>2 DEF Listed
  <2>2. j >= p
    BY <1>7, <2>1
  <2>3. CASE j = p
    BY <1>6, <2>1, <2>3
  <2>4. CASE e = IllegalInsn
    BY <1>6, <2>4, InsnFacts
  <2>5. CASE j > p /\ e # IllegalInsn
    <3>0. SpecificFirst(instructions, n)
      BY Zenon DEF ListOf
    <3>1. d # IllegalInsn
      <4> SUFFICES ASSUME d = IllegalInsn PROVE FALSE
        OBVIOUS
      <4>1. p < n /\ n \in 1 .. n
        BY <1>1, <2>5
      <4>2. d.mask > instructions[n].mask
        BY <1>1, <3>0, <4>1 DEF SpecificFirst
      <4> QED BY <1>1, <4>2, InsnFacts
    <3>2. d.match = e.match
      <4>1. d \in AllInsns \ {IllegalInsn} /\ e \in AllInsns \ {IllegalInsn}
        BY <1>6, <2>1, <2>5, <3>1
      <4>2. Covers(d, w) /\ Covers(e, w)
        BY <1>5
      <4> HIDE DEF d
      <4> QED BY <4>1, <4>2, DecoderAssumption, Zenon
    <3>3. d.mask > e.mask
      BY <2>1, <2>5, <3>0, <3>2 DEF SpecificFirst
    <3> QED BY <1>6, <2>1, <3>3
  <2> QED BY <1>1, <2>2, <2>3, <2>4, <2>5
<1>9. d \in Listed /\ Covers(d, w)
  BY <1>2, <1>5 DEF Listed
<1>10. Listed \subseteq AllInsns
  BY <1>2, <1>6 DEF Listed
<1>11. ASSUME NEW e \in Listed, Covers(e, w), \A f \in Listed : Covers(f, w) => e.mask >= f.mask
       PROVE  e = d
  <2>1. e \in AllInsns /\ d \in AllInsns
    BY <1>9, <1>10
  <2>2. e.mask \in Nat /\ d.mask \in Nat
    BY <2>1, InsnFacts
  <2>3. e.mask >= d.mask /\ d.mask >= e.mask
    BY <1>8, <1>9, <1>11
  <2>4. e.mask = d.mask
    <3> HIDE DEF d
    <3> QED BY <2>2, <2>3
  <2>5. CASE e = IllegalInsn \/ d = IllegalInsn
    <3> HIDE DEF d
    <3> QED BY <2>1, <2>4, <2>5, InsnFacts
  <2>6. CASE e # IllegalInsn /\ d # IllegalInsn
    <3> HIDE DEF d
    <3>1. e.match = d.match
      BY <1>9, <1>11, <2>1, <2>6, DecoderAssumption, Zenon
    <3> QED BY <2>1, <2>4, <3>1, InsnFacts
  <2> QED BY <2>5, <2>6
<1>12. Specific(w) = d
  <2> HIDE DEF d
  <2> QED BY <1>8, <1>9, <1>11, Zenon DEF Specific
<1> QED BY <1>5, <1>12

LEMMA DecoderInitInv == DecoderInit => DecoderInv
<1> SUFFICES ASSUME DecoderInit PROVE DecoderInv
  OBVIOUS
<1> DEFINE X == BaseInsns \cup {IllegalInsn}
<1>1. X \in SUBSET AllInsns /\ IllegalInsn \in X
  BY DEF AllInsns
<1>2. IsFiniteSet(X)
  <2>1. IsFiniteSet(BaseInsns)
    BY DecoderAssumption
  <2> QED BY <2>1, FS_AddElement
<1>3. instructions = SortedInsns(X) /\ opcode_cache = ClearedCache
  BY DEF DecoderInit
<1> HIDE DEF X
<1>4. ListOf(instructions, Cardinality(X)) /\ X = Listed
  <2>1. ListOf(SortedInsns(X), Cardinality(X)) /\ X = {SortedInsns(X)[i] : i \in DOMAIN SortedInsns(X)}
    BY <1>1, <1>2, SortedList
  <2> QED BY <1>3, <2>1, Zenon DEF Listed
<1>5. CacheExact
  <2>1. IllegalInsn \in CachedInsns
    BY InsnFacts DEF CachedInsns
  <2> HIDE DEF CachedInsns
  <2> QED BY <1>3, <2>1 DEF CacheExact, ClearedCache
<1> QED BY <1>2, <1>4, <1>5, Zenon DEF DecoderInv, ListOf

\* Moving an instruction whose match no neighbour shares keeps the list as it must be.
LEMMA MoveKeeps ==
  ASSUME NEW n, ListOf(instructions, n), NEW p \in 1 .. n, Movable(p)
  PROVE  ListOf(ToFront(p), n) /\ Listed = {ToFront(p)[i] : i \in DOMAIN ToFront(p)}
<1> DEFINE s == instructions  t == ToFront(p)
           g(i) == IF i = 1 THEN p ELSE IF i <= p THEN i - 1 ELSE i
<1>1. n \in Nat \ {0} /\ s \in [1 .. n -> AllInsns] /\ s[n] = IllegalInsn /\ Grouped(s, n) /\ SpecificFirst(s, n)
  BY Zenon DEF ListOf
<1>2. p > 1 /\ s[p].mask # 0 /\ s[p].match # s[p - 1].match /\ s[p].match # s[p + 1].match
  BY Zenon DEF Movable
<1>3. p < n /\ p - 1 \in 1 .. n /\ p + 1 \in 1 .. n
  <2>1. p # n
    BY <1>1, <1>2, InsnFacts
  <2> QED BY <1>1, <1>2, <2>1
<1>4. \A q \in 1 .. n : q # p => s[q].match # s[p].match
  <2> SUFFICES ASSUME NEW q \in 1 .. n, q # p, s[q].match = s[p].match PROVE FALSE
    OBVIOUS
  <2>1. CASE q < p - 1
    BY <1>1, <1>2, <1>3, <2>1 DEF Grouped
  <2>2. CASE q > p + 1
    BY <1>1, <1>2, <1>3, <2>2 DEF Grouped
  <2>3. CASE q = p - 1 \/ q = p + 1
    BY <1>2, <2>3
  <2> QED BY <1>1, <2>1, <2>2, <2>3
<1>5. DOMAIN s = 1 .. n
  BY <1>1
<1>6. t = [i \in 1 .. n |-> IF i = 1 THEN s[p] ELSE IF i <= p THEN s[i - 1] ELSE s[i]]
  BY <1>5, Zenon DEF ToFront
<1> HIDE DEF t, s
<1>7. ASSUME NEW i \in 1 .. n PROVE g(i) \in 1 .. n /\ t[i] = s[g(i)]
  BY <1>1, <1>6
<1>8. t \in [1 .. n -> AllInsns]
  <2>1. \A i \in 1 .. n : t[i] \in AllInsns
    <3> HIDE DEF g
    <3> QED BY <1>1, <1>7
  <2> QED BY <1>6, <2>1
<1>9. t[n] = IllegalInsn
  <2>1. n \in 1 .. n /\ g(n) = n
    BY <1>1, <1>2, <1>3
  <2> QED BY <1>1, <1>7, <2>1
<1>10. ASSUME NEW i \in 1 .. n, NEW j \in 1 .. n, i < j, t[i].match = t[j].match
       PROVE  i > 1 /\ g(i) < g(j)
  <2>1. g(j) # p
    BY <1>1, <1>10
  <2>2. i # 1
    <3> SUFFICES ASSUME i = 1 PROVE FALSE
      OBVIOUS
    <3>1. g(i) = p
      OBVIOUS
    <3> HIDE DEF g
    <3> QED BY <1>4, <1>7, <1>10, <2>1, <3>1
  <2> QED BY <1>1, <1>10, <2>2
<1>11. SpecificFirst(t, n)
  <2> SUFFICES ASSUME NEW i \in 1 .. n, NEW j \in 1 .. n, i < j, t[i].match = t[j].match
               PROVE  t[i].mask > t[j].mask
    BY DEF SpecificFirst
  <2>1. g(i) < g(j)
    BY <1>10
  <2> HIDE DEF g
  <2> QED BY <1>1, <1>7, <2>1 DEF SpecificFirst
<1>12. Grouped(t, n)
  <2> SUFFICES ASSUME NEW i \in 1 .. n, NEW j \in 1 .. n, NEW k \in 1 .. n, i < j, j < k, t[i].match = t[k].match
               PROVE  t[j].match = t[i].match
    BY DEF Grouped
  <2>1. i > 1
    <3>1. i < k
      BY <1>1
    <3> QED BY <1>10, <3>1
  <2>2. g(i) < g(j) /\ g(j) < g(k)
    BY <1>1, <2>1
  <2> HIDE DEF g
  <2>3. g(i) \in 1 .. n /\ g(j) \in 1 .. n /\ g(k) \in 1 .. n
    BY <1>7
  <2>4. t[i] = s[g(i)] /\ t[j] = s[g(j)] /\ t[k] = s[g(k)]
    BY <1>7
  <2> QED BY <1>1, <2>2, <2>3, <2>4 DEF Grouped
<1>13. {s[i] : i \in 1 .. n} = {t[i] : i \in 1 .. n}
  <2>1. ASSUME NEW i \in 1 .. n PROVE t[i] \in {s[j] : j \in 1 .. n}
    <3> HIDE DEF g
    <3> QED BY <1>7
  <2>2. ASSUME NEW i \in 1 .. n PROVE \E j \in 1 .. n : t[j] = s[i]
    <3>1. \E j \in 1 .. n : g(j) = i
      <4>1. CASE i = p
        <5>1. 1 \in 1 .. n /\ g(1) = i
          BY <1>1, <4>1
        <5> QED BY <5>1
      <4>2. CASE i < p
        <5>1. i + 1 \in 1 .. n /\ g(i + 1) = i
          BY <1>1, <4>2
        <5> QED BY <5>1
      <4>3. CASE i > p
        <5>1. g(i) = i
          BY <1>1, <4>3
        <5> QED BY <5>1
      <4> QED BY <1>1, <4>1, <4>2, <4>3
    <3>2. PICK j \in 1 .. n : g(j) = i
      BY <3>1
    <3> HIDE DEF g
    <3> QED BY <1>7, <3>2
  <2> QED BY <2>1, <2>2
<1>14. DOMAIN t = 1 .. n
  BY <1>6
<1>15. ListOf(t, n)
  BY <1>1, <1>8, <1>9, <1>11, <1>12, Zenon DEF ListOf
<1>16. Listed = {s[i] : i \in 1 .. n}
  BY <1>5 DEF Listed, s
<1> QED BY <1>13, <1>14, <1>15, <1>16, Zenon DEF t

LEMMA SpecificKept ==
  ASSUME Listed' = Listed, NEW w
  PROVE  Specific(w)' = Specific(w)
BY Zenon DEF Specific

LEMMA DecodeStep ==
  ASSUME DecoderInv, NEW w \in InsnWords, DecodeInsn(w)
  PROVE  DecoderInv'
<1>1. PICK n \in Nat \ {0} : ListOf(instructions, n)
  BY DEF DecoderInv
<1> DEFINE p == Found(w)  d == instructions[p]
<1>2. p \in 1 .. n /\ d = Specific(w)
  BY <1>1, SearchExact
<1>3. /\ instructions' = IF Movable(p) THEN ToFront(p) ELSE instructions
      /\ opcode_cache' = [opcode_cache EXCEPT ![w % CacheSize] = [d EXCEPT !.match = w]]
  BY Zenon DEF DecodeInsn
<1>4. d \in AllInsns
  BY <1>1, <1>2 DEF ListOf
<1> HIDE DEF p, d
<1>5. ListOf(instructions', n) /\ Listed' = Listed
  <2>1. CASE Movable(p)
    <3>1. instructions' = ToFront(p)
      BY <1>3, <2>1, Zenon
    <3>2. ListOf(ToFront(p), n) /\ Listed = {ToFront(p)[i] : i \in DOMAIN ToFront(p)}
      BY <1>1, <1>2, <2>1, MoveKeeps
    <3>3. Listed' = {instructions'[i] : i \in DOMAIN instructions'}
      BY Zenon DEF Listed
    <3> QED BY <3>1, <3>2, <3>3, Zenon
  <2>2. CASE ~Movable(p)
    <3>1. instructions' = instructions
      BY <1>3, <2>2, Zenon
    <3> QED BY <1>1, <3>1, Zenon DEF Listed
  <2> QED BY <2>1, <2>2
<1>6. \A v : Specific(v)' = Specific(v)
  BY <1>5, SpecificKept
<1>7. CacheExact'
  <2> DEFINE e == [d EXCEPT !.match = w]
  <2>1. w \in Nat /\ CacheSize \in Nat \ {0} /\ w % CacheSize \in 0 .. CacheSize - 1
    BY InsnFacts
  <2>2. e \in CachedInsns /\ e.match = w /\ e.name = d.name
    BY <1>4, <2>1, InsnFacts DEF CachedInsns
  <2>3. /\ opcode_cache \in [0 .. CacheSize - 1 -> CachedInsns]
        /\ \A i \in 0 .. CacheSize - 1 :
             \/ opcode_cache[i] = IllegalInsn
             \/ \E v \in InsnWords : opcode_cache[i].match = v /\ opcode_cache[i].name = Specific(v).name
    BY Zenon DEF DecoderInv, CacheExact
  <2> DEFINE c == [opcode_cache EXCEPT ![w % CacheSize] = e]
  <2>4. opcode_cache' = c
    BY <1>3
  <2> HIDE DEF e, CachedInsns
  <2>5. c \in [0 .. CacheSize - 1 -> CachedInsns]
    BY <2>2, <2>3
  <2>6. ASSUME NEW i \in 0 .. CacheSize - 1
        PROVE  \/ c[i] = IllegalInsn
               \/ \E v \in InsnWords : c[i].match = v /\ c[i].name = Specific(v).name
    <3>1. CASE i = w % CacheSize
      <4>1. c[i] = e
        BY <2>3, <3>1
      <4> HIDE DEF c
      <4> QED BY <1>2, <2>2, <4>1
    <3>2. CASE i # w % CacheSize
      <4>1. c[i] = opcode_cache[i]
        BY <2>3, <3>2
      <4> HIDE DEF c
      <4> QED BY <2>3, <4>1
    <3> QED BY <3>1, <3>2
  <2> HIDE DEF c
  <2> QED BY <1>6, <2>4, <2>5, <2>6, Zenon DEF CacheExact, CachedInsns
<1>8. IsFiniteSet(Listed')
  BY <1>5, Zenon DEF DecoderInv
<1> QED BY <1>5, <1>7, <1>8, Zenon DEF DecoderInv

LEMMA ExtensionStep ==
  ASSUME DecoderInv, NEW X \in CustomInsns, RegisterExtension(X)
  PROVE  DecoderInv'
<1>1. PICK n \in Nat \ {0} : ListOf(instructions, n)
  BY DEF DecoderInv
<1>2. n \in 1 .. n /\ instructions \in [1 .. n -> AllInsns] /\ instructions[n] = IllegalInsn
  BY <1>1 DEF ListOf
<1>3. Listed \subseteq AllInsns /\ IllegalInsn \in Listed
  BY <1>2 DEF Listed
<1> DEFINE Y == Listed \cup X
<1>4. Y \in SUBSET AllInsns /\ IllegalInsn \in Y
  <2>1. X \subseteq AllInsns
    BY DEF AllInsns
  <2> QED BY <1>3, <2>1
<1>5. IsFiniteSet(Y)
  <2>1. IsFiniteSet(X) /\ IsFiniteSet(Listed)
    BY DecoderAssumption DEF DecoderInv
  <2> QED BY <2>1, FS_Union
<1>6. instructions' = SortedInsns(Y) /\ opcode_cache' = ClearedCache
  BY DEF RegisterExtension
<1> HIDE DEF Y
<1>7. ListOf(instructions', Cardinality(Y)) /\ Listed' = Y
  <2>1. Listed' = {instructions'[i] : i \in DOMAIN instructions'}
    BY Zenon DEF Listed
  <2>2. ListOf(SortedInsns(Y), Cardinality(Y)) /\ Y = {SortedInsns(Y)[i] : i \in DOMAIN SortedInsns(Y)}
    BY <1>4, <1>5, SortedList
  <2> QED BY <1>6, <2>1, <2>2, Zenon
<1>8. CacheExact'
  <2>1. IllegalInsn \in CachedInsns
    BY InsnFacts DEF CachedInsns
  <2> HIDE DEF CachedInsns
  <2>2. opcode_cache' = [i \in 0 .. CacheSize - 1 |-> IllegalInsn]
    BY <1>6 DEF ClearedCache
  <2>3. opcode_cache' \in [0 .. CacheSize - 1 -> CachedInsns] /\ \A i \in 0 .. CacheSize - 1 : opcode_cache'[i] = IllegalInsn
    BY <2>1, <2>2
  <2> QED BY <2>3, Zenon DEF CacheExact, CachedInsns
<1>9. Cardinality(Y) \in Nat \ {0}
  BY <1>7, Zenon DEF ListOf
<1> QED BY <1>5, <1>7, <1>8, <1>9, Zenon DEF DecoderInv

LEMMA DecoderStepInv == DecoderInv /\ [DecoderNext]_decoderVars => DecoderInv'
<1> SUFFICES ASSUME DecoderInv, [DecoderNext]_decoderVars PROVE DecoderInv'
  OBVIOUS
<1>1. CASE UNCHANGED decoderVars
  <2>1. instructions' = instructions /\ opcode_cache' = opcode_cache
    BY <1>1 DEF decoderVars
  <2>2. Listed' = Listed
    BY <2>1, Zenon DEF Listed
  <2>3. \A v : Specific(v)' = Specific(v)
    BY <2>2, SpecificKept
  <2>4. CacheExact
    BY Zenon DEF DecoderInv
  <2>5. CacheExact'
    BY <2>1, <2>3, <2>4, Zenon DEF CacheExact
  <2> QED BY <2>1, <2>2, <2>5, Zenon DEF DecoderInv
<1> QED BY <1>1, DecodeStep, ExtensionStep, Zenon DEF DecoderNext

\* decode_insn is independent of history: for any instruction set of which overlapping
\* instructions share their match, and any size of the cache, a word decodes to the most
\* specific instruction that covers it, whatever was decoded before, moved to the front
\* of the list or registered late.
THEOREM DecodeAlwaysExact == DecoderSpec => []DecodeExact
<1>1. DecoderInv => DecodeExact
  <2> SUFFICES ASSUME DecoderInv, NEW w \in InsnWords \ {0} PROVE Decoded(w).name = Specific(w).name
    BY DEF DecodeExact
  <2>1. PICK n \in Nat \ {0} : ListOf(instructions, n)
    BY DEF DecoderInv
  <2>2. CASE ~CacheHit(w)
    <3>1. instructions[Found(w)] = Specific(w)
      BY <2>1, SearchExact
    <3>2. Decoded(w) = instructions[Found(w)]
      BY <2>2, Zenon DEF Decoded
    <3> QED BY <3>1, <3>2, Zenon
  <2>3. CASE CacheHit(w)
    <3> DEFINE i == w % CacheSize
    <3>1. i \in 0 .. CacheSize - 1
      BY InsnFacts
    <3>2. opcode_cache[i].match = w /\ Decoded(w) = opcode_cache[i]
      BY <2>3, Zenon DEF CacheHit, Decoded
    <3> HIDE DEF i
    <3>3. opcode_cache[i] # IllegalInsn
      BY <3>2, InsnFacts
    <3>4. \E v \in InsnWords : opcode_cache[i].match = v /\ opcode_cache[i].name = Specific(v).name
      BY <3>1, <3>3, Zenon DEF DecoderInv, CacheExact
    <3> QED BY <3>2, <3>4, Zenon
  <2> QED BY <2>2, <2>3
<1> QED BY <1>1, DecoderInitInv, DecoderStepInv, PTL DEF DecoderSpec

-----------------------------------------------------------------------------
(* Pmp: locked rules hold, and the table of Smepmp is obeyed.              *)

\* There is a register and a configuration for every entry, and nothing else.
PmpShape ==
  /\ addrs = [i \in Entries |-> addrs[i]]
  /\ cfgs = [i \in Entries |-> cfgs[i]]

LEMMA PmpShapeAlways == PmpSpec => []PmpShape
<1>1. PmpInit => PmpShape
  BY DEF PmpInit, PmpReset, PmpShape
<1>2. PmpShape /\ [PmpNext]_pmpVars => PmpShape'
  <2> SUFFICES ASSUME PmpShape, [PmpNext]_pmpVars PROVE PmpShape'
    OBVIOUS
  <2>1. ASSUME NEW i \in Entries, NEW v \in Vals, PmpaddrWrite(i, v) PROVE PmpShape'
    BY <2>1 DEF PmpaddrWrite, PmpShape
  <2>2. ASSUME NEW new \in [Entries -> Rules], PmpcfgWrite(new) PROVE PmpShape'
    BY <2>2 DEF PmpcfgWrite, PmpShape
  <2>3. CASE UNCHANGED <<addrs, cfgs>>
    BY <2>3 DEF PmpShape
  <2> QED
    BY <2>1, <2>2, <2>3 DEF PmpNext, MseccfgWrite, pmpVars
<1> QED
  BY <1>1, <1>2, PTL DEF PmpSpec

\* What each write may not do to a locked rule.
LEMMA LockStep ==
  ASSUME PmpShape, PmpNext, NEW i \in Entries, Locked(i)
  PROVE  /\ cfgs'[i] = cfgs[i] /\ addrs'[i] = addrs[i]
         /\ cfgs[i].a = "TOR" => TorBase(i)' = TorBase(i)
         /\ ~sec'.rlb
<1>0. i \in Nat /\ (i # 0 => i - 1 \in Entries /\ (i - 1) + 1 = i)
  BY PmpAssumption DEF Entries
<1>1. ASSUME NEW j \in Entries, NEW v \in Vals, PmpaddrWrite(j, v)
      PROVE  /\ cfgs'[i] = cfgs[i] /\ addrs'[i] = addrs[i]
             /\ cfgs[i].a = "TOR" => TorBase(i)' = TorBase(i)
             /\ ~sec'.rlb
  <2>1. UNCHANGED <<cfgs, sec>> /\ ~sec'.rlb
    BY <1>1 DEF PmpaddrWrite, Locked
  <2>2. \A k \in Entries : k # j => addrs'[k] = addrs[k]
    BY <1>1 DEF PmpaddrWrite, PmpShape
  <2>3. addrs'[i] = addrs[i]
    BY <1>1, <2>2 DEF PmpaddrWrite
  <2>4. ASSUME cfgs[i].a = "TOR", i # 0 PROVE addrs'[i - 1] = addrs[i - 1]
    <3>1. CASE j = i - 1
      BY <1>0, <1>1, <2>4, <3>1 DEF PmpaddrWrite
    <3>2. CASE j # i - 1
      BY <1>0, <2>2, <2>4, <3>2
    <3> QED
      BY <3>1, <3>2
  <2>5. cfgs[i].a = "TOR" => TorBase(i)' = TorBase(i)
    BY <2>4 DEF TorBase, TorPaddr
  <2> QED
    BY <2>1, <2>3, <2>5
<1>2. ASSUME NEW new \in [Entries -> Rules], PmpcfgWrite(new)
      PROVE  /\ cfgs'[i] = cfgs[i] /\ addrs'[i] = addrs[i]
             /\ cfgs[i].a = "TOR" => TorBase(i)' = TorBase(i)
             /\ ~sec'.rlb
  <2>1. UNCHANGED <<addrs, sec>> /\ cfgs'[i] = cfgs[i]
    BY <1>2 DEF PmpcfgWrite
  <2> QED
    BY <2>1 DEF Locked, TorBase, TorPaddr
<1>3. ASSUME NEW mml \in BOOLEAN, NEW mmwp \in BOOLEAN, NEW rlb \in BOOLEAN,
             MseccfgWrite(mml, mmwp, rlb)
      PROVE  /\ cfgs'[i] = cfgs[i] /\ addrs'[i] = addrs[i]
             /\ cfgs[i].a = "TOR" => TorBase(i)' = TorBase(i)
             /\ ~sec'.rlb
  <2>1. UNCHANGED <<addrs, cfgs>>
    BY <1>3 DEF MseccfgWrite
  <2>2. ~sec'.rlb
    BY <1>3 DEF MseccfgWrite, Locked
  <2> QED
    BY <2>1, <2>2 DEF TorBase, TorPaddr
<1> QED
  BY <1>1, <1>2, <1>3 DEF PmpNext

\* Under MML a rule that was just written lets M-mode execute nothing.
LEMMA NoMExecStep ==
  ASSUME PmpNext, sec.mml, ~sec.rlb, NEW i \in Entries, AccessOk(cfgs'[i], "FETCH", "M")
  PROVE  cfgs'[i] = cfgs[i]
<1>1. ASSUME NEW new \in [Entries -> Rules], PmpcfgWrite(new)
      PROVE  cfgs'[i] = cfgs[i]
  <2> SUFFICES ASSUME cfgs'[i] # cfgs[i] PROVE FALSE
    OBVIOUS
  <2> DEFINE c == PmpLegal(new[i])
  <2>1. /\ cfgs'[i] = c
        /\ ~(c.l /\ ~(c.x /\ c.w /\ c.r) /\ (c.x \/ (c.w /\ ~c.r)))
    BY <1>1 DEF PmpcfgWrite
  <2> HIDE DEF c
  <2>2. AccessOk(c, "FETCH", "M")
    BY <2>1
  <2> QED
    BY <2>1, <2>2 DEF AccessOk, NormalRwx
<1>2. CASE UNCHANGED cfgs
  BY <1>2
<1> QED
  BY <1>1, <1>2 DEF PmpNext, PmpaddrWrite, MseccfgWrite

\* No order of legal writes gets around a lock or adds a way for M-mode to
\* execute, for any number of entries and any values written.
THEOREM RulesAlwaysHold == PmpSpec => RulesHold
<1>1. PmpShape /\ [PmpNext]_pmpVars =>
        [\A i \in Entries : Locked(i) =>
           /\ cfgs'[i] = cfgs[i] /\ addrs'[i] = addrs[i]
           /\ cfgs[i].a = "TOR" => TorBase(i)' = TorBase(i)
           /\ ~sec'.rlb]_pmpVars
  BY LockStep
<1>2. [PmpNext]_pmpVars =>
        [sec.mml /\ ~sec.rlb =>
           \A i \in Entries : AccessOk(cfgs'[i], "FETCH", "M") => cfgs'[i] = cfgs[i]]_pmpVars
  BY NoMExecStep
<1> QED
  BY <1>1, <1>2, PmpShapeAlways, PTL DEF PmpSpec, RulesHold, LocksHold, NoNewMExec

\* access_ok decides every rule as the table of the Smepmp extension does.
THEOREM TableAlwaysObeyed == PmpSpec => []TableObeyed
<1>1. TableObeyed
  <2> SUFFICES ASSUME sec.mml, NEW r \in BOOLEAN, NEW w \in BOOLEAN, NEW x \in BOOLEAN,
                      NEW l \in BOOLEAN, NEW mode \in PmpModes
               PROVE  LET c == [a |-> "TOR", r |-> r, w |-> w, x |-> x, l |-> l]
                      IN  {type \in PmpTypes : AccessOk(c, type, mode)} = Allowed(c, mode)
    BY DEF TableObeyed
  <2> DEFINE c == [a |-> "TOR", r |-> r, w |-> w, x |-> x, l |-> l]
  <2>1. c.r = r /\ c.w = w /\ c.x = x /\ c.l = l
    OBVIOUS
  <2> HIDE DEF c
  <2>2. ASSUME NEW type \in PmpTypes PROVE AccessOk(c, type, mode) <=> type \in Allowed(c, mode)
    BY <2>1 DEF AccessOk, NormalRwx, Allowed, Row, PmpTypes, PmpModes
  <2>3. Allowed(c, mode) \subseteq PmpTypes
    BY <2>1 DEF Allowed, Row, PmpTypes
  <2> QED
    BY <2>2, <2>3 DEF c
<1> QED
  BY <1>1, PTL

-----------------------------------------------------------------------------
(* Pmp: a page that is homogeneous is decided as a whole.                  *)

PageWords == Pow2[PageLg]

LEMMA PmpConstants ==
  /\ PageWords \in Nat /\ PageWords > 1
  /\ \E h \in Nat : PageWords = 2 * h
  /\ Pow2[Gran] \in Nat /\ Pow2[Gran] > 0 /\ Pow2[AddrBits] \in Nat /\ Pow2[AddrBits] > 0
<1>1. PageLg \in Nat /\ PageLg - 1 \in Nat /\ (PageLg - 1) + 1 = PageLg /\ Gran \in Nat /\ AddrBits \in Nat
  BY PmpAssumption
<1>2. Pow2[PageLg] = 2 * Pow2[PageLg - 1] /\ Pow2[PageLg - 1] \in Nat /\ Pow2[PageLg - 1] > 0
  BY <1>1, Pow2Values
<1> QED BY <1>1, <1>2, Pow2Values DEF PageWords

LEMMA PmpRegisters ==
  ASSUME PmpTypeOK, NEW i \in Entries
  PROVE  /\ addrs[i] \in Nat /\ TorPaddr(i) \in Nat /\ TorBase(i) \in Nat
         /\ cfgs[i].a \in Matchings
<1>1. \A j \in Entries : addrs[j] \in Nat
  BY PmpConstants DEF PmpTypeOK
<1>2. \A j \in Entries : TorPaddr(j) \in Nat
  <2>1. \A a, g \in Nat : g > 0 => a - (a % g) \in Nat
    <3> SUFFICES ASSUME NEW a \in Nat, NEW g \in Nat, g > 0 PROVE a - (a % g) \in Nat
      OBVIOUS
    <3>1. PICK q \in Int, r \in 0 .. g - 1 : r = a % g /\ a = g * q + r
      BY Parts
    <3>2. CASE q < 0
      <4>1. g * (-1 - q) >= 0 /\ g * (-1 - q) = -g - g * q
        BY <3>2
      <4> QED BY <3>1, <4>1
    <3>3. CASE q >= 0
      <4>1. g * q >= 0
        BY <3>3
      <4> QED BY <3>1, <4>1
    <3> QED BY <3>2, <3>3
  <2> QED BY <1>1, <2>1, PmpConstants DEF TorPaddr
<1>3. TorBase(i) \in Nat
  <2>1. i = 0 \/ i - 1 \in Entries
    BY PmpAssumption DEF Entries
  <2> QED BY <1>2, <2>1 DEF TorBase
<1>4. cfgs[i].a \in Matchings
  BY DEF PmpTypeOK, PmpConfigs
<1> QED BY <1>1, <1>2, <1>3, <1>4, Zenon

\* napot_mask has a number of trailing ones.
LEMMA NapotLgType ==
  ASSUME PmpTypeOK, NEW i \in Entries
  PROVE  NapotLg(i) \in Nat
<1> DEFINE shifted == 2 * addrs[i] + IF cfgs[i].a = "NA4" THEN 0 ELSE 1
           mask    == (shifted - (shifted % Pow2[Gran])) + (Pow2[Gran] - 1)
           Ones(k) == mask % Pow2[k] = Pow2[k] - 1
           Last(k) == k = AddrBits + 1 \/ ~Ones(k + 1)
           Ends       == {k \in 0 .. AddrBits + 1 : Last(k)}
<1>1. shifted \in Nat /\ mask \in Int
  <2>1. addrs[i] \in Nat /\ Pow2[Gran] \in Nat /\ Pow2[Gran] > 0
    BY PmpRegisters, PmpConstants
  <2>2. shifted \in Nat
    <3>1. (IF cfgs[i].a = "NA4" THEN 0 ELSE 1) \in Nat
      OBVIOUS
    <3>2. \A a, b \in Nat : 2 * a + b \in Nat
      OBVIOUS
    <3> QED BY <2>1, <3>1, <3>2, Zenon
  <2>3. \A a, g \in Nat : g > 0 => (a - (a % g)) + (g - 1) \in Int
    OBVIOUS
  <2> HIDE DEF shifted
  <2> QED BY <2>1, <2>2, <2>3, Zenon
<1> HIDE DEF mask
<1>2. Ones(0)
  <2>1. mask % 1 = 0
    BY <1>1
  <2> QED BY <2>1, Pow2Values
<1>3. AddrBits + 1 \in Ends /\ Ends \in SUBSET Nat
  BY PmpAssumption
<1> HIDE DEF Ones
<1>4. PICK x \in Ends : \A y \in Ends : x <= y
  <2> HIDE DEF Ends
  <2> QED BY <1>3, SmallestNat
<1>5. x \in 0 .. AddrBits + 1 /\ Last(x)
  OBVIOUS
<1>6. Ones(x)
  <2>1. CASE x = 0
    BY <1>2, <2>1
  <2>2. CASE x # 0
    <3>1. x - 1 \in 0 .. AddrBits + 1 /\ ~(x <= x - 1) /\ (x - 1) + 1 = x /\ x - 1 # AddrBits + 1
      BY <1>5, <2>2, PmpAssumption
    <3>2. x - 1 \notin Ends
      BY <1>4, <3>1
    <3> QED BY <3>1, <3>2
  <2> QED BY <2>1, <2>2
<1>7. \E k \in 0 .. AddrBits + 1 : Ones(k) /\ Last(k)
  BY <1>5, <1>6
<1> HIDE DEF Last
<1>8. NapotLg(i) = CHOOSE k \in 0 .. AddrBits + 1 : Ones(k) /\ Last(k)
  BY Zenon DEF NapotLg, Ones, Last, mask
<1>9. NapotLg(i) \in 0 .. AddrBits + 1
  BY <1>7, <1>8, Zenon
<1> QED BY <1>9, PmpAssumption

\* A page and the words of another range's bound: before the bound's page, the whole page
\* is below the bound.
LEMMA PageBelow ==
  ASSUME NEW q \in Int, NEW x \in Nat, PageWords * q < PageOf(x)
  PROVE  PageWords * q + PageWords <= x
<1>0. PageWords \in Nat /\ PageWords > 0 /\ x \in Int
  BY PmpConstants
<1>1. PICK k \in Int, r \in 0 .. PageWords - 1 : k = x \div PageWords /\ r = x % PageWords /\ x = PageWords * k + r
  BY <1>0, Parts
<1>2. PageOf(x) = PageWords * k
  <2>1. PageWords * k \in Int
    BY PmpConstants
  <2> QED BY <1>1, <2>1, PmpConstants DEF PageOf, PageWords
<1>3. PageWords * q + PageWords <= PageWords * k
  BY <1>2, PmpConstants, NextMultiple
<1>4. PageWords * k \in Int /\ PageWords * q \in Int
  BY PmpConstants
<1> QED BY <1>1, <1>3, <1>4, PmpConstants

\* A number in the page of the word w lies in the same page.
LEMMA PageOfWord ==
  ASSUME NEW q \in Int, NEW x \in Nat, x \div PageWords = q
  PROVE  PageOf(x) = PageWords * q
<1>1. PICK k \in Int, r \in 0 .. PageWords - 1 : k = x \div PageWords /\ r = x % PageWords /\ x = PageWords * k + r
  BY PmpConstants, Parts
<1>2. PageWords * k \in Int
  BY PmpConstants
<1>3. PageOf(x) = x - (x % PageWords)
  BY DEF PageOf, PageWords
<1>4. PageOf(x) = x - r /\ k = q
  BY <1>1, <1>3, Zenon
<1>5. x - r = PageWords * k
  BY <1>1, <1>2
<1> QED BY <1>4, <1>5, Zenon

\* Where subset_match says no, the entry matches all words of the page or none.
LEMMA MatchAlike ==
  ASSUME PmpTypeOK, NEW i \in Entries, NEW q \in Int, NEW page \in Nat, page = PageWords * q,
         ~SubsetMatch(i, page), NEW o \in 0 .. PageWords - 1
  PROVE  Match4(i, page + o) <=> Match4(i, page)
<1>1. /\ addrs[i] \in Nat /\ TorPaddr(i) \in Nat /\ TorBase(i) \in Nat
      /\ cfgs[i].a \in {"OFF", "TOR", "NA4", "NAPOT"}
  BY PmpRegisters DEF Matchings
<1>2. CASE cfgs[i].a = "OFF"
  BY <1>2, Zenon DEF Match4
<1>3. CASE cfgs[i].a = "TOR"
  <2> DEFINE base == TorBase(i)
             tor  == TorPaddr(i)
  <2>1. page < PageOf(base) \/ page >= tor \/ (page >= base /\ page < PageOf(tor))
    BY <1>3 DEF SubsetMatch
  <2>2. \A w : Match4(i, w) <=> (base <= w /\ w < tor)
    BY <1>3, Zenon DEF Match4
  <2>3. base \in Nat /\ tor \in Nat
    BY <1>1
  <2> HIDE DEF base, tor
  <2>4. CASE page < PageOf(base)
    <3>1. page + PageWords <= base
      BY <2>3, <2>4, PageBelow
    <3>2. ~(base <= page) /\ ~(base <= page + o)
      BY <2>3, <3>1, PmpConstants
    <3> QED BY <2>2, <3>2, Zenon
  <2>5. CASE page >= tor
    <3>1. ~(page < tor) /\ ~(page + o < tor)
      BY <2>3, <2>5, PmpConstants
    <3> QED BY <2>2, <3>1, Zenon
  <2>6. CASE page >= base /\ page < PageOf(tor)
    <3>1. page + PageWords <= tor
      BY <2>3, <2>6, PageBelow
    <3>2. base <= page /\ page < tor /\ base <= page + o /\ page + o < tor
      BY <2>3, <2>6, <3>1, PmpConstants
    <3> QED BY <2>2, <3>2, Zenon
  <2> QED BY <2>1, <2>4, <2>5, <2>6, Zenon
<1>4. CASE cfgs[i].a \notin {"OFF", "TOR"}
  <2> DEFINE lg  == NapotLg(i)
             n   == Pow2[lg]
             tor == TorPaddr(i)
  <2>1. PageLg <= lg \/ PageOf(tor) # page
    BY <1>4 DEF SubsetMatch
  <2>2. \A w : Match4(i, w) <=> w \div n = tor \div n
    BY <1>4, Zenon DEF Match4
  <2>3. lg \in Nat /\ n \in Nat /\ n > 0 /\ tor \in Nat /\ PageLg \in Nat
    BY <1>1, NapotLgType, Pow2Values, PmpAssumption
  <2> HIDE DEF lg, tor
  <2>4. CASE PageLg <= lg
    <3>1. PICK c \in Nat : c > 0 /\ Pow2[lg] = PageWords * c
      BY <2>3, <2>4, Pow2Split DEF PageWords
    <3>2. (PageWords * q + o) \div (PageWords * c) = (PageWords * q) \div (PageWords * c)
      BY <3>1, PmpConstants, SameBlock
    <3>3. (page + o) \div n = page \div n
      BY <3>1, <3>2
    <3> QED BY <2>2, <3>3, Zenon
  <2>5. CASE PageOf(tor) # page /\ ~(PageLg <= lg)
    <3>1. lg <= PageLg
      BY <2>3, <2>5
    <3>2. PICK c \in Nat : c > 0 /\ PageWords = n * c
      BY <2>3, <3>1, Pow2Split DEF PageWords
    <3> HIDE DEF n
    <3>3. ASSUME NEW p \in 0 .. PageWords - 1 PROVE ~Match4(i, page + p)
      <4> SUFFICES ASSUME (page + p) \div n = tor \div n PROVE FALSE
        BY <2>2, Zenon
      <4>1. page + p \in Int /\ tor \in Int
        BY <2>3, PmpConstants
      <4>2. (page + p) \div (n * c) = tor \div (n * c)
        BY <2>3, <3>2, <4>1, LargerBlock
      <4>3. (page + p) \div PageWords = q
        BY <4>1, PmpConstants, PartsUnique
      <4>4. tor \div PageWords = q
        BY <3>2, <4>2, <4>3
      <4>5. PageOf(tor) = PageWords * q
        BY <2>3, <4>4, PageOfWord
      <4> QED BY <2>5, <4>5
    <3>4. 0 \in 0 .. PageWords - 1 /\ page + 0 = page
      BY PmpConstants
    <3>5. ~Match4(i, page)
      BY <3>3, <3>4
    <3>6. ~Match4(i, page + o)
      BY <3>3
    <3> QED BY <3>5, <3>6
  <2> QED BY <2>1, <2>4, <2>5, Zenon
<1> QED BY <1>2, <1>3, <1>4

\* The words of an access that an entry matches, the entries that match some, and the
\* one of these that decides.
Matched(i, word, len) == {o \in 0 .. len - 1 : Match4(i, word + o)}
Hits(word, len) == {i \in Entries : Matched(i, word, len) # {}}
Decides(hits) == CHOOSE i \in hits : \A j \in hits : i <= j

LEMMA CheckByHits ==
  ASSUME NEW word, NEW len, NEW type, NEW mode
  PROVE  PmpCheck(word, len, type, mode) =
           IF Hits(word, len) = {} THEN mode = "M" /\ ~sec.mmwp /\ (~sec.mml \/ type # "FETCH")
           ELSE /\ Matched(Decides(Hits(word, len)), word, len) = 0 .. len - 1
                /\ AccessOk(cfgs[Decides(Hits(word, len))], type, mode)
BY Zenon DEF PmpCheck, Matched, Hits, Decides

LEMMA DecidesIsHit ==
  ASSUME NEW hits \in SUBSET Entries, hits # {}
  PROVE  Decides(hits) \in hits
<1>1. hits \in SUBSET Nat
  BY PmpAssumption DEF Entries
<1>2. \E i \in hits : \A j \in hits : i <= j
  BY <1>1, SmallestNat
<1> QED BY <1>2, Zenon DEF Decides

\* An access in a homogeneous page is decided as that of the page's first word.
LEMMA PageAlike ==
  ASSUME PmpTypeOK, NEW q \in Int, NEW page \in Nat, page = PageWords * q, Homogeneous(page),
         NEW o \in Nat, NEW len \in {1, 2}, o + len <= PageWords, NEW type, NEW mode
  PROVE  PmpCheck(page + o, len, type, mode) = PmpCheck(page, 1, type, mode)
<1>1. ASSUME NEW i \in Entries, NEW p \in 0 .. PageWords - 1
      PROVE  Match4(i, page + p) <=> Match4(i, page)
  <2>1. ~SubsetMatch(i, page)
    BY Zenon DEF Homogeneous
  <2> QED BY <2>1, MatchAlike
<1>2. \A k \in 0 .. len - 1 : o + k \in 0 .. PageWords - 1 /\ page + (o + k) = (page + o) + k
  BY PmpConstants
<1>3. ASSUME NEW i \in Entries
      PROVE  Matched(i, page + o, len) = IF Match4(i, page) THEN 0 .. len - 1 ELSE {}
  <2>1. \A k \in 0 .. len - 1 : Match4(i, (page + o) + k) <=> Match4(i, page)
    <3> TAKE k \in 0 .. len - 1
    <3>1. Match4(i, page + (o + k)) <=> Match4(i, page)
      BY <1>1, <1>2
    <3> QED BY <1>2, <3>1, Zenon
  <2>2. CASE Match4(i, page)
    BY <2>1, <2>2, Zenon DEF Matched
  <2>3. CASE ~Match4(i, page)
    BY <2>1, <2>3, Zenon DEF Matched
  <2> QED BY <2>2, <2>3, Zenon
<1>4. ASSUME NEW i \in Entries
      PROVE  Matched(i, page, 1) = IF Match4(i, page) THEN 0 .. 1 - 1 ELSE {}
  <2>1. \A k \in 0 .. 1 - 1 : page + k = page
    OBVIOUS
  <2>2. CASE Match4(i, page)
    BY <2>1, <2>2, Zenon DEF Matched
  <2>3. CASE ~Match4(i, page)
    BY <2>1, <2>3, Zenon DEF Matched
  <2> QED BY <2>2, <2>3, Zenon
<1>5. 0 \in 0 .. len - 1 /\ 0 \in 0 .. 1 - 1
  OBVIOUS
<1>6. \A i \in Entries : Matched(i, page + o, len) # {} <=> Match4(i, page)
  BY <1>3, <1>5, Zenon
<1>7. \A i \in Entries : Matched(i, page, 1) # {} <=> Match4(i, page)
  BY <1>4, <1>5, Zenon
<1>8. Hits(page + o, len) = Hits(page, 1) /\ Hits(page, 1) = {i \in Entries : Match4(i, page)}
  BY <1>6, <1>7, Zenon DEF Hits
<1> DEFINE hits == Hits(page, 1)
           f    == Decides(hits)
<1>9. PmpCheck(page + o, len, type, mode) =
        IF hits = {} THEN mode = "M" /\ ~sec.mmwp /\ (~sec.mml \/ type # "FETCH")
        ELSE Matched(f, page + o, len) = 0 .. len - 1 /\ AccessOk(cfgs[f], type, mode)
  BY <1>8, CheckByHits, Zenon
<1>10. PmpCheck(page, 1, type, mode) =
        IF hits = {} THEN mode = "M" /\ ~sec.mmwp /\ (~sec.mml \/ type # "FETCH")
        ELSE Matched(f, page, 1) = 0 .. 1 - 1 /\ AccessOk(cfgs[f], type, mode)
  BY CheckByHits, Zenon
<1>11. hits # {} => f \in Entries /\ Match4(f, page)
  <2>1. hits \in SUBSET Entries
    BY DEF Hits
  <2>2. hits # {} => f \in hits
    BY <2>1, DecidesIsHit, Zenon
  <2> QED BY <1>8, <2>2, Zenon
<1> HIDE DEF hits, f
<1>12. CASE hits = {}
  BY <1>9, <1>10, <1>12, Zenon
<1>13. CASE hits # {}
  <2>1. Matched(f, page + o, len) = 0 .. len - 1 /\ Matched(f, page, 1) = 0 .. 1 - 1
    BY <1>3, <1>4, <1>11, <1>13, Zenon
  <2> QED BY <1>9, <1>10, <1>13, <2>1, Zenon
<1> QED BY <1>12, <1>13, Zenon

LEMMA PagesAlike ==
  ASSUME PmpTypeOK
  PROVE  HomogeneousSound
<1> SUFFICES ASSUME NEW p \in PmpPages, Homogeneous(p), NEW o \in 0 .. PageWords - 1, NEW len \in {1, 2},
                    NEW type \in PmpTypes, NEW mode \in PmpModes, o % len = 0
             PROVE  PmpCheck(p + o, len, type, mode) = PmpCheck(p, 1, type, mode)
  BY Zenon DEF HomogeneousSound, PageWords
<1>1. p \in Nat /\ p % PageWords = 0
  BY PmpConstants DEF PmpPages, PmpWords, PageWords
<1>2. PICK q \in Int, r \in 0 .. PageWords - 1 : r = p % PageWords /\ p = PageWords * q + r
  BY <1>1, PmpConstants, Parts
<1>3. p = PageWords * q
  <2>1. PageWords * q \in Int
    BY PmpConstants
  <2> QED BY <1>1, <1>2, <2>1
<1>4. o \in Nat /\ o + len <= PageWords
  <2>1. CASE len = 1
    BY <2>1, PmpConstants
  <2>2. CASE len = 2
    <3>1. PICK h \in Nat : PageWords = 2 * h
      BY PmpConstants
    <3>2. o % 2 = 0
      BY <2>2
    <3> QED BY <2>2, <3>1, <3>2
  <2> QED BY <2>1, <2>2
<1> QED BY <1>1, <1>3, <1>4, PageAlike

\* The registers keep their ranges.
LEMMA PmpTypesAlways == PmpSpec => []PmpTypeOK
<1>1. PmpInit => PmpTypeOK
  <2> SUFFICES ASSUME PmpInit PROVE PmpTypeOK
    OBVIOUS
  <2>1. Pow2[AddrBits] - 1 \in 0 .. Pow2[AddrBits] - 1 /\ 0 \in 0 .. Pow2[AddrBits] - 1
    BY PmpConstants
  <2>2. addrs \in [Entries -> 0 .. Pow2[AddrBits] - 1]
    BY <2>1 DEF PmpInit, PmpReset
  <2>3. Off \in PmpConfigs /\ [a |-> "NAPOT", r |-> TRUE, w |-> TRUE, x |-> TRUE, l |-> FALSE] \in PmpConfigs
    BY DEF Off, PmpConfigs, Matchings
  <2>4. cfgs \in [Entries -> PmpConfigs]
    BY <2>3 DEF PmpInit, PmpReset
  <2>5. sec \in [mml : BOOLEAN, mmwp : BOOLEAN, rlb : BOOLEAN]
    BY DEF PmpInit, PmpReset
  <2> QED BY <2>2, <2>4, <2>5 DEF PmpTypeOK
<1>2. PmpTypeOK /\ [PmpNext]_pmpVars => PmpTypeOK'
  <2> SUFFICES ASSUME PmpTypeOK, [PmpNext]_pmpVars PROVE PmpTypeOK'
    OBVIOUS
  <2>1. ASSUME NEW i \in Entries, NEW v \in Vals, PmpaddrWrite(i, v) PROVE PmpTypeOK'
    <3>1. v % Pow2[AddrBits] \in 0 .. Pow2[AddrBits] - 1
      <4>1. v \in Nat
        BY PmpAssumption
      <4> QED BY <4>1, PmpConstants
    <3>2. addrs' \in [Entries -> 0 .. Pow2[AddrBits] - 1]
      BY <2>1, <3>1 DEF PmpaddrWrite, PmpTypeOK
    <3> QED BY <2>1, <3>2 DEF PmpaddrWrite, PmpTypeOK
  <2>2. ASSUME NEW new \in [Entries -> Rules], PmpcfgWrite(new) PROVE PmpTypeOK'
    <3>1. ASSUME NEW i \in Entries PROVE PmpLegal(new[i]) \in PmpConfigs
      <4>1. new[i] \in PmpConfigs
        BY PmpAssumption
      <4>2. sec.mml \in BOOLEAN
        BY DEF PmpTypeOK
      <4> QED BY <4>1, <4>2 DEF PmpLegal, PmpConfigs, Matchings
    <3>2. cfgs' \in [Entries -> PmpConfigs]
      BY <2>2, <3>1 DEF PmpcfgWrite, PmpTypeOK
    <3> QED BY <2>2, <3>2 DEF PmpcfgWrite, PmpTypeOK
  <2>3. ASSUME NEW mml \in BOOLEAN, NEW mmwp \in BOOLEAN, NEW rlb \in BOOLEAN,
               MseccfgWrite(mml, mmwp, rlb)
        PROVE  PmpTypeOK'
    <3>1. sec' \in [mml : BOOLEAN, mmwp : BOOLEAN, rlb : BOOLEAN]
      BY <2>3 DEF MseccfgWrite, PmpTypeOK
    <3> QED BY <2>3, <3>1 DEF MseccfgWrite, PmpTypeOK
  <2>4. CASE UNCHANGED pmpVars
    BY <2>4 DEF pmpVars, PmpTypeOK
  <2> QED BY <2>1, <2>2, <2>3, <2>4 DEF PmpNext
<1> QED BY <1>1, <1>2, PTL DEF PmpSpec

\* A check decides as the rules say, for one access and for the page it stands for
\* (pmp_ok, pmp_homogeneous and access_ok), for any number of entries, width of an
\* address, size of a page and granularity, and whatever the registers are written with.
THEOREM DecisionsAlwaysExact == PmpSpec => []DecisionsExact
<1>1. PmpTypeOK /\ TableObeyed => DecisionsExact
  BY PagesAlike, Zenon DEF DecisionsExact
<1> QED
  BY <1>1, PmpTypesAlways, TableAlwaysObeyed, PTL

-----------------------------------------------------------------------------
(* MulDiv: congruence.                                                     *)

\* Congruent numbers.
Cong(x, y, m) == x % m = y % m

LEMMA CongBy ==
  ASSUME NEW m \in Nat, m > 0, NEW x \in Int, NEW y \in Int, NEW k \in Int, x = y + m * k
  PROVE  Cong(x, y, m)
<1>1. PICK q \in Int, r \in 0 .. m - 1 : r = y % m /\ y = m * q + r
  BY Parts
<1>2. m * (q + k) = m * q + m * k
  OBVIOUS
<1>3. x = m * (q + k) + r /\ q + k \in Int
  BY <1>1, <1>2
<1>4. x % m = r
  BY <1>3, PartsUnique
<1> QED BY <1>1, <1>4, Zenon DEF Cong

LEMMA CongGap ==
  ASSUME NEW m \in Nat, m > 0, NEW x \in Int, NEW y \in Int, Cong(x, y, m)
  PROVE  \E k \in Int : x = y + m * k
<1>1. PICK q \in Int, r \in 0 .. m - 1 : r = y % m /\ y = m * q + r
  BY Parts
<1>2. PICK p \in Int, s \in 0 .. m - 1 : s = x % m /\ x = m * p + s
  BY Parts
<1>3. s = r
  BY <1>1, <1>2, Zenon DEF Cong
<1>4. m * (p - q) = m * p - m * q
  OBVIOUS
<1>5. x = y + m * (p - q) /\ p - q \in Int
  BY <1>1, <1>2, <1>3, <1>4
<1> QED BY <1>5

LEMMA CongTimes ==
  ASSUME NEW m \in Nat, m > 0, NEW x \in Int, NEW y \in Int, NEW z \in Int, Cong(x, y, m)
  PROVE  Cong(x * z, y * z, m)
<1>1. PICK k \in Int : x = y + m * k
  BY CongGap
<1>2. x * z = y * z + m * (k * z)
  <2>1. (y + m * k) * z = y * z + m * (k * z)
    OBVIOUS
  <2> QED BY <1>1, <2>1
<1> DEFINE xz == x * z
           yz == y * z
           kz == k * z
<1>3. xz \in Int /\ yz \in Int /\ kz \in Int /\ xz = yz + m * kz
  BY <1>2
<1> HIDE DEF xz, yz, kz
<1>4. Cong(xz, yz, m)
  BY <1>3, CongBy
<1> QED BY <1>4 DEF xz, yz

LEMMA CongPlus ==
  ASSUME NEW m \in Nat, m > 0, NEW x \in Int, NEW y \in Int, NEW u \in Int, NEW v \in Int,
         Cong(x, y, m), Cong(u, v, m)
  PROVE  Cong(x + u, y + v, m)
<1>1. PICK k \in Int : x = y + m * k
  BY CongGap
<1>2. PICK j \in Int : u = v + m * j
  BY CongGap
<1>3. m * (k + j) = m * k + m * j
  OBVIOUS
<1>4. x + u = (y + v) + m * (k + j)
  BY <1>1, <1>2, <1>3
<1> DEFINE xu == x + u
           yv == y + v
           kj == k + j
<1>5. xu \in Int /\ yv \in Int /\ kj \in Int /\ xu = yv + m * kj
  BY <1>4
<1> HIDE DEF xu, yv, kj
<1>6. Cong(xu, yv, m)
  BY <1>5, CongBy
<1> QED BY <1>6 DEF xu, yv

LEMMA CongSmall ==
  ASSUME NEW m \in Nat, m > 0, NEW x \in 0 .. m - 1
  PROVE  x % m = x
<1>1. x = m * 0 + x
  OBVIOUS
<1> QED BY <1>1, PartsUnique

LEMMA CongReduced ==
  ASSUME NEW m \in Nat, m > 0, NEW x \in Int
  PROVE  Cong(x % m, x, m) /\ x % m \in 0 .. m - 1
<1>1. x % m \in 0 .. m - 1
  OBVIOUS
<1> QED BY <1>1, CongSmall DEF Cong

\* Congruent modulo a multiple is congruent.
LEMMA CongCoarser ==
  ASSUME NEW m \in Nat, m > 0, NEW j \in Nat, j > 0, NEW x \in Int, NEW y \in Int,
         Cong(x, y, m * j)
  PROVE  Cong(x, y, m)
<1>1. m * j \in Nat /\ m * j > 0
  <2>1. j - 1 \in Nat /\ m * (j - 1) >= 0 /\ m * (j - 1) = m * j - m
    OBVIOUS
  <2> QED BY <2>1
<1>2. PICK k \in Int : x = y + (m * j) * k
  BY <1>1, CongGap
<1>3. (m * j) * k = m * (j * k) /\ j * k \in Int
  OBVIOUS
<1>4. x = y + m * (j * k)
  BY <1>2, <1>3
<1> QED BY <1>3, <1>4, CongBy

-----------------------------------------------------------------------------
(* MulDiv: signed and unsigned.                                            *)

Sizes == {Word, Double}

LEMMA SizeFacts ==
  /\ Word \in Nat /\ Double \in Nat /\ Word >= 2 /\ Double >= 2 * Word
  /\ \A m \in Sizes :
       /\ m \in Nat /\ m >= 2 /\ m <= Double
       /\ m \div 2 \in Nat /\ m = 2 * (m \div 2)
       /\ \E j \in Nat : j > 0 /\ Double = m * j
<1>1. Word \in Nat /\ Word >= 2
  BY MulDivAssumption
<1>2. PICK h \in Nat : Word = 2 * h
  <2>1. PICK q \in Int, r \in 0 .. 2 - 1 : r = Word % 2 /\ Word = 2 * q + r
    BY <1>1, Parts
  <2>2. Word = 2 * q /\ q \in Nat
    BY <1>1, <2>1, MulDivAssumption
  <2> QED BY <2>2
<1>3. Double = Word * Word /\ Double \in Nat
  BY <1>1 DEF Double
<1>4. Double >= 2 * Word
  <2>1. Word - 2 \in Nat /\ (Word - 2) * Word >= 0 /\ (Word - 2) * Word = Word * Word - 2 * Word
    BY <1>1
  <2> QED BY <1>1, <1>3, <2>1
<1>5. Double = 2 * (h * Word)
  BY <1>1, <1>2, <1>3
<1>6. ASSUME NEW m \in Sizes
      PROVE  /\ m \in Nat /\ m >= 2 /\ m <= Double
             /\ m \div 2 \in Nat /\ m = 2 * (m \div 2)
             /\ \E j \in Nat : j > 0 /\ Double = m * j
  <2>1. m \in Nat /\ m >= 2 /\ m <= Double
    BY <1>1, <1>3, <1>4 DEF Sizes
  <2>2. \E g \in Nat : m = 2 * g
    <3>1. h * Word \in Nat
      BY <1>1
    <3> QED BY <1>2, <1>5, <3>1 DEF Sizes
  <2>3. m \div 2 \in Nat /\ m = 2 * (m \div 2)
    BY <2>1, <2>2
  <2>4. \E j \in Nat : j > 0 /\ Double = m * j
    <3>1. CASE m = Word
      BY <1>1, <1>3, <3>1
    <3>2. CASE m = Double
      <4>1. Double = m * 1
        BY <1>3, <3>2
      <4> QED BY <4>1
    <3> QED BY <3>1, <3>2 DEF Sizes
  <2> QED BY <2>1, <2>3, <2>4
<1> QED BY <1>1, <1>3, <1>4, <1>6

\* Signed reads a number by what it is congruent to.
LEMMA SignedValue ==
  ASSUME NEW m \in Sizes, NEW x \in Int
  PROVE  /\ Signed(x, m) \in Int /\ -(m \div 2) <= Signed(x, m) /\ Signed(x, m) < m \div 2
         /\ Cong(Signed(x, m), x, m)
<1>1. m \in Nat /\ m >= 2 /\ m \div 2 \in Nat /\ m = 2 * (m \div 2)
  BY SizeFacts
<1>2. PICK h \in Nat : h = m \div 2 /\ m = 2 * h
  BY <1>1
<1>3. PICK v \in 0 .. m - 1 : v = x % m
  <2>1. m \in Nat /\ m > 0
    BY <1>1
  <2>2. x % m \in 0 .. m - 1
    BY <2>1, CongReduced
  <2> QED BY <2>2
<1>4. Signed(x, m) = IF v >= h THEN v - m ELSE v
  BY <1>2, <1>3, Zenon DEF Signed
<1>5. v % m = v /\ Cong(v - m, v, m)
  <2>1. v \in Int /\ m > 0 /\ m \in Nat
    BY <1>1
  <2>2. PICK w, k \in Int : w = v - m /\ k = -1 /\ w = v + m * k
    BY <2>1
  <2>3. Cong(w, v, m)
    BY <2>1, <2>2, CongBy
  <2>4. v % m = v
    BY <2>1, CongSmall
  <2> QED BY <2>2, <2>3, <2>4, Zenon
<1>6. Signed(x, m) \in Int /\ -h <= Signed(x, m) /\ Signed(x, m) < h
  BY <1>1, <1>2, <1>4
<1>7. Cong(Signed(x, m), x, m)
  BY <1>3, <1>4, <1>5, Zenon DEF Cong
<1> QED BY <1>2, <1>6, <1>7, Zenon

LEMMA SignedUnique ==
  ASSUME NEW m \in Sizes, NEW x \in Int, NEW y \in Int,
         -(m \div 2) <= y, y < m \div 2, Cong(y, x, m)
  PROVE  Signed(x, m) = y
<1>1. m \in Nat /\ m > 0 /\ m \div 2 \in Nat /\ m = 2 * (m \div 2)
  BY SizeFacts
<1>2. PICK z \in Int : z = Signed(x, m) /\ -(m \div 2) <= z /\ z < m \div 2 /\ Cong(z, x, m)
  BY SignedValue
<1>3. PICK k \in Int : y = z + m * k
  <2>1. Cong(y, z, m)
    BY <1>2, Zenon DEF Cong
  <2> QED BY <1>1, <2>1, CongGap
<1>4. y - z < m /\ y - z > -m
  BY <1>1, <1>2
<1>5. k = 0
  <2>1. CASE k >= 1
    <3>1. m * (k - 1) >= 0 /\ m * (k - 1) = m * k - m
      BY <1>1, <2>1
    <3> QED BY <1>1, <1>3, <1>4, <3>1
  <2>2. CASE k <= -1
    <3>1. m * (-1 - k) >= 0 /\ m * (-1 - k) = -m - m * k
      BY <1>1, <2>2
    <3> QED BY <1>1, <1>3, <1>4, <3>1
  <2> QED BY <2>1, <2>2
<1> QED BY <1>1, <1>2, <1>3, <1>5

\* What a register keeps of a number.
LEMMA RegValue ==
  ASSUME NEW x \in Int
  PROVE  Reg(x) \in 0 .. Double - 1 /\ \A m \in Sizes : Cong(Reg(x), x, m)
<1>1. Double \in Nat /\ Double > 0
  BY SizeFacts
<1>2. Reg(x) \in 0 .. Double - 1 /\ Cong(Reg(x), x, Double)
  BY <1>1, CongReduced DEF Reg
<1>3. ASSUME NEW m \in Sizes PROVE Cong(Reg(x), x, m)
  <2>1. PICK j \in Nat : j > 0 /\ Double = m * j /\ m \in Nat /\ m > 0
    BY SizeFacts
  <2>2. Reg(x) \in Int /\ Cong(Reg(x), x, m * j)
    BY <1>1, <1>2, <2>1
  <2> QED BY <2>1, <2>2, CongCoarser
<1> QED BY <1>2, <1>3

LEMMA SextValue ==
  ASSUME NEW m \in Sizes, NEW x \in Int
  PROVE  Sext(x, m) \in 0 .. Double - 1 /\ Cong(Sext(x, m), x, m)
<1>1. Signed(x, m) \in Int /\ Cong(Signed(x, m), x, m)
  BY SignedValue
<1>2. Sext(x, m) \in 0 .. Double - 1 /\ Cong(Sext(x, m), Signed(x, m), m)
  BY <1>1, RegValue DEF Sext
<1> QED BY <1>1, <1>2 DEF Cong

LEMMA SextSame ==
  ASSUME NEW m \in Sizes, NEW x \in Int, NEW y \in Int, Cong(x, y, m)
  PROVE  Sext(x, m) = Sext(y, m) /\ Signed(x, m) = Signed(y, m)
BY Zenon DEF Sext, Signed, Cong

\* Extending what is extended changes nothing.
LEMMA SextTwice ==
  ASSUME NEW m \in Sizes, NEW x \in Int
  PROVE  Sext(Sext(x, m), m) = Sext(x, m) /\ Signed(Sext(x, m), m) = Signed(x, m)
<1>1. Sext(x, m) \in Int /\ Cong(Sext(x, m), x, m)
  BY SextValue, SizeFacts
<1> QED BY <1>1, SextSame

LEMMA SextDouble ==
  ASSUME NEW x \in Int
  PROVE  Sext(x, Double) = x % Double
<1>1. Double \in Sizes /\ Double \in Nat /\ Double > 0
  BY SizeFacts DEF Sizes
<1>2. Cong(Signed(x, Double), x, Double)
  BY <1>1, SignedValue
<1> QED BY <1>2, Zenon DEF Sext, Reg, Cong

LEMMA QuotientBound ==
  ASSUME NEW m \in Nat, m > 0, NEW x \in Nat, NEW k \in Nat, x < m * k
  PROVE  x \div m \in Nat /\ x \div m < k
<1>1. PICK q \in Int, r \in 0 .. m - 1 : q = x \div m /\ x = m * q + r
  BY Parts
<1>2. q >= 0
  <2>1. CASE q <= -1
    <3>1. m * (-1 - q) >= 0 /\ m * (-1 - q) = -m - m * q
      BY <2>1
    <3> QED BY <1>1, <3>1
  <2> QED BY <2>1
<1>3. q < k
  <2>1. CASE q >= k
    <3>1. m * (q - k) >= 0 /\ m * (q - k) = m * q - m * k
      BY <2>1
    <3> QED BY <1>1, <3>1
  <2> QED BY <2>1
<1> QED BY <1>1, <1>2, <1>3

\* A product of numbers of two words in base w, from the parts that mulhu computes.
Columns(w, a, b, a0, a1, b0, b1, c0, l0, h1, l1, h2, l2) ==
  /\ a = w * a1 + a0 /\ b = w * b1 + b0
  /\ a0 * b0 = w * c0 + l0
  /\ a1 * b0 + c0 = w * h1 + l1
  /\ a0 * b1 + l1 = w * h2 + l2

Splits(p, w, high, low) == p = (w * w) * high + low

LEMMA ColumnsAdd ==
  ASSUME NEW w \in Nat, NEW a \in Nat, NEW b \in Nat, NEW a0 \in Int, NEW a1 \in Int,
         NEW b0 \in Int, NEW b1 \in Int, NEW c0 \in Int, NEW l0 \in Int, NEW h1 \in Int,
         NEW l1 \in Int, NEW h2 \in Int, NEW l2 \in Int,
         Columns(w, a, b, a0, a1, b0, b1, c0, l0, h1, l1, h2, l2)
  PROVE  Splits(a * b, w, a1 * b1 + h1 + h2, w * l2 + l0)
<1>1. /\ a = w * a1 + a0 /\ b = w * b1 + b0
      /\ a0 * b0 = w * c0 + l0
      /\ a1 * b0 + c0 = w * h1 + l1
      /\ a0 * b1 + l1 = w * h2 + l2
  BY Zenon DEF Columns
<1>2. a * b = (w * a1 + a0) * (w * b1 + b0)
  BY <1>1, Zenon
<1>3. (w * a1 + a0) * (w * b1 + b0) = (w * w) * (a1 * b1) + w * (a1 * b0) + w * (a0 * b1) + a0 * b0
  OBVIOUS
<1>4. w * (a1 * b0) = w * (w * h1 + l1 - c0)
  <2>1. a1 * b0 \in Int /\ a1 * b0 = w * h1 + l1 - c0
    BY <1>1
  <2> QED BY <2>1, Zenon
<1>5. w * (a0 * b1) = w * (w * h2 + l2 - l1)
  <2>1. a0 * b1 \in Int /\ a0 * b1 = w * h2 + l2 - l1
    BY <1>1
  <2> QED BY <2>1, Zenon
<1>6. w * (w * h1 + l1 - c0) = (w * w) * h1 + w * l1 - w * c0
  OBVIOUS
<1>7. w * (w * h2 + l2 - l1) = (w * w) * h2 + w * l2 - w * l1
  OBVIOUS
<1>8. (w * w) * (a1 * b1 + h1 + h2) = (w * w) * (a1 * b1) + (w * w) * h1 + (w * w) * h2
  OBVIOUS
<1> DEFINE p == a * b  A == (w * w) * (a1 * b1)  B == w * (a1 * b0)  C == w * (a0 * b1)
           D == a0 * b0  H1 == (w * w) * h1  H2 == (w * w) * h2  L1 == w * l1  L2 == w * l2
           C0 == w * c0  HH == (w * w) * (a1 * b1 + h1 + h2)
<1>9. /\ p \in Int /\ A \in Int /\ B \in Int /\ C \in Int /\ D \in Int /\ H1 \in Int /\ H2 \in Int
      /\ L1 \in Int /\ L2 \in Int /\ C0 \in Int /\ HH \in Int
  OBVIOUS
<1>10. p = A + B + C + D
  BY <1>2, <1>3, Zenon
<1>11. B = H1 + L1 - C0
  BY <1>4, <1>6, Zenon
<1>12. C = H2 + L2 - L1
  BY <1>5, <1>7, Zenon
<1>13. D = C0 + l0
  BY <1>1, Zenon
<1>14. HH = A + H1 + H2
  BY <1>8, Zenon
<1> HIDE DEF p, A, B, C, D, H1, H2, L1, L2, C0, HH
<1>15. p = HH + (L2 + l0)
  BY <1>9, <1>10, <1>11, <1>12, <1>13, <1>14
<1> QED BY <1>15, Zenon DEF p, HH, L2, Splits

LEMMA TimesMonotone ==
  ASSUME NEW a \in Nat, NEW b \in Nat, NEW x \in Nat, NEW y \in Nat, a <= x, b <= y
  PROVE  a * b \in Nat /\ a * b <= x * y
<1>1. (x - a) * b >= 0 /\ x * (y - b) >= 0
  <2>1. x - a \in Nat /\ y - b \in Nat
    OBVIOUS
  <2> QED BY <2>1
<1>2. (x - a) * b = x * b - a * b /\ x * (y - b) = x * y - x * b
  OBVIOUS
<1>3. a * b \in Nat /\ x * b \in Nat /\ x * y \in Nat
  OBVIOUS
<1> QED BY <1>1, <1>2, <1>3

\* A product of two digits and a digit fits two digits.
LEMMA TwoDigits ==
  ASSUME NEW w \in Nat, w >= 2, NEW a \in 0 .. w - 1, NEW b \in 0 .. w - 1, NEW c \in 0 .. w - 1
  PROVE  a * b + c \in 0 .. (w * w) - 1
<1>1. a * b \in Nat /\ a * b <= (w - 1) * (w - 1)
  <2>1. a \in Nat /\ b \in Nat /\ w - 1 \in Nat /\ a <= w - 1 /\ b <= w - 1
    OBVIOUS
  <2> QED BY <2>1, TimesMonotone
<1>2. (w - 1) * (w - 1) = w * w - 2 * w + 1 /\ w * w \in Nat
  OBVIOUS
<1> QED BY <1>1, <1>2

\* mulhu: the high half of the product of two registers.
LEMMA MulhuExact ==
  ASSUME NEW a \in 0 .. Double - 1, NEW b \in 0 .. Double - 1
  PROVE  Mulhu(a, b) = (a * b) \div Double /\ Mulhu(a, b) \in 0 .. Double - 1
<1> DEFINE w == Word
<1>1. w \in Nat /\ w >= 2 /\ Double = w * w /\ Double \in Nat /\ a \in Nat /\ b \in Nat
      /\ a < w * w /\ b < w * w
  BY SizeFacts DEF Double
<1>2. \A x \in Nat : x < w * w => x \div w \in 0 .. w - 1 /\ x \div w \in Nat
  <2> SUFFICES ASSUME NEW x \in Nat, x < w * w PROVE x \div w \in 0 .. w - 1 /\ x \div w \in Nat
    OBVIOUS
  <2>1. w \in Nat /\ w > 0
    BY <1>1
  <2> HIDE DEF w
  <2>2. x \div w \in Nat /\ x \div w < w
    BY <2>1, QuotientBound
  <2> QED BY <2>1, <2>2
<1> HIDE DEF w
<1>a. PICK a1 \in 0 .. w - 1, a0 \in 0 .. w - 1 : a1 = a \div w /\ a0 = a % w /\ a = w * a1 + a0
  <2>1. PICK q \in Int, r \in 0 .. w - 1 : q = a \div w /\ r = a % w /\ a = w * q + r
    BY <1>1, Parts
  <2> QED BY <1>1, <1>2, <2>1
<1>b. PICK b1 \in 0 .. w - 1, b0 \in 0 .. w - 1 : b1 = b \div w /\ b0 = b % w /\ b = w * b1 + b0
  <2>1. PICK q \in Int, r \in 0 .. w - 1 : q = b \div w /\ r = b % w /\ b = w * q + r
    BY <1>1, Parts
  <2> QED BY <1>1, <1>2, <2>1
<1>3. PICK c0 \in 0 .. w - 1, l0 \in 0 .. w - 1 : c0 = (a0 * b0) \div w /\ a0 * b0 = w * c0 + l0
  <2> DEFINE p == a0 * b0
  <2>1. p \in 0 .. (w * w) - 1
    <3>1. 0 \in 0 .. w - 1 /\ p = p + 0 /\ p \in Int
      BY <1>1
    <3> QED BY <1>1, <3>1, TwoDigits
  <2> HIDE DEF p
  <2>2. p \in Nat /\ p < w * w
    BY <1>1, <2>1
  <2>3. PICK q \in Int, r \in 0 .. w - 1 : q = p \div w /\ p = w * q + r
    BY <1>1, <2>2, Parts
  <2>4. q \in 0 .. w - 1
    BY <1>2, <2>2, <2>3
  <2> QED BY <2>3, <2>4 DEF p
<1>4. PICK t1 \in 0 .. Double - 1 : t1 = Reg(a1 * b0 + c0) /\ t1 = a1 * b0 + c0
  <2>1. a1 * b0 + c0 \in 0 .. Double - 1
    BY <1>1, TwoDigits
  <2>2. Reg(a1 * b0 + c0) = a1 * b0 + c0
    BY <1>1, <2>1, CongSmall DEF Reg
  <2> QED BY <2>1, <2>2
<1>5. PICK h1 \in 0 .. w - 1, l1 \in 0 .. w - 1 : h1 = t1 \div w /\ l1 = t1 % w /\ t1 = w * h1 + l1
  <2>1. t1 \in Nat /\ t1 < w * w
    BY <1>1
  <2>2. PICK q \in Int, r \in 0 .. w - 1 : q = t1 \div w /\ r = t1 % w /\ t1 = w * q + r
    BY <1>1, <2>1, Parts
  <2> QED BY <1>1, <1>2, <2>1, <2>2
<1>6. PICK t2 \in 0 .. Double - 1 : t2 = Reg(a0 * b1 + l1) /\ t2 = a0 * b1 + l1
  <2>1. a0 * b1 + l1 \in 0 .. Double - 1
    BY <1>1, TwoDigits
  <2>2. Reg(a0 * b1 + l1) = a0 * b1 + l1
    BY <1>1, <2>1, CongSmall DEF Reg
  <2> QED BY <2>1, <2>2
<1>7. PICK h2 \in 0 .. w - 1, l2 \in 0 .. w - 1 : h2 = t2 \div w /\ t2 = w * h2 + l2
  <2>1. t2 \in Nat /\ t2 < w * w
    BY <1>1
  <2>2. PICK q \in Int, r \in 0 .. w - 1 : q = t2 \div w /\ t2 = w * q + r
    BY <1>1, <2>1, Parts
  <2> QED BY <1>1, <1>2, <2>1, <2>2
<1>8. Mulhu(a, b) = Reg(a1 * b1 + h1 + h2)
  BY <1>a, <1>b, <1>3, <1>4, <1>5, <1>6, <1>7, Zenon DEF Mulhu, w
<1> DEFINE high == a1 * b1 + h1 + h2
           low  == w * l2 + l0
<1>9. high \in Int /\ low \in 0 .. Double - 1 /\ a * b \in Int
  <2>1. w * l2 >= 0 /\ w * l2 <= w * (w - 1) /\ w * (w - 1) = w * w - w
    <3>1. w * (w - 1 - l2) >= 0 /\ w * (w - 1 - l2) = w * (w - 1) - w * l2
      BY <1>1
    <3>2. w * l2 >= 0 /\ w * (w - 1) = w * w - w
      BY <1>1
    <3>3. w * l2 \in Int /\ w * (w - 1) \in Int
      BY <1>1
    <3> QED BY <3>1, <3>2, <3>3
  <2>2. w * l2 \in Int /\ w * w \in Int
    BY <1>1
  <2>3. low \in 0 .. Double - 1
    BY <1>1, <2>1, <2>2
  <2> QED BY <1>1, <2>3
<1>10. a * b = Double * high + low
  <2>1. Columns(w, a, b, a0, a1, b0, b1, c0, l0, h1, l1, h2, l2)
    BY <1>a, <1>b, <1>3, <1>4, <1>5, <1>6, <1>7, Zenon DEF Columns
  <2>2. /\ a0 \in Int /\ a1 \in Int /\ b0 \in Int /\ b1 \in Int /\ c0 \in Int /\ l0 \in Int
        /\ h1 \in Int /\ l1 \in Int /\ h2 \in Int /\ l2 \in Int
    BY <1>1
  <2>3. Splits(a * b, w, a1 * b1 + h1 + h2, w * l2 + l0)
    BY <1>1, <2>1, <2>2, ColumnsAdd
  <2> QED BY <1>1, <2>3, Zenon DEF Splits
<1> HIDE DEF high, low
<1> DEFINE p == a * b
<1>11. p \in Int /\ p \in Nat /\ p < Double * Double
  <2>1. a * b \in Nat /\ a * b <= (Double - 1) * (Double - 1)
    <3>1. a \in Nat /\ b \in Nat /\ Double - 1 \in Nat /\ a <= Double - 1 /\ b <= Double - 1
      BY <1>1
    <3> HIDE <1>1
    <3> QED BY <3>1, TimesMonotone
  <2>2. (Double - 1) * (Double - 1) = Double * Double - 2 * Double + 1 /\ Double * Double \in Nat /\ Double > 0
    BY SizeFacts
  <2> QED BY <2>1, <2>2, <1>1
<1> HIDE DEF p
<1>12. p = Double * high + low
  BY <1>10 DEF p
<1>13. p \div Double = high
  BY <1>1, <1>9, <1>11, <1>12, SizeFacts, PartsUnique
<1>14. high \in 0 .. Double - 1
  <2>1. p \div Double \in Nat /\ p \div Double < Double
    BY <1>11, SizeFacts, QuotientBound
  <2> QED BY <1>1, <1>13, <2>1
<1>15. Reg(high) = high
  BY <1>14, SizeFacts, CongSmall DEF Reg
<1> QED BY <1>8, <1>13, <1>14, <1>15, Zenon DEF high, p

LEMMA AbsFacts ==
  ASSUME NEW a \in Int
  PROVE  Abs(a) \in Nat /\ (a >= 0 => Abs(a) = a) /\ (a < 0 => Abs(a) = -a)
BY DEF Abs

\* C's division: the remainder has a smaller magnitude than the divisor.
LEMMA QuotRem ==
  ASSUME NEW a \in Int, NEW b \in Int, b # 0
  PROVE  /\ Quotient(a, b) \in Int /\ Remainder(a, b) \in Int
         /\ a = Quotient(a, b) * b + Remainder(a, b)
         /\ Abs(Remainder(a, b)) < Abs(b)
<1>1. Abs(a) \in Nat /\ Abs(b) \in Nat /\ Abs(b) > 0
  BY AbsFacts
<1>2. PICK q \in Int, r \in 0 .. Abs(b) - 1 : q = Abs(a) \div Abs(b) /\ Abs(a) = Abs(b) * q + r
  <2> DEFINE u == Abs(a)  v == Abs(b)
  <2>1. u \in Int /\ v \in Nat /\ v > 0
    BY <1>1
  <2> HIDE DEF u, v
  <2>2. \E q \in Int, r \in 0 .. v - 1 : q = u \div v /\ u = v * q + r
    BY <2>1, Parts
  <2> QED BY <2>2 DEF u, v
<1>3. Quotient(a, b) = IF (a < 0) = (b < 0) THEN q ELSE -q
  BY <1>2, Zenon DEF Quotient
<1>4. \/ Quotient(a, b) = q /\ a = Abs(a) /\ b = Abs(b)
      \/ Quotient(a, b) = q /\ a = -Abs(a) /\ b = -Abs(b)
      \/ Quotient(a, b) = -q /\ a = -Abs(a) /\ b = Abs(b)
      \/ Quotient(a, b) = -q /\ a = Abs(a) /\ b = -Abs(b)
  <2>1. CASE a >= 0 /\ b >= 0
    <3>1. ((a < 0) = (b < 0))
      BY <2>1
    <3>2. Quotient(a, b) = q
      BY <1>3, <3>1, Zenon
    <3> QED BY <2>1, <3>2, AbsFacts
  <2>2. CASE a < 0 /\ b < 0
    <3>1. ((a < 0) = (b < 0))
      BY <2>2
    <3>2. Quotient(a, b) = q
      BY <1>3, <3>1, Zenon
    <3> QED BY <2>2, <3>2, AbsFacts
  <2>3. CASE a < 0 /\ b >= 0
    <3>1. ~((a < 0) = (b < 0))
      BY <2>3
    <3>2. Quotient(a, b) = -q
      BY <1>3, <3>1, Zenon
    <3> QED BY <2>3, <3>2, AbsFacts
  <2>4. CASE a >= 0 /\ b < 0
    <3>1. ~((a < 0) = (b < 0))
      BY <2>4
    <3>2. Quotient(a, b) = -q
      BY <1>3, <3>1, Zenon
    <3> QED BY <2>4, <3>2, AbsFacts
  <2> QED BY <2>1, <2>2, <2>3, <2>4
<1>5. \E t \in {-1, 1} : a - b * Quotient(a, b) = t * r /\ Quotient(a, b) \in Int
  <2> DEFINE u == Abs(a)  v == Abs(b)  z == Quotient(a, b)
  <2>1. \/ z = q /\ a = u /\ b = v
        \/ z = q /\ a = -u /\ b = -v
        \/ z = -q /\ a = -u /\ b = v
        \/ z = -q /\ a = u /\ b = -v
    BY <1>4
  <2>2. u \in Nat /\ v \in Nat /\ u = v * q + r
    BY <1>1, <1>2
  <2> HIDE DEF u, v, z
  <2> DEFINE vq == v * q
  <2>3. vq \in Int /\ v * (-q) = -vq /\ (-v) * q = -vq /\ (-v) * (-q) = vq
    BY <2>2
  <2>4. u = vq + r
    BY <2>2
  <2>5. (b * z = vq /\ a = u) \/ (b * z = -vq /\ a = -u)
    <3>1. v * q = vq
      OBVIOUS
    <3>2. v * (-q) = -vq /\ (-v) * q = -vq /\ (-v) * (-q) = vq
      BY <2>3
    <3> HIDE DEF vq
    <3>3. CASE z = q /\ a = u /\ b = v
      <4>1. b * z = vq
        BY <3>1, <3>3, Zenon
      <4> HIDE DEF vq
      <4> QED BY <4>1, <3>3
    <3>4. CASE z = q /\ a = -u /\ b = -v
      BY <3>2, <3>4, Zenon
    <3>5. CASE z = -q /\ a = -u /\ b = v
      BY <3>2, <3>5, Zenon
    <3>6. CASE z = -q /\ a = u /\ b = -v
      <4>1. b * z = vq
        BY <3>2, <3>6, Zenon
      <4> HIDE DEF vq
      <4> QED BY <4>1, <3>6
    <3> QED BY <2>1, <3>3, <3>4, <3>5, <3>6, Zenon
  <2>6. z \in Int
    BY <2>1
  <2> DEFINE bz == b * z
  <2>7. (bz = vq /\ a = u) \/ (bz = -vq /\ a = -u)
    BY <2>5
  <2> HIDE DEF vq, bz
  <2>8. a - bz = 1 * r \/ a - bz = (-1) * r
    BY <2>2, <2>3, <2>4, <2>7
  <2> QED BY <2>6, <2>8 DEF bz, z
<1>6. PICK t \in {-1, 1} : Remainder(a, b) = t * r /\ Quotient(a, b) \in Int
  BY <1>5 DEF Remainder
<1>7. Remainder(a, b) \in Int /\ Abs(Remainder(a, b)) = r
  BY <1>6 DEF Abs
<1>8. a = Quotient(a, b) * b + Remainder(a, b)
  <2> DEFINE z == Quotient(a, b)
  <2>1. z \in Int /\ Remainder(a, b) = a - b * z
    BY <1>6 DEF Remainder
  <2> HIDE DEF z
  <2>2. z * b \in Int /\ z * b = b * z
    BY <2>1
  <2>3. a = z * b + Remainder(a, b)
    BY <2>1, <2>2
  <2> QED BY <2>3 DEF z
<1> QED BY <1>1, <1>6, <1>7, <1>8

\* A quotient and a remainder known modulo the register.
LEMMA CongFits ==
  ASSUME NEW m \in Nat, m > 0, NEW x \in Int, NEW y \in Int, NEW q \in Int, NEW r \in Int,
         NEW s \in Int, NEW t \in Int, NEW u \in Int,
         Cong(q, s, m), Cong(y, t, m), Cong(r, u, m), Cong(s * t + u, x, m)
  PROVE  Cong(q * y + r, x, m)
<1> DEFINE a == q * y  b == s * y  c == y * s  d == t * s  e == s * t
<1>1. a \in Int /\ b \in Int /\ c \in Int /\ d \in Int /\ e \in Int /\ b = c /\ d = e
  OBVIOUS
<1>2. Cong(a, b, m) /\ Cong(c, d, m)
  BY CongTimes
<1>3. Cong(e + u, x, m)
  OBVIOUS
<1> HIDE DEF a, b, c, d, e
<1>4. Cong(a, e, m)
  BY <1>1, <1>2, Zenon DEF Cong
<1>5. Cong(a + r, e + u, m)
  BY <1>1, <1>4, CongPlus
<1>6. Cong(a + r, x, m)
  BY <1>3, <1>5, Zenon DEF Cong
<1> QED BY <1>6 DEF a

\* What holds of a quotient q and a remainder r of x by y, in registers of size values.
Divided(q, r, x, y, size, signed) ==
  /\ Zext(q * y + r, size) = Zext(x, size)
  /\ IF Zext(y, size) = 0 THEN q = AllOnes
     ELSE IF signed THEN Abs(Signed(r, size)) < Abs(Signed(y, size))
     ELSE Zext(r, size) < Zext(y, size)

LEMMA SignedZero ==
  ASSUME NEW m \in Sizes, NEW y \in Int
  PROVE  Signed(y, m) = 0 <=> Zext(y, m) = 0
<1>1. m \in Nat /\ m > 0 /\ m \div 2 \in Nat /\ m = 2 * (m \div 2) /\ m >= 2
  BY SizeFacts
<1>2. Signed(y, m) \in Int /\ Cong(Signed(y, m), y, m)
  BY SignedValue
<1>3. 0 % m = 0
  BY <1>1, CongSmall
<1>4. ASSUME Signed(y, m) = 0 PROVE Zext(y, m) = 0
  BY <1>2, <1>3, <1>4, Zenon DEF Zext, Cong
<1>5. ASSUME Zext(y, m) = 0 PROVE Signed(y, m) = 0
  <2>1. Cong(0, y, m)
    BY <1>3, <1>5, Zenon DEF Zext, Cong
  <2>2. -(m \div 2) <= 0 /\ 0 < m \div 2
    BY <1>1
  <2> QED BY <2>1, <2>2, SignedUnique
<1> QED BY <1>4, <1>5, Zenon

\* Division by zero: all ones, and the dividend.
LEMMA ByZero ==
  ASSUME NEW m \in Sizes, NEW x \in Int, NEW y \in Int, NEW r \in Int, NEW signed,
         Zext(y, m) = 0, Cong(r, x, m)
  PROVE  Divided(AllOnes, r, x, y, m, signed)
<1>1. m \in Nat /\ m > 0 /\ AllOnes \in Int
  BY SizeFacts DEF AllOnes
<1>2. 0 % m = 0
  BY <1>1, CongSmall
<1>3. Cong(y, 0, m) /\ Cong(AllOnes, AllOnes, m)
  BY <1>2, Zenon DEF Cong, Zext
<1>4. AllOnes * 0 + x = x
  BY <1>1
<1>5. Cong(AllOnes * 0 + x, x, m)
  BY <1>4, Zenon DEF Cong
<1>6. Cong(AllOnes * y + r, x, m)
  BY <1>1, <1>3, <1>5, CongFits
<1> QED BY <1>6, Zenon DEF Divided, Cong, Zext

LEMMA SignedDivides ==
  ASSUME NEW m \in Sizes, NEW x \in Int, NEW y \in Int, Zext(y, m) # 0
  PROVE  Divided(Sext(Quotient(Signed(x, m), Signed(y, m)), m),
                 Sext(Remainder(Signed(x, m), Signed(y, m)), m), x, y, m, TRUE)
<1> DEFINE a == Signed(x, m)  b == Signed(y, m)
           s == Quotient(a, b)  u == Remainder(a, b)
           q == Sext(s, m)  r == Sext(u, m)
<1>0. m \in Nat /\ m > 0 /\ m \div 2 \in Nat /\ m = 2 * (m \div 2)
  BY SizeFacts
<1>1. /\ a \in Int /\ Cong(a, x, m)
      /\ b \in Int /\ Cong(b, y, m) /\ -(m \div 2) <= b /\ b < m \div 2
  BY SignedValue
<1>2. b # 0
  BY SignedZero
<1>3. s \in Int /\ u \in Int /\ a = s * b + u /\ Abs(u) < Abs(b)
  <2> HIDE DEF a, b
  <2> QED BY <1>1, <1>2, QuotRem
<1>4. q \in Int /\ Cong(q, s, m) /\ r \in Int /\ Cong(r, u, m) /\ Signed(r, m) = Signed(u, m)
  <2> HIDE DEF s, u
  <2> QED BY <1>3, SextValue, SextTwice
<1>5. Signed(u, m) = u
  <2> HIDE DEF a, b, s, u
  <2>1. -(m \div 2) <= u /\ u < m \div 2
    BY <1>0, <1>1, <1>3 DEF Abs
  <2>2. Cong(u, u, m)
    BY Zenon DEF Cong
  <2> QED BY <1>3, <2>1, <2>2, SignedUnique
<1>6. Cong(q * y + r, x, m)
  <2> HIDE DEF a, b, s, u, q, r
  <2>1. Cong(y, b, m)
    BY <1>1, Zenon DEF Cong
  <2>2. Cong(s * b + u, x, m)
    BY <1>1, <1>3, Zenon
  <2> QED BY <1>0, <1>1, <1>3, <1>4, <2>1, <2>2, CongFits
<1>7. Abs(Signed(r, m)) < Abs(Signed(y, m))
  BY <1>3, <1>4, <1>5, Zenon
<1>8. Divided(q, r, x, y, m, TRUE)
  <2> HIDE DEF s, u, q, r
  <2> QED BY <1>6, <1>7, Zenon DEF Divided, Cong, Zext
<1> QED BY <1>8

LEMMA UnsignedDivides ==
  ASSUME NEW m \in Sizes, NEW x \in Int, NEW y \in Int, Zext(y, m) # 0
  PROVE  Divided(Sext(Zext(x, m) \div Zext(y, m), m), Sext(Zext(x, m) % Zext(y, m), m), x, y, m, FALSE)
<1> DEFINE a == Zext(x, m)  b == Zext(y, m)
           s == a \div b  u == a % b
           q == Sext(s, m)  r == Sext(u, m)
<1>0. m \in Nat /\ m > 0
  BY SizeFacts
<1>1. a \in 0 .. m - 1 /\ Cong(a, x, m) /\ b \in 0 .. m - 1 /\ Cong(b, y, m) /\ b > 0
  <2>1. a = x % m /\ b = y % m /\ b # 0
    BY Zenon DEF Zext
  <2> HIDE DEF a, b
  <2>2. x % m \in 0 .. m - 1 /\ Cong(x % m, x, m) /\ y % m \in 0 .. m - 1 /\ Cong(y % m, y, m)
    BY <1>0, CongReduced
  <2>3. a \in 0 .. m - 1 /\ Cong(a, x, m) /\ b \in 0 .. m - 1 /\ Cong(b, y, m)
    BY <2>1, <2>2, Zenon
  <2> QED BY <1>0, <2>1, <2>3
<1>2. s \in Int /\ u \in 0 .. b - 1 /\ a = s * b + u
  <2> HIDE DEF a, b
  <2>0. b \in Nat /\ a \in Int /\ b > 0
    BY <1>0, <1>1
  <2>1. PICK k \in Int, w \in 0 .. b - 1 : k = a \div b /\ w = a % b /\ a = b * k + w
    BY <2>0, Parts
  <2>2. b * k = k * b
    BY <2>0
  <2> QED BY <2>1, <2>2
<1>3. q \in Int /\ Cong(q, s, m) /\ r \in Int /\ Cong(r, u, m)
  <2>1. s \in Int /\ u \in Int
    BY <1>0, <1>1, <1>2
  <2> HIDE DEF s, u
  <2> QED BY <2>1, SextValue
<1>4. Zext(r, m) = u
  <2>1. u \in 0 .. m - 1
    <3> HIDE DEF a, b, u
    <3> QED BY <1>0, <1>1, <1>2
  <2>2. u % m = u
    <3> HIDE DEF u
    <3> QED BY <1>0, <2>1, CongSmall
  <2> HIDE DEF u, r
  <2> QED BY <1>3, <2>2, Zenon DEF Zext, Cong
<1>5. Cong(q * y + r, x, m)
  <2>0. u \in Int
    BY <1>0, <1>1, <1>2
  <2>a. a \in Int /\ b \in Int
    BY <1>0, <1>1
  <2> HIDE DEF a, b, s, u, q, r
  <2>1. Cong(y, b, m)
    BY <1>1, Zenon DEF Cong
  <2>2. Cong(s * b + u, x, m)
    BY <1>1, <1>2, Zenon
  <2> QED BY <1>0, <2>0, <2>a, <1>2, <1>3, <2>1, <2>2, CongFits
<1>6. Zext(r, m) < Zext(y, m)
  <2>1. u < b
    <3> HIDE DEF a, b, u
    <3> QED BY <1>0, <1>1, <1>2
  <2> QED BY <1>4, <2>1, Zenon
<1>7. Divided(q, r, x, y, m, FALSE)
  <2> HIDE DEF s, u, q, r
  <2> QED BY <1>5, <1>6, Zenon DEF Divided, Cong, Zext
<1> QED BY <1>7

\* A register that holds a number of m values sign-extended.
Extended(v, m) == v \in 0 .. Double - 1 /\ v = Sext(v, m)

LEMMA SextExtended ==
  ASSUME NEW m \in Sizes, NEW x \in Int
  PROVE  Extended(Sext(x, m), m)
BY SextValue, SextTwice, Zenon DEF Extended

LEMMA AnyExtended ==
  ASSUME NEW v \in 0 .. Double - 1
  PROVE  Extended(v, Double)
<1>1. v \in Int /\ Double \in Nat /\ Double > 0
  BY SizeFacts
<1>2. v % Double = v
  BY <1>1, CongSmall
<1>3. Sext(v, Double) = v % Double
  BY <1>1, SextDouble
<1> QED BY <1>2, <1>3, Zenon DEF Extended

LEMMA AllOnesExtended ==
  ASSUME NEW m \in Sizes
  PROVE  Extended(AllOnes, m)
<1>1. m \in Nat /\ m >= 2 /\ m \div 2 \in Nat /\ m = 2 * (m \div 2) /\ Double \in Nat /\ Double > 0
  BY SizeFacts
<1>2. AllOnes \in 0 .. Double - 1 /\ AllOnes \in Int
  BY <1>1 DEF AllOnes
<1>3. Cong(-1, AllOnes, m)
  <2>1. PICK j \in Nat : j > 0 /\ Double = m * j
    BY SizeFacts
  <2>2. -j \in Int /\ m * (-j) = -Double
    BY <1>1, <2>1
  <2> DEFINE k == -j
  <2>3. k \in Int /\ -1 = AllOnes + m * k
    BY <1>1, <2>2 DEF AllOnes
  <2> HIDE DEF k
  <2>4. -1 \in Int /\ m > 0
    BY <1>1
  <2> QED BY <1>1, <1>2, <2>3, <2>4, CongBy
<1>4. Signed(AllOnes, m) = -1
  <2>1. -1 \in Int /\ -(m \div 2) <= -1 /\ -1 < m \div 2
    BY <1>1
  <2> QED BY <1>2, <1>3, <2>1, SignedUnique
<1>5. Reg(-1) = AllOnes
  <2>1. Double * (-1) = -Double
    BY <1>1
  <2> DEFINE k == -1
  <2>2. k \in Int /\ k = Double * k + AllOnes
    BY <1>1, <2>1 DEF AllOnes
  <2> HIDE DEF k
  <2>3. k % Double = AllOnes
    BY <1>1, <1>2, <2>2, PartsUnique
  <2> QED BY <2>3 DEF k, Reg
<1> QED BY <1>2, <1>4, <1>5, Zenon DEF Extended, Sext

LEMMA RegExtended ==
  ASSUME NEW v \in Int
  PROVE  Extended(Reg(v), Double)
BY RegValue, AnyExtended

-----------------------------------------------------------------------------
(* MulDiv: the high halves.                                                *)

\* What mulh and mulhsu make of the product of the magnitudes.
LEMMA NegatedExact ==
  ASSUME NEW p \in Nat, p < Double * Double, NEW z \in Int, NEW neg \in BOOLEAN, NEW zero \in BOOLEAN,
         z = IF neg THEN -p ELSE p, zero <=> Reg(z) = 0
  PROVE  Negated(p \div Double, neg, zero) = Sext(z \div Double, Double)
<1>1. Double \in Nat /\ Double > 0
  BY SizeFacts
<1>2. PICK h \in Int, l \in 0 .. Double - 1 : h = p \div Double /\ p = Double * h + l
  BY <1>1, Parts
<1>3. h \in 0 .. Double - 1
  <2>1. p \div Double \in Nat /\ p \div Double < Double
    BY <1>1, QuotientBound
  <2> QED BY <1>1, <1>2, <2>1
<1>4. \A k \in Int : Sext(k, Double) = Reg(k)
  BY SextDouble DEF Reg
<1>5. CASE neg = FALSE
  <2>1. z \div Double = h /\ Negated(p \div Double, neg, zero) = h
    BY <1>2, <1>5, Zenon DEF Negated
  <2>2. Reg(h) = h
    BY <1>1, <1>3, CongSmall DEF Reg
  <2> QED BY <1>2, <1>4, <2>1, <2>2
<1>6. CASE neg = TRUE
  <2>1. z = -p
    BY <1>6
  <2>2. CASE l = 0
    <3>1. Double * (-h) = -(Double * h) /\ Double * h \in Int
      BY <1>1
    <3> DEFINE k == -h
    <3>2. k \in Int /\ z = Double * k + 0 /\ 0 \in 0 .. Double - 1
      BY <1>1, <1>2, <2>1, <2>2, <3>1
    <3>3. k = -h - 1 + 1
      OBVIOUS
    <3> HIDE DEF k
    <3>4. z \div Double = k /\ z % Double = 0
      BY <1>1, <3>2, PartsUnique
    <3>5. zero = TRUE
      BY <3>4 DEF Reg
    <3>6. Negated(p \div Double, neg, zero) = Reg(-h - 1 + 1)
      BY <1>2, <1>6, <3>5, Zenon DEF Negated
    <3> QED BY <1>4, <3>2, <3>3, <3>4, <3>6, Zenon
  <2>3. CASE l # 0
    <3>1. Double * (-h - 1) = -(Double * h) - Double /\ Double * h \in Int
      BY <1>1
    <3> DEFINE k == -h - 1  m == Double - l
    <3>2. k \in Int /\ m \in 0 .. Double - 1 /\ z = Double * k + m /\ m # 0
      BY <1>1, <1>2, <2>1, <2>3, <3>1
    <3>3. k = -h - 1 + 0
      OBVIOUS
    <3> HIDE DEF k, m
    <3>4. z \div Double = k /\ z % Double = m
      BY <1>1, <3>2, PartsUnique
    <3>5. zero = FALSE
      BY <3>2, <3>4 DEF Reg
    <3>6. Negated(p \div Double, neg, zero) = Reg(-h - 1 + 0)
      BY <1>2, <1>6, <3>5, Zenon DEF Negated
    <3> QED BY <1>4, <3>2, <3>3, <3>4, <3>6, Zenon
  <2> QED BY <2>2, <2>3, Zenon
<1> QED BY <1>5, <1>6, Zenon

LEMMA Magnitude ==
  ASSUME NEW x \in Int
  PROVE  /\ Abs(Signed(x, Double)) \in 0 .. Double - 1
         /\ Reg(Abs(Signed(x, Double))) = Abs(Signed(x, Double))
<1>1. Double \in Sizes /\ Double \in Nat /\ Double >= 2 /\ Double \div 2 \in Nat /\ Double = 2 * (Double \div 2)
  BY SizeFacts DEF Sizes
<1>2. PICK s \in Int : s = Signed(x, Double) /\ -(Double \div 2) <= s /\ s < Double \div 2
  BY <1>1, SignedValue
<1>3. Abs(s) \in 0 .. Double - 1
  BY <1>1, <1>2 DEF Abs
<1>4. Abs(s) % Double = Abs(s)
  <2> DEFINE a == Abs(s)
  <2>1. a \in 0 .. Double - 1 /\ Double > 0
    BY <1>1, <1>3
  <2> HIDE DEF a
  <2>2. a % Double = a
    BY <1>1, <2>1, CongSmall
  <2> QED BY <2>2 DEF a
<1> QED BY <1>2, <1>3, <1>4, Zenon DEF Reg

LEMMA ProductBound ==
  ASSUME NEW a \in 0 .. Double - 1, NEW b \in 0 .. Double - 1
  PROVE  a * b \in Nat /\ a * b < Double * Double
<1>1. Double \in Nat /\ Double > 0
  BY SizeFacts
<1>2. a \in Nat /\ b \in Nat /\ Double - 1 \in Nat /\ a <= Double - 1 /\ b <= Double - 1
  BY <1>1
<1>3. a * b \in Nat /\ a * b <= (Double - 1) * (Double - 1)
  BY <1>2, TimesMonotone
<1>4. (Double - 1) * (Double - 1) = Double * Double - 2 * Double + 1 /\ Double * Double \in Nat
  BY <1>1
<1> QED BY <1>1, <1>3, <1>4

LEMMA MulhsuExact ==
  ASSUME NEW a \in 0 .. Double - 1, NEW b \in 0 .. Double - 1
  PROVE  Mulhsu(a, b) = Sext((Signed(a, Double) * b) \div Double, Double)
<1>0. Double \in Sizes /\ Double \in Nat /\ Double > 0 /\ a \in Int /\ b \in Int
  BY SizeFacts DEF Sizes
<1> DEFINE s == Signed(a, Double)  m == Abs(s)  p == m * b  z == s * b  neg == s < 0
           zero == Reg(a * b) = 0
<1>1. s \in Int /\ Cong(s, a, Double)
  BY <1>0, SignedValue
<1>2. m \in 0 .. Double - 1 /\ Reg(m) = m
  BY <1>0, Magnitude
<1>3. Mulhu(m, b) = p \div Double
  <2> HIDE DEF m
  <2> QED BY <1>2, MulhuExact
<1>4. p \in Nat /\ p < Double * Double /\ z \in Int
  <2>1. s * b \in Int
    <3> HIDE DEF s
    <3> QED BY <1>0, <1>1
  <2> HIDE DEF m
  <2> QED BY <1>2, <2>1, ProductBound
<1>5. z = IF neg THEN -p ELSE p
  <2>1. m = IF neg THEN -s ELSE s
    BY DEF Abs
  <2> HIDE DEF m, s
  <2>2. (-s) * b = -(s * b)
    BY <1>0, <1>1
  <2>3. CASE s < 0
    <3>1. m * b = -(s * b) /\ s * b \in Int
      BY <1>0, <1>1, <2>1, <2>2, <2>3
    <3>2. s * b = -(m * b)
      <4> DEFINE sb == s * b  mb == m * b
      <4>1. sb \in Int /\ mb = -sb
        BY <3>1
      <4> HIDE DEF sb, mb
      <4>2. sb = -mb
        BY <4>1
      <4> QED BY <4>2 DEF sb, mb
    <3> QED BY <2>3, <3>2
  <2>4. CASE ~(s < 0)
    BY <2>1, <2>4
  <2> QED BY <2>3, <2>4
<1>6. zero <=> Reg(z) = 0
  <2> HIDE DEF s
  <2>1. Cong(s * b, a * b, Double)
    BY <1>0, <1>1, CongTimes
  <2> QED BY <2>1, Zenon DEF Cong, Reg
<1>7. neg \in BOOLEAN /\ zero \in BOOLEAN
  OBVIOUS
<1>8. Negated(p \div Double, neg, zero) = Sext(z \div Double, Double)
  <2> HIDE DEF p, z, neg, zero
  <2> QED BY <1>4, <1>5, <1>6, <1>7, NegatedExact
<1>9. Mulhsu(a, b) = Negated(Mulhu(m, b), neg, zero)
  BY <1>2, Zenon DEF Mulhsu
<1> QED BY <1>3, <1>8, <1>9, Zenon

\* The two outcomes of mulh: the exact one, and the one of a low half that is not seen to be zero.
LEMMA MulhExact ==
  ASSUME NEW a \in 0 .. Double - 1, NEW b \in 0 .. Double - 1
  PROVE  LET s == Signed(a, Double)  t == Signed(b, Double)
             high == Sext((s * t) \div Double, Double)
         IN  /\ high \in Mulh(a, b)
             /\ Signed(s * t, Double) = s * t => Mulh(a, b) = {high}
             /\ Mulh(a, b) \subseteq 0 .. Double - 1
<1>0. Double \in Sizes /\ Double \in Nat /\ Double > 0 /\ a \in Int /\ b \in Int
  BY SizeFacts DEF Sizes
<1> DEFINE s == Signed(a, Double)  t == Signed(b, Double)  m == Abs(s)  n == Abs(t)
           p == m * n  z == s * t  neg == (s < 0) # (t < 0)
           high == Sext(z \div Double, Double)
<1>1. s \in Int /\ t \in Int
  BY <1>0, SignedValue
<1>2. m \in 0 .. Double - 1 /\ Reg(m) = m /\ n \in 0 .. Double - 1 /\ Reg(n) = n
  BY <1>0, Magnitude
<1>3. Mulhu(m, n) = p \div Double /\ Mulhu(m, n) \in 0 .. Double - 1
  <2> HIDE DEF m, n
  <2> QED BY <1>2, MulhuExact
<1>4. p \in Nat /\ p < Double * Double /\ z \in Int
  <2>1. s * t \in Int
    <3> HIDE DEF s, t
    <3> QED BY <1>1
  <2> HIDE DEF m, n
  <2> QED BY <1>2, <2>1, ProductBound
<1>5. z = IF neg THEN -p ELSE p
  <2>1. (m = IF s < 0 THEN -s ELSE s) /\ (n = IF t < 0 THEN -t ELSE t)
    BY Zenon DEF Abs
  <2> HIDE DEF m, n, s, t
  <2>2. (-s) * t = -(s * t) /\ s * (-t) = -(s * t) /\ (-s) * (-t) = s * t /\ s * t \in Int
    BY <1>1
  <2>3. CASE s < 0 /\ t < 0
    <3>1. m = -s /\ n = -t
      BY <2>1, <2>3, Zenon
    <3>2. ~neg /\ p = z
      BY <2>2, <2>3, <3>1, Zenon
    <3> QED BY <3>2, Zenon
  <2>4. CASE ~(s < 0) /\ ~(t < 0)
    <3>1. m = s /\ n = t
      BY <2>1, <2>4, Zenon
    <3>2. ~neg
      BY <1>1, <2>4
    <3>3. p = z
      BY <3>1, Zenon
    <3> QED BY <3>2, <3>3, Zenon
  <2>5. CASE (s < 0) /\ ~(t < 0)
    <3>1. m = -s /\ n = t
      BY <2>1, <2>5, Zenon
    <3>2. neg /\ p = -z
      BY <2>2, <2>5, <3>1, Zenon
    <3>3. z = -p
      <4> HIDE DEF p, z
      <4> QED BY <1>4, <3>2
    <3> QED BY <3>2, <3>3, Zenon
  <2>6. CASE ~(s < 0) /\ t < 0
    <3>1. m = s /\ n = -t
      BY <2>1, <2>6, Zenon
    <3>2. neg /\ p = -z
      BY <2>2, <2>6, <3>1, Zenon
    <3>3. z = -p
      <4> HIDE DEF p, z
      <4> QED BY <1>4, <3>2
    <3> QED BY <3>2, <3>3, Zenon
  <2> QED BY <2>3, <2>4, <2>5, <2>6, Zenon
<1>6. ASSUME NEW zero \in BOOLEAN, zero <=> Reg(z) = 0
      PROVE  Negated(p \div Double, neg, zero) = high
  <2>1. neg \in BOOLEAN
    OBVIOUS
  <2> HIDE DEF p, z, neg
  <2> QED BY <1>4, <1>5, <1>6, <2>1, NegatedExact
<1>7. Mulh(a, b) = {Negated(p \div Double, neg, zero) : zero \in {Reg(z) = 0, z = 0}}
  <2>1. MulhZero(a, b) = {Reg(z) = 0, z = 0}
    BY Zenon DEF MulhZero
  <2>2. Reg(m) = m /\ Reg(n) = n
    BY <1>2
  <2>3. Mulh(a, b) = {Negated(Mulhu(Reg(m), Reg(n)), neg, zero) : zero \in MulhZero(a, b)}
    BY Zenon DEF Mulh
  <2>4. Mulhu(Reg(m), Reg(n)) = p \div Double
    BY <1>3, <2>2, Zenon
  <2> DEFINE h == p \div Double  u == Mulhu(Reg(m), Reg(n))  Z == MulhZero(a, b)
  <2>5. u = h /\ Mulh(a, b) = {Negated(u, neg, zero) : zero \in Z} /\ Z = {Reg(z) = 0, z = 0}
    BY <2>1, <2>3, <2>4, Zenon
  <2> HIDE DEF m, n, p, neg, z, h, u, Z
  <2>6. Mulh(a, b) = {Negated(h, neg, zero) : zero \in Z}
    BY <2>5, Zenon
  <2>7. Mulh(a, b) = {Negated(h, neg, zero) : zero \in {Reg(z) = 0, z = 0}}
    BY <2>5, <2>6, Zenon
  <2> QED BY <2>7 DEF h
<1>8. high \in Mulh(a, b)
  <2> DEFINE zero == Reg(z) = 0
  <2>1. zero \in BOOLEAN /\ (zero <=> Reg(z) = 0)
    OBVIOUS
  <2>2. Negated(p \div Double, neg, zero) = high
    <3> HIDE DEF zero, neg, p, z, high
    <3> QED BY <1>6, <2>1
  <2>3. Negated(p \div Double, neg, zero) \in Mulh(a, b)
    <3> HIDE DEF neg, p, z
    <3> QED BY <1>7, Zenon
  <2> QED BY <2>2, <2>3, Zenon
<1>9. ASSUME Signed(z, Double) = z PROVE Mulh(a, b) = {high}
  <2>1. (z = 0) = (Reg(z) = 0)
    <3> HIDE DEF z
    <3>1. Signed(z, Double) = 0 <=> Zext(z, Double) = 0
      BY <1>0, <1>4, SignedZero
    <3> QED BY <1>9, <3>1, Zenon DEF Zext, Reg
  <2> DEFINE zero == Reg(z) = 0
  <2>2. zero \in BOOLEAN /\ (zero <=> Reg(z) = 0)
    OBVIOUS
  <2>3. Negated(p \div Double, neg, zero) = high
    <3> HIDE DEF zero, neg, p, z, high
    <3> QED BY <1>6, <2>2
  <2>4. Mulh(a, b) = {Negated(p \div Double, neg, zero)}
    <3> HIDE DEF neg, p, z
    <3> QED BY <1>7, <2>1, Zenon
  <2> QED BY <2>3, <2>4, Zenon
<1>10. Mulh(a, b) \subseteq 0 .. Double - 1
  <2>1. \A zero \in BOOLEAN : Negated(p \div Double, neg, zero) \in 0 .. Double - 1
    <3> SUFFICES ASSUME NEW zero \in BOOLEAN PROVE Negated(p \div Double, neg, zero) \in 0 .. Double - 1
      OBVIOUS
    <3> DEFINE h == p \div Double
    <3>1. h \in 0 .. Double - 1
      BY <1>3
    <3> HIDE DEF h, neg
    <3>2. -h - 1 + (IF zero THEN 1 ELSE 0) \in Int
      BY <1>0, <3>1
    <3>3. Reg(-h - 1 + (IF zero THEN 1 ELSE 0)) \in 0 .. Double - 1
      BY <3>2, RegValue
    <3>4. Negated(h, neg, zero) \in 0 .. Double - 1
      BY <3>1, <3>3, Zenon DEF Negated
    <3> QED BY <3>4 DEF h
  <2> HIDE DEF neg, p
  <2>2. (Reg(z) = 0) \in BOOLEAN /\ (z = 0) \in BOOLEAN
    OBVIOUS
  <2> HIDE DEF z
  <2> QED BY <1>7, <2>1, <2>2, Zenon
<1> QED BY <1>8, <1>9, <1>10, Zenon

MulInv == xlen \in Sizes /\ Extended(x1, xlen) /\ Extended(x2, xlen)

LEMMA MulInvFacts ==
  ASSUME MulInv
  PROVE  /\ xlen \in Sizes /\ Word \in Sizes /\ Double \in Sizes
         /\ x1 \in 0 .. Double - 1 /\ x2 \in 0 .. Double - 1 /\ x1 \in Int /\ x2 \in Int
         /\ Double \in Nat /\ Double > 0 /\ Word \in Nat /\ Word > 0
BY SizeFacts DEF MulInv, Extended, Sizes

\* A number reduced modulo the register, divided by a word, is known modulo a word.
LEMMA DivCong ==
  ASSUME NEW x \in Int
  PROVE  Cong(Reg(x) \div Word, x \div Word, Word) /\ Reg(x) \div Word \in Int /\ x \div Word \in Int
<1>1. Word \in Nat /\ Word > 0 /\ Double = Word * Word /\ Double \in Nat /\ Double > 0
  BY SizeFacts DEF Double
<1>2. Reg(x) \in Int /\ Cong(Reg(x), x, Double)
  <2>1. x % Double \in 0 .. Double - 1 /\ Cong(x % Double, x, Double)
    BY <1>1, CongReduced
  <2> QED BY <1>1, <2>1 DEF Reg
<1>3. PICK k \in Int : Reg(x) = x + Double * k
  BY <1>1, <1>2, CongGap
<1>4. PICK q \in Int, r \in 0 .. Word - 1 : q = x \div Word /\ x = Word * q + r
  BY <1>1, Parts
<1> DEFINE y == Reg(x)  j == Word * k  p == q + j
<1>5. j \in Int /\ p \in Int /\ y \in Int
  BY <1>1, <1>2
<1>6. y = Word * p + r
  <2>1. Word * (q + Word * k) = Word * q + (Word * Word) * k
    BY <1>1
  <2>2. Double * k = (Word * Word) * k
    BY <1>1, Zenon
  <2> DEFINE wq == Word * q  dk == Double * k  wp == Word * p
  <2>3. wq \in Int /\ dk \in Int /\ wp = wq + dk /\ y = x + dk /\ x = wq + r
    BY <1>1, <1>3, <1>4, <2>1, <2>2
  <2> HIDE DEF wq, dk, wp, y
  <2>4. y = wp + r
    BY <1>1, <2>3
  <2> QED BY <2>4 DEF wp
<1>7. y \div Word = p
  <2> HIDE DEF y, p
  <2> QED BY <1>1, <1>5, <1>6, PartsUnique
<1>8. Cong(p, q, Word)
  <2> HIDE DEF p
  <2>1. p = q + Word * k
    BY DEF p
  <2> QED BY <1>1, <1>5, <2>1, CongBy
<1> QED BY <1>4, <1>5, <1>7, <1>8, Zenon

LEMMA HighHalves ==
  ASSUME MulInv
  PROVE  HighHalvesExact
<1> USE MulInvFacts
<1> DEFINE s1 == Signed(x1, xlen)  s2 == Signed(x2, xlen)  u1 == Zext(x1, xlen)  u2 == Zext(x2, xlen)
<1>1. CASE xlen = Word
  <2>0. Word # Double
    BY SizeFacts
  <2>1. MulhuInsn(x1, x2) = {HighHalf(u1 * u2)}
    BY <1>1, <2>0, Zenon DEF MulhuInsn, HighHalf
  <2>2. MulhInsn(x1, x2) = {HighHalf(s1 * s2)}
    BY <1>1, <2>0, Zenon DEF MulhInsn, HighHalf
  <2>3. MulhsuInsn(x1, x2) = {HighHalf(s1 * u2)}
    <3> DEFINE e == Sext(x1, Word)  s == Signed(x1, Word)  u == Zext(x2, Word)  y == e * u  z == s * u
    <3>1. s \in Int /\ u \in Int /\ e = Reg(s)
      BY SignedValue DEF Sext, Zext
    <3>2. e \in Int /\ Cong(e, s, Double)
      <4> HIDE DEF s
      <4> QED BY <3>1, RegValue
    <3>3. y \in Int /\ z \in Int /\ Cong(y, z, Double)
      <4> HIDE DEF e, s, u
      <4>1. Cong(e * u, s * u, Double)
        BY <3>1, <3>2, CongTimes, Zenon
      <4>2. e * u \in Int /\ s * u \in Int
        BY <3>1, <3>2
      <4> QED BY <4>1, <4>2, Zenon
    <3>4. Reg(y) = Reg(z)
      BY <3>3, Zenon DEF Reg, Cong
    <3>5. Cong(Reg(y) \div Word, z \div Word, Word) /\ Reg(y) \div Word \in Int /\ z \div Word \in Int
      <4> HIDE DEF y, z
      <4> QED BY <3>3, <3>4, DivCong
    <3>6. Sext(Reg(y) \div Word, Word) = Sext(z \div Word, Word)
      <4> DEFINE a == Reg(y) \div Word  b == z \div Word
      <4>1. a \in Int /\ b \in Int /\ Cong(a, b, Word)
        BY <3>5
      <4> HIDE DEF a, b
      <4>2. Sext(a, Word) = Sext(b, Word)
        BY <4>1, SextSame
      <4> QED BY <4>2 DEF a, b
    <3> QED BY <1>1, <2>0, <3>6, Zenon DEF MulhsuInsn, HighHalf
  <2> QED BY <2>1, <2>2, <2>3, Zenon DEF HighHalvesExact
<1>2. CASE xlen = Double
  <2>1. u1 = x1 /\ u2 = x2
    BY <1>2, CongSmall DEF Zext
  <2>2. MulhuInsn(x1, x2) = {HighHalf(u1 * u2)}
    <3>1. Mulhu(x1, x2) = (x1 * x2) \div Double /\ Mulhu(x1, x2) \in 0 .. Double - 1
      BY MulhuExact
    <3> DEFINE h == Mulhu(x1, x2)
    <3>2. Sext(h, Double) = h
      <4> HIDE DEF h
      <4>1. Extended(h, Double)
        BY <3>1, AnyExtended DEF h
      <4> QED BY <4>1, Zenon DEF Extended
    <3> QED BY <1>2, <2>1, <3>1, <3>2, Zenon DEF MulhuInsn, HighHalf
  <2>3. MulhsuInsn(x1, x2) = {HighHalf(s1 * u2)}
    <3>1. Mulhsu(x1, x2) = Sext((Signed(x1, Double) * x2) \div Double, Double)
      BY MulhsuExact
    <3> QED BY <1>2, <2>1, <3>1, Zenon DEF MulhsuInsn, HighHalf
  <2>4. /\ HighHalf(s1 * s2) \in MulhInsn(x1, x2)
        /\ (Signed(s1 * s2, Double) = s1 * s2) => MulhInsn(x1, x2) = {HighHalf(s1 * s2)}
    <3>1. MulhInsn(x1, x2) = Mulh(x1, x2) /\ HighHalf(s1 * s2) = Sext((s1 * s2) \div Double, Double)
      BY <1>2, Zenon DEF MulhInsn, HighHalf
    <3>2. /\ Sext((s1 * s2) \div Double, Double) \in Mulh(x1, x2)
          /\ Signed(s1 * s2, Double) = s1 * s2 => Mulh(x1, x2) = {Sext((s1 * s2) \div Double, Double)}
      <4>1. s1 = Signed(x1, Double) /\ s2 = Signed(x2, Double)
        BY <1>2, Zenon
      <4> QED BY <4>1, MulhExact, Zenon
    <3> QED BY <3>1, <3>2, Zenon
  <2> QED BY <2>2, <2>3, <2>4, Zenon DEF HighHalvesExact
<1> QED BY <1>1, <1>2 DEF Sizes

-----------------------------------------------------------------------------
(* MulDiv: division.                                                       *)

LEMMA DivFits ==
  ASSUME MulInv
  PROVE  Fits(Div(x1, x2), Rem(x1, x2), xlen, TRUE)
<1> USE MulInvFacts
<1> DEFINE s == Signed(x1, xlen)  t == Signed(x2, xlen)
<1>0. s \in Int /\ Cong(s, x1, xlen) /\ -(xlen \div 2) <= s /\ (t = 0 <=> Zext(x2, xlen) = 0)
  BY SignedValue, SignedZero
<1>1. CASE t = 0
  <2>1. Div(x1, x2) = {AllOnes} /\ Rem(x1, x2) = {Reg(s)}
    BY <1>1, Zenon DEF Div, Rem
  <2>2. Reg(s) \in Int /\ Cong(Reg(s), s, xlen)
    <3> HIDE DEF s
    <3> QED BY <1>0, RegValue
  <2>3. Cong(Reg(s), x1, xlen)
    BY <1>0, <2>2, Zenon DEF Cong
  <2>4. Divided(AllOnes, Reg(s), x1, x2, xlen, TRUE)
    <3> HIDE DEF s
    <3> QED BY <1>0, <1>1, <2>2, <2>3, ByZero
  <2> QED BY <2>1, <2>4, Zenon DEF Fits, Divided
<1>2. CASE s = -(Double \div 2) /\ t = -1
  <2>0. t # 0
    BY <1>2
  <2>1. Div(x1, x2) = {Reg(s)} /\ Rem(x1, x2) = {0}
    BY <1>2, <2>0, Zenon DEF Div, Rem
  <2>2. Double = 2 * (Double \div 2) /\ Double \div 2 \in Nat /\ xlen = 2 * (xlen \div 2) /\ xlen \div 2 \in Nat
        /\ Word = 2 * (Word \div 2) /\ Word \div 2 \in Nat /\ Double >= 2 * Word
    BY SizeFacts
  <2>3. xlen = Double
    <3>1. CASE xlen = Word
      <4>1. Double \div 2 <= Word \div 2
        BY <1>0, <1>2, <2>2, <3>1
      <4> QED BY <2>2, <4>1
    <3> QED BY <3>1 DEF Sizes
  <2>4. Cong(Reg(s) * x2 + 0, x1, xlen)
    <3>1. Reg(s) \in Int /\ Cong(Reg(s), s, Double)
      <4> HIDE DEF s
      <4> QED BY <1>0, RegValue
    <3>2. t \in Int /\ Cong(x2, t, Double) /\ Cong(0, 0, Double)
      <4>1. t \in Int /\ Cong(t, x2, Double)
        BY <2>3, SignedValue
      <4> QED BY <4>1, Zenon DEF Cong
    <3>3. Cong(s * t + 0, x1, Double)
      <4>1. s * t + 0 = s + Double * 1
        <5> HIDE DEF s, t
        <5>1. s * (-1) = -s
          BY <1>0
        <5> QED BY <1>0, <1>2, <2>2, <5>1
      <4> DEFINE z == s * t + 0
      <4>2. z \in Int /\ z = s + Double * 1 /\ 1 \in Int
        BY <1>0, <3>2, <4>1
      <4> HIDE DEF z, s
      <4>3. Cong(z, s, Double)
        BY <1>0, <4>2, CongBy
      <4>4. Cong(z, x1, Double)
        BY <1>0, <2>3, <4>3, Zenon DEF Cong
      <4> QED BY <4>4 DEF z
    <3> HIDE DEF s, t
    <3>4. Cong(Reg(s) * x2 + 0, x1, Double)
      BY <1>0, <3>1, <3>2, <3>3, CongFits
    <3> QED BY <2>3, <3>4, Zenon
  <2>5. Abs(Signed(0, xlen)) < Abs(t)
    <3>1. Zext(0, xlen) = 0
      BY <2>3, CongSmall DEF Zext
    <3>2. Signed(0, xlen) = 0
      BY <3>1, SignedZero
    <3> HIDE DEF t
    <3> QED BY <1>2, <3>2 DEF Abs
  <2>6. Divided(Reg(s), 0, x1, x2, xlen, TRUE)
    BY <1>0, <2>0, <2>4, <2>5, Zenon DEF Divided, Cong, Zext
  <2> QED BY <2>1, <2>6, Zenon DEF Fits, Divided
<1>3. CASE t # 0 /\ ~(s = -(Double \div 2) /\ t = -1)
  <2>1. Div(x1, x2) = {Sext(Quotient(s, t), xlen)} /\ Rem(x1, x2) = {Sext(Remainder(s, t), xlen)}
    BY <1>3, Zenon DEF Div, Rem
  <2>2. Divided(Sext(Quotient(s, t), xlen), Sext(Remainder(s, t), xlen), x1, x2, xlen, TRUE)
    BY <1>0, <1>3, SignedDivides
  <2> QED BY <2>1, <2>2, Zenon DEF Fits, Divided
<1> QED BY <1>1, <1>2, <1>3, Zenon

LEMMA DivuFits ==
  ASSUME MulInv
  PROVE  Fits(Divu(x1, x2), Remu(x1, x2), xlen, FALSE)
<1> USE MulInvFacts
<1>1. CASE Zext(x2, xlen) = 0
  <2>1. Divu(x1, x2) = {AllOnes} /\ Remu(x1, x2) = {Sext(x1, xlen)}
    BY <1>1, Zenon DEF Divu, Remu
  <2>2. Sext(x1, xlen) \in Int /\ Cong(Sext(x1, xlen), x1, xlen)
    BY SextValue
  <2>3. Divided(AllOnes, Sext(x1, xlen), x1, x2, xlen, FALSE)
    BY <1>1, <2>2, ByZero
  <2> QED BY <2>1, <2>3, Zenon DEF Fits, Divided
<1>2. CASE Zext(x2, xlen) # 0
  <2>1. /\ Divu(x1, x2) = {Sext(Zext(x1, xlen) \div Zext(x2, xlen), xlen)}
        /\ Remu(x1, x2) = {Sext(Zext(x1, xlen) % Zext(x2, xlen), xlen)}
    BY <1>2, Zenon DEF Divu, Remu
  <2>2. Divided(Sext(Zext(x1, xlen) \div Zext(x2, xlen), xlen),
                Sext(Zext(x1, xlen) % Zext(x2, xlen), xlen), x1, x2, xlen, FALSE)
    BY <1>2, UnsignedDivides
  <2> QED BY <2>1, <2>2, Zenon DEF Fits, Divided
<1> QED BY <1>1, <1>2, Zenon

LEMMA DivwFits ==
  ASSUME MulInv
  PROVE  Fits(Divw(x1, x2), Remw(x1, x2), Word, TRUE)
<1> USE MulInvFacts
<1> DEFINE s == Signed(x1, Word)  t == Signed(x2, Word)
<1>0. s \in Int /\ Cong(s, x1, Word) /\ (t = 0 <=> Zext(x2, Word) = 0)
  BY SignedValue, SignedZero
<1>1. CASE t = 0
  <2>1. Divw(x1, x2) = {AllOnes} /\ Remw(x1, x2) = {Reg(s)}
    BY <1>1, Zenon DEF Divw, Remw
  <2>2. Reg(s) \in Int /\ Cong(Reg(s), s, Word)
    <3> HIDE DEF s
    <3> QED BY <1>0, RegValue
  <2>3. Cong(Reg(s), x1, Word)
    BY <1>0, <2>2, Zenon DEF Cong
  <2>4. Divided(AllOnes, Reg(s), x1, x2, Word, TRUE)
    <3> HIDE DEF s
    <3> QED BY <1>0, <1>1, <2>2, <2>3, ByZero
  <2> QED BY <2>1, <2>4, Zenon DEF Fits, Divided
<1>2. CASE t # 0
  <2>1. Divw(x1, x2) = {Sext(Quotient(s, t), Word)} /\ Remw(x1, x2) = {Sext(Remainder(s, t), Word)}
    BY <1>2, Zenon DEF Divw, Remw
  <2>2. Divided(Sext(Quotient(s, t), Word), Sext(Remainder(s, t), Word), x1, x2, Word, TRUE)
    BY <1>0, <1>2, SignedDivides
  <2> QED BY <2>1, <2>2, Zenon DEF Fits, Divided
<1> QED BY <1>1, <1>2, Zenon

LEMMA DivuwFits ==
  ASSUME MulInv
  PROVE  Fits(Divuw(x1, x2), Remuw(x1, x2), Word, FALSE)
<1> USE MulInvFacts
<1>1. CASE Zext(x2, Word) = 0
  <2>1. Divuw(x1, x2) = {AllOnes} /\ Remuw(x1, x2) = {Sext(Zext(x1, Word), Word)}
    BY <1>1, Zenon DEF Divuw, Remuw
  <2> DEFINE z == Zext(x1, Word)
  <2>2. z \in Int /\ Cong(z, x1, Word)
    BY CongReduced DEF Zext
  <2>3. Sext(z, Word) \in Int /\ Cong(Sext(z, Word), z, Word)
    <3> HIDE DEF z
    <3> QED BY <2>2, SextValue
  <2>4. Cong(Sext(z, Word), x1, Word)
    BY <2>2, <2>3, Zenon DEF Cong
  <2>5. Divided(AllOnes, Sext(z, Word), x1, x2, Word, FALSE)
    <3> HIDE DEF z
    <3> QED BY <1>1, <2>3, <2>4, ByZero
  <2> QED BY <2>1, <2>5, Zenon DEF Fits, Divided
<1>2. CASE Zext(x2, Word) # 0
  <2>1. /\ Divuw(x1, x2) = {Sext(Zext(x1, Word) \div Zext(x2, Word), Word)}
        /\ Remuw(x1, x2) = {Sext(Zext(x1, Word) % Zext(x2, Word), Word)}
    BY <1>2, Zenon DEF Divuw, Remuw
  <2>2. Divided(Sext(Zext(x1, Word) \div Zext(x2, Word), Word),
                Sext(Zext(x1, Word) % Zext(x2, Word), Word), x1, x2, Word, FALSE)
    BY <1>2, UnsignedDivides
  <2> QED BY <2>1, <2>2, Zenon DEF Fits, Divided
<1> QED BY <1>1, <1>2, Zenon

LEMMA MulInvExact ==
  ASSUME MulInv
  PROVE  MExact
<1>1. DivisionExact
  BY DivFits, DivuFits, DivwFits, DivuwFits, Zenon DEF DivisionExact
<1>2. RegsSignExtended
  BY Zenon DEF RegsSignExtended, MulInv, Extended
<1> QED BY <1>1, <1>2, HighHalves, Zenon DEF MExact

\* Every instruction leaves a register extended: those that work on words extend their
\* result, and a register of Double values is extended whatever it holds.
LEMMA NarrowExtended ==
  ASSUME MulInv, xlen = Word, NEW v,
         v \in Mul(x1, x2) \cup MulhInsn(x1, x2) \cup MulhuInsn(x1, x2) \cup MulhsuInsn(x1, x2)
  PROVE  Extended(v, xlen)
<1> USE MulInvFacts
<1>0. Word # Double
  BY SizeFacts
<1>1. \E k \in Int : v = Sext(k, Word)
  <2>1. ASSUME v \in Mul(x1, x2) PROVE v = Sext(Reg(x1 * x2), Word) /\ Reg(x1 * x2) \in Int
    <3>1. x1 * x2 \in Int
      OBVIOUS
    <3>2. Reg(x1 * x2) \in Int
      BY <3>1, RegValue
    <3> QED BY <2>1, <3>2, Zenon DEF Mul
  <2>2. ASSUME v \in MulhInsn(x1, x2)
        PROVE  v = Sext((Signed(x1, Word) * Signed(x2, Word)) \div Word, Word)
               /\ (Signed(x1, Word) * Signed(x2, Word)) \div Word \in Int
    <3>1. v = Sext((Signed(x1, Word) * Signed(x2, Word)) \div Word, Word)
      BY <1>0, <2>2, Zenon DEF MulhInsn
    <3>2. Signed(x1, Word) \in Int /\ Signed(x2, Word) \in Int
      BY SignedValue
    <3>3. Signed(x1, Word) * Signed(x2, Word) \in Int
      BY <3>2
    <3>4. (Signed(x1, Word) * Signed(x2, Word)) \div Word \in Int
      BY <3>3, DivCong
    <3> QED BY <3>1, <3>4
  <2>3. ASSUME v \in MulhuInsn(x1, x2)
        PROVE  v = Sext((Zext(x1, Word) * Zext(x2, Word)) \div Word, Word)
               /\ (Zext(x1, Word) * Zext(x2, Word)) \div Word \in Int
    <3>1. v = Sext((Zext(x1, Word) * Zext(x2, Word)) \div Word, Word)
      BY <1>0, <2>3, Zenon DEF MulhuInsn
    <3>2. Zext(x1, Word) \in Int /\ Zext(x2, Word) \in Int
      BY DEF Zext
    <3>3. Zext(x1, Word) * Zext(x2, Word) \in Int
      BY <3>2
    <3>4. (Zext(x1, Word) * Zext(x2, Word)) \div Word \in Int
      BY <3>3, DivCong
    <3> QED BY <3>1, <3>4
  <2>4. ASSUME v \in MulhsuInsn(x1, x2)
        PROVE  v = Sext(Reg(Sext(x1, Word) * Zext(x2, Word)) \div Word, Word)
               /\ Reg(Sext(x1, Word) * Zext(x2, Word)) \div Word \in Int
    <3>1. v = Sext(Reg(Sext(x1, Word) * Zext(x2, Word)) \div Word, Word)
      BY <1>0, <2>4, Zenon DEF MulhsuInsn
    <3>2. Sext(x1, Word) \in Int /\ Zext(x2, Word) \in Int
      BY SextValue DEF Zext
    <3>3. Sext(x1, Word) * Zext(x2, Word) \in Int
      BY <3>2
    <3>4. Reg(Sext(x1, Word) * Zext(x2, Word)) \div Word \in Int
      BY <3>3, DivCong
    <3> QED BY <3>1, <3>4
  <2> QED BY <2>1, <2>2, <2>3, <2>4, Zenon
<1> QED BY <1>1, SextExtended

LEMMA WideExtended ==
  ASSUME MulInv, xlen = Double, NEW v,
         v \in Mul(x1, x2) \cup MulhInsn(x1, x2) \cup MulhuInsn(x1, x2) \cup MulhsuInsn(x1, x2)
  PROVE  Extended(v, xlen)
<1> USE MulInvFacts
<1>1. v \in 0 .. Double - 1
  <2>1. ASSUME v \in Mul(x1, x2) PROVE v \in 0 .. Double - 1
    <3>1. x1 * x2 \in Int
      OBVIOUS
    <3>2. Reg(x1 * x2) \in Int
      BY <3>1, RegValue
    <3>3. v = Sext(Reg(x1 * x2), Double)
      BY <2>1, Zenon DEF Mul
    <3> QED BY <3>2, <3>3, SextValue
  <2>2. ASSUME v \in MulhInsn(x1, x2) PROVE v \in 0 .. Double - 1
    <3>1. Mulh(x1, x2) \subseteq 0 .. Double - 1
      BY MulhExact, Zenon
    <3> QED BY <2>2, <3>1, Zenon DEF MulhInsn
  <2>3. ASSUME v \in MulhuInsn(x1, x2) PROVE v \in 0 .. Double - 1
    <3>1. v = Mulhu(x1, x2)
      BY <2>3, Zenon DEF MulhuInsn
    <3> QED BY <3>1, MulhuExact, Zenon
  <2>4. ASSUME v \in MulhsuInsn(x1, x2) PROVE v \in 0 .. Double - 1
    <3>1. v = Sext((Signed(x1, Double) * x2) \div Double, Double)
      BY <2>4, MulhsuExact, Zenon DEF MulhsuInsn
    <3> DEFINE z == Signed(x1, Double) * x2
    <3>2. z \in Int
      <4>1. Signed(x1, Double) \in Int
        BY SignedValue
      <4> QED BY <4>1
    <3>3. z \div Double \in Int
      <4> HIDE DEF z
      <4>1. \E q \in Int, r \in 0 .. Double - 1 : q = z \div Double
        BY <3>2, Parts
      <4> QED BY <4>1
    <3> HIDE DEF z
    <3>4. Sext(z \div Double, Double) \in 0 .. Double - 1
      BY <3>3, SextValue
    <3> QED BY <3>1, <3>4 DEF z
  <2> QED BY <2>1, <2>2, <2>3, <2>4, Zenon
<1> QED BY <1>1, AnyExtended

LEMMA QuotientsInt ==
  ASSUME NEW m \in Sizes, NEW x \in Int, NEW y \in Int, Zext(y, m) # 0
  PROVE  /\ Quotient(Signed(x, m), Signed(y, m)) \in Int
         /\ Remainder(Signed(x, m), Signed(y, m)) \in Int
         /\ Zext(x, m) \div Zext(y, m) \in Int
         /\ Zext(x, m) % Zext(y, m) \in Int
<1>0. m \in Nat /\ m > 0
  BY SizeFacts
<1>1. Signed(x, m) \in Int /\ Signed(y, m) \in Int /\ Signed(y, m) # 0
  BY SignedValue, SignedZero
<1>2. Zext(x, m) \in Int /\ Zext(y, m) \in Nat /\ Zext(y, m) > 0
  BY <1>0 DEF Zext
<1> DEFINE a == Zext(x, m)  b == Zext(y, m)
<1>3. a \in Int /\ b \in Nat /\ b > 0
  BY <1>2
<1>4. a \div b \in Int /\ a % b \in Int
  <2> HIDE DEF a, b
  <2> QED BY <1>3
<1>5. Quotient(Signed(x, m), Signed(y, m)) \in Int /\ Remainder(Signed(x, m), Signed(y, m)) \in Int
  <2> DEFINE s == Signed(x, m)  t == Signed(y, m)
  <2>1. s \in Int /\ t \in Int /\ t # 0
    BY <1>1
  <2> HIDE DEF s, t
  <2>2. Quotient(s, t) \in Int /\ Remainder(s, t) \in Int
    BY <2>1, QuotRem
  <2> QED BY <2>2 DEF s, t
<1> QED BY <1>4, <1>5

LEMMA DivisionExtended ==
  ASSUME MulInv, NEW v, v \in Div(x1, x2) \cup Rem(x1, x2) \cup Divu(x1, x2) \cup Remu(x1, x2)
  PROVE  Extended(v, xlen)
<1> USE MulInvFacts
<1>1. v = AllOnes \/ (v = Reg(-(Double \div 2)) /\ v = Reg(Signed(x1, xlen))) \/ \E k \in Int : v = Sext(k, xlen)
  <2> DEFINE s == Signed(x1, xlen)  t == Signed(x2, xlen)
  <2>0. (t = 0 <=> Zext(x2, xlen) = 0) /\ Reg(s) = Sext(x1, xlen) /\ s \in Int
    BY SignedZero, SignedValue DEF Sext
  <2>z. 0 = Sext(0, xlen)
    <3>0. xlen \in Nat /\ xlen > 0
      BY SizeFacts
    <3>1. Zext(0, xlen) = 0 /\ Reg(0) = 0
      BY <3>0, CongSmall DEF Zext, Reg
    <3>2. Signed(0, xlen) = 0
      BY <3>1, SignedZero
    <3> QED BY <3>1, <3>2, Zenon DEF Sext
  <2>1. CASE Zext(x2, xlen) = 0
    <3>1. \/ v = AllOnes
          \/ v = Reg(s)
          \/ v = Sext(x1, xlen)
      BY <2>0, <2>1, Zenon DEF Div, Rem, Divu, Remu
    <3> QED BY <2>0, <3>1, Zenon
  <2>2. CASE Zext(x2, xlen) # 0
    <3>1. \/ v = Reg(s)
          \/ v = 0
          \/ v = Sext(Quotient(s, t), xlen)
          \/ v = Sext(Remainder(s, t), xlen)
          \/ v = Sext(Zext(x1, xlen) \div Zext(x2, xlen), xlen)
          \/ v = Sext(Zext(x1, xlen) % Zext(x2, xlen), xlen)
      BY <2>0, <2>2, Zenon DEF Div, Rem, Divu, Remu
    <3>2. /\ Quotient(s, t) \in Int /\ Remainder(s, t) \in Int
          /\ Zext(x1, xlen) \div Zext(x2, xlen) \in Int /\ Zext(x1, xlen) % Zext(x2, xlen) \in Int
      BY <2>2, QuotientsInt
    <3>3. 0 \in Int /\ x1 \in Int
      OBVIOUS
    <3> HIDE DEF s, t
    <3> QED BY <2>0, <2>z, <3>1, <3>2, <3>3, Zenon
  <2> QED BY <2>1, <2>2, Zenon
<1>2. \A k \in Int : Extended(Sext(k, xlen), xlen)
  BY SextExtended
<1>3. Extended(AllOnes, xlen)
  BY AllOnesExtended
<1>4. Reg(Signed(x1, xlen)) = Sext(x1, xlen)
  BY Zenon DEF Sext
<1> QED BY <1>1, <1>2, <1>3, <1>4, Zenon

LEMMA WordFormsExtended ==
  ASSUME MulInv, xlen = Double, NEW v,
         v \in Mulw(x1, x2) \cup Divw(x1, x2) \cup Divuw(x1, x2) \cup Remw(x1, x2) \cup Remuw(x1, x2)
  PROVE  Extended(v, xlen)
<1> USE MulInvFacts
<1>1. v = AllOnes \/ \E k \in Int : v = Sext(k, Word)
  <2> DEFINE s == Signed(x1, Word)  t == Signed(x2, Word)
  <2>0. (t = 0 <=> Zext(x2, Word) = 0) /\ Reg(s) = Sext(x1, Word)
    BY SignedZero DEF Sext
  <2>a. Reg(x1 * x2) \in Int /\ Zext(x1, Word) \in Int
    <3>1. x1 * x2 \in Int
      OBVIOUS
    <3> QED BY <3>1, RegValue DEF Zext
  <2>1. CASE Zext(x2, Word) = 0
    <3>1. v = AllOnes \/ v = Reg(s) \/ v = Sext(Zext(x1, Word), Word) \/ v = Sext(Reg(x1 * x2), Word)
      BY <2>0, <2>1, Zenon DEF Mulw, Divw, Divuw, Remw, Remuw
    <3> QED BY <2>0, <2>a, <3>1, Zenon
  <2>2. CASE Zext(x2, Word) # 0
    <3>1. \/ v = Sext(Quotient(s, t), Word)
          \/ v = Sext(Remainder(s, t), Word)
          \/ v = Sext(Zext(x1, Word) \div Zext(x2, Word), Word)
          \/ v = Sext(Zext(x1, Word) % Zext(x2, Word), Word)
          \/ v = Sext(Reg(x1 * x2), Word)
      BY <2>0, <2>2, Zenon DEF Mulw, Divw, Divuw, Remw, Remuw
    <3>2. /\ Quotient(s, t) \in Int /\ Remainder(s, t) \in Int
          /\ Zext(x1, Word) \div Zext(x2, Word) \in Int /\ Zext(x1, Word) % Zext(x2, Word) \in Int
      BY <2>2, QuotientsInt
    <3> HIDE DEF s, t
    <3> QED BY <2>a, <3>1, <3>2, Zenon
  <2> QED BY <2>1, <2>2, Zenon
<1>2. v \in 0 .. Double - 1
  <2>1. \A k \in Int : Sext(k, Word) \in 0 .. Double - 1
    BY SextValue
  <2>2. AllOnes \in 0 .. Double - 1
    BY DEF AllOnes
  <2> QED BY <1>1, <2>1, <2>2, Zenon
<1> QED BY <1>2, AnyExtended

LEMMA MulInitInv == MulInit => MulInv
<1> SUFFICES ASSUME MulInit PROVE MulInv
  OBVIOUS
<1>1. xlen \in Sizes /\ x1 = 0 /\ x2 = 0
  BY Zenon DEF MulInit, Sizes
<1>2. xlen \in Nat /\ xlen > 0 /\ Double \in Nat /\ Double > 0
  BY <1>1, SizeFacts
<1>3. Zext(0, xlen) = 0 /\ Reg(0) = 0
  BY <1>2, CongSmall DEF Zext, Reg
<1>4. Signed(0, xlen) = 0
  BY <1>1, <1>3, SignedZero
<1>5. Extended(0, xlen)
  <2>1. 0 \in 0 .. Double - 1
    BY <1>2
  <2> QED BY <1>3, <1>4, <2>1, Zenon DEF Extended, Sext
<1> QED BY <1>1, <1>5, Zenon DEF MulInv

LEMMA MulStepInv == MulInv /\ [MulNext]_mulVars => MulInv'
<1> SUFFICES ASSUME MulInv, [MulNext]_mulVars PROVE MulInv'
  OBVIOUS
<1> USE MulInvFacts
<1>1. CASE UNCHANGED mulVars
  BY <1>1, Zenon DEF mulVars, MulInv
<1>2. ASSUME NEW v \in 0 .. xlen - 1, LoadImmediate(v) PROVE MulInv'
  <2>1. v \in Int
    BY SizeFacts
  <2>2. Extended(Sext(v, xlen), xlen)
    BY <2>1, SextExtended
  <2> QED BY <1>2, <2>2, Zenon DEF LoadImmediate, MulInv
<1>3. ASSUME NEW v, Extended(v, xlen), x1' = v, UNCHANGED <<xlen, x2>> PROVE MulInv'
  BY <1>3, Zenon DEF MulInv
<1>4. ASSUME NEW v, v \in Mul(x1, x2) \cup MulhInsn(x1, x2) \cup MulhuInsn(x1, x2) \cup MulhsuInsn(x1, x2)
      PROVE  Extended(v, xlen)
  <2>1. xlen = Word \/ xlen = Double
    BY DEF Sizes
  <2> QED BY <1>4, <2>1, NarrowExtended, WideExtended
<1>5. \/ UNCHANGED mulVars
      \/ \E v \in 0 .. xlen - 1 : LoadImmediate(v)
      \/ \E v \in Mul(x1, x2) \cup MulhInsn(x1, x2) \cup MulhuInsn(x1, x2) \cup MulhsuInsn(x1, x2) :
           x1' = v /\ UNCHANGED <<xlen, x2>>
      \/ \E v \in Div(x1, x2) \cup Rem(x1, x2) \cup Divu(x1, x2) \cup Remu(x1, x2) :
           x1' = v /\ UNCHANGED <<xlen, x2>>
      \/ xlen = Double
         /\ \E v \in Mulw(x1, x2) \cup Divw(x1, x2) \cup Divuw(x1, x2) \cup Remw(x1, x2) \cup Remuw(x1, x2) :
              x1' = v /\ UNCHANGED <<xlen, x2>>
  BY Zenon DEF MulNext, Execute
<1>6. ASSUME NEW v \in Mul(x1, x2) \cup MulhInsn(x1, x2) \cup MulhuInsn(x1, x2) \cup MulhsuInsn(x1, x2),
             x1' = v, UNCHANGED <<xlen, x2>>
      PROVE  MulInv'
  BY <1>3, <1>4, <1>6, Zenon
<1>7. ASSUME NEW v \in Div(x1, x2) \cup Rem(x1, x2) \cup Divu(x1, x2) \cup Remu(x1, x2),
             x1' = v, UNCHANGED <<xlen, x2>>
      PROVE  MulInv'
  BY <1>3, <1>7, DivisionExtended, Zenon
<1>8. ASSUME xlen = Double,
             NEW v \in Mulw(x1, x2) \cup Divw(x1, x2) \cup Divuw(x1, x2) \cup Remw(x1, x2) \cup Remuw(x1, x2),
             x1' = v, UNCHANGED <<xlen, x2>>
      PROVE  MulInv'
  BY <1>3, <1>8, WordFormsExtended, Zenon
<1> QED BY <1>1, <1>2, <1>5, <1>6, <1>7, <1>8, Zenon

\* The M extension agrees with the arithmetic of the integers, for any even number of
\* values of a word and over all operands: the high multiplications of arith.h, built
\* from half words, give the upper half of the exact product; a quotient and a remainder
\* go together; and a register of RV32 always holds a sign-extended word.
THEOREM MulAlwaysExact == MulSpec => []MExact
<1>1. MulInv => MExact
  BY MulInvExact
<1> QED BY <1>1, MulInitInv, MulStepInv, PTL DEF MulSpec

-----------------------------------------------------------------------------
(* PageWalk: the walk, level by level.                                     *)

\* A function of the levels that are left and the table the walk is at.
Miss(base) == [end |-> "fault", page |-> base, idx |-> 0, level |-> -1]
Down(f, k, mem, va, type, mode) ==
  [base \in Nat |-> IF k = 0 THEN Miss(base) ELSE Round(mem, va, type, mode, k - 1, base, f[k - 1])]
WalksDown(f, n, mem, va, type, mode) ==
  f = [k \in 0 .. n |-> Down(f, k, mem, va, type, mode)]

LEMMA WalksDownExist ==
  ASSUME NEW n \in Nat, NEW mem, NEW va, NEW type, NEW mode
  PROVE  \E f : WalksDown(f, n, mem, va, type, mode)
<1> DEFINE Is(f, k) == WalksDown(f, k, mem, va, type, mode)
           D(f, k) == Down(f, k, mem, va, type, mode)
           Bad == {k \in Nat : ~\E f : Is(f, k)}
<1>1. \A f, k : Is(f, k) <=> f = [i \in 0 .. k |-> D(f, i)]
  BY DEF WalksDown
<1>2. \A f, g : D(f, 0) = D(g, 0)
  BY DEF Down
<1>3. \A f, g : \A k \in Nat : k # 0 /\ f[k - 1] = g[k - 1] => D(f, k) = D(g, k)
  BY Zenon DEF Down
<1> HIDE DEF Is, D
<1>4. \E f : Is(f, 0)
  <2> DEFINE f == [i \in 0 .. 0 |-> D(0, 0)]
  <2>1. f = [i \in 0 .. 0 |-> D(f, i)]
    <3>1. \A i \in 0 .. 0 : i = 0
      OBVIOUS
    <3>2. D(f, 0) = D(0, 0)
      BY <1>2, Zenon
    <3>3. \A i \in 0 .. 0 : D(f, i) = D(0, 0)
      BY <3>1, <3>2, Zenon
    <3> QED BY <3>3, Zenon
  <2> QED BY <1>1, <2>1, Zenon
<1>5. ASSUME NEW k \in Nat, k # 0, \E f : Is(f, k - 1)
      PROVE  \E f : Is(f, k)
  <2>1. PICK f : Is(f, k - 1)
    BY <1>5
  <2> DEFINE g == [i \in 0 .. k |-> IF i = k THEN D(f, k) ELSE f[i]]
             h == [i \in 0 .. k |-> D(g, i)]
  <2>2. f = [i \in 0 .. k - 1 |-> D(f, i)]
    BY <1>1, <2>1, Zenon
  <2>3. k \in 0 .. k /\ k - 1 \in 0 .. k /\ k - 1 # k
    BY <1>5
  <2>4. \A i \in 0 .. k : i \in Nat /\ (i # k => i \in 0 .. k - 1)
    OBVIOUS
  <2>5. \A i \in 0 .. k : i # 0 => i - 1 \in 0 .. k /\ i - 1 # k
    OBVIOUS
  <2>6. \A i \in 0 .. k : g[i] = IF i = k THEN D(f, k) ELSE f[i]
    BY Zenon
  <2>7. \A i \in 0 .. k - 1 : f[i] = D(f, i)
    BY <2>2, Zenon
  <2>8. \A i \in 0 .. k : g[i] = D(f, i)
    BY <2>4, <2>6, <2>7, Zenon
  <2>9. \A i \in 0 .. k : i # 0 => g[i - 1] = f[i - 1]
    BY <2>5, <2>6, Zenon
  <2> HIDE DEF g
  <2>10. \A i \in 0 .. k : D(g, i) = D(f, i)
    BY <1>2, <1>3, <2>4, <2>9, Zenon
  <2>11. \A i \in 0 .. k : g[i] = D(g, i)
    BY <2>8, <2>10, Zenon
  <2>12. g = h
    BY <2>11, Zenon DEF g
  <2> QED BY <1>1, <2>12, Zenon
<1>6. Bad = {}
  <2> SUFFICES ASSUME Bad # {} PROVE FALSE
    OBVIOUS
  <2>1. PICK x \in Bad : \A y \in Bad : x <= y
    <3>1. Bad \in SUBSET Nat
      OBVIOUS
    <3> HIDE DEF Bad
    <3> QED BY <3>1, SmallestNat
  <2>2. x \in Nat /\ x # 0 /\ ~\E f : Is(f, x)
    BY <1>4
  <2>3. x - 1 \in Nat /\ ~(x <= x - 1)
    BY <2>2
  <2>4. \E f : Is(f, x - 1)
    BY <2>1, <2>3
  <2> QED BY <1>5, <2>2, <2>4
<1>7. \E f : Is(f, n)
  BY <1>6
<1> QED BY <1>7, Zenon DEF Is

\* The equations of a walk: where it ends with no level left, and with one more.
Steps(f, mem, va, type, mode) ==
  \A base \in Nat :
    /\ f[0][base] = Miss(base)
    /\ \A i \in 0 .. Levels - 1 : f[i + 1][base] = Round(mem, va, type, mode, i, base, f[i])

LEMMA WalkSteps ==
  ASSUME NEW mem, NEW va, NEW type, NEW mode
  PROVE  \E f : /\ Steps(f, mem, va, type, mode)
                /\ Walk(mem, va, type, mode) = f[IF Canonical(va) THEN Levels ELSE 0][Root]
<1> DEFINE From == CHOOSE f : WalksDown(f, Levels, mem, va, type, mode)
<1>1. Levels \in Nat
  BY PageWalkAssumption
<1>2. WalksDown(From, Levels, mem, va, type, mode)
  BY <1>1, WalksDownExist, Zenon
<1>3. Walk(mem, va, type, mode) = From[IF Canonical(va) THEN Levels ELSE 0][Root]
  BY Zenon DEF Walk, WalksDown, Down, Miss
<1> HIDE DEF From
<1>4. \A k \in 0 .. Levels : From[k] = Down(From, k, mem, va, type, mode)
  BY <1>2, Zenon DEF WalksDown
<1>5. ASSUME NEW base \in Nat PROVE From[0][base] = Miss(base)
  <2>1. 0 \in 0 .. Levels
    BY <1>1
  <2> QED BY <1>4, <2>1, Zenon DEF Down
<1>6. ASSUME NEW base \in Nat, NEW i \in 0 .. Levels - 1
      PROVE  From[i + 1][base] = Round(mem, va, type, mode, i, base, From[i])
  <2>1. i + 1 \in 0 .. Levels /\ i + 1 # 0 /\ (i + 1) - 1 = i
    BY <1>1
  <2>2. From[i + 1] = Down(From, i + 1, mem, va, type, mode)
    BY <1>4, <2>1, Zenon
  <2> QED BY <2>1, <2>2, Zenon DEF Down
<1> QED BY <1>3, <1>5, <1>6, Zenon DEF Steps

-----------------------------------------------------------------------------
(* PageWalk: the types, and where a walk ends.                             *)

IsMem(mem) == Root \in DOMAIN mem /\ DOMAIN mem \subseteq Nat /\ mem \in [DOMAIN mem -> [Indices -> Ptes]]

LEMMA PteType ==
  ASSUME NEW mem, IsMem(mem), NEW page \in DOMAIN mem, NEW idx \in Indices
  PROVE  mem[page][idx] \in Ptes /\ mem[page][idx].ppn \in Nat
<1>1. mem[page] \in [Indices -> Ptes]
  BY Zenon DEF IsMem
<1>2. mem[page][idx] \in Ptes
  BY <1>1, Zenon
<1> QED BY <1>2 DEF Ptes

LEMMA BitsTypes ==
  ASSUME NEW n \in Nat, NEW k \in Nat
  PROVE  /\ Low(n, k) \in 0 .. Pow2[k] - 1 /\ High(n, k) \in Nat
         /\ n \div Pow2[k] \in Nat /\ n = High(n, k) + Low(n, k)
         /\ (k = 0 => Low(n, k) = 0 /\ High(n, k) = n)
<1>1. Pow2[k] \in Nat /\ Pow2[k] > 0 /\ Pow2[0] = 1
  BY Pow2Values
<1> DEFINE m == Pow2[k]
<1> HIDE DEF m
<1>2. m \in Nat /\ m > 0
  BY <1>1 DEF m
<1>3. n % m \in 0 .. m - 1 /\ n \div m \in Nat /\ n = m * (n \div m) + (n % m)
  BY <1>2
<1>4. m * (n \div m) \in Nat
  BY <1>2, <1>3
<1>5. n - (n % m) \in Nat /\ n = (n - (n % m)) + (n % m)
  BY <1>3, <1>4
<1>6. n % 1 = 0 /\ n - 0 = n
  OBVIOUS
<1>7. k = 0 => n % m = 0
  BY <1>1, <1>6 DEF m
<1> QED BY <1>3, <1>5, <1>6, <1>7 DEF m, Low, High

LEMMA LevelBits == ASSUME NEW i \in Nat PROVE i * IdxBits \in Nat
BY PageWalkAssumption

LEMMA IndexType ==
  ASSUME NEW va \in Vpns, NEW i \in 0 .. Levels - 1
  PROVE  Index(va, i) \in Indices
<1>1. va \in Nat /\ i \in Nat
  BY PageWalkAssumption DEF Vpns
<1>2. i * IdxBits \in Nat /\ IdxBits \in Nat
  BY <1>1, LevelBits, PageWalkAssumption
<1>3. va \div Pow2[i * IdxBits] \in Nat
  BY <1>1, <1>2, BitsTypes
<1> QED BY <1>2, <1>3, BitsTypes DEF Index, Indices

\* A walk that ends at a leaf found one, at a level and in a table that are there.
Ended(w, mem, va, type, mode) ==
  /\ w.end \in {"absent", "fault", "leaf"}
  /\ w.end = "leaf" =>
       /\ w.page \in DOMAIN mem /\ w.level \in 0 .. Levels - 1 /\ w.idx \in Indices
       /\ Leaf(mem[w.page][w.idx], w.level, type, mode) /\ ~IsTable(mem[w.page][w.idx])

LEMMA RoundEnds ==
  ASSUME NEW mem, IsMem(mem), NEW va \in Vpns, NEW type, NEW mode, NEW i \in 0 .. Levels - 1,
         NEW next, \A b \in Nat : Ended(next[b], mem, va, type, mode), NEW base \in Nat
  PROVE  Ended(Round(mem, va, type, mode, i, base, next), mem, va, type, mode)
<1> DEFINE idx == Index(va, i)
           pte == mem[base][idx]
           r   == Round(mem, va, type, mode, i, base, next)
           Stop(end) == [end |-> end, page |-> base, idx |-> idx, level |-> i]
<1>1. idx \in Indices
  BY IndexType
<1>2. CASE base \notin DOMAIN mem
  <2>1. r = [end |-> "absent", page |-> base, idx |-> 0, level |-> i]
    BY <1>2, Zenon DEF Round
  <2>2. r.end = "absent"
    BY <2>1
  <2> QED BY <2>2 DEF Ended
<1>3. CASE base \in DOMAIN mem
  <2>1. pte.ppn \in Nat
    BY <1>1, <1>3, PteType
  <2>2. r = Stop("fault") \/ r = next[pte.ppn]
        \/ (r = Stop("leaf") /\ Leaf(pte, i, type, mode) /\ ~IsTable(pte))
    BY <1>3, Zenon DEF Round
  <2>3. CASE r = Stop("fault")
    <3>1. r.end = "fault"
      BY <2>3
    <3> QED BY <3>1 DEF Ended
  <2>4. CASE r = next[pte.ppn]
    BY <2>1, <2>4, Zenon
  <2>5. CASE r = Stop("leaf") /\ Leaf(pte, i, type, mode) /\ ~IsTable(pte)
    <3>1. r.end = "leaf" /\ r.page = base /\ r.idx = idx /\ r.level = i
      BY <2>5
    <3>2. r.end \in {"absent", "fault", "leaf"}
      BY <3>1
    <3> HIDE DEF r, idx
    <3>3. Leaf(mem[r.page][r.idx], r.level, type, mode) /\ ~IsTable(mem[r.page][r.idx])
      BY <2>5, <3>1, Zenon
    <3>4. r.page \in DOMAIN mem /\ r.level \in 0 .. Levels - 1 /\ r.idx \in Indices
      BY <1>1, <1>3, <3>1, Zenon
    <3> QED BY <3>2, <3>3, <3>4, Zenon DEF Ended, r
  <2> QED BY <2>2, <2>3, <2>4, <2>5
<1> QED BY <1>2, <1>3

LEMMA WalkEnds ==
  ASSUME NEW mem, IsMem(mem), NEW va \in Vpns, NEW type, NEW mode
  PROVE  Ended(Walk(mem, va, type, mode), mem, va, type, mode)
<1>1. PICK f : /\ Steps(f, mem, va, type, mode)
               /\ Walk(mem, va, type, mode) = f[IF Canonical(va) THEN Levels ELSE 0][Root]
  BY WalkSteps
<1> DEFINE Good(k) == \A b \in Nat : Ended(f[k][b], mem, va, type, mode)
           Bad == {k \in 0 .. Levels : ~Good(k)}
<1>2. Levels \in Nat /\ Root \in Nat /\ 0 \in 0 .. Levels /\ Levels \in 0 .. Levels
  BY PageWalkAssumption
<1>3. Good(0)
  <2>1. \A b \in Nat : f[0][b] = Miss(b)
    BY <1>1, Zenon DEF Steps
  <2>2. \A b \in Nat : Ended(Miss(b), mem, va, type, mode)
    BY DEF Ended, Miss
  <2> QED BY <2>1, <2>2, Zenon
<1>4. ASSUME NEW i \in 0 .. Levels - 1, Good(i) PROVE Good(i + 1)
  <2>1. \A b \in Nat : f[i + 1][b] = Round(mem, va, type, mode, i, b, f[i])
    BY <1>1, Zenon DEF Steps
  <2>2. \A b \in Nat : Ended(Round(mem, va, type, mode, i, b, f[i]), mem, va, type, mode)
    BY <1>4, RoundEnds, Zenon
  <2> QED BY <2>1, <2>2, Zenon
<1> HIDE DEF Good
<1>5. Bad = {}
  <2> SUFFICES ASSUME Bad # {} PROVE FALSE
    OBVIOUS
  <2>1. PICK x \in Bad : \A y \in Bad : x <= y
    <3>1. Bad \in SUBSET Nat
      BY <1>2
    <3> HIDE DEF Bad
    <3> QED BY <3>1, SmallestNat
  <2>2. x \in 0 .. Levels /\ x # 0 /\ ~Good(x)
    BY <1>3
  <2>3. x - 1 \in 0 .. Levels - 1 /\ x - 1 \in 0 .. Levels /\ ~(x <= x - 1) /\ (x - 1) + 1 = x
    BY <1>2, <2>2
  <2>4. Good(x - 1)
    BY <2>1, <2>3
  <2> QED BY <1>4, <2>2, <2>3, <2>4
<1>6. \A k \in 0 .. Levels : Good(k)
  BY <1>5
<1> DEFINE start == IF Canonical(va) THEN Levels ELSE 0
<1>7. start \in 0 .. Levels
  BY <1>2
<1> HIDE DEF start
<1>8. Ended(f[start][Root], mem, va, type, mode)
  BY <1>2, <1>6, <1>7, Zenon DEF Good
<1> QED BY <1>1, <1>8, Zenon DEF start

-----------------------------------------------------------------------------
(* PageWalk: A and D bits, set or cleared in leaves, leave a walk as it is.  *)

\* PTEs that differ in these bits only, if at all.
Alike(p, q) ==
  \/ p = q
  \/ p.ppn = q.ppn /\ p.flags \ {"A", "D"} = q.flags \ {"A", "D"} /\ ~IsTable(p) /\ ~IsTable(q)

SameBut(mem, new) ==
  /\ IsMem(mem) /\ IsMem(new) /\ DOMAIN mem = DOMAIN new
  /\ \A page \in DOMAIN mem : \A idx \in Indices : Alike(mem[page][idx], new[page][idx])

LEMMA AlikePtes ==
  ASSUME NEW p, NEW q, Alike(p, q), "HADE" \in status, NEW i, NEW type, NEW mode
  PROVE  /\ p.ppn = q.ppn /\ ("N" \in p.flags <=> "N" \in q.flags)
         /\ (Reserved(p) <=> Reserved(q)) /\ (IsTable(p) <=> IsTable(q))
         /\ (IsTable(p) => p = q)
         /\ (Leaf(p, i, type, mode) <=> Leaf(q, i, type, mode))
<1>1. CASE p = q
  BY <1>1, Zenon
<1>2. CASE p.ppn = q.ppn /\ p.flags \ {"A", "D"} = q.flags \ {"A", "D"} /\ ~IsTable(p) /\ ~IsTable(q)
  <2>1. \A x : x # "A" /\ x # "D" => (x \in p.flags <=> x \in q.flags)
    BY <1>2
  <2>2. /\ "N" \in p.flags <=> "N" \in q.flags
        /\ "RSVD" \in p.flags <=> "RSVD" \in q.flags
        /\ "PBMT" \in p.flags <=> "PBMT" \in q.flags
        /\ "PBMT3" \in p.flags <=> "PBMT3" \in q.flags
    BY <2>1
  <2>3. /\ "V" \in p.flags <=> "V" \in q.flags
        /\ "R" \in p.flags <=> "R" \in q.flags
        /\ "W" \in p.flags <=> "W" \in q.flags
        /\ "X" \in p.flags <=> "X" \in q.flags
        /\ "U" \in p.flags <=> "U" \in q.flags
    BY <2>1
  <2>4. {"R", "W"} \subseteq p.flags <=> {"R", "W"} \subseteq q.flags
    BY <2>3
  <2>5. Forbidden(p, type, mode) <=> Forbidden(q, type, mode)
    BY <2>3, <2>4, Zenon DEF Forbidden
  <2>6. Misaligned(p, i) <=> Misaligned(q, i)
    BY <1>2, Zenon DEF Misaligned
  <2>7. Leaf(p, i, type, mode) <=> Leaf(q, i, type, mode)
    BY <2>5, <2>6, Zenon DEF Leaf
  <2>8. Reserved(p) <=> Reserved(q)
    BY <2>2, Zenon DEF Reserved
  <2> QED BY <1>2, <2>2, <2>7, <2>8, Zenon
<1> QED BY <1>1, <1>2, Zenon DEF Alike

LEMMA SameRound ==
  ASSUME NEW mem, NEW new, SameBut(mem, new), "HADE" \in status,
         NEW va \in Vpns, NEW type, NEW mode, NEW i \in 0 .. Levels - 1,
         NEW f, NEW g, \A b \in Nat : f[b] = g[b], NEW base \in Nat
  PROVE  Round(mem, va, type, mode, i, base, f) = Round(new, va, type, mode, i, base, g)
<1> DEFINE p == mem[base][Index(va, i)]
           q == new[base][Index(va, i)]
<1>1. CASE base \notin DOMAIN mem
  <2>1. base \notin DOMAIN new
    BY <1>1, Zenon DEF SameBut
  <2> QED BY <1>1, <2>1, Zenon DEF Round
<1>2. CASE base \in DOMAIN mem
  <2>1. base \in DOMAIN new /\ Alike(p, q) /\ p.ppn \in Nat
    <3>1. Index(va, i) \in Indices
      BY IndexType
    <3>2. IsMem(mem)
      BY Zenon DEF SameBut
    <3> QED BY <1>2, <3>1, <3>2, PteType, Zenon DEF SameBut
  <2>2. /\ (Reserved(p) <=> Reserved(q)) /\ (IsTable(p) <=> IsTable(q)) /\ (IsTable(p) => p = q)
        /\ (Leaf(p, i, type, mode) <=> Leaf(q, i, type, mode))
    BY <2>1, AlikePtes
  <2>3. CASE IsTable(p)
    <3>1. p = q /\ f[p.ppn] = g[q.ppn]
      BY <2>1, <2>2, <2>3, Zenon
    <3> QED BY <1>2, <2>1, <2>2, <2>3, <3>1, Zenon DEF Round
  <2>4. CASE ~IsTable(p)
    <3>1. ~IsTable(q)
      BY <2>2, <2>4, Zenon
    <3> QED BY <1>2, <2>1, <2>2, <2>4, <3>1, Zenon DEF Round
  <2> QED BY <2>3, <2>4
<1> QED BY <1>1, <1>2

LEMMA SameWalk ==
  ASSUME NEW mem, NEW new, SameBut(mem, new), "HADE" \in status,
         NEW va \in Vpns, NEW type, NEW mode
  PROVE  Walk(mem, va, type, mode) = Walk(new, va, type, mode)
<1>1. PICK f : /\ Steps(f, mem, va, type, mode)
               /\ Walk(mem, va, type, mode) = f[IF Canonical(va) THEN Levels ELSE 0][Root]
  BY WalkSteps
<1>2. PICK g : /\ Steps(g, new, va, type, mode)
               /\ Walk(new, va, type, mode) = g[IF Canonical(va) THEN Levels ELSE 0][Root]
  BY WalkSteps
<1> DEFINE Same(k) == \A b \in Nat : f[k][b] = g[k][b]
           Bad == {k \in 0 .. Levels : ~Same(k)}
<1>3. Levels \in Nat /\ Root \in Nat /\ 0 \in 0 .. Levels /\ Levels \in 0 .. Levels
  BY PageWalkAssumption
<1>4. Same(0)
  BY <1>1, <1>2, Zenon DEF Steps
<1>5. ASSUME NEW i \in 0 .. Levels - 1, Same(i) PROVE Same(i + 1)
  <2>1. \A b \in Nat : f[i + 1][b] = Round(mem, va, type, mode, i, b, f[i])
    BY <1>1, Zenon DEF Steps
  <2>2. \A b \in Nat : g[i + 1][b] = Round(new, va, type, mode, i, b, g[i])
    BY <1>2, Zenon DEF Steps
  <2>3. \A b \in Nat : Round(mem, va, type, mode, i, b, f[i]) = Round(new, va, type, mode, i, b, g[i])
    BY <1>5, SameRound
  <2> QED BY <2>1, <2>2, <2>3, Zenon
<1> HIDE DEF Same
<1>6. Bad = {}
  <2> SUFFICES ASSUME Bad # {} PROVE FALSE
    OBVIOUS
  <2>1. PICK x \in Bad : \A y \in Bad : x <= y
    <3>1. Bad \in SUBSET Nat
      BY <1>3
    <3> HIDE DEF Bad
    <3> QED BY <3>1, SmallestNat
  <2>2. x \in 0 .. Levels /\ x # 0 /\ ~Same(x)
    BY <1>4
  <2>3. x - 1 \in 0 .. Levels - 1 /\ x - 1 \in 0 .. Levels /\ ~(x <= x - 1) /\ (x - 1) + 1 = x
    BY <1>3, <2>2
  <2>4. Same(x - 1)
    BY <2>1, <2>3
  <2> QED BY <1>5, <2>2, <2>3, <2>4
<1> DEFINE start == IF Canonical(va) THEN Levels ELSE 0
<1>7. start \in 0 .. Levels
  BY <1>3
<1> HIDE DEF start
<1>8. Same(start)
  BY <1>6, <1>7
<1>9. f[start][Root] = g[start][Root]
  BY <1>3, <1>8, Zenon DEF Same
<1> QED BY <1>1, <1>2, <1>9 DEF start

LEMMA SameTranslation ==
  ASSUME NEW mem, NEW new, SameBut(mem, new), "HADE" \in status,
         NEW va \in Vpns, NEW type, NEW mode
  PROVE  Translated(new, va, type, mode) = Translated(mem, va, type, mode)
<1> DEFINE w == Walk(mem, va, type, mode)
<1>1. Walk(new, va, type, mode) = w
  BY SameWalk
<1>2. Ended(w, mem, va, type, mode)
  BY WalkEnds, Zenon DEF SameBut
<1> HIDE DEF w
<1>3. CASE w.end = "leaf"
  <2> DEFINE p == mem[w.page][w.idx]
             q == new[w.page][w.idx]
  <2>1. Alike(p, q)
    BY <1>2, <1>3, Zenon DEF Ended, SameBut
  <2>2. p.ppn = q.ppn /\ ("N" \in p.flags <=> "N" \in q.flags)
    BY <2>1, AlikePtes
  <2>3. BadNapot(q, w.level) <=> BadNapot(p, w.level)
    BY <2>2, Zenon DEF BadNapot
  <2>4. PageBase(va, q, w.level) = PageBase(va, p, w.level)
    BY <2>2, Zenon DEF PageBase
  <2> QED BY <1>1, <1>3, <2>3, <2>4, Zenon DEF Translated, w
<1>4. CASE w.end = "absent"
  BY <1>1, <1>4, Zenon DEF Translated, w
<1>5. CASE w.end = "fault"
  BY <1>1, <1>5, Zenon DEF Translated, w
<1> QED BY <1>2, <1>3, <1>4, <1>5 DEF Ended

-----------------------------------------------------------------------------
(* PageWalk: what a leaf maps.                                             *)

\* A page of memory that a translation ends at is that of a sound leaf.
LEMMA PageFound ==
  ASSUME NEW mem, IsMem(mem), NEW va \in Vpns, NEW type, NEW mode,
         Translated(mem, va, type, mode) >= 0
  PROVE  LET w == Walk(mem, va, type, mode)
             p == mem[w.page][w.idx]
         IN  /\ w.end = "leaf" /\ ~BadNapot(p, w.level)
             /\ Translated(mem, va, type, mode) = PageBase(va, p, w.level)
<1> DEFINE w == Walk(mem, va, type, mode)
           p == mem[w.page][w.idx]
<1>1. Ended(w, mem, va, type, mode)
  BY WalkEnds, Zenon
<1>2. Translated(mem, va, type, mode) =
        IF w.end = "absent" THEN Absent
        ELSE IF w.end = "fault" \/ BadNapot(p, w.level) THEN Fault ELSE PageBase(va, p, w.level)
  BY Zenon DEF Translated
<1> HIDE DEF w, p
<1>3. ~(Absent >= 0) /\ ~(Fault >= 0)
  BY DEF Absent, Fault
<1>4. w.end \in {"absent", "fault", "leaf"}
  BY <1>1, Zenon DEF Ended
<1>5. w.end = "leaf" /\ ~BadNapot(p, w.level)
  BY <1>2, <1>3, <1>4, Zenon
<1>6. Translated(mem, va, type, mode) = PageBase(va, p, w.level)
  BY <1>2, <1>5, Zenon
<1> QED BY <1>5, <1>6, Zenon DEF w, p

LEMMA LeafMaps ==
  ASSUME NEW p, p.ppn \in Nat, NEW i \in Nat, NEW va \in Vpns
  PROVE  PageBase(va, p, i) \in Nat /\ (~BadNapot(p, i) => PageBase(va, p, i) \in MappedBy(p, i))
<1> DEFINE x == Low(va, NapotBits)  y == Low(va, i * IdxBits)  z == Low(va, 0)
<1>1. va \in Nat /\ NapotBits \in Nat /\ i * IdxBits \in Nat /\ IdxBits \in Nat
  BY LevelBits, PageWalkAssumption DEF Vpns
<1>2. x \in 0 .. Pow2[NapotBits] - 1 /\ y \in 0 .. Pow2[i * IdxBits] - 1 /\ z = 0
  BY <1>1, BitsTypes
<1>3. High(p.ppn, NapotBits) \in Nat /\ High(p.ppn, 0) = p.ppn
  BY <1>1, BitsTypes
<1>4. Pow2[NapotBits] \in Nat /\ Pow2[i * IdxBits] \in Nat
  BY <1>1, Pow2Values
<1>5. CASE "N" \in p.flags
  <2>1. PageBase(va, p, i) = High(p.ppn, NapotBits) + x + y
    BY <1>5, Zenon DEF PageBase
  <2>2. PageBase(va, p, i) \in Nat
    <3> HIDE DEF x, y
    <3> QED BY <1>2, <1>3, <1>4, <2>1
  <2>3. ASSUME ~BadNapot(p, i) PROVE PageBase(va, p, i) \in MappedBy(p, i)
    <3>1. i = 0
      BY <1>5, <2>3 DEF BadNapot
    <3>2. 0 * IdxBits = 0
      BY <1>1
    <3>3. y = 0
      BY <1>1, <3>1, <3>2, BitsTypes
    <3> HIDE DEF x, y
    <3>4. PageBase(va, p, i) = High(p.ppn, NapotBits) + x
      BY <1>2, <1>3, <1>4, <2>1, <3>3
    <3> QED BY <1>2, <1>5, <3>4, Zenon DEF MappedBy
  <2> QED BY <2>2, <2>3
<1>6. CASE "N" \notin p.flags
  <2>1. PageBase(va, p, i) = High(p.ppn, 0) + z + y
    BY <1>6, Zenon DEF PageBase
  <2> HIDE DEF x, y, z
  <2>2. PageBase(va, p, i) = p.ppn + y /\ PageBase(va, p, i) \in Nat
    BY <1>2, <1>3, <1>4, <2>1
  <2> QED BY <1>2, <1>6, <2>2, Zenon DEF MappedBy
<1> QED BY <1>5, <1>6

\* Where a leaf maps an address to, but for the bits below the leaf's size.
LEMMA LeafMoves ==
  ASSUME NEW p, p.ppn \in Nat, NEW i \in Nat, ~BadNapot(p, i), NEW va \in Vpns, NEW vb \in Vpns,
         LET size == IF "N" \in p.flags THEN NapotBits ELSE i * IdxBits
         IN  High(va, size) = High(vb, size)
  PROVE  PageBase(va, p, i) - va = PageBase(vb, p, i) - vb
<1> DEFINE size == IF "N" \in p.flags THEN NapotBits ELSE i * IdxBits
           base == IF "N" \in p.flags THEN High(p.ppn, NapotBits) ELSE p.ppn
<1>1. NapotBits \in Nat /\ i * IdxBits \in Nat /\ IdxBits \in Nat
  BY LevelBits, PageWalkAssumption
<1>2. size \in Nat /\ base \in Nat
  BY <1>1, BitsTypes
<1>3. ASSUME NEW v \in Vpns
      PROVE  PageBase(v, p, i) = base + Low(v, size)
  <2>1. v \in Nat
    BY DEF Vpns
  <2>2. Low(v, 0) = 0 /\ High(p.ppn, 0) = p.ppn
    BY <2>1, BitsTypes
  <2>3. CASE "N" \in p.flags
    <3>1. i = 0 /\ 0 * IdxBits = 0
      BY <1>1, <2>3 DEF BadNapot
    <3>2. PageBase(v, p, i) = High(p.ppn, NapotBits) + Low(v, NapotBits) + Low(v, i * IdxBits)
      BY <2>3, Zenon DEF PageBase
    <3>3. Low(v, i * IdxBits) = 0
      BY <2>2, <3>1
    <3>4. Low(v, NapotBits) \in Int /\ High(p.ppn, NapotBits) \in Int
      <4>1. Low(v, NapotBits) \in 0 .. Pow2[NapotBits] - 1 /\ High(p.ppn, NapotBits) \in Nat
        BY <1>1, <2>1, BitsTypes
      <4>2. Pow2[NapotBits] \in Nat
        BY <1>1, Pow2Values
      <4> QED BY <4>1, <4>2
    <3> QED BY <2>3, <3>2, <3>3, <3>4
  <2>4. CASE "N" \notin p.flags
    <3>1. PageBase(v, p, i) = High(p.ppn, 0) + Low(v, 0) + Low(v, i * IdxBits)
      BY <2>4, Zenon DEF PageBase
    <3>2. Low(v, i * IdxBits) \in Int
      BY <1>1, <2>1, BitsTypes, Pow2Values
    <3> QED BY <2>2, <2>4, <3>1, <3>2
  <2> QED BY <2>3, <2>4
<1>4. High(va, size) = High(vb, size)
  BY Zenon
<1>5. PageBase(va, p, i) = base + Low(va, size) /\ PageBase(vb, p, i) = base + Low(vb, size)
  BY <1>3, Zenon
<1> HIDE DEF size, base
<1>6. /\ va = High(va, size) + Low(va, size) /\ vb = High(vb, size) + Low(vb, size)
      /\ High(va, size) \in Nat /\ Low(va, size) \in Int /\ Low(vb, size) \in Int
  <2>1. va \in Nat /\ vb \in Nat
    BY DEF Vpns
  <2>2. Low(va, size) \in 0 .. Pow2[size] - 1 /\ Low(vb, size) \in 0 .. Pow2[size] - 1
    BY <1>2, <2>1, BitsTypes
  <2>3. Pow2[size] \in Nat
    BY <1>2, Pow2Values
  <2>4. va = High(va, size) + Low(va, size) /\ vb = High(vb, size) + Low(vb, size) /\ High(va, size) \in Nat
    BY <1>2, <2>1, BitsTypes
  <2> QED BY <2>2, <2>3, <2>4
<1> QED BY <1>2, <1>4, <1>5, <1>6

-----------------------------------------------------------------------------
(* PageWalk: the steps.                                                    *)

\* A PTE's flags are written: the bits of one leaf that an access or a cleaning leaves.
Written(new, page, idx, flags) ==
  /\ page \in DOMAIN tables /\ idx \in Indices
  /\ new = [tables EXCEPT ![page][idx].flags = flags]

\* What is and what is not written.
Effect(new, page, idx, flags) ==
  /\ DOMAIN new = DOMAIN tables
  /\ \A g \in DOMAIN tables : DOMAIN new[g] = Indices /\ DOMAIN tables[g] = Indices
  /\ new[page][idx].ppn = tables[page][idx].ppn /\ new[page][idx].flags = flags
  /\ new[page][idx] = [tables[page][idx] EXCEPT !.flags = flags]
  /\ \A g \in DOMAIN tables : \A j \in Indices : g # page \/ j # idx => new[g][j] = tables[g][j]

LEMMA WrittenPtes ==
  ASSUME IsMem(tables), NEW new, NEW page, NEW idx, NEW flags, Written(new, page, idx, flags)
  PROVE  Effect(new, page, idx, flags)
<1>1. \A g \in DOMAIN tables : tables[g] \in [Indices -> Ptes]
  BY Zenon DEF IsMem
<1>2. tables[page][idx] \in Ptes /\ page \in DOMAIN tables /\ idx \in Indices
  BY <1>1, Zenon DEF Written
<1> DEFINE pte == [tables[page][idx] EXCEPT !.flags = flags]
           table == [tables[page] EXCEPT ![idx] = pte]
<1>3. new = [tables EXCEPT ![page] = table]
  BY Zenon DEF Written
<1>4. pte.ppn = tables[page][idx].ppn /\ pte.flags = flags
  BY <1>2 DEF Ptes
<1> HIDE DEF pte
<1>5. DOMAIN table = Indices /\ table[idx] = pte /\ \A j \in Indices : j # idx => table[j] = tables[page][j]
  BY <1>1, <1>2
<1> HIDE DEF table
<1>6. /\ DOMAIN new = DOMAIN tables /\ new[page] = table
      /\ \A g \in DOMAIN tables : g # page => new[g] = tables[g]
  BY <1>2, <1>3
<1>7. \A g \in DOMAIN tables : DOMAIN new[g] = Indices /\ DOMAIN tables[g] = Indices
  <2>1. \A g \in DOMAIN tables : DOMAIN tables[g] = Indices
    BY <1>1
  <2> QED BY <1>5, <1>6, <2>1, Zenon
<1>8. new[page][idx] = pte
  BY <1>5, <1>6, Zenon
<1>9. \A g \in DOMAIN tables : \A j \in Indices : g # page \/ j # idx => new[g][j] = tables[g][j]
  BY <1>5, <1>6, Zenon
<1>10. pte = [tables[page][idx] EXCEPT !.flags = flags]
  BY Zenon DEF pte
<1> QED BY <1>4, <1>6, <1>7, <1>8, <1>9, <1>10, Zenon DEF Effect

LEMMA WrittenMem ==
  ASSUME IsMem(tables), NEW new, NEW page, NEW idx, NEW flags, Written(new, page, idx, flags),
         flags \in SUBSET {"V", "R", "W", "X", "U", "A", "D", "N", "PBMT", "PBMT3", "RSVD"}
  PROVE  IsMem(new)
<1>1. page \in DOMAIN tables /\ idx \in Indices /\ Effect(new, page, idx, flags)
  BY WrittenPtes, Zenon DEF Written
<1>2. tables[page][idx] \in Ptes
  BY <1>1, PteType, Zenon
<1>3. [tables[page][idx] EXCEPT !.flags = flags] \in Ptes
  BY <1>2 DEF Ptes
<1>4. new[page][idx] = [tables[page][idx] EXCEPT !.flags = flags]
      /\ \A g \in DOMAIN tables : \A j \in Indices : g # page \/ j # idx => new[g][j] = tables[g][j]
  BY <1>1, Zenon DEF Effect
<1>5. \A g \in DOMAIN tables : \A j \in Indices : new[g][j] \in Ptes
  <2>1. ASSUME NEW g \in DOMAIN tables, NEW j \in Indices PROVE new[g][j] \in Ptes
    <3>1. tables[g][j] \in Ptes
      BY PteType
    <3> QED BY <1>3, <1>4, <3>1, Zenon
  <2> QED BY <2>1, Zenon
<1>6. \A g \in DOMAIN tables : tables[g] \in [Indices -> Ptes]
  BY Zenon DEF IsMem
<1> DEFINE pte == [tables[page][idx] EXCEPT !.flags = flags]
           table == [tables[page] EXCEPT ![idx] = pte]
<1>7. new = [tables EXCEPT ![page] = table]
  BY Zenon DEF Written
<1>8. table \in [Indices -> Ptes]
  <2>1. pte \in Ptes
    BY <1>3
  <2> HIDE DEF pte
  <2> QED BY <1>1, <1>6, <2>1
<1> HIDE DEF table
<1>9. tables \in [DOMAIN tables -> [Indices -> Ptes]] /\ Root \in DOMAIN tables /\ DOMAIN tables \subseteq Nat
  BY Zenon DEF IsMem
<1>10. new \in [DOMAIN tables -> [Indices -> Ptes]]
  BY <1>7, <1>8, <1>9
<1>11. DOMAIN new = DOMAIN tables
  BY <1>1, Zenon DEF Effect
<1> QED BY <1>9, <1>10, <1>11 DEF IsMem

\* Writing A and D bits of a PTE that is not a table.
LEMMA WrittenAlike ==
  ASSUME IsMem(tables), NEW new, NEW page, NEW idx, NEW flags, Written(new, page, idx, flags),
         flags \ {"A", "D"} = tables[page][idx].flags \ {"A", "D"}, ~IsTable(tables[page][idx])
  PROVE  SameBut(tables, new)
<1> DEFINE p == tables[page][idx]  q == new[page][idx]
<1>1. page \in DOMAIN tables /\ idx \in Indices /\ Effect(new, page, idx, flags)
  BY WrittenPtes, Zenon DEF Written
<1>2. p.flags \in SUBSET {"V", "R", "W", "X", "U", "A", "D", "N", "PBMT", "PBMT3", "RSVD"}
  BY <1>1, PteType DEF Ptes
<1>3. q.ppn = p.ppn /\ q.flags = flags
      /\ \A g \in DOMAIN tables : \A j \in Indices : g # page \/ j # idx => new[g][j] = tables[g][j]
  BY <1>1, Zenon DEF Effect
<1>4. \A x : x # "A" /\ x # "D" => (x \in flags <=> x \in p.flags)
  BY Zenon
<1>5. flags \in SUBSET {"V", "R", "W", "X", "U", "A", "D", "N", "PBMT", "PBMT3", "RSVD"}
  BY <1>2, <1>4
<1>6. IsMem(new)
  BY <1>5, WrittenMem, Zenon
<1>7. ~IsTable(q)
  <2>1. /\ "V" \in flags <=> "V" \in p.flags
        /\ "R" \in flags <=> "R" \in p.flags
        /\ "W" \in flags <=> "W" \in p.flags
        /\ "X" \in flags <=> "X" \in p.flags
    BY <1>4
  <2>2. flags \cap {"V", "R", "W", "X"} = p.flags \cap {"V", "R", "W", "X"}
    BY <2>1
  <2>3. p.flags \cap {"V", "R", "W", "X"} # {"V"}
    BY Zenon DEF IsTable
  <2> QED BY <1>3, <2>2, <2>3, Zenon DEF IsTable
<1>8. Alike(p, q)
  <2>1. q.flags \ {"A", "D"} = p.flags \ {"A", "D"}
    BY <1>3, Zenon
  <2> QED BY <1>3, <1>7, <2>1, Zenon DEF Alike
<1>9. \A g \in DOMAIN tables : \A j \in Indices : Alike(tables[g][j], new[g][j])
  BY <1>3, <1>8, Zenon DEF Alike
<1>10. DOMAIN tables = DOMAIN new
  BY <1>1, Zenon DEF Effect
<1> QED BY <1>6, <1>9, <1>10, Zenon DEF SameBut

\* What an access or a cleaning does to the tables.
LEMMA AccessWrites ==
  ASSUME IsMem(tables), NEW va \in Vpns, NEW type \in Kinds, NEW mode \in Privs, Access(va, type, mode)
  PROVE  LET w == Walk(tables, va, type, mode)
             p == tables[w.page][w.idx]
         IN  \/ w.end # "leaf" /\ tables' = tables
             \/ /\ w.end = "leaf" /\ ~IsTable(p) /\ Leaf(p, w.level, type, mode) /\ w.level \in 0 .. Levels - 1
                /\ Written(tables', w.page, w.idx, p.flags \cup AdBits(type))
<1> DEFINE w == Walk(tables, va, type, mode)
           p == tables[w.page][w.idx]
<1>1. Ended(w, tables, va, type, mode)
  BY WalkEnds, Zenon
<1>2. tables' = IF w.end = "leaf" THEN PteStore(w, type) ELSE tables
  BY Zenon DEF Access
<1>3. PteStore(w, type) = [tables EXCEPT ![w.page][w.idx].flags = p.flags \cup AdBits(type)]
  BY DEF PteStore
<1> HIDE DEF w, p
<1>4. CASE w.end = "leaf"
  <2>1. w.page \in DOMAIN tables /\ w.level \in 0 .. Levels - 1 /\ w.idx \in Indices
        /\ Leaf(p, w.level, type, mode) /\ ~IsTable(p)
    BY <1>1, <1>4, Zenon DEF Ended, p
  <2>2. Written(tables', w.page, w.idx, p.flags \cup AdBits(type))
    BY <1>2, <1>3, <1>4, <2>1, Zenon DEF Written
  <2> QED BY <1>4, <2>1, <2>2, Zenon DEF w, p
<1>5. CASE w.end # "leaf"
  BY <1>2, <1>5, Zenon DEF w
<1> QED BY <1>4, <1>5

LEMMA CleanWrites ==
  ASSUME IsMem(tables), NEW page \in DOMAIN tables, NEW idx \in DOMAIN tables[page], CleanPte(page, idx)
  PROVE  /\ idx \in Indices /\ ~IsTable(tables[page][idx])
         /\ Written(tables', page, idx, tables[page][idx].flags \ {"D"})
<1>1. tables[page] \in [Indices -> Ptes]
  BY Zenon DEF IsMem
<1>2. idx \in Indices
  BY <1>1
<1>3. tables' = [tables EXCEPT ![page][idx].flags = tables[page][idx].flags \ {"D"}]
  BY DEF CleanPte
<1>4. ~IsTable(tables[page][idx])
  BY Zenon DEF CleanPte
<1> QED BY <1>2, <1>3, <1>4, Zenon DEF Written

\* Every step writes A and D bits of leaves, if anything.
LEMMA StepsAlike ==
  ASSUME IsMem(tables), [WalkNext]_walkVars
  PROVE  tables' = tables \/ SameBut(tables, tables')
<1>1. ASSUME NEW va \in Vpns, NEW type \in Kinds, NEW mode \in Privs, Access(va, type, mode)
      PROVE  tables' = tables \/ SameBut(tables, tables')
  <2> DEFINE w == Walk(tables, va, type, mode)
             p == tables[w.page][w.idx]
  <2>1. \/ tables' = tables
        \/ ~IsTable(p) /\ Written(tables', w.page, w.idx, p.flags \cup AdBits(type))
    BY <1>1, AccessWrites, Zenon
  <2> HIDE DEF w
  <2>2. AdBits(type) \subseteq {"A", "D"}
    BY DEF AdBits
  <2>3. (p.flags \cup AdBits(type)) \ {"A", "D"} = p.flags \ {"A", "D"}
    BY <2>2
  <2> QED BY <2>1, <2>3, WrittenAlike, Zenon
<1>2. ASSUME NEW page \in DOMAIN tables, NEW idx \in DOMAIN tables[page], CleanPte(page, idx)
      PROVE  SameBut(tables, tables')
  <2>1. (tables[page][idx].flags \ {"D"}) \ {"A", "D"} = tables[page][idx].flags \ {"A", "D"}
    OBVIOUS
  <2> QED BY <1>2, <2>1, CleanWrites, WrittenAlike, Zenon
<1>3. CASE UNCHANGED walkVars
  BY <1>3 DEF walkVars
<1> QED BY <1>1, <1>2, <1>3, Zenon DEF WalkNext

-----------------------------------------------------------------------------
(* PageWalk: the invariant and the properties.                             *)

WalkTypeOK == IsMem(tables)

LEMMA WalkTypesAlways == WalkSpec => []WalkTypeOK
<1>1. WalkInit => WalkTypeOK
  BY PageWalkAssumption, Zenon DEF WalkInit, WalkTypeOK, IsMem
<1>2. WalkTypeOK /\ [WalkNext]_walkVars => WalkTypeOK'
  <2> SUFFICES ASSUME IsMem(tables), [WalkNext]_walkVars PROVE IsMem(tables')
    BY DEF WalkTypeOK, IsMem
  <2>1. tables' = tables \/ SameBut(tables, tables')
    BY StepsAlike, Zenon
  <2>2. CASE tables' = tables
    BY <2>2, Zenon
  <2>3. CASE SameBut(tables, tables')
    BY <2>3, Zenon DEF SameBut
  <2> QED BY <2>1, <2>2, <2>3
<1> QED BY <1>1, <1>2, PTL DEF WalkSpec

\* A PTE that maps pa and is dirty.
DirtyAt(mem, pa, page, idx, i) == "D" \in mem[page][idx].flags /\ pa \in MappedBy(mem[page][idx], i)

LEMMA MappedAlike ==
  ASSUME NEW p, NEW q, p.ppn = q.ppn, "N" \in p.flags <=> "N" \in q.flags, NEW i
  PROVE  MappedBy(p, i) = MappedBy(q, i)
BY Zenon DEF MappedBy

\* Writing flags keeps what is dirty dirty, but for the PTE written where D goes.
LEMMA DirtyStays ==
  ASSUME IsMem(tables), NEW new, NEW page, NEW idx, NEW flags, Written(new, page, idx, flags),
         "N" \in flags <=> "N" \in tables[page][idx].flags,
         NEW pa, NEW g \in DOMAIN tables, NEW j \in Indices, NEW i \in 0 .. Levels - 1,
         DirtyAt(tables, pa, g, j, i),
         "D" \in flags \/ pa \notin MappedBy(tables[page][idx], i)
  PROVE  DirtyAt(new, pa, g, j, i)
<1>1. Effect(new, page, idx, flags)
  BY WrittenPtes, Zenon
<1>2. CASE g # page \/ j # idx
  <2>1. new[g][j] = tables[g][j]
    BY <1>1, <1>2, Zenon DEF Effect
  <2> QED BY <2>1, Zenon DEF DirtyAt
<1>3. CASE g = page /\ j = idx
  <2>1. MappedBy(new[page][idx], i) = MappedBy(tables[page][idx], i)
    <3>1. new[page][idx].ppn = tables[page][idx].ppn
          /\ ("N" \in new[page][idx].flags <=> "N" \in tables[page][idx].flags)
      BY <1>1, Zenon DEF Effect
    <3> QED BY <3>1, MappedAlike
  <2>2. pa \in MappedBy(tables[page][idx], i)
    BY <1>3, Zenon DEF DirtyAt
  <2>3. "D" \in new[page][idx].flags
    BY <1>1, <2>2, Zenon DEF Effect
  <2> QED BY <1>3, <2>1, <2>2, <2>3, Zenon DEF DirtyAt
<1> QED BY <1>2, <1>3, Zenon

\* The step of an access and of a cleaning.
SomeDirty(mem, pa) ==
  \E page \in DOMAIN mem : \E idx \in Indices, i \in 0 .. Levels - 1 : DirtyAt(mem, pa, page, idx, i)

LEMMA SomeDirtyIs ==
  ASSUME NEW mem, IsMem(mem)
  PROVE  \A pa : SomeDirty(mem, pa) <=>
           \E page \in DOMAIN mem : \E idx \in DOMAIN mem[page], i \in 0 .. Levels - 1 :
             "D" \in mem[page][idx].flags /\ pa \in MappedBy(mem[page][idx], i)
<1>1. \A page \in DOMAIN mem : mem[page] \in [Indices -> Ptes]
  BY Zenon DEF IsMem
<1>2. \A page \in DOMAIN mem : DOMAIN mem[page] = Indices
  BY <1>1
<1> QED BY <1>2, Zenon DEF SomeDirty, DirtyAt

LEMMA AccessDirty ==
  ASSUME IsMem(tables), \A pa \in stored : SomeDirty(tables, pa),
         NEW va \in Vpns, NEW type \in Kinds, NEW mode \in Privs, Access(va, type, mode),
         NEW pa \in stored'
  PROVE  SomeDirty(tables', pa)
<1> DEFINE w == Walk(tables, va, type, mode)
           p == tables[w.page][w.idx]
           t == Translated(tables, va, type, mode)
           flags == p.flags \cup AdBits(type)
<1>1. \/ w.end # "leaf" /\ tables' = tables
      \/ /\ w.end = "leaf" /\ w.level \in 0 .. Levels - 1 /\ Written(tables', w.page, w.idx, flags)
  BY AccessWrites, Zenon
<1>2. pa \in stored \/ (type = "STORE" /\ t >= 0 /\ pa = t)
  <2>1. stored' = IF type = "STORE" /\ t >= 0 THEN stored \cup {t} ELSE stored
    BY Zenon DEF Access
  <2> HIDE DEF t
  <2> QED BY <2>1
<1>3. t >= 0 => w.end = "leaf" /\ ~BadNapot(p, w.level) /\ t = PageBase(va, p, w.level)
  BY PageFound, Zenon
<1> HIDE DEF w, t
<1>4. CASE w.end # "leaf"
  <2>1. pa \in stored /\ tables' = tables
    BY <1>1, <1>2, <1>3, <1>4, Zenon
  <2> QED BY <2>1, Zenon
<1>5. CASE w.end = "leaf"
  <2>1. w.level \in 0 .. Levels - 1 /\ Written(tables', w.page, w.idx, flags)
    BY <1>1, <1>5, Zenon
  <2>2. Effect(tables', w.page, w.idx, flags) /\ w.page \in DOMAIN tables /\ w.idx \in Indices
    BY <2>1, WrittenPtes, Zenon DEF Written
  <2>3. DOMAIN tables' = DOMAIN tables
    BY <2>2, Zenon DEF Effect
  <2>4. "N" \in flags <=> "N" \in p.flags
    <3>1. AdBits(type) \subseteq {"A", "D"}
      BY DEF AdBits
    <3> QED BY <3>1
  <2>5. CASE pa \in stored
    <3>1. PICK g \in DOMAIN tables : \E j \in Indices, i \in 0 .. Levels - 1 : DirtyAt(tables, pa, g, j, i)
      BY <2>5, Zenon DEF SomeDirty
    <3>2. PICK j \in Indices, i \in 0 .. Levels - 1 : DirtyAt(tables, pa, g, j, i)
      BY <3>1, Zenon
    <3>3. DirtyAt(tables', pa, g, j, i)
      <4>1. CASE g # w.page \/ j # w.idx
        <5>1. tables'[g][j] = tables[g][j]
          BY <2>2, <4>1, Zenon DEF Effect
        <5> QED BY <3>2, <5>1, Zenon DEF DirtyAt
      <4>2. CASE g = w.page /\ j = w.idx
        <5>1. "D" \in p.flags
          BY <3>2, <4>2, Zenon DEF DirtyAt
        <5>2. "D" \in flags
          BY <5>1, Zenon
        <5> HIDE DEF flags
        <5> QED BY <2>1, <2>4, <3>2, <5>2, DirtyStays
      <4> QED BY <4>1, <4>2, Zenon
    <3> QED BY <2>3, <3>3, Zenon DEF SomeDirty
  <2>6. CASE type = "STORE" /\ t >= 0 /\ pa = t
    <3>1. pa = PageBase(va, p, w.level) /\ ~BadNapot(p, w.level)
      BY <1>3, <2>6, Zenon
    <3>2. p.ppn \in Nat /\ w.level \in Nat
      BY <2>1, <2>2, PteType, PageWalkAssumption
    <3>3. pa \in MappedBy(p, w.level)
      BY <3>1, <3>2, LeafMaps
    <3>4. "D" \in flags
      BY <2>6 DEF AdBits
    <3>5. MappedBy(tables'[w.page][w.idx], w.level) = MappedBy(p, w.level)
      <4>1. tables'[w.page][w.idx].ppn = p.ppn
            /\ ("N" \in tables'[w.page][w.idx].flags <=> "N" \in p.flags)
        BY <2>2, <2>4, Zenon DEF Effect
      <4> QED BY <4>1, MappedAlike
    <3>6. "D" \in tables'[w.page][w.idx].flags
      BY <2>2, <3>4, Zenon DEF Effect
    <3>7. DirtyAt(tables', pa, w.page, w.idx, w.level)
      BY <3>3, <3>5, <3>6, Zenon DEF DirtyAt
    <3> QED BY <2>1, <2>2, <2>3, <3>7, Zenon DEF SomeDirty
  <2> QED BY <1>2, <2>5, <2>6, Zenon
<1> QED BY <1>4, <1>5

LEMMA CleanDirty ==
  ASSUME IsMem(tables), \A pa \in stored : SomeDirty(tables, pa),
         NEW page \in DOMAIN tables, NEW idx \in DOMAIN tables[page], CleanPte(page, idx),
         NEW pa \in stored'
  PROVE  SomeDirty(tables', pa)
<1> DEFINE p == tables[page][idx]
           flags == p.flags \ {"D"}
<1>1. Written(tables', page, idx, flags)
  BY CleanWrites, Zenon
<1>2. DOMAIN tables' = DOMAIN tables
  <2>1. Effect(tables', page, idx, flags)
    BY <1>1, WrittenPtes, Zenon
  <2> QED BY <2>1, Zenon DEF Effect
<1>3. pa \in stored /\ \A i \in 0 .. Levels - 1 : pa \notin MappedBy(p, i)
  BY Zenon DEF CleanPte
<1>4. "N" \in flags <=> "N" \in p.flags
  OBVIOUS
<1> HIDE DEF flags
<1>5. PICK g \in DOMAIN tables : \E j \in Indices, i \in 0 .. Levels - 1 : DirtyAt(tables, pa, g, j, i)
  BY <1>3, Zenon DEF SomeDirty
<1>6. PICK j \in Indices, i \in 0 .. Levels - 1 : DirtyAt(tables, pa, g, j, i)
  BY <1>5, Zenon
<1>7. DirtyAt(tables', pa, g, j, i)
  BY <1>1, <1>3, <1>4, <1>6, DirtyStays
<1> QED BY <1>2, <1>7, Zenon DEF SomeDirty

\* A page that was stored to stays dirty in some PTE that maps it.
LEMMA StoresAlwaysDirty == WalkSpec => []StoresAreDirty
<1>1. WalkInit => StoresAreDirty
  BY DEF WalkInit, StoresAreDirty
<1>2. WalkTypeOK /\ WalkTypeOK' /\ StoresAreDirty /\ [WalkNext]_walkVars => StoresAreDirty'
  <2> SUFFICES ASSUME IsMem(tables), IsMem(tables'), \A pa \in stored : SomeDirty(tables, pa),
                      [WalkNext]_walkVars, NEW pa \in stored'
               PROVE  SomeDirty(tables', pa)
    <3>1. ASSUME IsMem(tables), StoresAreDirty PROVE \A pa \in stored : SomeDirty(tables, pa)
      BY <3>1, SomeDirtyIs, Zenon DEF StoresAreDirty
    <3>2. ASSUME IsMem(tables'), \A pa \in stored' : SomeDirty(tables', pa) PROVE StoresAreDirty'
      <4>1. \A pa : SomeDirty(tables', pa) <=>
              \E page \in DOMAIN tables' : \E idx \in DOMAIN tables'[page], i \in 0 .. Levels - 1 :
                "D" \in tables'[page][idx].flags /\ pa \in MappedBy(tables'[page][idx], i)
        BY <3>2, SomeDirtyIs, Zenon
      <4> QED BY <3>2, <4>1, Zenon DEF StoresAreDirty
    <3>3. WalkTypeOK => IsMem(tables)
      BY Zenon DEF WalkTypeOK
    <3>4. WalkTypeOK' => IsMem(tables')
      BY Zenon DEF WalkTypeOK, IsMem
    <3> QED BY <3>1, <3>2, <3>3, <3>4, Zenon
  <2>1. ASSUME NEW va \in Vpns, NEW type \in Kinds, NEW mode \in Privs, Access(va, type, mode)
        PROVE  SomeDirty(tables', pa)
    BY <2>1, AccessDirty, Zenon
  <2>2. ASSUME NEW page \in DOMAIN tables, NEW idx \in DOMAIN tables[page], CleanPte(page, idx)
        PROVE  SomeDirty(tables', pa)
    BY <2>2, CleanDirty, Zenon
  <2>3. CASE UNCHANGED walkVars
    <3>1. tables' = tables /\ stored' = stored
      BY <2>3 DEF walkVars
    <3> QED BY <3>1, Zenon
  <2> QED BY <2>1, <2>2, <2>3, Zenon DEF WalkNext
<1> QED BY <1>1, <1>2, WalkTypesAlways, PTL DEF WalkSpec

\* Neither an access nor a cleaning moves a page, where the hart may set the bits.
LEMMA BitsAlwaysChangeNoMapping == WalkSpec => BitsChangeNoMapping
<1>1. WalkTypeOK /\ [WalkNext]_walkVars =>
        [(tables' # tables /\ "HADE" \in status) =>
           \A va \in Vpns, type \in Kinds, mode \in Privs :
             Translated(tables', va, type, mode) = Translated(tables, va, type, mode)]_walkVars
  <2> SUFFICES ASSUME IsMem(tables), [WalkNext]_walkVars, tables' # tables, "HADE" \in status,
                      NEW va \in Vpns, NEW type \in Kinds, NEW mode \in Privs
               PROVE  Translated(tables', va, type, mode) = Translated(tables, va, type, mode)
    BY Zenon DEF WalkTypeOK
  <2>1. SameBut(tables, tables')
    BY StepsAlike, Zenon
  <2> QED BY <2>1, SameTranslation
<1> QED BY <1>1, WalkTypesAlways, PTL DEF WalkSpec, BitsChangeNoMapping

\* What an access changes, it changes on its way to a page of the entry, but for the NAPOT leaf.
EntryExplained(va, type, mode, page, idx) ==
  LET w   == Walk(tables, va, type, mode)
      pte == tables[page][idx]
  IN  tables'[page][idx] # pte =>
        /\ w.end = "leaf"
        /\ \/ Translated(tables, va, type, mode) \in MappedBy(pte, w.level)
           \/ BadNapot(pte, w.level)
        /\ "D" \in tables'[page][idx].flags \ pte.flags => type = "STORE"

LEMMA AccessExplained ==
  ASSUME IsMem(tables), NEW va \in Vpns, NEW type \in Kinds, NEW mode \in Privs, Access(va, type, mode),
         NEW page \in DOMAIN tables, NEW idx \in DOMAIN tables[page],
         tables'[page][idx] # tables[page][idx]
  PROVE  EntryExplained(va, type, mode, page, idx)
<1> DEFINE w == Walk(tables, va, type, mode)
           p == tables[w.page][w.idx]
           t == Translated(tables, va, type, mode)
<1>1. idx \in Indices
  <2>1. tables[page] \in [Indices -> Ptes]
    BY Zenon DEF IsMem
  <2> QED BY <2>1
<1>2. /\ w.end = "leaf" /\ w.level \in 0 .. Levels - 1
      /\ Written(tables', w.page, w.idx, p.flags \cup AdBits(type))
  BY AccessWrites, Zenon
<1>3. t = IF w.end = "absent" THEN Absent
          ELSE IF w.end = "fault" \/ BadNapot(p, w.level) THEN Fault ELSE PageBase(va, p, w.level)
  BY Zenon DEF Translated
<1> HIDE DEF w, t
<1>4. Effect(tables', w.page, w.idx, p.flags \cup AdBits(type)) /\ w.page \in DOMAIN tables /\ w.idx \in Indices
  BY <1>2, WrittenPtes, Zenon DEF Written
<1>5. w.page = page /\ w.idx = idx
  BY <1>1, <1>4, Zenon DEF Effect
<1>6. t \in MappedBy(p, w.level) \/ BadNapot(p, w.level)
  <2> SUFFICES ASSUME ~BadNapot(p, w.level) PROVE t \in MappedBy(p, w.level)
    OBVIOUS
  <2>1. t = PageBase(va, p, w.level)
    BY <1>2, <1>3
  <2>2. p.ppn \in Nat /\ w.level \in Nat
    BY <1>2, <1>4, PteType, PageWalkAssumption
  <2> QED BY <2>1, <2>2, LeafMaps
<1>7. "D" \in tables'[page][idx].flags \ tables[page][idx].flags => type = "STORE"
  <2>1. tables'[page][idx].flags = tables[page][idx].flags \cup AdBits(type)
    BY <1>4, <1>5, Zenon DEF Effect
  <2>2. "D" \in AdBits(type) => type = "STORE"
    BY DEF AdBits
  <2> QED BY <2>1, <2>2, Zenon
<1> QED BY <1>2, <1>5, <1>6, <1>7, Zenon DEF EntryExplained, w, t

\* A fault writes nothing, but for the NAPOT leaf.
LEMMA FaultsAlwaysWriteNothing == WalkSpec => FaultWritesNothing
<1>1. WalkTypeOK /\ [WalkNext]_walkVars =>
        [tables' # tables =>
           \A va \in Vpns, type \in Kinds, mode \in Privs : Access(va, type, mode) =>
             \A page \in DOMAIN tables : \A idx \in DOMAIN tables[page] :
               EntryExplained(va, type, mode, page, idx)]_walkVars
  <2> SUFFICES ASSUME IsMem(tables), NEW va \in Vpns, NEW type \in Kinds, NEW mode \in Privs,
                      Access(va, type, mode),
                      NEW page \in DOMAIN tables, NEW idx \in DOMAIN tables[page]
               PROVE  EntryExplained(va, type, mode, page, idx)
    BY Zenon DEF WalkTypeOK
  <2>1. CASE tables'[page][idx] # tables[page][idx]
    BY <2>1, AccessExplained, Zenon
  <2>2. CASE tables'[page][idx] = tables[page][idx]
    BY <2>2, Zenon DEF EntryExplained
  <2> QED BY <2>1, <2>2
<1> QED BY <1>1, WalkTypesAlways, PTL DEF WalkSpec, FaultWritesNothing, EntryExplained

\* The pages of a large leaf lie side by side.
LEMMA LeavesContiguous ==
  ASSUME IsMem(tables)
  PROVE  LeafIsContiguous
<1> SUFFICES ASSUME NEW type \in Kinds, NEW mode \in Privs
             PROVE  LET mapped == {va \in Vpns : Translated(tables, va, type, mode) >= 0}
                        LeafOf(va) == LET w == Walk(tables, va, type, mode)
                                      IN  [pte |-> tables[w.page][w.idx], level |-> w.level]
                        Size(leaf) == IF "N" \in leaf.pte.flags THEN NapotBits ELSE leaf.level * IdxBits
                    IN  \A va, vb \in mapped :
                          High(va, Size(LeafOf(va))) = High(vb, Size(LeafOf(va))) /\ LeafOf(va) = LeafOf(vb)
                          => Translated(tables, va, type, mode) - va = Translated(tables, vb, type, mode) - vb
  BY DEF LeafIsContiguous
<1> DEFINE LeafOf(v) == LET w == Walk(tables, v, type, mode)
                        IN  [pte |-> tables[w.page][w.idx], level |-> w.level]
           Size(leaf) == IF "N" \in leaf.pte.flags THEN NapotBits ELSE leaf.level * IdxBits
<1> SUFFICES ASSUME NEW va \in Vpns, NEW vb \in Vpns,
                    Translated(tables, va, type, mode) >= 0, Translated(tables, vb, type, mode) >= 0,
                    High(va, Size(LeafOf(va))) = High(vb, Size(LeafOf(va))), LeafOf(va) = LeafOf(vb)
             PROVE  Translated(tables, va, type, mode) - va = Translated(tables, vb, type, mode) - vb
  OBVIOUS
<1> DEFINE w == Walk(tables, va, type, mode)
           x == Walk(tables, vb, type, mode)
           p == tables[w.page][w.idx]
           q == tables[x.page][x.idx]
           la == LeafOf(va)
           size == IF "N" \in p.flags THEN NapotBits ELSE w.level * IdxBits
<1>1. w.end = "leaf" /\ ~BadNapot(p, w.level) /\ Translated(tables, va, type, mode) = PageBase(va, p, w.level)
  BY PageFound, Zenon
<1>2. Translated(tables, vb, type, mode) = PageBase(vb, q, x.level)
  BY PageFound, Zenon
<1>3. Ended(w, tables, va, type, mode)
  BY WalkEnds, Zenon
<1>6. la.pte = p /\ la.level = w.level /\ p = q /\ w.level = x.level
  OBVIOUS
<1>7. High(va, size) = High(vb, size)
  <2>1. Size(la) = size
    <3> HIDE DEF la, w, p
    <3> QED BY <1>6, Zenon
  <2>2. High(va, Size(la)) = High(vb, Size(la))
    BY Zenon
  <2> HIDE DEF Size, la, size
  <2> QED BY <2>1, <2>2, Zenon
<1> HIDE DEF w, x, LeafOf, la
<1>4. w.page \in DOMAIN tables /\ w.idx \in Indices /\ w.level \in 0 .. Levels - 1
  BY <1>1, <1>3, Zenon DEF Ended
<1>5. p.ppn \in Nat /\ w.level \in Nat
  BY <1>4, PteType, PageWalkAssumption
<1> HIDE DEF p, q
<1>8. PageBase(va, p, w.level) - va = PageBase(vb, p, w.level) - vb
  BY <1>1, <1>5, <1>7, LeafMoves
<1> QED BY <1>1, <1>2, <1>6, <1>8, Zenon

\* The walk keeps the tables and the translations true to each other (mmu_t::walk), for
\* any number of levels, size of a table and of a NAPOT range, and any tables.
THEOREM WalkAlwaysExact == WalkSpec => WalkExact
<1>1. WalkTypeOK => LeafIsContiguous
  BY LeavesContiguous, Zenon DEF WalkTypeOK
<1> QED
  BY <1>1, WalkTypesAlways, StoresAlwaysDirty, BitsAlwaysChangeNoMapping, FaultsAlwaysWriteNothing,
     PTL DEF WalkExact

-----------------------------------------------------------------------------
(* HartTraps: traps to both levels and debug mode nest.                    *)

\* What each level is owed is what its part of the state holds: a trap to M is
\* kept in MPP and MPIE, a trap to S in SPP and SPIE, and a halt in dcsr.prv.
Owed ==
  /\ msaved = <<>> \/ msaved = <<mstatus.MPP, mstatus.MPIE>>
  /\ ssaved = <<>> \/ ssaved = <<mstatus.SPP, mstatus.SPIE>>
  /\ dsaved = <<>> \/ /\ debugging
                      /\ dsaved = <<dprv, mstatus>>
                      /\ dprv \in Modes
                      /\ mstatus.MPRV => dprv = M

IInv == TrapsTypeOK /\ MprvOnlyInM /\ Owed

USE DEF U, S, M, Modes

LEMMA LegalType == ASSUME NEW p \in 0 .. 3 PROVE Legal(p) \in Modes
BY DEF Legal

LEMMA InitIInv == TrapsInit => IInv
<1>1. MstatusReset \in Mstatus /\ ~MstatusReset.MPRV
  BY DEF MstatusReset, Mstatus
<1>2. TrapsInit => mideleg \subseteq SInts /\ medeleg \subseteq Excs /\ debugging \in BOOLEAN
  BY Zenon DEF TrapsInit
<1>3. TrapsInit => prv \in Modes /\ mstatus \in Mstatus /\ dprv \in 0 .. 3
  BY <1>1 DEF TrapsInit
<1>4. TrapsInit => MprvOnlyInM /\ Owed
  BY <1>1 DEF TrapsInit, MprvOnlyInM, Owed
<1>5. QED
  BY <1>2, <1>3, <1>4 DEF IInv, TrapsTypeOK

LEMMA TrapToSStep == ASSUME IInv, prv <= S, ~debugging, TrapToS,
                            UNCHANGED <<mideleg, medeleg, debugging, dprv>>
                     PROVE  IInv' /\ prv' >= prv
<1>1. prv \in {U, S} /\ prv % 2 = prv
  BY DEF IInv, TrapsTypeOK
<1>2. mstatus \in Mstatus
  BY DEF IInv, TrapsTypeOK
<1>3. /\ mstatus' = [mstatus EXCEPT !.SPIE = mstatus.SIE, !.SPP = prv, !.SIE = FALSE]
      /\ prv' = S /\ ssaved' = <<prv, mstatus.SIE>>
      /\ msaved' = msaved /\ dsaved' = dsaved
  BY <1>1 DEF TrapToS
<1>4. mstatus' \in Mstatus /\ mstatus'.MPRV = mstatus.MPRV
      /\ mstatus'.MPP = mstatus.MPP /\ mstatus'.MPIE = mstatus.MPIE
      /\ mstatus'.SPP = prv /\ mstatus'.SPIE = mstatus.SIE
  BY <1>1, <1>2, <1>3 DEF Mstatus
<1>5. ~mstatus.MPRV
  BY <1>1 DEF IInv, MprvOnlyInM
<1>6. TrapsTypeOK' /\ MprvOnlyInM'
  BY <1>3, <1>4, <1>5 DEF IInv, TrapsTypeOK, MprvOnlyInM
<1>7. Owed'
  BY <1>3, <1>4 DEF IInv, Owed
<1>8. QED
  BY <1>1, <1>3, <1>6, <1>7 DEF IInv

LEMMA TrapToMStep == ASSUME IInv, ~debugging, TrapToM,
                            UNCHANGED <<mideleg, medeleg, debugging, dprv>>
                     PROVE  IInv' /\ prv' >= prv
<1>1. prv \in Modes /\ mstatus \in Mstatus
  BY DEF IInv, TrapsTypeOK
<1>2. /\ mstatus' = [mstatus EXCEPT !.MPIE = mstatus.MIE, !.MPP = prv, !.MIE = FALSE]
      /\ prv' = M /\ msaved' = <<prv, mstatus.MIE>>
      /\ ssaved' = ssaved /\ dsaved' = dsaved
  BY DEF TrapToM
<1>3. mstatus' \in Mstatus /\ mstatus'.SPP = mstatus.SPP /\ mstatus'.SPIE = mstatus.SPIE
      /\ mstatus'.MPP = prv /\ mstatus'.MPIE = mstatus.MIE
  BY <1>1, <1>2 DEF Mstatus
<1>4. TrapsTypeOK' /\ MprvOnlyInM'
  BY <1>2, <1>3 DEF IInv, TrapsTypeOK, MprvOnlyInM
<1>5. Owed'
  BY <1>2, <1>3 DEF IInv, Owed
<1>6. QED
  BY <1>1, <1>2, <1>4, <1>5 DEF IInv

\* A taken trap goes to S only from S or U.
LEMMA TakenTrap == ASSUME IInv, ~debugging,
                          \/ prv <= S /\ TrapToS
                          \/ TrapToM,
                          UNCHANGED <<mideleg, medeleg, debugging, dprv>>
                   PROVE  IInv' /\ prv' >= prv
BY TrapToSStep, TrapToMStep

LEMMA InterruptStep == ASSUME IInv, NEW pend \in SUBSET Ints, Interrupt(pend)
                       PROVE  IInv' /\ prv' >= prv
BY TakenTrap DEF Interrupt, TakeTrap

LEMMA ExceptionStep == ASSUME IInv, NEW e \in Excs \cup {EcallM}, Exception(e)
                       PROVE  IInv' /\ prv' >= prv
BY TakenTrap DEF Exception, TakeTrap

LEMMA MretStep == ASSUME IInv, Mret
                  PROVE  IInv' /\ (msaved # <<>> => <<prv', mstatus'.MIE>> = msaved)
<1>1. mstatus \in Mstatus /\ mstatus.MPP \in Modes
  BY DEF IInv, TrapsTypeOK, Mstatus
<1>2. prv' = mstatus.MPP
  BY <1>1 DEF Mret, Legal
<1>3. /\ mstatus' \in Mstatus /\ mstatus'.MIE = mstatus.MPIE
      /\ mstatus'.MPRV = (mstatus.MPRV /\ mstatus.MPP = M)
      /\ mstatus'.SPP = mstatus.SPP /\ mstatus'.SPIE = mstatus.SPIE
  BY <1>1 DEF Mret, Mstatus
<1>4. TrapsTypeOK' /\ MprvOnlyInM'
  BY <1>1, <1>2, <1>3 DEF IInv, TrapsTypeOK, MprvOnlyInM, Mret
<1>5. Owed'
  BY <1>3 DEF IInv, Owed, Mret
<1>6. msaved # <<>> => <<prv', mstatus'.MIE>> = msaved
  BY <1>2, <1>3 DEF IInv, Owed
<1>7. QED
  BY <1>4, <1>5, <1>6 DEF IInv

LEMMA SretStep == ASSUME IInv, Sret
                  PROVE  IInv' /\ (ssaved # <<>> => <<prv', mstatus'.SIE>> = ssaved)
<1>1. mstatus \in Mstatus /\ mstatus.SPP \in {U, S}
  BY DEF IInv, TrapsTypeOK, Mstatus
<1>2. /\ mstatus' \in Mstatus /\ mstatus'.SIE = mstatus.SPIE /\ ~mstatus'.MPRV
      /\ mstatus'.MPP = mstatus.MPP /\ mstatus'.MPIE = mstatus.MPIE
  BY <1>1 DEF Sret, Mstatus
<1>3. TrapsTypeOK' /\ MprvOnlyInM'
  BY <1>1, <1>2 DEF IInv, TrapsTypeOK, MprvOnlyInM, Sret
<1>4. Owed'
  BY <1>2 DEF IInv, Owed, Sret
<1>5. ssaved # <<>> => <<prv', mstatus'.SIE>> = ssaved
  BY <1>2 DEF IInv, Owed, Sret
<1>6. QED
  BY <1>3, <1>4, <1>5 DEF IInv

LEMMA DretStep == ASSUME IInv, TrapsDret
                  PROVE  IInv' /\ (dsaved # <<>> => <<prv', mstatus'>> = dsaved)
<1>1. mstatus \in Mstatus /\ dprv \in 0 .. 3 /\ mstatus.MPRV \in BOOLEAN
  BY DEF IInv, TrapsTypeOK, Mstatus
<1>2. prv' = Legal(dprv) /\ prv' \in Modes
  BY <1>1, LegalType DEF TrapsDret
<1>3. /\ mstatus' = [mstatus EXCEPT !.MPRV = mstatus.MPRV /\ prv' = M]
      /\ mstatus' \in Mstatus
      /\ mstatus'.MPRV = (mstatus.MPRV /\ prv' = M)
      /\ mstatus'.MPP = mstatus.MPP /\ mstatus'.MPIE = mstatus.MPIE
      /\ mstatus'.SPP = mstatus.SPP /\ mstatus'.SPIE = mstatus.SPIE
  BY <1>1 DEF TrapsDret, Mstatus
<1>4. TrapsTypeOK' /\ MprvOnlyInM'
  BY <1>2, <1>3 DEF IInv, TrapsTypeOK, MprvOnlyInM, TrapsDret
<1>5. Owed'
  BY <1>3 DEF IInv, Owed, TrapsDret
<1>6. ASSUME dsaved # <<>> PROVE <<prv', mstatus'>> = dsaved
  <2>1. dsaved = <<dprv, mstatus>> /\ dprv \in Modes /\ (mstatus.MPRV => dprv = M)
    BY <1>6 DEF IInv, Owed
  <2>2. prv' = dprv
    BY <2>1, <1>2 DEF Legal
  <2>3. (mstatus.MPRV /\ prv' = M) = mstatus.MPRV
    BY <2>1, <2>2, <1>1
  <2>4. mstatus' = mstatus
    BY <2>3, <1>1, <1>3 DEF Mstatus
  <2>5. QED
    BY <2>1, <2>2, <2>4
<1>7. QED
  BY <1>4, <1>5, <1>6 DEF IInv

\* Each step keeps the invariant.
LEMMA NextIInv == IInv /\ [TrapsNext]_trapsVars => IInv'
<1> SUFFICES ASSUME IInv, [TrapsNext]_trapsVars PROVE IInv'
  OBVIOUS
<1>1. ASSUME NEW pend \in SUBSET Ints, Interrupt(pend) PROVE IInv'
  BY <1>1, InterruptStep
<1>2. ASSUME NEW e \in Excs \cup {EcallM}, Exception(e) PROVE IInv'
  BY <1>2, ExceptionStep
<1>3. CASE Mret
  BY <1>3, MretStep
<1>4. CASE Sret
  BY <1>4, SretStep
<1>5. ASSUME NEW mie \in BOOLEAN, NEW mpie \in BOOLEAN, NEW sie \in BOOLEAN,
             NEW spie \in BOOLEAN, NEW mprv \in BOOLEAN,
             NEW mpp \in 0 .. 3, NEW spp \in {U, S},
             MstatusWrite(mie, mpie, mpp, sie, spie, spp, mprv)
      PROVE IInv'
  <2>1. Legal(mpp) \in Modes
    BY LegalType
  <2>2. mstatus' \in Mstatus
    BY <1>5, <2>1 DEF MstatusWrite, Mstatus
  <2>3. QED
    BY <1>5, <2>2 DEF MstatusWrite, IInv, TrapsTypeOK, MprvOnlyInM, Owed
<1>6. ASSUME NEW sie \in BOOLEAN, NEW spie \in BOOLEAN, NEW spp \in {U, S},
             SstatusWrite(sie, spie, spp)
      PROVE IInv'
  <2>1. mstatus \in Mstatus
    BY DEF IInv, TrapsTypeOK
  <2>2. mstatus' \in Mstatus /\ mstatus'.MPRV = mstatus.MPRV
        /\ mstatus'.MPP = mstatus.MPP /\ mstatus'.MPIE = mstatus.MPIE
    BY <1>6, <2>1 DEF SstatusWrite, Mstatus
  <2>3. QED
    BY <1>6, <2>2 DEF SstatusWrite, IInv, TrapsTypeOK, MprvOnlyInM, Owed
<1>7. ASSUME NEW ints \in SUBSET Ints, NEW excs \in SUBSET Excs, DelegWrite(ints, excs)
      PROVE IInv'
  BY <1>7 DEF DelegWrite, ghosts, IInv, TrapsTypeOK, MprvOnlyInM, Owed
<1>8. CASE TrapsEnterDebugMode
  BY <1>8 DEF TrapsEnterDebugMode, IInv, TrapsTypeOK, MprvOnlyInM, Owed
<1>9. ASSUME NEW p \in 0 .. 3, DcsrWrite(p) PROVE IInv'
  BY <1>9 DEF DcsrWrite, IInv, TrapsTypeOK, MprvOnlyInM, Owed
<1>10. CASE TrapsDret
  BY <1>10, DretStep
<1>11. CASE TrapsReset
  <2>1. MstatusReset \in Mstatus
    BY DEF MstatusReset, Mstatus
  <2>2. (mideleg \subseteq SInts /\ medeleg \subseteq Excs /\ debugging \in BOOLEAN)'
    BY <1>11, Zenon DEF TrapsReset
  <2>3. (prv \in Modes /\ mstatus \in Mstatus /\ dprv \in 0 .. 3)'
    BY <1>11, <2>1 DEF TrapsReset
  <2>4. (MprvOnlyInM /\ Owed)'
    BY <1>11 DEF TrapsReset, MprvOnlyInM, Owed
  <2>5. QED
    BY <2>2, <2>3, <2>4 DEF IInv, TrapsTypeOK
<1>12. CASE UNCHANGED trapsVars
  BY <1>12 DEF trapsVars, IInv, TrapsTypeOK, MprvOnlyInM, Owed
<1>13. QED
  BY <1>1, <1>2, <1>3, <1>4, <1>5, <1>6, <1>7, <1>8, <1>9, <1>10, <1>11, <1>12 DEF TrapsNext

LEMMA Invariance == TrapsSpec => []IInv
BY InitIInv, NextIInv, PTL DEF TrapsSpec

\* MPRV is never set below M, so no mode but M ever accesses memory with the
\* privilege of another one.
THEOREM MprvSound == TrapsSpec => []MprvOnlyInM
<1>1. IInv => MprvOnlyInM
  BY DEF IInv
<1>2. QED
  BY <1>1, Invariance, PTL

\* No trap lowers the privilege.
THEOREM TrapsNeverLower == TrapsSpec => TrapNeverLowers
<1>1. ASSUME IInv, (\E pend \in SUBSET Ints : Interrupt(pend))
                   \/ (\E e \in Excs \cup {EcallM} : Exception(e))
      PROVE prv' >= prv
  BY <1>1, InterruptStep, ExceptionStep
<1>2. IInv => [(\E pend \in SUBSET Ints : Interrupt(pend))
               \/ (\E e \in Excs \cup {EcallM} : Exception(e)) => prv' >= prv]_trapsVars
  BY <1>1
<1>3. QED
  BY <1>2, Invariance, PTL DEF TrapNeverLowers

\* mret gives back what the last trap to M saved.
THEOREM MretSound == TrapsSpec => MretRestores
<1>1. IInv => [Mret /\ msaved # <<>> => <<prv', mstatus'.MIE>> = msaved]_trapsVars
  BY MretStep
<1>2. QED
  BY <1>1, Invariance, PTL DEF MretRestores

\* sret gives back what the last trap to S saved.
THEOREM SretSound == TrapsSpec => SretRestores
<1>1. IInv => [Sret /\ ssaved # <<>> => <<prv', mstatus'.SIE>> = ssaved]_trapsVars
  BY SretStep
<1>2. QED
  BY <1>1, Invariance, PTL DEF SretRestores

\* A halt that the debugger does not write over is invisible after dret.
THEOREM DebugSound == TrapsSpec => DebugTransparent
<1>1. IInv => [TrapsDret /\ dsaved # <<>> => <<prv', mstatus'>> = dsaved]_trapsVars
  BY DretStep
<1>2. QED
  BY <1>1, Invariance, PTL DEF DebugTransparent

\* The registers keep their range, whatever software and the debugger write to
\* them: no mode comes into being that the hart does not have.
THEOREM TrapsTypeCorrect == TrapsSpec => []TrapsTypeOK
<1>1. IInv => TrapsTypeOK
  BY DEF IInv
<1>2. QED
  BY <1>1, Invariance, PTL

\* Traps to both levels, their returns and debug mode nest, for any set of interrupts
\* and exceptions.
THEOREM TrapsNestAlways == TrapsSpec => TrapsNest
BY TrapsTypeCorrect, TrapsNeverLower, MretSound, SretSound, DebugSound, PTL DEF TrapsNest
=============================================================================
