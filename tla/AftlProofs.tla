----------------------------- MODULE AftlProofs -----------------------------
(***************************************************************************)
(* What make_icp_from_vbmeta believes, writes and reads back, for any logs *)
(* of any size, any answers and any vbmeta.                                *)
(***************************************************************************)
EXTENDS AftlIcp, FiniteSetTheorems, WellFoundedInduction, TLAPS

-----------------------------------------------------------------------------
(* Induction, on the set T of the numbers that satisfy a fact.             *)

(* Every nonempty set of naturals has a least element.                     *)
LEMMA NatLeast ==
  ASSUME NEW T \in SUBSET Nat, T # {}
  PROVE  \E x \in T : \A y \in T : x <= y
<1>1. IsWellFoundedOn(OpToRel(<, Nat), Nat)
  BY NatLessThanWellFounded
<1>2. PICK x \in T : \A y \in T : ~(<< y, x >> \in OpToRel(<, Nat))
  BY <1>1, WFMin
<1>3. \A y \in T : ~(y < x)
  BY <1>2 DEF OpToRel
<1> QED
  BY <1>3

(* A set of naturals that has n when it has all below n has them all.      *)
LEMMA StrongInduction ==
  ASSUME NEW T, \A n \in Nat : (\A k \in Nat : k < n => k \in T) => n \in T
  PROVE  Nat \subseteq T
<1> DEFINE Bad == Nat \ T
<1>1. SUFFICES ASSUME Bad # {} PROVE FALSE
  OBVIOUS
<1>2. Bad \in SUBSET Nat
  OBVIOUS
<1>3. PICK x \in Bad : \A y \in Bad : x <= y
  <2> HIDE DEF Bad
  <2> QED
    BY <1>1, <1>2, NatLeast
<1>4. \A k \in Nat : k < x => k \in T
  BY <1>3
<1> QED
  BY <1>3, <1>4

(* One that has 0, and n + 1 when it has n, has them all.                  *)
LEMMA StepInduction ==
  ASSUME NEW T, 0 \in T, \A n \in Nat : n \in T => n + 1 \in T
  PROVE  Nat \subseteq T
<1>1. ASSUME NEW n \in Nat, \A k \in Nat : k < n => k \in T
      PROVE  n \in T
  <2>1. CASE n = 0
    BY <2>1
  <2>2. CASE n # 0
    <3>1. n - 1 \in Nat /\ n - 1 < n /\ (n - 1) + 1 = n
      BY <2>2
    <3> QED
      BY <1>1, <3>1
  <2> QED
    BY <2>1, <2>2
<1> QED
  BY <1>1, StrongInduction

-----------------------------------------------------------------------------
(* The powers of two, and the bits of a number.                            *)


(* Pow2 is what its recursion says.                                        *)
Doubles(f, m) == \A n \in 0..m : f[n] = IF n = 0 THEN 1 ELSE 2 * f[n - 1]

LEMMA DoublesAgree ==
  ASSUME NEW f, NEW g, NEW m \in Nat, NEW k \in Nat, Doubles(f, m), Doubles(g, k)
  PROVE  \A n \in Nat : n <= m /\ n <= k => f[n] = g[n]
<1> DEFINE T == {n \in Nat : n <= m /\ n <= k => f[n] = g[n]}
<1>1. 0 \in T
  BY DEF Doubles
<1>2. ASSUME NEW n \in Nat, n \in T
      PROVE  n + 1 \in T
  <2>1. n <= m /\ n <= k => f[n] = g[n]
    BY <1>2
  <2>2. SUFFICES ASSUME n + 1 <= m, n + 1 <= k PROVE f[n + 1] = g[n + 1]
    OBVIOUS
  <2>3. n + 1 \in 0..m /\ n + 1 \in 0..k /\ n + 1 # 0 /\ (n + 1) - 1 = n
    BY <2>2
  <2>4. f[n + 1] = 2 * f[n] /\ g[n + 1] = 2 * g[n]
    BY <2>3 DEF Doubles
  <2> QED
    BY <2>1, <2>2, <2>4
<1>3. Nat \subseteq T
  <2> HIDE DEF T
  <2> QED
    BY <1>1, <1>2, StepInduction
<1> QED
  BY <1>3

LEMMA DoublesExist == \A m \in Nat : \E f : Doubles(f, m)
<1> DEFINE T == {m \in Nat : \E f : Doubles(f, m)}
<1>1. 0 \in T
  <2>1. Doubles([n \in {0} |-> 1], 0)
    BY DEF Doubles
  <2> QED
    BY <2>1
<1>2. ASSUME NEW m \in Nat, m \in T
      PROVE  m + 1 \in T
  <2>1. PICK f : Doubles(f, m)
    BY <1>2
  <2> DEFINE g == [n \in 0..(m + 1) |-> IF n = m + 1 THEN 2 * f[m] ELSE f[n]]
  <2>2. ASSUME NEW n \in 0..(m + 1)
        PROVE  g[n] = IF n = 0 THEN 1 ELSE 2 * g[n - 1]
    <3>1. CASE n = m + 1
      <4>1. n # 0 /\ n - 1 = m /\ m \in 0..(m + 1) /\ m # m + 1
        BY <3>1
      <4> QED
        BY <3>1, <4>1
    <3>2. CASE n # m + 1
      <4>1. n \in 0..m /\ (n # 0 => n - 1 \in 0..(m + 1) /\ n - 1 # m + 1)
        BY <3>2
      <4>2. f[n] = IF n = 0 THEN 1 ELSE 2 * f[n - 1]
        BY <2>1, <4>1 DEF Doubles
      <4> QED
        BY <3>2, <4>1, <4>2
    <3> QED
      BY <3>1, <3>2
  <2>3. Doubles(g, m + 1)
    <3> HIDE DEF g
    <3> QED
      BY <2>2 DEF Doubles
  <2> QED
    BY <2>3
<1>3. Nat \subseteq T
  <2> HIDE DEF T
  <2> QED
    BY <1>1, <1>2, StepInduction
<1> QED
  BY <1>3

LEMMA Pow2Def == \A n \in Nat : Pow2[n] = IF n = 0 THEN 1 ELSE 2 * Pow2[n - 1]
<1> DEFINE F == [n \in Nat |-> (CHOOSE f : Doubles(f, n))[n]]
           IsPow(g) == g = [n \in Nat |-> IF n = 0 THEN 1 ELSE 2 * g[n - 1]]
<1>1. \A n \in Nat : Doubles(CHOOSE f : Doubles(f, n), n)
  BY DoublesExist, Zenon
<1>2. ASSUME NEW n \in Nat
      PROVE  F[n] = IF n = 0 THEN 1 ELSE 2 * F[n - 1]
  <2>1. PICK f : f = (CHOOSE g : Doubles(g, n)) /\ Doubles(f, n)
    BY <1>1
  <2>2. F[n] = f[n] /\ n \in 0..n
    BY <2>1
  <2>3. CASE n = 0
    BY <2>1, <2>2, <2>3 DEF Doubles
  <2>4. CASE n # 0
    <3>1. n - 1 \in Nat /\ n - 1 <= n
      BY <2>4
    <3>2. PICK g : g = (CHOOSE h : Doubles(h, n - 1)) /\ Doubles(g, n - 1)
      BY <1>1, <3>1
    <3>3. g[n - 1] = f[n - 1]
      BY <2>1, <3>1, <3>2, DoublesAgree
    <3>4. F[n - 1] = g[n - 1]
      BY <3>1, <3>2
    <3>5. f[n] = 2 * f[n - 1]
      BY <2>1, <2>2, <2>4 DEF Doubles
    <3> QED
      BY <2>2, <2>4, <3>3, <3>4, <3>5
  <2> QED
    BY <2>3, <2>4
<1>3. IsPow(F)
  <2>1. F = [n \in Nat |-> F[n]]
    OBVIOUS
  <2> HIDE DEF F
  <2> QED
    BY <1>2, <2>1
<1>4. IsPow(Pow2)
  <2>1. Pow2 = CHOOSE g : IsPow(g)
    BY DEF Pow2
  <2> HIDE DEF IsPow, F
  <2> QED
    BY <1>3, <2>1
<1> QED
  BY <1>4

LEMMA Pow2Step ==
  /\ Pow2[0] = 1
  /\ \A n \in Nat : Pow2[n + 1] = 2 * Pow2[n]
  BY Pow2Def

(* Powers of two are positive, and larger than their exponents.            *)
LEMMA Pow2Type == \A n \in Nat : Pow2[n] \in Nat \ {0} /\ n < Pow2[n]
<1> DEFINE T == {n \in Nat : Pow2[n] \in Nat \ {0} /\ n < Pow2[n]}
<1>1. 0 \in T
  BY Pow2Step
<1>2. ASSUME NEW n \in Nat, n \in T
      PROVE  n + 1 \in T
  BY <1>2, Pow2Step
<1>3. Nat \subseteq T
  <2> HIDE DEF T
  <2> QED
    BY <1>1, <1>2, StepInduction
<1> QED
  BY <1>3

(* 2^(a+b) = 2^a 2^b.                                                      *)
LEMMA Pow2Sum == \A a \in Nat, b \in Nat : Pow2[a + b] = Pow2[a] * Pow2[b]
<1> SUFFICES ASSUME NEW a \in Nat PROVE \A b \in Nat : Pow2[a + b] = Pow2[a] * Pow2[b]
  OBVIOUS
<1> DEFINE T == {b \in Nat : Pow2[a + b] = Pow2[a] * Pow2[b]}
<1>1. 0 \in T
  BY Pow2Step, Pow2Type
<1>2. ASSUME NEW b \in Nat, b \in T
      PROVE  b + 1 \in T
  <2>1. Pow2[a + b] = Pow2[a] * Pow2[b]
    BY <1>2
  <2>2. a + (b + 1) = (a + b) + 1 /\ a + b \in Nat
    OBVIOUS
  <2>3. Pow2[a + (b + 1)] = 2 * (Pow2[a] * Pow2[b]) /\ Pow2[b + 1] = 2 * Pow2[b]
    BY <2>1, <2>2, Pow2Step
  <2>4. \A x \in Nat, y \in Nat : 2 * (x * y) = x * (2 * y)
    OBVIOUS
  <2> QED
    BY <2>3, <2>4, Pow2Type
<1>3. Nat \subseteq T
  <2> HIDE DEF T
  <2> QED
    BY <1>1, <1>2, StepInduction
<1> QED
  BY <1>3

(* A larger exponent gives at least twice the power.                       *)
LEMMA Pow2Order == \A a \in Nat, b \in Nat : a < b => 2 * Pow2[a] <= Pow2[b]
<1> SUFFICES ASSUME NEW a \in Nat, NEW b \in Nat, a < b PROVE 2 * Pow2[a] <= Pow2[b]
  OBVIOUS
<1>1. b - (a + 1) \in Nat /\ a + 1 \in Nat /\ (a + 1) + (b - (a + 1)) = b
  OBVIOUS
<1>2. Pow2[b] = Pow2[a + 1] * Pow2[b - (a + 1)] /\ Pow2[a + 1] = 2 * Pow2[a]
  BY <1>1, Pow2Sum, Pow2Step
<1>3. \A x \in Nat, y \in Nat \ {0} : x <= x * y
  OBVIOUS
<1> QED
  BY <1>1, <1>2, <1>3, Pow2Type

(* The bits of n from the j-th on.                                         *)
Shift(n, j) == n \div Pow2[j]

LEMMA ShiftIs ==
  \A n \in Nat, j \in Nat :
    /\ Shift(n, j) \in Nat
    /\ Pow2[j] * Shift(n, j) <= n /\ n < Pow2[j] * (Shift(n, j) + 1)
    /\ \A q \in Nat : Pow2[j] * q <= n /\ n < Pow2[j] * (q + 1) => Shift(n, j) = q
<1>1. \A n \in Nat, d \in Nat \ {0} :
        /\ n \div d \in Nat
        /\ d * (n \div d) <= n /\ n < d * ((n \div d) + 1)
        /\ \A q \in Nat : d * q <= n /\ n < d * (q + 1) => n \div d = q
  OBVIOUS
<1> QED
  BY <1>1, Pow2Type DEF Shift

LEMMA ShiftStep ==
  \A n \in Nat, j \in Nat : Shift(n, j + 1) = Shift(n, j) \div 2
<1> SUFFICES ASSUME NEW n \in Nat, NEW j \in Nat PROVE Shift(n, j + 1) = Shift(n, j) \div 2
  OBVIOUS
<1> DEFINE q == Shift(n, j)
           h == q \div 2
<1>1. q \in Nat /\ Pow2[j] * q <= n /\ n < Pow2[j] * (q + 1)
  BY ShiftIs
<1>2. Pow2[j + 1] = 2 * Pow2[j] /\ Pow2[j] \in Nat /\ Pow2[j + 1] \in Nat
  BY Pow2Step, Pow2Type
<1> HIDE DEF q
<1>3. h \in Nat /\ 2 * h <= q /\ q + 1 <= 2 * (h + 1)
  BY <1>1
<1> HIDE DEF h
<1>4. \A x \in Nat : x * (2 * h) <= x * q /\ x * (q + 1) <= x * (2 * (h + 1))
  BY <1>1, <1>3
<1>5. \A x \in Nat, y \in Nat : (2 * x) * y = x * (2 * y)
  OBVIOUS
<1>6. Pow2[j + 1] * h = Pow2[j] * (2 * h) /\ Pow2[j + 1] * (h + 1) = Pow2[j] * (2 * (h + 1))
  BY <1>2, <1>3, <1>5
<1>7. /\ Pow2[j] * (2 * h) <= Pow2[j] * q /\ Pow2[j] * (q + 1) <= Pow2[j] * (2 * (h + 1))
      /\ Pow2[j] * (2 * h) \in Nat /\ Pow2[j] * q \in Nat /\ Pow2[j] * (q + 1) \in Nat
      /\ Pow2[j] * (2 * (h + 1)) \in Nat
  BY <1>1, <1>2, <1>3, <1>4
<1>8. Pow2[j + 1] * h <= n /\ n < Pow2[j + 1] * (h + 1)
  BY <1>1, <1>6, <1>7
<1>9. Shift(n, j + 1) = h
  <2>1. j + 1 \in Nat
    OBVIOUS
  <2>2. \A x \in Nat : Pow2[j + 1] * x <= n /\ n < Pow2[j + 1] * (x + 1) => Shift(n, j + 1) = x
    BY <2>1, ShiftIs, Zenon
  <2> QED
    BY <1>3, <1>8, <2>2, Zenon
<1> QED
  BY <1>9 DEF h, q

(* Numbers that agree from a bit on agree from every later bit on.         *)
LEMMA ShiftStays ==
  ASSUME NEW a \in Nat, NEW b \in Nat, NEW j \in Nat, Shift(a, j) = Shift(b, j)
  PROVE  \A k \in Nat : j <= k => Shift(a, k) = Shift(b, k)
<1> DEFINE T == {d \in Nat : Shift(a, j + d) = Shift(b, j + d)}
<1>1. 0 \in T
  <2>1. j + 0 = j
    OBVIOUS
  <2> QED
    BY <2>1
<1>2. ASSUME NEW d \in Nat, d \in T
      PROVE  d + 1 \in T
  <2>1. j + d \in Nat /\ j + (d + 1) = (j + d) + 1
    OBVIOUS
  <2>2. Shift(a, (j + d) + 1) = Shift(a, j + d) \div 2 /\ Shift(b, (j + d) + 1) = Shift(b, j + d) \div 2
    BY <2>1, ShiftStep
  <2> QED
    BY <1>2, <2>1, <2>2
<1>3. Nat \subseteq T
  <2> HIDE DEF T
  <2> QED
    BY <1>1, <1>2, StepInduction
<1>4. \A k \in Nat : j <= k => k - j \in Nat /\ j + (k - j) = k
  OBVIOUS
<1> QED
  BY <1>3, <1>4

(* A number below a power of two, shifted.                                 *)
LEMMA ShiftSmall ==
  \A n \in Nat, s \in Nat, j \in Nat :
    n < Pow2[s] => /\ j <= s => Shift(n, j) < Pow2[s - j]
                   /\ s <= j => Shift(n, j) = 0
<1> SUFFICES ASSUME NEW n \in Nat, NEW s \in Nat, NEW j \in Nat, n < Pow2[s]
             PROVE  /\ j <= s => Shift(n, j) < Pow2[s - j]
                    /\ s <= j => Shift(n, j) = 0
  OBVIOUS
<1>1. ASSUME j <= s
      PROVE  Shift(n, j) < Pow2[s - j]
  <2>1. s - j \in Nat /\ j + (s - j) = s
    BY <1>1
  <2>2. Pow2[s] = Pow2[j] * Pow2[s - j]
    BY <2>1, Pow2Sum
  <2>3. \A d \in Nat \ {0}, q \in Nat, p \in Nat : d * q < d * p => q < p
    OBVIOUS
  <2>4. Pow2[j] * Shift(n, j) \in Nat /\ Pow2[j] * Shift(n, j) <= n
    <3>1. Pow2[j] \in Nat /\ Shift(n, j) \in Nat /\ Pow2[j] * Shift(n, j) <= n
      BY ShiftIs, Pow2Type, Zenon
    <3>2. \A x \in Nat, y \in Nat : x * y \in Nat
      OBVIOUS
    <3> QED
      BY <3>1, <3>2
  <2>5. Pow2[j] * Shift(n, j) < Pow2[j] * Pow2[s - j]
    BY <2>2, <2>4, Pow2Type
  <2> QED
    BY <2>1, <2>3, <2>5, ShiftIs, Pow2Type
<1>2. ASSUME s <= j
      PROVE  Shift(n, j) = 0
  <2>1. Pow2[s] <= Pow2[j]
    <3>1. CASE s = j
      BY <3>1, Pow2Type
    <3>2. CASE s < j
      BY <3>2, Pow2Order, Pow2Type
    <3> QED
      BY <1>2, <3>1, <3>2
  <2>2. Pow2[j] * 0 <= n /\ n < Pow2[j] * (0 + 1)
    BY <2>1, Pow2Type
  <2> QED
    BY <2>2, ShiftIs
<1> QED
  BY <1>1, <1>2

(* One with a power of two added, shifted.                                 *)
LEMMA ShiftAdd ==
  \A n \in Nat, s \in Nat, j \in Nat :
    j <= s => Shift(n + Pow2[s], j) = Shift(n, j) + Pow2[s - j]
<1> SUFFICES ASSUME NEW n \in Nat, NEW s \in Nat, NEW j \in Nat, j <= s
             PROVE  Shift(n + Pow2[s], j) = Shift(n, j) + Pow2[s - j]
  OBVIOUS
<1>1. s - j \in Nat /\ j + (s - j) = s
  OBVIOUS
<1> DEFINE d == Pow2[j]
           p == Pow2[s - j]
           q == Shift(n, j)
<1>2. Pow2[s] = d * p
  BY <1>1, Pow2Sum
<1>3. d \in Nat /\ p \in Nat /\ q \in Nat /\ d * q <= n /\ n < d * (q + 1)
  BY <1>1, ShiftIs, Pow2Type
<1> HIDE DEF d, p, q
<1>4. d * (q + p) = d * q + d * p /\ d * ((q + p) + 1) = d * (q + 1) + d * p
      /\ d * q \in Nat /\ d * p \in Nat /\ d * (q + 1) \in Nat
  BY <1>3
<1>5. d * (q + p) <= n + Pow2[s] /\ n + Pow2[s] < d * ((q + p) + 1) /\ n + Pow2[s] \in Nat
  BY <1>2, <1>3, <1>4
<1>6. Shift(n + Pow2[s], j) = q + p
  <2>1. q + p \in Nat
    BY <1>3
  <2> QED
    BY <1>5, <2>1, ShiftIs DEF d
<1> QED
  BY <1>6 DEF p, q

(* A number that is not below a power of two, shifted.                     *)
LEMMA ShiftLarge ==
  \A n \in Nat, s \in Nat, j \in Nat :
    j <= s /\ Pow2[s] <= n => Pow2[s - j] <= Shift(n, j)
<1> SUFFICES ASSUME NEW n \in Nat, NEW s \in Nat, NEW j \in Nat, j <= s, Pow2[s] <= n
             PROVE  Pow2[s - j] <= Shift(n, j)
  OBVIOUS
<1>1. s - j \in Nat /\ n - Pow2[s] \in Nat /\ (n - Pow2[s]) + Pow2[s] = n
  BY Pow2Type
<1>2. Shift(n, j) = Shift(n - Pow2[s], j) + Pow2[s - j] /\ Shift(n - Pow2[s], j) \in Nat
  <2> DEFINE m == n - Pow2[s]
  <2>1. m \in Nat /\ m + Pow2[s] = n
    BY <1>1
  <2> HIDE DEF m
  <2>2. Shift(m + Pow2[s], j) = Shift(m, j) + Pow2[s - j] /\ Shift(m, j) \in Nat
    <3>1. Shift(m, j) \in Nat
      BY <2>1, ShiftIs, Zenon
    <3>2. Shift(m + Pow2[s], j) = Shift(m, j) + Pow2[s - j]
      BY <2>1, ShiftAdd, Zenon
    <3> QED
      BY <3>1, <3>2
  <2>3. Shift(n, j) = Shift(m, j) + Pow2[s - j] /\ Shift(m, j) \in Nat
    BY <2>1, <2>2, Zenon
  <2> QED
    BY <2>3 DEF m
<1> QED
  BY <1>1, <1>2, Pow2Type

(* All ones, shifted.                                                      *)
LEMMA ShiftOnes ==
  \A s \in Nat, j \in Nat : j <= s => Shift(Pow2[s] - 1, j) = Pow2[s - j] - 1
<1> SUFFICES ASSUME NEW s \in Nat, NEW j \in Nat, j <= s
             PROVE  Shift(Pow2[s] - 1, j) = Pow2[s - j] - 1
  OBVIOUS
<1>1. s - j \in Nat /\ j + (s - j) = s
  OBVIOUS
<1> DEFINE d == Pow2[j]
           p == Pow2[s - j]
<1>2. Pow2[s] = d * p
  BY <1>1, Pow2Sum
<1>3. d \in Nat \ {0} /\ p \in Nat \ {0}
  BY <1>1, Pow2Type
<1>4. Pow2[s] - 1 \in Nat
  BY Pow2Type
<1> HIDE DEF d, p
<1>5. d * (p - 1) = d * p - d /\ d * ((p - 1) + 1) = d * p /\ d * p \in Nat /\ p - 1 \in Nat
  BY <1>3
<1>6. d * (p - 1) <= Pow2[s] - 1 /\ Pow2[s] - 1 < d * ((p - 1) + 1)
  BY <1>2, <1>3, <1>5
<1>7. Shift(Pow2[s] - 1, j) = p - 1
  BY <1>4, <1>5, <1>6, ShiftIs DEF d
<1> QED
  BY <1>7 DEF p

LEMMA Pow2Even == \A n \in Nat : n # 0 => Pow2[n] % 2 = 0
<1> SUFFICES ASSUME NEW n \in Nat, n # 0 PROVE Pow2[n] % 2 = 0
  OBVIOUS
<1>1. n - 1 \in Nat /\ Pow2[n] = 2 * Pow2[n - 1]
  BY Pow2Def
<1>2. \A x \in Nat : (2 * x) % 2 = 0
  OBVIOUS
<1> QED
  BY <1>1, <1>2, Pow2Type

(* From which bit on two numbers agree.                                    *)
LEMMA DifferingBitsIs ==
  ASSUME NEW a \in Nat, NEW b \in Nat
  PROVE  /\ DifferingBits(a, b) \in Nat
         /\ \A j \in Nat : j < DifferingBits(a, b) <=> Shift(a, j) # Shift(b, j)
<1> DEFINE P(k) == /\ Shift(a, k) = Shift(b, k)
                   /\ \A j \in 0..(k - 1) : Shift(a, j) # Shift(b, j)
           T == {k \in Nat : Shift(a, k) = Shift(b, k)}
<1>1. a + b \in T
  <2>1. a + b \in Nat /\ a < Pow2[a + b] /\ b < Pow2[a + b]
    <3>1. a + b \in Nat /\ a + b < Pow2[a + b] /\ Pow2[a + b] \in Nat
      BY Pow2Type
    <3> QED
      BY <3>1
  <2>2. Shift(a, a + b) = 0 /\ Shift(b, a + b) = 0
    BY <2>1, ShiftSmall
  <2> QED
    BY <2>1, <2>2
<1>2. PICK k \in T : \A j \in T : k <= j
  <2>1. T \in SUBSET Nat /\ T # {}
    BY <1>1
  <2> HIDE DEF T
  <2> QED
    BY <2>1, NatLeast
<1>3. k \in 0..(a + b) /\ P(k)
  <2>1. k \in Nat /\ k <= a + b /\ Shift(a, k) = Shift(b, k)
    BY <1>1, <1>2
  <2>2. ASSUME NEW j \in 0..(k - 1)
        PROVE  Shift(a, j) # Shift(b, j)
    BY <1>2, <2>1
  <2> QED
    BY <2>1, <2>2
<1>4. DifferingBits(a, b) = CHOOSE x \in 0..(a + b) : P(x)
  BY DEF DifferingBits, Shift
<1>5. PICK d \in 0..(a + b) : d = DifferingBits(a, b) /\ P(d)
  <2> HIDE DEF P
  <2> QED
    BY <1>3, <1>4
<1>6. ASSUME NEW j \in Nat
      PROVE  j < d <=> Shift(a, j) # Shift(b, j)
  <2>1. CASE j < d
    BY <1>5, <2>1
  <2>2. CASE d <= j
    <3>1. d \in Nat /\ Shift(a, d) = Shift(b, d)
      BY <1>5
    <3>2. Shift(a, j) = Shift(b, j)
      BY <2>2, <3>1, ShiftStays
    <3> QED
      BY <1>5, <2>2, <3>2
  <2> QED
    BY <1>5, <2>1, <2>2
<1> QED
  BY <1>5, <1>6

-----------------------------------------------------------------------------
(* Up a path.                                                              *)

ClimbStep(s, h, left) == IF left THEN HashChildren(s, h) ELSE HashChildren(h, s)

(* The hashes on the way up the first n turns.                             *)
Climbs(c, seed, proof, onLeft, n) ==
  \A k \in 0..n : c[k] = IF k = 0 THEN seed ELSE ClimbStep(c[k - 1], proof[k], onLeft[k])

LEMMA ClimbsExist ==
  ASSUME NEW seed, NEW proof, NEW onLeft
  PROVE  \A n \in Nat : \E c : Climbs(c, seed, proof, onLeft, n)
<1> DEFINE T == {n \in Nat : \E c : Climbs(c, seed, proof, onLeft, n)}
<1>1. 0 \in T
  <2>1. Climbs([k \in {0} |-> seed], seed, proof, onLeft, 0)
    BY DEF Climbs
  <2> QED
    BY <2>1
<1>2. ASSUME NEW n \in Nat, n \in T
      PROVE  n + 1 \in T
  <2>1. PICK c : Climbs(c, seed, proof, onLeft, n)
    BY <1>2
  <2> DEFINE d == [k \in 0..(n + 1) |->
                     IF k = n + 1 THEN ClimbStep(c[n], proof[n + 1], onLeft[n + 1]) ELSE c[k]]
  <2>2. ASSUME NEW k \in 0..(n + 1)
        PROVE  d[k] = IF k = 0 THEN seed ELSE ClimbStep(d[k - 1], proof[k], onLeft[k])
    <3>1. CASE k = n + 1
      <4>1. k # 0 /\ k - 1 = n /\ n \in 0..(n + 1) /\ n # n + 1
        BY <3>1
      <4>2. d[k] = ClimbStep(c[n], proof[k], onLeft[k]) /\ d[n] = c[n]
        BY <3>1, <4>1
      <4> QED
        BY <4>1, <4>2
    <3>2. CASE k # n + 1
      <4>1. k \in 0..n /\ (k # 0 => k - 1 \in 0..(n + 1) /\ k - 1 # n + 1)
        BY <3>2
      <4>2. c[k] = IF k = 0 THEN seed ELSE ClimbStep(c[k - 1], proof[k], onLeft[k])
        BY <2>1, <4>1 DEF Climbs
      <4>3. d[k] = c[k] /\ (k # 0 => d[k - 1] = c[k - 1])
        BY <3>2, <4>1
      <4> QED
        BY <4>2, <4>3
    <3> QED
      BY <3>1, <3>2
  <2>3. Climbs(d, seed, proof, onLeft, n + 1)
    <3> HIDE DEF d
    <3> QED
      BY <2>2 DEF Climbs
  <2> QED
    BY <2>3
<1>3. Nat \subseteq T
  <2> HIDE DEF T
  <2> QED
    BY <1>1, <1>2, StepInduction
<1> QED
  BY <1>3

(* Climb is the last of them.                                              *)
LEMMA ClimbDef ==
  ASSUME NEW seed, NEW proof, NEW onLeft, Len(proof) \in Nat
  PROVE  \E c : /\ Climbs(c, seed, proof, onLeft, Len(proof))
                /\ Climb(seed, proof, onLeft) = c[Len(proof)]
<1> DEFINE n == Len(proof)
           Is(c) == c = [k \in 0..n |-> IF k = 0 THEN seed
                                        ELSE IF onLeft[k] THEN HashChildren(c[k - 1], proof[k])
                                        ELSE HashChildren(proof[k], c[k - 1])]
<1>1. PICK d : Climbs(d, seed, proof, onLeft, n)
  BY ClimbsExist
<1> DEFINE e == [k \in 0..n |-> d[k]]
<1>2. Is(e)
  <2>1. ASSUME NEW k \in 0..n
        PROVE  e[k] = IF k = 0 THEN seed
                      ELSE IF onLeft[k] THEN HashChildren(e[k - 1], proof[k])
                      ELSE HashChildren(proof[k], e[k - 1])
    <3>1. d[k] = IF k = 0 THEN seed ELSE ClimbStep(d[k - 1], proof[k], onLeft[k])
      BY <1>1 DEF Climbs
    <3>2. k # 0 => k - 1 \in 0..n
      OBVIOUS
    <3>3. e[k] = d[k] /\ (k # 0 => e[k - 1] = d[k - 1])
      BY <3>2
    <3> QED
      BY <3>1, <3>3 DEF ClimbStep
  <2>2. e = [k \in 0..n |-> e[k]]
    OBVIOUS
  <2> HIDE DEF e, n
  <2> QED
    BY <2>1, <2>2
<1>3. PICK c : c = (CHOOSE x : Is(x)) /\ Is(c)
  <2> HIDE DEF Is
  <2> QED
    BY <1>2
<1>4. Climb(seed, proof, onLeft) = c[n]
  BY <1>3 DEF Climb
<1>5. Climbs(c, seed, proof, onLeft, n)
  BY <1>3 DEF Climbs, ClimbStep
<1> QED
  BY <1>4, <1>5

(* The same behind the first a of them; and what is passed is the same.    *)
Turns(c, p, L, a, n) ==
  \A k \in 1..n : c[a + k] = ClimbStep(c[(a + k) - 1], p[a + k], L[a + k])
Passes(p, L, a, q, M, n) == \A k \in 1..n : p[a + k] = q[k] /\ L[a + k] = M[k]

(* The hashes on the way are those of the seed and of what is passed.      *)
LEMMA ClimbsAgree ==
  ASSUME NEW c, NEW d, NEW p, NEW q, NEW L, NEW M, NEW n, NEW a, n \in Nat, a \in Nat,
         Turns(c, p, L, a, n), Climbs(d, d[0], q, M, n), Passes(p, L, a, q, M, n),
         c[a] = d[0]
  PROVE  \A k \in 0..n : c[a + k] = d[k]
<1> DEFINE T == {k \in Nat : k <= n => c[a + k] = d[k]}
<1>1. 0 \in T
  <2>1. a + 0 = a
    OBVIOUS
  <2> QED
    BY <2>1
<1>2. ASSUME NEW k \in Nat, k \in T
      PROVE  k + 1 \in T
  <2>1. SUFFICES ASSUME k + 1 <= n PROVE c[a + (k + 1)] = d[k + 1]
    OBVIOUS
  <2>2. k + 1 \in 1..n /\ (a + (k + 1)) - 1 = a + k /\ (k + 1) - 1 = k /\ c[a + k] = d[k]
    BY <1>2, <2>1
  <2>3. c[a + (k + 1)] = ClimbStep(c[a + k], p[a + (k + 1)], L[a + (k + 1)])
    BY <2>2 DEF Turns
  <2>4. d[k + 1] = ClimbStep(d[k], q[k + 1], M[k + 1])
    <3>1. k + 1 \in 0..n /\ k + 1 # 0
      BY <2>2
    <3> QED
      BY <2>2, <3>1 DEF Climbs
  <2>5. p[a + (k + 1)] = q[k + 1] /\ L[a + (k + 1)] = M[k + 1]
    BY <2>2 DEF Passes
  <2> QED
    BY <2>2, <2>3, <2>4, <2>5
<1>3. Nat \subseteq T
  <2> HIDE DEF T
  <2> QED
    BY <1>1, <1>2, StepInduction
<1> QED
  BY <1>3

LEMMA ClimbsTurn ==
  ASSUME NEW c, NEW seed, NEW p, NEW L, NEW n, n \in Nat, Climbs(c, seed, p, L, n)
  PROVE  c[0] = seed /\ \A k \in 1..n : c[k] = ClimbStep(c[k - 1], p[k], L[k])
<1>1. 0 \in 0..n /\ \A k \in 1..n : k \in 0..n /\ k # 0
  OBVIOUS
<1> QED
  BY <1>1 DEF Climbs

(* A climb in two parts.                                                   *)
Follows(L, a, M, n) == \A k \in 1..n : L[a + k] = M[k]

LEMMA ClimbTwice ==
  ASSUME NEW p, NEW seed, NEW L, NEW m, NEW M, NEW N, NEW a, NEW b,
         NEW n, NEW x, n \in Nat, m \in Nat, x \in Nat, n = m + x,
         Len(p) = n, Len(a) = m, Len(b) = x, Follows(p, 0, a, m), Follows(p, m, b, x),
         Follows(L, 0, M, m), Follows(L, m, N, x)
  PROVE  Climb(Climb(seed, a, M), b, N) = Climb(seed, p, L)
<1>1. n \in Nat /\ m \in Nat /\ m <= n /\ x \in Nat
  OBVIOUS
<1>4. PICK c : Climbs(c, seed, p, L, n) /\ Climb(seed, p, L) = c[n]
  BY <1>1, ClimbDef
<1>5. PICK d : Climbs(d, seed, a, M, m) /\ Climb(seed, a, M) = d[m]
  BY <1>1, ClimbDef
<1>7. PICK e : Climbs(e, d[m], b, N, x) /\ Climb(d[m], b, N) = e[x]
  BY <1>1, ClimbDef
<1>8. c[0] = seed /\ \A k \in 1..n : c[k] = ClimbStep(c[k - 1], p[k], L[k])
  BY <1>1, <1>4, ClimbsTurn
<1>9. d[0] = seed /\ Climbs(d, d[0], a, M, m)
  BY <1>1, <1>5, ClimbsTurn
<1>10. e[0] = d[m] /\ Climbs(e, e[0], b, N, x)
  BY <1>1, <1>7, ClimbsTurn
<1>11. \A k \in 0..m : c[0 + k] = d[k]
  <2>1. Turns(c, p, L, 0, m)
    <3>1. \A k \in 1..m : 0 + k = k /\ k \in 1..n
      BY <1>1
    <3> QED
      BY <1>8, <3>1 DEF Turns
  <2>2. Passes(p, L, 0, a, M, m)
    <3>1. \A k \in 1..m : 0 + k = k
      BY <1>1
    <3> QED
      BY <3>1 DEF Passes, Follows
  <2>3. c[0] = d[0] /\ 0 \in Nat
    BY <1>8, <1>9
  <2> QED
    BY <1>1, <1>9, <2>1, <2>2, <2>3, ClimbsAgree
<1>12. c[m] = d[m]
  <2>1. m \in 0..m /\ 0 + m = m
    BY <1>1
  <2> QED
    BY <1>11, <2>1
<1>13. \A k \in 0..x : c[m + k] = e[k]
  <2>1. Turns(c, p, L, m, x)
    <3>1. \A k \in 1..x : m + k \in 1..n
      BY <1>1
    <3> QED
      BY <1>8, <3>1 DEF Turns
  <2>2. Passes(p, L, m, b, N, x)
    BY DEF Passes, Follows
  <2>3. c[m] = e[0] /\ Climbs(e, e[0], b, N, x)
    BY <1>10, <1>12
  <2> QED
    BY <1>1, <2>1, <2>2, <2>3, ClimbsAgree, Z3
<1>14. c[n] = e[x]
  <2>1. x \in 0..x /\ m + (x) = n
    BY <1>1
  <2> QED
    BY <1>13, <2>1
<1> QED
  BY <1>4, <1>5, <1>7, <1>14

(* One more hash on top.                                                   *)
LEMMA ClimbAppend ==
  ASSUME NEW S, NEW p, NEW h, NEW seed, NEW L, NEW M, p \in Seq(S), h \in S,
         \A k \in 1..Len(p) : L[k] = M[k]
  PROVE  Climb(seed, Append(p, h), L) = ClimbStep(Climb(seed, p, M), h, L[Len(p) + 1])
<1> DEFINE q == Append(p, h)
           n == Len(p)
<1>1. n \in Nat /\ Len(q) = n + 1 /\ q[n + 1] = h /\ \A k \in 1..n : q[k] = p[k]
  OBVIOUS
<1> HIDE DEF q, n
<1>2. PICK c : Climbs(c, seed, q, L, n + 1) /\ Climb(seed, q, L) = c[n + 1]
  <2>1. n + 1 \in Nat
    BY <1>1
  <2> QED
    BY <1>1, <2>1, ClimbDef
<1>3. PICK d : Climbs(d, seed, p, M, n) /\ Climb(seed, p, M) = d[n]
  BY <1>1, ClimbDef DEF n
<1>4. c[0] = seed /\ \A k \in 1..(n + 1) : c[k] = ClimbStep(c[k - 1], q[k], L[k])
  <2>1. n + 1 \in Nat
    BY <1>1
  <2> QED
    BY <1>2, <2>1, ClimbsTurn
<1>5. d[0] = seed /\ Climbs(d, d[0], p, M, n)
  BY <1>1, <1>3, ClimbsTurn
<1>6. \A k \in 0..n : c[0 + k] = d[k]
  <2>1. \A k \in 1..n : 0 + k = k /\ k \in 1..(n + 1)
    BY <1>1
  <2>2. Turns(c, q, L, 0, n)
    BY <1>4, <2>1 DEF Turns
  <2>3. Passes(q, L, 0, p, M, n)
    BY <1>1, <2>1 DEF n, Passes
  <2>4. c[0] = d[0] /\ 0 \in Nat
    BY <1>4, <1>5
  <2> QED
    BY <1>1, <1>5, <2>2, <2>3, <2>4, ClimbsAgree
<1>7. c[n] = d[n]
  <2>1. n \in 0..n /\ 0 + n = n
    BY <1>1
  <2> QED
    BY <1>6, <2>1
<1>8. n + 1 \in 1..(n + 1) /\ (n + 1) - 1 = n
  BY <1>1
<1>9. c[n + 1] = ClimbStep(d[n], h, L[n + 1])
  BY <1>1, <1>4, <1>7, <1>8
<1> QED
  BY <1>2, <1>3, <1>9 DEF q, n

LEMMA ClimbEmpty ==
  ASSUME NEW seed, NEW L
  PROVE  Climb(seed, << >>, L) = seed
<1>1. Len(<< >>) = 0 /\ 0 \in Nat
  OBVIOUS
<1>2. PICK c : Climbs(c, seed, << >>, L, 0) /\ Climb(seed, << >>, L) = c[0]
  BY <1>1, ClimbDef
<1> QED
  BY <1>1, <1>2, ClimbsTurn

(* What root_from_icp computes is one climb: a hash is to the right of the *)
(* path where the path is on the left and not yet on the border.           *)
OnLeft(r, m, k) == Shift(r, k - 1) # Shift(m, k - 1) /\ Shift(r, k - 1) % 2 = 0

LEMMA RootFromIcpIs ==
  ASSUME NEW r \in Nat, NEW size \in Nat \ {0}, NEW S, NEW proof \in Seq(S), NEW hash
  PROVE  RootFromIcp(r, size, proof, hash)
           = Climb(hash, proof, [k \in DOMAIN proof |-> OnLeft(r, size - 1, k)])
<1> DEFINE n == DifferingBits(r, size - 1)
           len == Len(proof)
           m == IF n < len THEN n ELSE len
           L == [k \in DOMAIN proof |-> OnLeft(r, size - 1, k)]
           a == SubSeq(proof, 1, m)
           b == SubSeq(proof, m + 1, len)
           M == [k \in DOMAIN a |-> Bit(r, k - 1) = 0]
           N == [k \in DOMAIN b |-> FALSE]
<1>1. n \in Nat /\ \A j \in Nat : j < n <=> Shift(r, j) # Shift(size - 1, j)
  <2>1. size - 1 \in Nat
    OBVIOUS
  <2> QED
    BY <2>1, DifferingBitsIs
<1>2. RootFromIcp(r, size, proof, hash) = Climb(Climb(hash, a, M), b, N)
  BY DEF RootFromIcp, ChainInner, ChainBorderRight
<1>3. m \in 0..len /\ m \in Nat /\ len \in Nat /\ m <= n /\ (m = n \/ m = len) /\ m <= len
  <2> HIDE DEF n
  <2> QED
    BY <1>1
<1>4. DOMAIN proof = 1..len
  OBVIOUS
<1>5. DOMAIN a = 1..m /\ DOMAIN b = 1..(len - m)
  <2> HIDE DEF m
  <2>1. Len(a) = m
    BY <1>3, SMTT(30)
  <2>2. Len(b) = len - m
    BY <1>3, SMTT(30)
  <2>3. a \in Seq(S)
    BY <1>3, SMTT(30)
  <2>4. b \in Seq(S)
    BY <1>3, SMTT(30)
  <2> QED
    BY <2>1, <2>2, <2>3, <2>4
<1> HIDE DEF n, m
<1>6. Follows(L, 0, M, m)
  <2> SUFFICES ASSUME NEW k \in 1..m PROVE L[k] = M[k]
    <3>1. \A k \in 1..m : 0 + k = k
      BY <1>3
    <3> QED
      BY <3>1 DEF Follows
  <2>1. k - 1 \in Nat /\ k - 1 < n /\ k \in 1..len
    BY <1>1, <1>3
  <2>2. Shift(r, k - 1) # Shift(size - 1, k - 1)
    BY <1>1, <2>1
  <2>3. L[k] = OnLeft(r, size - 1, k)
    BY <1>4, <2>1
  <2>4. M[k] = (Bit(r, k - 1) = 0)
    BY <1>5
  <2>5. OnLeft(r, size - 1, k) = (Bit(r, k - 1) = 0)
    BY <2>2 DEF OnLeft, Bit, Shift
  <2> QED
    BY <2>3, <2>4, <2>5, Zenon
<1>7. Follows(L, m, N, len - m)
  <2> SUFFICES ASSUME NEW k \in 1..(len - m) PROVE L[m + k] = N[k]
    BY DEF Follows
  <2>1. (m + k) - 1 \in Nat /\ ~((m + k) - 1 < n) /\ m + k \in 1..len
    BY <1>1, <1>3
  <2>2. Shift(r, (m + k) - 1) = Shift(size - 1, (m + k) - 1)
    BY <1>1, <2>1
  <2>3. L[m + k] = OnLeft(r, size - 1, m + k)
    BY <1>4, <2>1
  <2>4. N[k] = FALSE
    BY <1>5
  <2>5. OnLeft(r, size - 1, m + k) = FALSE
    <3>1. \A x, y : ((x # x) /\ y) = FALSE
      OBVIOUS
    <3>2. Shift(r, (m + k) - 1) = Shift(size - 1, (m + k) - 1)
      BY <2>2
    <3> QED
      BY <3>1, <3>2, Zenon DEF OnLeft
  <2> QED
    BY <2>3, <2>4, <2>5, Zenon
<1>8. Climb(Climb(hash, a, M), b, N) = Climb(hash, proof, L)
  <2>1. Len(a) = m /\ Len(b) = len - m
    <3>1. Len(a) = m
      BY <1>3, SMTT(30)
    <3>2. Len(b) = len - m
      BY <1>3, SMTT(30)
    <3> QED
      BY <3>1, <3>2
  <2>2. Follows(proof, 0, a, m)
    <3>1. \A k \in 1..m : a[k] = proof[k] /\ 0 + k = k
      BY <1>3, SMTT(30)
    <3> QED
      BY <3>1 DEF Follows
  <2>3. Follows(proof, m, b, len - m)
    <3>1. ASSUME NEW k \in 1..(len - m)
          PROVE  b[k] = proof[m + k]
      BY <1>3, SMTT(30)
    <3> HIDE DEF b
    <3> QED
      BY <3>1 DEF Follows
  <2>4. Len(proof) = len
    OBVIOUS
  <2>5. PICK x : x = len - m
    OBVIOUS
  <2> HIDE DEF L, M, N, a, b, len
  <2>6. x \in Nat /\ len = m + x /\ Len(b) = x
    BY <1>3, <2>1, <2>5
  <2>7. Follows(proof, m, b, x) /\ Follows(L, m, N, x)
    BY <1>7, <2>3, <2>5
  <2> QED
    BY <1>3, <1>6, <2>1, <2>2, <2>4, <2>6, <2>7, ClimbTwice
<1> QED
  BY <1>2, <1>8

-----------------------------------------------------------------------------
(* The tree of a log.                                                      *)

(* A tree of more than one leaf is split at a power of two, and neither    *)
(* half is empty.                                                          *)
LEMMA SplitIs ==
  ASSUME NEW n \in Nat, 1 < n
  PROVE  \E s \in Nat : Split(n) = Pow2[s] /\ Pow2[s] < n /\ n <= 2 * Pow2[s]
<1> DEFINE T == {i \in Nat : n <= 2 * Pow2[i]}
<1>1. n \in T
  BY Pow2Type
<1>2. PICK s \in T : \A j \in T : s <= j
  <2>1. T \in SUBSET Nat /\ T # {}
    BY <1>1
  <2> HIDE DEF T
  <2> QED
    BY <2>1, NatLeast
<1>3. s \in Nat /\ s <= n /\ n <= 2 * Pow2[s]
  BY <1>1, <1>2
<1>4. Pow2[s] < n
  <2>1. CASE s = 0
    BY <2>1, Pow2Step
  <2>2. CASE s # 0
    <3>1. s - 1 \in Nat /\ Pow2[s] = 2 * Pow2[s - 1] /\ ~(s <= s - 1)
      BY <1>3, <2>2, Pow2Def
    <3>2. ~(n <= 2 * Pow2[s - 1])
      BY <1>2, <3>1
    <3> QED
      BY <1>3, <3>1, <3>2, Pow2Type
  <2> QED
    BY <2>1, <2>2
<1> DEFINE K == {Pow2[i] : i \in 0..n}
           P(k) == k < n /\ n <= 2 * k
<1>5. Pow2[s] \in K /\ P(Pow2[s])
  BY <1>3, <1>4
<1>6. Split(n) = CHOOSE k \in K : P(k)
  BY DEF Split
<1>7. PICK k \in K : k = Split(n) /\ P(k)
  <2> HIDE DEF K, P
  <2> QED
    BY <1>5, <1>6
<1>8. PICK i \in 0..n : k = Pow2[i]
  BY <1>7
<1> QED
  BY <1>7, <1>8

(* The only such power.                                                    *)
LEMMA SplitOfPower ==
  ASSUME NEW s \in Nat
  PROVE  Split(Pow2[s + 1]) = Pow2[s]
<1>1. Pow2[s + 1] \in Nat /\ 1 < Pow2[s + 1] /\ Pow2[s + 1] = 2 * Pow2[s]
  BY Pow2Type, Pow2Step
<1>2. PICK t \in Nat : Split(Pow2[s + 1]) = Pow2[t] /\ Pow2[t] < Pow2[s + 1]
                       /\ Pow2[s + 1] <= 2 * Pow2[t]
  BY <1>1, SplitIs
<1>3. ~(s < t)
  <2>1. s < t => 2 * Pow2[s] <= Pow2[t]
    BY Pow2Order
  <2> QED
    BY <1>1, <1>2, <2>1, Pow2Type
<1>4. ~(t < s)
  <2>1. t < s => 2 * Pow2[t] <= Pow2[s]
    BY Pow2Order
  <2>2. Pow2[s] \in Nat \ {0} /\ Pow2[t] \in Nat
    BY Pow2Type
  <2> QED
    BY <1>1, <1>2, <2>1, <2>2
<1> QED
  BY <1>2, <1>3, <1>4

(* The recursion of a tree over its subtrees, up to m leaves.              *)
Pairs(n) == (0..n) \X (0..n)

HashOf(h, leaves, lo, hi) ==
  IF hi <= lo + 1 THEN HashLeaf(leaves[hi])
  ELSE HashChildren(h[<< lo, lo + Split(hi - lo) >>], h[<< lo + Split(hi - lo), hi >>])

LEMMA Halves ==
  ASSUME NEW n \in Nat, NEW lo \in 0..n, NEW hi \in 0..n, ~(hi <= lo + 1)
  PROVE  /\ lo + Split(hi - lo) \in 0..n
         /\ lo < lo + Split(hi - lo) /\ lo + Split(hi - lo) < hi
<1>1. hi - lo \in Nat /\ 1 < hi - lo
  OBVIOUS
<1>2. PICK s \in Nat : Split(hi - lo) = Pow2[s] /\ Pow2[s] < hi - lo
  BY <1>1, SplitIs
<1> QED
  BY <1>1, <1>2, Pow2Type

LEMMA TreeHashesExist ==
  ASSUME NEW leaves, NEW n \in Nat
  PROVE  \A m \in Nat : \E h : \A lo \in 0..n, hi \in 0..n :
           hi - lo <= m => h[<< lo, hi >>] = HashOf(h, leaves, lo, hi)
<1> DEFINE Solves(h, m) == \A lo \in 0..n, hi \in 0..n :
                             hi - lo <= m => h[<< lo, hi >>] = HashOf(h, leaves, lo, hi)
           T == {m \in Nat : \E h : Solves(h, m)}
<1>1. 0 \in T
  <2> DEFINE h == [s \in Pairs(n) |-> HashLeaf(leaves[s[2]])]
  <2>1. Solves(h, 0)
    BY DEF HashOf, Pairs
  <2> QED
    BY <2>1
<1>2. ASSUME NEW m \in Nat, m \in T
      PROVE  m + 1 \in T
  <2>1. PICK h : Solves(h, m)
    BY <1>2
  <2> DEFINE g == [s \in Pairs(n) |-> IF s[2] - s[1] = m + 1 THEN HashOf(h, leaves, s[1], s[2])
                                   ELSE h[s]]
  <2>0. ASSUME NEW lo \in 0..n, NEW hi \in 0..n
        PROVE  g[<< lo, hi >>] = IF hi - lo = m + 1 THEN HashOf(h, leaves, lo, hi)
                                 ELSE h[<< lo, hi >>]
    BY DEF Pairs
  <2> HIDE DEF g
  <2>2. ASSUME NEW lo \in 0..n, NEW hi \in 0..n, hi - lo <= m + 1
        PROVE  g[<< lo, hi >>] = HashOf(g, leaves, lo, hi)
    <3>1. HashOf(g, leaves, lo, hi) = HashOf(h, leaves, lo, hi)
      <4>1. CASE hi <= lo + 1
        BY <4>1 DEF HashOf
      <4>2. CASE ~(hi <= lo + 1)
        <5> DEFINE k == lo + Split(hi - lo)
        <5>1. k \in 0..n /\ lo < k /\ k < hi
          BY <4>2, Halves
        <5> HIDE DEF k
        <5>2. k - lo # m + 1 /\ hi - k # m + 1
          BY <2>2, <5>1
        <5>3. g[<< lo, k >>] = h[<< lo, k >>] /\ g[<< k, hi >>] = h[<< k, hi >>]
          BY <2>0, <5>1, <5>2
        <5> QED
          BY <4>2, <5>3 DEF HashOf, k
      <4> QED
        BY <4>1, <4>2
    <3>2. g[<< lo, hi >>] = HashOf(h, leaves, lo, hi)
      <4>1. CASE hi - lo = m + 1
        BY <2>0, <4>1
      <4>2. CASE hi - lo # m + 1
        <5>1. hi - lo <= m
          BY <2>2, <4>2
        <5>2. g[<< lo, hi >>] = h[<< lo, hi >>]
          BY <2>0, <4>2
        <5> QED
          BY <2>1, <5>1, <5>2
      <4> QED
        BY <4>1, <4>2
    <3> QED
      BY <3>1, <3>2
  <2>3. Solves(g, m + 1)
    <3> HIDE DEF g
    <3> QED
      BY <2>2
  <2> QED
    BY <2>3
<1>3. Nat \subseteq T
  <2> HIDE DEF T
  <2> QED
    BY <1>1, <1>2, StepInduction
<1> QED
  BY <1>3

LEMMA TreeHashDef ==
  ASSUME NEW leaves, Len(leaves) \in Nat
  PROVE  \A lo \in 0..Len(leaves), hi \in 0..Len(leaves) :
           TreeHash(leaves)[<< lo, hi >>] = HashOf(TreeHash(leaves), leaves, lo, hi)
<1> DEFINE n == Len(leaves)
           Is(h) == h = [s \in (0..n) \X (0..n) |->
                           IF s[2] <= s[1] + 1 THEN HashLeaf(leaves[s[2]])
                           ELSE LET k == s[1] + Split(s[2] - s[1])
                                IN  HashChildren(h[<< s[1], k >>], h[<< k, s[2] >>])]
<1>1. PICK d : \A lo \in 0..n, hi \in 0..n : hi - lo <= n => d[<< lo, hi >>] = HashOf(d, leaves, lo, hi)
  <2> HIDE DEF n
  <2>1. n \in Nat
    BY DEF n
  <2> QED
    BY <2>1, TreeHashesExist
<1> DEFINE e == [s \in Pairs(n) |-> d[s]]
<1>2. Is(e)
  <2>0. ASSUME NEW lo \in 0..n, NEW hi \in 0..n
        PROVE  e[<< lo, hi >>] = d[<< lo, hi >>]
    BY DEF Pairs
  <2>1. ASSUME NEW lo \in 0..n, NEW hi \in 0..n
        PROVE  e[<< lo, hi >>] = HashOf(e, leaves, lo, hi)
    <3>1. hi - lo <= n
      OBVIOUS
    <3>2. HashOf(e, leaves, lo, hi) = HashOf(d, leaves, lo, hi)
      <4>1. CASE hi <= lo + 1
        BY <4>1 DEF HashOf
      <4>2. CASE ~(hi <= lo + 1)
        <5> DEFINE k == lo + Split(hi - lo)
        <5>1. k \in 0..n
          BY <4>2, Halves
        <5> HIDE DEF k, e
        <5>2. e[<< lo, k >>] = d[<< lo, k >>] /\ e[<< k, hi >>] = d[<< k, hi >>]
          BY <2>0, <5>1
        <5> QED
          BY <4>2, <5>2 DEF HashOf, k
      <4> QED
        BY <4>1, <4>2
    <3> HIDE DEF e
    <3> QED
      BY <1>1, <2>0, <3>1, <3>2
  <2>2. e = [s \in Pairs(n) |-> e[s]]
    OBVIOUS
  <2>3. ASSUME NEW s \in Pairs(n)
        PROVE  e[s] = HashOf(e, leaves, s[1], s[2])
    <3>1. s[1] \in 0..n /\ s[2] \in 0..n /\ s = << s[1], s[2] >>
      BY DEF Pairs
    <3> HIDE DEF e
    <3>2. e[<< s[1], s[2] >>] = HashOf(e, leaves, s[1], s[2])
      BY <2>1, <3>1
    <3> QED
      BY <3>1, <3>2
  <2>4. e = [s \in Pairs(n) |-> HashOf(e, leaves, s[1], s[2])]
    <3> HIDE DEF e, n
    <3> QED
      BY <2>2, <2>3
  <2> HIDE DEF e, n
  <2> QED
    BY <2>4, Zenon DEF HashOf, Pairs
<1>3. TreeHash(leaves) = CHOOSE x : Is(x)
  BY DEF TreeHash
<1>4. Is(TreeHash(leaves))
  <2> HIDE DEF Is, e
  <2> QED
    BY <1>2, <1>3
<1> QED
  <2> SUFFICES ASSUME NEW lo \in 0..n, NEW hi \in 0..n
               PROVE  TreeHash(leaves)[<< lo, hi >>] = HashOf(TreeHash(leaves), leaves, lo, hi)
    OBVIOUS
  <2>1. << lo, hi >> \in (0..n) \X (0..n) /\ << lo, hi >>[1] = lo /\ << lo, hi >>[2] = hi
    OBVIOUS
  <2> HIDE DEF n
  <2> QED
    BY <1>4, <2>1 DEF HashOf

(* The same for the paths of a leaf.                                       *)
PathOf(f, t, index, lo, hi) ==
  LET k == lo + Split(hi - lo) IN
  IF hi <= lo + 1 THEN << >>
  ELSE IF index < k THEN Append(f[<< lo, k >>], t[<< k, hi >>])
  ELSE Append(f[<< k, hi >>], t[<< lo, k >>])

PathsUpTo(f, t, index, n, m) ==
  \A lo \in 0..n, hi \in 0..n : hi - lo <= m => f[<< lo, hi >>] = PathOf(f, t, index, lo, hi)

LEMMA TreePathsExist ==
  ASSUME NEW t, NEW index, NEW n \in Nat
  PROVE  \A m \in Nat : \E f : PathsUpTo(f, t, index, n, m)
<1> DEFINE Solves(h, m) == \A lo \in 0..n, hi \in 0..n :
                             hi - lo <= m => h[<< lo, hi >>] = PathOf(h, t, index, lo, hi)
           T == {m \in Nat : \E h : Solves(h, m)}
<1>1. 0 \in T
  <2> DEFINE h == [s \in Pairs(n) |-> << >>]
  <2>1. Solves(h, 0)
    BY DEF PathOf, Pairs
  <2> QED
    BY <2>1
<1>2. ASSUME NEW m \in Nat, m \in T
      PROVE  m + 1 \in T
  <2>1. PICK h : Solves(h, m)
    BY <1>2
  <2> DEFINE g == [s \in Pairs(n) |-> IF s[2] - s[1] = m + 1 THEN PathOf(h, t, index, s[1], s[2])
                                   ELSE h[s]]
  <2>0. ASSUME NEW lo \in 0..n, NEW hi \in 0..n
        PROVE  g[<< lo, hi >>] = IF hi - lo = m + 1 THEN PathOf(h, t, index, lo, hi)
                                 ELSE h[<< lo, hi >>]
    BY DEF Pairs
  <2> HIDE DEF g
  <2>2. ASSUME NEW lo \in 0..n, NEW hi \in 0..n, hi - lo <= m + 1
        PROVE  g[<< lo, hi >>] = PathOf(g, t, index, lo, hi)
    <3>1. PathOf(g, t, index, lo, hi) = PathOf(h, t, index, lo, hi)
      <4>1. CASE hi <= lo + 1
        BY <4>1 DEF PathOf
      <4>2. CASE ~(hi <= lo + 1)
        <5> DEFINE k == lo + Split(hi - lo)
        <5>1. k \in 0..n /\ lo < k /\ k < hi
          BY <4>2, Halves
        <5> HIDE DEF k
        <5>2. k - lo # m + 1 /\ hi - k # m + 1
          BY <2>2, <5>1
        <5>3. g[<< lo, k >>] = h[<< lo, k >>] /\ g[<< k, hi >>] = h[<< k, hi >>]
          BY <2>0, <5>1, <5>2
        <5> QED
          BY <4>2, <5>3 DEF PathOf, k
      <4> QED
        BY <4>1, <4>2
    <3>2. g[<< lo, hi >>] = PathOf(h, t, index, lo, hi)
      <4>1. CASE hi - lo = m + 1
        BY <2>0, <4>1
      <4>2. CASE hi - lo # m + 1
        <5>1. hi - lo <= m
          BY <2>2, <4>2
        <5>2. g[<< lo, hi >>] = h[<< lo, hi >>]
          BY <2>0, <4>2
        <5> QED
          BY <2>1, <5>1, <5>2
      <4> QED
        BY <4>1, <4>2
    <3> QED
      BY <3>1, <3>2
  <2>3. Solves(g, m + 1)
    <3> HIDE DEF g
    <3> QED
      BY <2>2
  <2> QED
    BY <2>3
<1>3. Nat \subseteq T
  <2> HIDE DEF T
  <2> QED
    BY <1>1, <1>2, StepInduction
<1> QED
  BY <1>3 DEF PathsUpTo

LEMMA TreePathDef ==
  ASSUME NEW leaves, NEW index, Len(leaves) \in Nat
  PROVE  \A lo \in 0..Len(leaves), hi \in 0..Len(leaves) :
           TreePath(leaves, index)[<< lo, hi >>] = PathOf(TreePath(leaves, index), TreeHash(leaves), index, lo, hi)
<1> DEFINE n == Len(leaves)
           t == TreeHash(leaves)
           Is(h) == h = [s \in (0..n) \X (0..n) |->
                           IF s[2] <= s[1] + 1 THEN << >>
                           ELSE LET k == s[1] + Split(s[2] - s[1]) IN
                                IF index < k THEN Append(h[<< s[1], k >>], t[<< k, s[2] >>])
                                ELSE Append(h[<< k, s[2] >>], t[<< s[1], k >>])]
<1>1. PICK d : PathsUpTo(d, t, index, n, n)
  <2> HIDE DEF n, t
  <2>1. n \in Nat
    BY DEF n
  <2> QED
    BY <2>1, TreePathsExist, Zenon
<1> DEFINE e == [s \in Pairs(n) |-> d[s]]
<1>2. Is(e)
  <2>0. ASSUME NEW lo \in 0..n, NEW hi \in 0..n
        PROVE  e[<< lo, hi >>] = d[<< lo, hi >>]
    BY DEF Pairs
  <2>1. ASSUME NEW lo \in 0..n, NEW hi \in 0..n
        PROVE  e[<< lo, hi >>] = PathOf(e, t, index, lo, hi)
    <3>1. hi - lo <= n
      OBVIOUS
    <3>2. PathOf(e, t, index, lo, hi) = PathOf(d, t, index, lo, hi)
      <4>1. CASE hi <= lo + 1
        BY <4>1 DEF PathOf
      <4>2. CASE ~(hi <= lo + 1)
        <5> DEFINE k == lo + Split(hi - lo)
        <5>1. k \in 0..n
          BY <4>2, Halves
        <5> HIDE DEF k, e
        <5>2. e[<< lo, k >>] = d[<< lo, k >>] /\ e[<< k, hi >>] = d[<< k, hi >>]
          BY <2>0, <5>1
        <5> QED
          BY <4>2, <5>2 DEF PathOf, k
      <4> QED
        BY <4>1, <4>2
    <3> HIDE DEF e
    <3> QED
      BY <1>1, <2>0, <3>1, <3>2 DEF PathsUpTo
  <2>2. e = [s \in Pairs(n) |-> e[s]]
    OBVIOUS
  <2>3. ASSUME NEW s \in Pairs(n)
        PROVE  e[s] = PathOf(e, t, index, s[1], s[2])
    <3>1. s[1] \in 0..n /\ s[2] \in 0..n /\ s = << s[1], s[2] >>
      BY DEF Pairs
    <3> HIDE DEF e
    <3>2. e[<< s[1], s[2] >>] = PathOf(e, t, index, s[1], s[2])
      BY <2>1, <3>1
    <3> QED
      BY <3>1, <3>2
  <2>4. e = [s \in Pairs(n) |-> PathOf(e, t, index, s[1], s[2])]
    <3> HIDE DEF e, n
    <3> QED
      BY <2>2, <2>3
  <2> HIDE DEF e, n
  <2> QED
    BY <2>4, Zenon DEF PathOf, Pairs
<1>3. TreePath(leaves, index) = CHOOSE x : Is(x)
  BY DEF TreePath
<1>4. Is(TreePath(leaves, index))
  <2> HIDE DEF Is, e
  <2> QED
    BY <1>2, <1>3
<1> QED
  <2> SUFFICES ASSUME NEW lo \in 0..n, NEW hi \in 0..n
               PROVE  TreePath(leaves, index)[<< lo, hi >>] = PathOf(TreePath(leaves, index), TreeHash(leaves), index, lo, hi)
    OBVIOUS
  <2>1. << lo, hi >> \in (0..n) \X (0..n) /\ << lo, hi >>[1] = lo /\ << lo, hi >>[2] = hi
    OBVIOUS
  <2> HIDE DEF n
  <2> QED
    BY <1>4, <2>1 DEF PathOf

(* Subtrees never have the hash of something else: what has one's hash, or *)
(* climbs to it, is one of its leaves.                                     *)
LEMMA HashesDiffer ==
  /\ \A x, y : HashLeaf(x) = HashLeaf(y) => x = y
  /\ \A x, a, b : HashLeaf(x) # HashChildren(a, b)
  /\ \A a, b, c, d : HashChildren(a, b) = HashChildren(c, d) => a = c /\ b = d
  BY DEF HashLeaf, HashChildren

LEMMA RootHoldsLeaf ==
  ASSUME NEW leaves, Len(leaves) \in Nat \ {0}, NEW x, NEW proof, NEW L, Len(proof) \in Nat,
         Climb(HashLeaf(x), proof, L) = RootHash(leaves)
  PROVE  \E p \in 1..Len(leaves) : leaves[p] = x
<1> DEFINE n == Len(leaves)
           h == TreeHash(leaves)
<1>1. PICK c : Climbs(c, HashLeaf(x), proof, L, Len(proof))
               /\ Climb(HashLeaf(x), proof, L) = c[Len(proof)]
  BY ClimbDef
<1>2. c[0] = HashLeaf(x) /\ \A k \in 1..Len(proof) : c[k] = ClimbStep(c[k - 1], proof[k], L[k])
  BY <1>1, ClimbsTurn
<1>3. \A lo \in 0..n, hi \in 0..n : h[<< lo, hi >>] = HashOf(h, leaves, lo, hi)
  BY TreeHashDef
<1>4. n \in Nat \ {0}
  OBVIOUS
<1> HIDE DEF n, h
<1> DEFINE Below(k) == \A lo \in 0..n, hi \in 0..n :
                         lo < hi /\ c[k] = h[<< lo, hi >>] => \E p \in 1..n : leaves[p] = x
           T == {k \in Nat : k <= Len(proof) => Below(k)}
<1>5. 0 \in T
  <2> SUFFICES ASSUME NEW lo \in 0..n, NEW hi \in 0..n, lo < hi, HashLeaf(x) = h[<< lo, hi >>]
               PROVE  \E p \in 1..n : leaves[p] = x
    BY <1>2
  <2>1. CASE hi <= lo + 1
    <3>1. h[<< lo, hi >>] = HashOf(h, leaves, lo, hi) /\ hi \in 1..n
      BY <1>3, <1>4
    <3>2. HashOf(h, leaves, lo, hi) = HashLeaf(leaves[hi])
      BY <2>1 DEF HashOf
    <3>3. leaves[hi] = x
      BY <3>1, <3>2, HashesDiffer
    <3> QED
      BY <3>1, <3>3
  <2>2. CASE ~(hi <= lo + 1)
    <3>1. h[<< lo, hi >>] = HashOf(h, leaves, lo, hi)
      BY <1>3
    <3>2. PICK a, b : HashOf(h, leaves, lo, hi) = HashChildren(a, b)
      BY <2>2 DEF HashOf
    <3> QED
      BY <3>1, <3>2, HashesDiffer
  <2> QED
    BY <2>1, <2>2
<1>6. ASSUME NEW k \in Nat, k \in T
      PROVE  k + 1 \in T
  <2> SUFFICES ASSUME k + 1 <= Len(proof), NEW lo \in 0..n, NEW hi \in 0..n, lo < hi,
                      c[k + 1] = h[<< lo, hi >>]
               PROVE  \E p \in 1..n : leaves[p] = x
    OBVIOUS
  <2>1. Below(k)
    BY <1>6
  <2>2. k + 1 \in 1..Len(proof) /\ (k + 1) - 1 = k
    OBVIOUS
  <2>3. c[k + 1] = ClimbStep(c[k], proof[k + 1], L[k + 1])
    BY <1>2, <2>2
  <2>4. PICK a, b : c[k + 1] = HashChildren(a, b) /\ (a = c[k] \/ b = c[k])
    BY <2>3 DEF ClimbStep
  <2>5. CASE hi <= lo + 1
    <3>1. h[<< lo, hi >>] = HashLeaf(leaves[hi])
      BY <1>3, <2>5 DEF HashOf
    <3> QED
      BY <2>4, <3>1, HashesDiffer
  <2>6. CASE ~(hi <= lo + 1)
    <3> DEFINE m == lo + Split(hi - lo)
    <3>1. m \in 0..n /\ lo < m /\ m < hi
      BY <1>4, <2>6, Halves
    <3>2. h[<< lo, hi >>] = HashChildren(h[<< lo, m >>], h[<< m, hi >>])
      BY <1>3, <2>6 DEF HashOf
    <3> HIDE DEF m
    <3>3. HashChildren(a, b) = HashChildren(h[<< lo, m >>], h[<< m, hi >>])
      BY <2>4, <3>2
    <3>4. a = h[<< lo, m >>] /\ b = h[<< m, hi >>]
      BY <3>3, HashesDiffer
    <3> QED
      BY <2>1, <2>4, <3>1, <3>4
  <2> QED
    BY <2>5, <2>6
<1>7. Nat \subseteq T
  <2> HIDE DEF T
  <2> QED
    BY <1>5, <1>6, StepInduction
<1>8. Below(Len(proof))
  BY <1>7
<1>9. c[Len(proof)] = h[<< 0, n >>]
  BY <1>1 DEF RootHash, n, h
<1> QED
  BY <1>4, <1>8, <1>9 DEF n

(* The bits that say where a path is, in a left half: all of a full tree's *)
(* and one more.                                                           *)
LEMMA MarksOfLeftHalf ==
  ASSUME NEW r, NEW m, NEW s, r \in Nat, m \in Nat, s \in Nat,
         r < Pow2[s], Pow2[s] <= m, m < 2 * Pow2[s]
  PROVE  /\ \A k \in 1..s : OnLeft(r, m, k) = OnLeft(r, Pow2[s] - 1, k)
         /\ OnLeft(r, m, s + 1)
         /\ \A j \in Nat : s + 1 <= j => Shift(r, j) = Shift(m, j)
<1> DEFINE u == Pow2[s] - 1
<1>1. u \in Nat /\ Pow2[s + 1] = 2 * Pow2[s] /\ s + 1 \in Nat /\ r < Pow2[s + 1] /\ m < Pow2[s + 1]
  BY Pow2Type, Pow2Step
<1>2. ASSUME NEW k \in 1..s
      PROVE  OnLeft(r, m, k) = OnLeft(r, u, k)
  <2> DEFINE j == k - 1
             d == s - (k - 1)
  <2>1. j \in Nat /\ j <= s /\ d \in Nat /\ d # 0 /\ s - j = d
    OBVIOUS
  <2> HIDE DEF j, d
  <2>2. Shift(r, j) \in Nat /\ Shift(r, j) < Pow2[d]
    BY <2>1, ShiftSmall, ShiftIs
  <2>3. Pow2[d] <= Shift(m, j) /\ Shift(m, j) \in Nat
    BY <2>1, ShiftLarge, ShiftIs
  <2>4. Shift(u, j) = Pow2[d] - 1
    BY <2>1, ShiftOnes DEF u
  <2>5. Shift(r, j) # Shift(m, j)
    BY <2>1, <2>2, <2>3, Pow2Type
  <2>6. Shift(r, j) % 2 = 0 => Shift(r, j) # Shift(u, j)
    <3>1. Pow2[d] \in Nat \ {0} /\ Pow2[d] % 2 = 0
      BY <2>1, Pow2Even, Pow2Type
    <3>2. \A x \in Nat \ {0} : x % 2 = 0 => (x - 1) % 2 # 0
      OBVIOUS
    <3> QED
      BY <2>4, <3>1, <3>2
  <2> QED
    BY <2>5, <2>6 DEF OnLeft, j
<1>3. OnLeft(r, m, s + 1)
  <2>1. Shift(r, s) = 0
    BY ShiftSmall
  <2>2. 1 <= Shift(m, s) /\ Shift(m, s) \in Nat
    <3>1. s - s = 0 /\ s <= s
      OBVIOUS
    <3> QED
      BY <3>1, ShiftLarge, ShiftIs, Pow2Step
  <2>3. (s + 1) - 1 = s
    OBVIOUS
  <2> QED
    BY <2>1, <2>2, <2>3 DEF OnLeft
<1>4. ASSUME NEW j \in Nat, s + 1 <= j
      PROVE  Shift(r, j) = Shift(m, j)
  <2>1. Shift(r, j) = 0 /\ Shift(m, j) = 0
    BY <1>1, <1>4, ShiftSmall
  <2> QED
    BY <2>1
<1> QED
  BY <1>2, <1>3, <1>4

(* In a right half: those of that half alone.                              *)
LEMMA MarksOfRightHalf ==
  ASSUME NEW r, NEW m, NEW s, r \in Nat, m \in Nat, s \in Nat, r < Pow2[s], m < Pow2[s]
  PROVE  /\ \A j \in Nat : Shift(r, j) = Shift(m, j)
                             => Shift(r + Pow2[s], j) = Shift(m + Pow2[s], j)
         /\ \A k \in Nat \ {0} : OnLeft(r + Pow2[s], m + Pow2[s], k) = OnLeft(r, m, k)
<1> DEFINE x == r + Pow2[s]
           y == m + Pow2[s]
<1>1. x \in Nat /\ y \in Nat /\ x < Pow2[s + 1] /\ y < Pow2[s + 1] /\ s + 1 \in Nat
  BY Pow2Type, Pow2Step
<1>2. \A j \in Nat : j <= s => /\ Shift(x, j) = Shift(r, j) + Pow2[s - j]
                               /\ Shift(y, j) = Shift(m, j) + Pow2[s - j]
  BY ShiftAdd
<1>3. \A j \in Nat : s < j => Shift(x, j) = 0 /\ Shift(y, j) = 0
  <2> HIDE DEF x, y
  <2> QED
    BY <1>1, ShiftSmall
<1> HIDE DEF x, y
<1>4. \A j \in Nat : s <= j => Shift(r, j) = 0 /\ Shift(m, j) = 0
  BY ShiftSmall
<1>5. \A j \in Nat : Shift(r, j) \in Nat /\ Shift(m, j) \in Nat
  BY ShiftIs
<1>6. \A j \in Nat : Shift(r, j) = Shift(m, j) => Shift(x, j) = Shift(y, j)
  <2> SUFFICES ASSUME NEW j \in Nat, Shift(r, j) = Shift(m, j)
               PROVE  Shift(x, j) = Shift(y, j)
    OBVIOUS
  <2>1. CASE j <= s
    BY <1>2, <2>1
  <2>2. CASE s < j
    BY <1>3, <2>2
  <2> QED
    BY <2>1, <2>2
<1>7. ASSUME NEW k \in Nat \ {0}
      PROVE  OnLeft(x, y, k) = OnLeft(r, m, k)
  <2> DEFINE j == k - 1
  <2>1. j \in Nat
    OBVIOUS
  <2> HIDE DEF j
  <2>2. CASE j < s
    <3>1. s - j \in Nat \ {0} /\ Pow2[s - j] % 2 = 0 /\ Pow2[s - j] \in Nat
      BY <2>1, <2>2, Pow2Even, Pow2Type
    <3>2. Shift(x, j) = Shift(r, j) + Pow2[s - j] /\ Shift(y, j) = Shift(m, j) + Pow2[s - j]
      BY <1>2, <2>1, <2>2
    <3>3. \A a \in Nat, b \in Nat : b % 2 = 0 => (a + b) % 2 = a % 2
      OBVIOUS
    <3>4. Shift(x, j) % 2 = Shift(r, j) % 2
      BY <1>5, <2>1, <3>1, <3>2, <3>3
    <3>5. (Shift(x, j) = Shift(y, j)) <=> (Shift(r, j) = Shift(m, j))
      BY <1>5, <2>1, <3>1, <3>2
    <3> QED
      BY <3>4, <3>5 DEF OnLeft, j
  <2>3. CASE ~(j < s)
    <3>1. Shift(r, j) = Shift(m, j)
      BY <1>4, <2>1, <2>3
    <3>2. Shift(x, j) = Shift(y, j)
      BY <1>6, <2>1, <3>1
    <3> QED
      BY <3>1, <3>2 DEF OnLeft, j
  <2> QED
    BY <2>2, <2>3
<1> QED
  BY <1>6, <1>7 DEF x, y

(* A path of a log fits its tree: it climbs to the hash of the subtree, it *)
(* holds all the bits that matter, and in a full tree is as long as that   *)
(* is high.                                                                *)
Marks(p, r, m) == [k \in DOMAIN p |-> OnLeft(r, m, k)]

Fits(p, S, seed, top, r, m) ==
  /\ p \in Seq(S)
  /\ Climb(seed, p, Marks(p, r, m)) = top
  /\ \A j \in Nat : Len(p) <= j => Shift(r, j) = Shift(m, j)
  /\ \A s \in Nat : m + 1 = Pow2[s] => Len(p) = s

LEMMA FitsLeft ==
  ASSUME NEW p, NEW S, NEW seed, NEW a, NEW b, NEW r, NEW m, NEW s,
         r \in Nat, m \in Nat, s \in Nat, b \in S, r < Pow2[s], Pow2[s] <= m, m < 2 * Pow2[s],
         Fits(p, S, seed, a, r, Pow2[s] - 1)
  PROVE  Fits(Append(p, b), S, seed, HashChildren(a, b), r, m)
<1> DEFINE q == Append(p, b)
<1>1. p \in Seq(S) /\ Len(p) \in Nat /\ DOMAIN p = 1..Len(p)
  BY DEF Fits
<1>2. q \in Seq(S) /\ Len(q) = Len(p) + 1 /\ DOMAIN q = 1..(Len(p) + 1)
  BY <1>1
<1> HIDE DEF q
<1>3. Len(p) = s
  <2>1. (Pow2[s] - 1) + 1 = Pow2[s]
    BY Pow2Type
  <2> QED
    BY <2>1 DEF Fits
<1>4. \A k \in 1..Len(p) : Marks(q, r, m)[k] = Marks(p, r, Pow2[s] - 1)[k]
  <2>1. \A k \in 1..s : OnLeft(r, m, k) = OnLeft(r, Pow2[s] - 1, k)
    BY MarksOfLeftHalf
  <2> SUFFICES ASSUME NEW k \in 1..Len(p)
               PROVE  Marks(q, r, m)[k] = Marks(p, r, Pow2[s] - 1)[k]
    OBVIOUS
  <2>2. k \in DOMAIN q /\ k \in DOMAIN p
    BY <1>1, <1>2
  <2>3. Marks(q, r, m)[k] = OnLeft(r, m, k) /\ Marks(p, r, Pow2[s] - 1)[k] = OnLeft(r, Pow2[s] - 1, k)
    BY <2>2, Zenon DEF Marks
  <2> QED
    BY <1>3, <2>1, <2>3, Zenon
<1>5. Marks(q, r, m)[Len(p) + 1]
  <2>1. OnLeft(r, m, s + 1)
    BY MarksOfLeftHalf
  <2>2. Len(p) + 1 \in DOMAIN q
    BY <1>1, <1>2
  <2>3. Marks(q, r, m)[Len(p) + 1] = OnLeft(r, m, Len(p) + 1)
    BY <2>2, Zenon DEF Marks
  <2> QED
    BY <1>3, <2>1, <2>3, Zenon
<1>6. Climb(seed, q, Marks(q, r, m)) = HashChildren(a, b)
  <2>1. Climb(seed, p, Marks(p, r, Pow2[s] - 1)) = a
    BY DEF Fits
  <2> DEFINE L == Marks(q, r, m)
             M == Marks(p, r, Pow2[s] - 1)
  <2>2. \A k \in 1..Len(p) : L[k] = M[k]
    BY <1>4
  <2> HIDE DEF L, M
  <2>3. Climb(seed, q, L) = ClimbStep(Climb(seed, p, M), b, L[Len(p) + 1])
    BY <1>1, <2>2, ClimbAppend DEF q
  <2> QED
    BY <1>5, <2>1, <2>3 DEF ClimbStep, L, M
<1>7. \A j \in Nat : Len(q) <= j => Shift(r, j) = Shift(m, j)
  <2>1. \A j \in Nat : s + 1 <= j => Shift(r, j) = Shift(m, j)
    BY MarksOfLeftHalf
  <2> QED
    BY <1>2, <1>3, <2>1
<1>8. ASSUME NEW t \in Nat, m + 1 = Pow2[t]
      PROVE  Len(q) = t
  <2>1. Pow2[s] < Pow2[t] /\ Pow2[t] <= 2 * Pow2[s]
    BY <1>8, Pow2Type
  <2>2. ~(t < s) /\ t # s
    <3>1. t < s => 2 * Pow2[t] <= Pow2[s]
      BY Pow2Order
    <3>2. Pow2[s] \in Nat \ {0} /\ Pow2[t] \in Nat \ {0}
      BY Pow2Type
    <3> QED
      BY <2>1, <3>1, <3>2
  <2>3. ~(s + 1 < t)
    <3>1. s + 1 < t => 2 * Pow2[s + 1] <= Pow2[t]
      BY Pow2Order
    <3>2. Pow2[s + 1] = 2 * Pow2[s] /\ Pow2[s] \in Nat \ {0} /\ Pow2[t] \in Nat \ {0}
      BY Pow2Type, Pow2Step
    <3> QED
      BY <2>1, <3>1, <3>2
  <2> QED
    BY <1>2, <1>3, <2>2, <2>3
<1> QED
  BY <1>2, <1>6, <1>7, <1>8 DEF Fits, q

LEMMA FitsRight ==
  ASSUME NEW p, NEW S, NEW seed, NEW a, NEW b, NEW r, NEW m, NEW s,
         r \in Nat, m \in Nat, s \in Nat, a \in S, r < Pow2[s], m < Pow2[s],
         Fits(p, S, seed, b, r, m)
  PROVE  Fits(Append(p, a), S, seed, HashChildren(a, b), r + Pow2[s], m + Pow2[s])
<1> DEFINE q == Append(p, a)
           x == r + Pow2[s]
           y == m + Pow2[s]
<1>1. p \in Seq(S) /\ Len(p) \in Nat /\ DOMAIN p = 1..Len(p)
  BY DEF Fits
<1>2. q \in Seq(S) /\ Len(q) = Len(p) + 1 /\ DOMAIN q = 1..(Len(p) + 1)
  BY <1>1
<1>3. /\ \A j \in Nat : Shift(r, j) = Shift(m, j) => Shift(x, j) = Shift(y, j)
      /\ \A k \in Nat \ {0} : OnLeft(x, y, k) = OnLeft(r, m, k)
  BY MarksOfRightHalf
<1>4. \A j \in Nat : Len(p) <= j => Shift(r, j) = Shift(m, j)
  BY DEF Fits
<1> HIDE DEF q, x, y
<1>5. \A k \in 1..Len(p) : Marks(q, x, y)[k] = Marks(p, r, m)[k]
  <2> SUFFICES ASSUME NEW k \in 1..Len(p) PROVE Marks(q, x, y)[k] = Marks(p, r, m)[k]
    OBVIOUS
  <2>1. k \in DOMAIN q /\ k \in DOMAIN p /\ k \in Nat \ {0}
    BY <1>1, <1>2
  <2>2. Marks(q, x, y)[k] = OnLeft(x, y, k) /\ Marks(p, r, m)[k] = OnLeft(r, m, k)
    BY <2>1, Zenon DEF Marks
  <2> QED
    BY <1>3, <2>1, <2>2, Zenon
<1>6. ~Marks(q, x, y)[Len(p) + 1]
  <2>1. (Len(p) + 1) - 1 = Len(p) /\ Shift(x, Len(p)) = Shift(y, Len(p))
    BY <1>1, <1>3, <1>4
  <2>2. ~OnLeft(x, y, Len(p) + 1)
    BY <2>1 DEF OnLeft
  <2>3. Len(p) + 1 \in DOMAIN q
    BY <1>1, <1>2
  <2>4. Marks(q, x, y)[Len(p) + 1] = OnLeft(x, y, Len(p) + 1)
    BY <2>3, Zenon DEF Marks
  <2> QED
    BY <2>2, <2>4, Zenon
<1>7. Climb(seed, q, Marks(q, x, y)) = HashChildren(a, b)
  <2>1. Climb(seed, p, Marks(p, r, m)) = b
    BY DEF Fits
  <2> DEFINE L == Marks(q, x, y)
             M == Marks(p, r, m)
  <2>2. \A k \in 1..Len(p) : L[k] = M[k]
    BY <1>5
  <2> HIDE DEF L, M
  <2>3. Climb(seed, q, L) = ClimbStep(Climb(seed, p, M), a, L[Len(p) + 1])
    BY <1>1, <2>2, ClimbAppend DEF q
  <2> QED
    BY <1>6, <2>1, <2>3 DEF ClimbStep, L, M
<1>8. \A j \in Nat : Len(q) <= j => Shift(x, j) = Shift(y, j)
  BY <1>1, <1>2, <1>3, <1>4
<1>9. ASSUME NEW t \in Nat, y + 1 = Pow2[t]
      PROVE  Len(q) = t
  <2>1. Pow2[s] < Pow2[t] /\ Pow2[t] <= 2 * Pow2[s]
    BY <1>9, Pow2Type DEF y
  <2>2. ~(t < s) /\ t # s
    <3>1. t < s => 2 * Pow2[t] <= Pow2[s]
      BY Pow2Order
    <3>2. Pow2[s] \in Nat \ {0} /\ Pow2[t] \in Nat \ {0}
      BY Pow2Type
    <3> QED
      BY <2>1, <3>1, <3>2
  <2>3. ~(s + 1 < t)
    <3>1. s + 1 < t => 2 * Pow2[s + 1] <= Pow2[t]
      BY Pow2Order
    <3>2. Pow2[s + 1] = 2 * Pow2[s] /\ Pow2[s] \in Nat \ {0} /\ Pow2[t] \in Nat \ {0}
      BY Pow2Type, Pow2Step
    <3> QED
      BY <2>1, <3>1, <3>2
  <2>4. t = s + 1
    BY <2>2, <2>3
  <2>5. m + 1 = Pow2[s]
    <3>1. Pow2[s + 1] = 2 * Pow2[s] /\ Pow2[s] \in Nat
      BY Pow2Type, Pow2Step
    <3> QED
      BY <1>9, <2>4, <3>1 DEF y
  <2>6. Len(p) = s
    BY <2>5 DEF Fits
  <2> QED
    BY <1>2, <2>4, <2>6
<1> QED
  BY <1>2, <1>7, <1>8, <1>9 DEF Fits, q, x, y

LEMMA FitsLeaf ==
  ASSUME NEW S, NEW seed
  PROVE  Fits(<< >>, S, seed, seed, 0, 0)
<1>1. << >> \in Seq(S) /\ Len(<< >>) = 0
  OBVIOUS
<1>2. Climb(seed, << >>, Marks(<< >>, 0, 0)) = seed
  BY ClimbEmpty, Zenon
<1>3. \A s \in Nat : 0 + 1 = Pow2[s] => s = 0
  <2> SUFFICES ASSUME NEW s \in Nat, s # 0, Pow2[s] = 1 PROVE FALSE
    OBVIOUS
  <2>1. s - 1 \in Nat /\ Pow2[s] = 2 * Pow2[s - 1] /\ Pow2[s - 1] \in Nat
    BY Pow2Def, Pow2Type
  <2> QED
    BY <2>1
<1> QED
  BY <1>1, <1>2, <1>3 DEF Fits

LEMMA PathFits ==
  ASSUME NEW leaves, NEW n, n \in Nat \ {0}, n = Len(leaves), NEW i, i \in 0..(n - 1), NEW S,
         S = {TreeHash(leaves)[s] : s \in Pairs(n)}
  PROVE  Fits(TreePath(leaves, i)[<< 0, n >>], S, HashLeaf(leaves[i + 1]),
              TreeHash(leaves)[<< 0, n >>], i, n - 1)
<1> DEFINE h == TreeHash(leaves)
           f == TreePath(leaves, i)
           seed == HashLeaf(leaves[i + 1])
<1>1. \A lo \in 0..n, hi \in 0..n : h[<< lo, hi >>] = HashOf(h, leaves, lo, hi)
  BY TreeHashDef
<1>2. \A lo \in 0..n, hi \in 0..n : f[<< lo, hi >>] = PathOf(f, h, i, lo, hi)
  BY TreePathDef
<1>3. \A lo \in 0..n, hi \in 0..n : h[<< lo, hi >>] \in S
  BY DEF Pairs
<1> DEFINE P(lo, hi) == Fits(f[<< lo, hi >>], S, seed, h[<< lo, hi >>], i - lo, (hi - lo) - 1)
           T == {m \in Nat : \A lo \in 0..n, hi \in 0..n :
                               lo <= i /\ i < hi /\ hi - lo = m => P(lo, hi)}
<1> HIDE DEF h, f, seed, P
<1>4. ASSUME NEW m \in Nat, \A k \in Nat : k < m => k \in T
      PROVE  m \in T
  <2> SUFFICES ASSUME NEW lo \in 0..n, NEW hi \in 0..n, lo <= i, i < hi, hi - lo = m
               PROVE  P(lo, hi)
    OBVIOUS
  <2>1. CASE hi <= lo + 1
    <3>1. hi = i + 1 /\ lo = i /\ i - lo = 0 /\ (hi - lo) - 1 = 0
      BY <2>1
    <3>2. f[<< lo, hi >>] = PathOf(f, h, i, lo, hi) /\ h[<< lo, hi >>] = HashOf(h, leaves, lo, hi)
      BY <1>1, <1>2
    <3>3. f[<< lo, hi >>] = << >> /\ h[<< lo, hi >>] = seed
      BY <2>1, <3>1, <3>2 DEF PathOf, HashOf, seed
    <3>4. Fits(<< >>, S, seed, seed, 0, 0)
      BY FitsLeaf
    <3> QED
      BY <3>1, <3>3, <3>4 DEF P
  <2>2. CASE ~(hi <= lo + 1)
    <3>1. hi - lo \in Nat /\ 1 < hi - lo
      BY <2>2
    <3>2. PICK s \in Nat : Split(hi - lo) = Pow2[s] /\ Pow2[s] < hi - lo /\ hi - lo <= 2 * Pow2[s]
      BY <3>1, SplitIs
    <3>3. PICK k : k = lo + Pow2[s]
      OBVIOUS
    <3>4. k \in 0..n /\ lo < k /\ k < hi
      BY <3>2, <3>3, Pow2Type
    <3>5. h[<< lo, hi >>] = HashChildren(h[<< lo, k >>], h[<< k, hi >>])
      <4>1. h[<< lo, hi >>] = HashOf(h, leaves, lo, hi)
        BY <1>1
      <4>2. lo + Split(hi - lo) = k
        BY <3>2, <3>3
      <4> QED
        BY <2>2, <4>1, <4>2 DEF HashOf
    <3>6. f[<< lo, hi >>] = IF i < k THEN Append(f[<< lo, k >>], h[<< k, hi >>])
                            ELSE Append(f[<< k, hi >>], h[<< lo, k >>])
      <4>1. f[<< lo, hi >>] = PathOf(f, h, i, lo, hi)
        BY <1>2
      <4>2. lo + Split(hi - lo) = k
        BY <3>2, <3>3
      <4> QED
        BY <2>2, <4>1, <4>2 DEF PathOf
    <3>7. h[<< lo, k >>] \in S /\ h[<< k, hi >>] \in S
      BY <1>3, <3>4
    <3>8. CASE i < k
      <4>1. k - lo \in Nat /\ k - lo < m
        BY <3>4
      <4>2. P(lo, k)
        BY <1>4, <3>4, <3>8, <4>1
      <4>3. (k - lo) - 1 = Pow2[s] - 1
        BY <3>3, Pow2Type
      <4>4. Fits(f[<< lo, k >>], S, seed, h[<< lo, k >>], i - lo, Pow2[s] - 1)
        BY <4>2, <4>3 DEF P
      <4>5. i - lo \in Nat /\ (hi - lo) - 1 \in Nat /\ i - lo < Pow2[s] /\ Pow2[s] <= (hi - lo) - 1
            /\ (hi - lo) - 1 < 2 * Pow2[s]
        BY <3>2, <3>3, <3>4, <3>8, Pow2Type
      <4>6. Fits(Append(f[<< lo, k >>], h[<< k, hi >>]), S, seed,
                 HashChildren(h[<< lo, k >>], h[<< k, hi >>]), i - lo, (hi - lo) - 1)
        BY <3>7, <4>4, <4>5, FitsLeft
      <4> QED
        BY <3>5, <3>6, <3>8, <4>6 DEF P
    <3>9. CASE ~(i < k)
      <4>1. hi - k \in Nat /\ hi - k < m /\ k <= i
        BY <3>4, <3>9
      <4>2. P(k, hi)
        BY <1>4, <3>4, <4>1
      <4>3. Fits(f[<< k, hi >>], S, seed, h[<< k, hi >>], i - k, (hi - k) - 1)
        BY <4>2 DEF P
      <4>4. i - k \in Nat /\ (hi - k) - 1 \in Nat /\ i - k < Pow2[s] /\ (hi - k) - 1 < Pow2[s]
            /\ i - lo = (i - k) + Pow2[s] /\ (hi - lo) - 1 = ((hi - k) - 1) + Pow2[s]
        <5>1. Pow2[s] \in Nat
          BY Pow2Type
        <5>2. lo \in Nat /\ hi \in Nat /\ k \in Nat /\ i \in Nat
          BY <3>4
        <5>3. PICK w : w = Pow2[s]
          OBVIOUS
        <5>4. w \in Nat /\ k = lo + w /\ hi - lo <= 2 * w /\ k < hi /\ k <= i /\ i < hi
          BY <3>2, <3>3, <3>4, <4>1, <5>1, <5>3
        <5>5. /\ i - k \in Nat /\ (hi - k) - 1 \in Nat /\ i - k < w /\ (hi - k) - 1 < w
              /\ i - lo = (i - k) + w /\ (hi - lo) - 1 = ((hi - k) - 1) + w
          BY <5>2, <5>4
        <5> QED
          BY <5>3, <5>5
      <4>5. Fits(Append(f[<< k, hi >>], h[<< lo, k >>]), S, seed,
                 HashChildren(h[<< lo, k >>], h[<< k, hi >>]), (i - k) + Pow2[s], ((hi - k) - 1) + Pow2[s])
        BY <3>7, <4>3, <4>4, FitsRight
      <4> QED
        BY <3>5, <3>6, <3>9, <4>4, <4>5 DEF P
    <3> QED
      BY <3>8, <3>9
  <2> QED
    BY <2>1, <2>2
<1>5. Nat \subseteq T
  <2> HIDE DEF T
  <2> QED
    BY <1>4, StrongInduction
<1>6. n \in T
  BY <1>5
<1>7. P(0, n)
  BY <1>6
<1>8. i - 0 = i /\ (n - 0) - 1 = n - 1
  OBVIOUS
<1> QED
  BY <1>7, <1>8 DEF P, h, f, seed

(* What root_from_icp makes of the proof of a log that works is the root   *)
(* of the tree it answered from, for every tree and every leaf of it.      *)
THEOREM InclusionProofsVerify ==
  ASSUME NEW leaves, Len(leaves) \in Nat \ {0}, NEW i \in 0..(Len(leaves) - 1)
  PROVE  RootFromIcp(i, Len(leaves), InclusionProof(leaves, i), HashLeaf(leaves[i + 1]))
           = RootHash(leaves)
<1> DEFINE n == Len(leaves)
           S == {TreeHash(leaves)[s] : s \in Pairs(n)}
           p == InclusionProof(leaves, i)
           seed == HashLeaf(leaves[i + 1])
<1>1. Fits(TreePath(leaves, i)[<< 0, n >>], S, seed, TreeHash(leaves)[<< 0, n >>], i, n - 1)
  BY PathFits
<1>2. Fits(p, S, seed, RootHash(leaves), i, n - 1)
  BY <1>1 DEF InclusionProof, RootHash
<1> HIDE DEF S, p, seed, n
<1>3. p \in Seq(S) /\ Climb(seed, p, Marks(p, i, n - 1)) = RootHash(leaves)
  BY <1>2 DEF Fits
<1>4. i \in Nat /\ n \in Nat \ {0}
  BY DEF n
<1>5. RootFromIcp(i, n, p, seed) = Climb(seed, p, Marks(p, i, n - 1))
  BY <1>3, <1>4, RootFromIcpIs DEF Marks
<1> QED
  BY <1>3, <1>5 DEF p, seed, n

(* A proof that root_from_icp accepts, whatever it is and from whomever it *)
(* comes, is of a leaf of that tree.                                       *)
THEOREM AcceptedProofsAreOfLeaves ==
  ASSUME NEW leaves, NEW i, NEW size, NEW proof, NEW S, NEW x,
         Len(leaves) \in Nat \ {0}, i \in Nat, size \in Nat \ {0}, proof \in Seq(S),
         RootFromIcp(i, size, proof, HashLeaf(x)) = RootHash(leaves)
  PROVE  \E p \in 1..Len(leaves) : leaves[p] = x
<1>1. Climb(HashLeaf(x), proof, [k \in DOMAIN proof |-> OnLeft(i, size - 1, k)]) = RootHash(leaves)
  BY RootFromIcpIs
<1>2. Len(proof) \in Nat
  OBVIOUS
<1> QED
  BY <1>1, <1>2, RootHoldsLeaf

-----------------------------------------------------------------------------
(* Sequences of anything.                                                  *)

IsSeq(s) == Len(s) \in Nat /\ s = [k \in 1..Len(s) |-> s[k]]

LEMMA SeqIsSeq ==
  ASSUME NEW S, NEW s, s \in Seq(S)
  PROVE  IsSeq(s)
  BY DEF IsSeq

LEMMA IsSeqOf ==
  ASSUME NEW s, IsSeq(s)
  PROVE  \E S : s \in Seq(S)
<1> DEFINE S == {s[k] : k \in 1..Len(s)}
<1>1. s \in [1..Len(s) -> S]
  <2>1. s = [k \in 1..Len(s) |-> s[k]]
    BY DEF IsSeq
  <2>2. \A k \in 1..Len(s) : s[k] \in S
    OBVIOUS
  <2> HIDE DEF S
  <2> QED
    BY <2>1, <2>2
<1>2. Len(s) \in Nat
  BY DEF IsSeq
<1>3. s \in Seq(S)
  <2> HIDE DEF S
  <2> QED
    BY <1>1, <1>2
<1> QED
  BY <1>3

LEMMA AppendIs ==
  ASSUME NEW s, NEW x, IsSeq(s)
  PROVE  /\ IsSeq(Append(s, x)) /\ Len(Append(s, x)) = Len(s) + 1
         /\ Append(s, x)[Len(s) + 1] = x
         /\ \A k \in 1..Len(s) : Append(s, x)[k] = s[k]
<1>1. PICK S : s \in Seq(S)
  BY IsSeqOf
<1>2. s \in Seq(S \cup {x}) /\ x \in S \cup {x}
  BY <1>1
<1>3. Append(s, x) \in Seq(S \cup {x})
  BY <1>2
<1>4. IsSeq(Append(s, x))
  BY <1>3, SeqIsSeq
<1> QED
  BY <1>1, <1>4

(* c is t behind s.                                                        *)
IsBehind(c, s, t) ==
  /\ IsSeq(c) /\ Len(c) = Len(s) + Len(t)
  /\ \A k \in 1..Len(s) : c[k] = s[k]
  /\ \A k \in 1..Len(t) : c[Len(s) + k] = t[k]

LEMMA ConcatIs ==
  ASSUME NEW s, NEW t, IsSeq(s), IsSeq(t)
  PROVE  IsBehind(s \o t, s, t)
<1>1. PICK S : s \in Seq(S)
  BY IsSeqOf
<1>2. PICK T : t \in Seq(T)
  BY IsSeqOf
<1>3. s \in Seq(S \cup T) /\ t \in Seq(S \cup T)
  BY <1>1, <1>2
<1>4. s \o t \in Seq(S \cup T)
  BY <1>3
<1>5. IsSeq(s \o t)
  BY <1>4, SeqIsSeq
<1>6. Len(s \o t) = Len(s) + Len(t)
  BY <1>3
<1>7. \A k \in 1..Len(s) : (s \o t)[k] = s[k]
  BY <1>3
<1>8. ASSUME NEW k \in 1..Len(t)
      PROVE  (s \o t)[Len(s) + k] = t[k]
  BY <1>3
<1> QED
  BY <1>5, <1>6, <1>7, <1>8 DEF IsBehind

(* p is what s has behind m and up to n.                                   *)
IsPart(p, s, m, n) ==
  IsSeq(p) /\ Len(p) = n - m /\ \A k \in 1..(n - m) : p[k] = s[m + k]

LEMMA SubSeqIs ==
  ASSUME NEW s, NEW m, NEW n, IsSeq(s), m \in Nat, n \in Nat, m <= n, n <= Len(s)
  PROVE  IsPart(SubSeq(s, m + 1, n), s, m, n)
<1>1. PICK S : s \in Seq(S)
  BY IsSeqOf
<1>2. SubSeq(s, m + 1, n) \in Seq(S)
  <2>1. \A k \in (m + 1)..n : k \in 1..Len(s)
    BY <1>1
  <2> QED
    BY <1>1, <2>1, SMTT(30)
<1>3. IsSeq(SubSeq(s, m + 1, n))
  BY <1>2, SeqIsSeq
<1>4. Len(SubSeq(s, m + 1, n)) = n - m
  BY <1>1, SMTT(30)
<1>5. ASSUME NEW k \in 1..(n - m)
      PROVE  SubSeq(s, m + 1, n)[k] = s[m + k]
  BY <1>1, SMTT(30)
<1> QED
  BY <1>3, <1>4, <1>5 DEF IsPart

LEMMA IsSeqEqual ==
  ASSUME NEW s, NEW t, IsSeq(s), IsSeq(t), Len(s) = Len(t), \A k \in 1..Len(s) : s[k] = t[k]
  PROVE  s = t
<1>1. s = [k \in 1..Len(s) |-> s[k]] /\ t = [k \in 1..Len(s) |-> t[k]]
  BY DEF IsSeq
<1>2. [k \in 1..Len(s) |-> s[k]] = [k \in 1..Len(s) |-> t[k]]
  OBVIOUS
<1> QED
  BY <1>1, <1>2, Zenon

-----------------------------------------------------------------------------
(* The blob of proofs, written and read back.                              *)

WellFormed(e) ==
  /\ e = [log_url |-> << e.log_url[1] >>, leaf_index |-> e.leaf_index,
          signed_root_blob |-> e.signed_root_blob, proofs |-> e.proofs]
  /\ IsSeq(e.proofs)

(* An entry takes as many cells as its header says, and its fields are     *)
(* where it says.                                                          *)
LEMMA EntryCells ==
  ASSUME NEW e, NEW mark, WellFormed(e)
  PROVE  LET c == EncodeEntry(e, mark)
             h == c[1][2] IN
         /\ IsSeq(c) /\ Len(c) = 3 + Len(e.proofs) /\ Len(e.proofs) \in Nat
         /\ c[1][1] = "entry" /\ ExpectedSize(h) = Len(c) /\ h.next_entry = mark
         /\ h.leaf_index = e.leaf_index /\ h.proof_hash_count = Len(e.proofs)
         /\ c[2] = << "url", e.log_url[1] >> /\ c[3] = << "root", e.signed_root_blob >>
         /\ \A k \in 1..Len(e.proofs) : c[3 + k] = e.proofs[k]
<1> DEFINE h == [log_url_size |-> Len(e.log_url), leaf_index |-> e.leaf_index,
                 signed_root_blob_size |-> 1, proof_hash_count |-> Len(e.proofs),
                 proof_size |-> Len(e.proofs), next_entry |-> mark]
           a == << << "entry", h >> >>
           b == << << "url", e.log_url[1] >>, << "root", e.signed_root_blob >> >>
           c == EncodeEntry(e, mark)
<1>1. c = (a \o b) \o e.proofs
  BY DEF EncodeEntry
<1>2. IsSeq(a) /\ Len(a) = 1 /\ a[1] = << "entry", h >>
  <2>1. a \in Seq({<< "entry", h >>})
    OBVIOUS
  <2> QED
    BY <2>1, SeqIsSeq
<1>3. IsSeq(b) /\ Len(b) = 2 /\ b[1] = << "url", e.log_url[1] >> /\ b[2] = << "root", e.signed_root_blob >>
  <2>1. b \in Seq({b[1], b[2]})
    OBVIOUS
  <2> QED
    BY <2>1, SeqIsSeq
<1>4. IsSeq(e.proofs) /\ Len(e.proofs) \in Nat /\ Len(e.log_url) = 1
  <2>1. e.log_url = << e.log_url[1] >>
    BY DEF WellFormed
  <2> QED
    BY <2>1 DEF WellFormed, IsSeq
<1>5. ExpectedSize(h) = 3 + Len(e.proofs)
  BY <1>4 DEF ExpectedSize
<1>6. h.next_entry = mark /\ h.leaf_index = e.leaf_index /\ h.proof_hash_count = Len(e.proofs)
  OBVIOUS
<1> HIDE DEF a, b, h, c
<1>7. IsSeq(a \o b) /\ Len(a \o b) = 3 /\ (a \o b)[1] = a[1] /\ (a \o b)[2] = b[1] /\ (a \o b)[3] = b[2]
  <2>1. IsBehind(a \o b, a, b)
    BY <1>2, <1>3, ConcatIs
  <2> QED
    BY <1>2, <1>3, <2>1 DEF IsBehind
<1>8. /\ IsSeq(c) /\ Len(c) = 3 + Len(e.proofs)
      /\ \A k \in 1..3 : c[k] = (a \o b)[k]
      /\ \A k \in 1..Len(e.proofs) : c[3 + k] = e.proofs[k]
  <2>1. IsBehind(c, a \o b, e.proofs)
    BY <1>1, <1>4, <1>7, ConcatIs
  <2> QED
    BY <1>7, <2>1 DEF IsBehind
<1>9. c[1] = << "entry", h >> /\ c[2] = << "url", e.log_url[1] >> /\ c[3] = << "root", e.signed_root_blob >>
  BY <1>2, <1>3, <1>7, <1>8
<1>10. c[1][1] = "entry" /\ c[1][2] = h
  BY <1>9
<1> QED
  BY <1>4, <1>5, <1>6, <1>8, <1>9, <1>10 DEF c

(* The entries behind the header, one after the other.                     *)
Encodes(b, es, next, n) ==
  \A k \in 0..n : b[k] = IF k = 0 THEN << << "icp", Len(es) >> >>
                         ELSE b[k - 1] \o EncodeEntry(es[k], next[k])

LEMMA EncodesExist ==
  ASSUME NEW es, NEW next
  PROVE  \A n \in Nat : \E b : Encodes(b, es, next, n)
<1> DEFINE T == {n \in Nat : \E b : Encodes(b, es, next, n)}
           first == << << "icp", Len(es) >> >>
<1>1. 0 \in T
  <2>1. Encodes([k \in {0} |-> first], es, next, 0)
    BY DEF Encodes
  <2> QED
    BY <2>1
<1>2. ASSUME NEW n \in Nat, n \in T
      PROVE  n + 1 \in T
  <2>1. PICK b : Encodes(b, es, next, n)
    BY <1>2
  <2> DEFINE d == [k \in 0..(n + 1) |->
                     IF k = n + 1 THEN b[n] \o EncodeEntry(es[n + 1], next[n + 1]) ELSE b[k]]
  <2>2. ASSUME NEW k \in 0..(n + 1)
        PROVE  d[k] = IF k = 0 THEN first ELSE d[k - 1] \o EncodeEntry(es[k], next[k])
    <3>1. CASE k = n + 1
      <4>1. k # 0 /\ k - 1 = n /\ n \in 0..(n + 1) /\ n # n + 1
        BY <3>1
      <4>2. d[k] = b[n] \o EncodeEntry(es[k], next[k]) /\ d[n] = b[n]
        BY <3>1, <4>1
      <4> QED
        BY <4>1, <4>2
    <3>2. CASE k # n + 1
      <4>1. k \in 0..n /\ (k # 0 => k - 1 \in 0..(n + 1) /\ k - 1 # n + 1)
        BY <3>2
      <4>2. b[k] = IF k = 0 THEN first ELSE b[k - 1] \o EncodeEntry(es[k], next[k])
        BY <2>1, <4>1 DEF Encodes
      <4>3. d[k] = b[k] /\ (k # 0 => d[k - 1] = b[k - 1])
        BY <3>2, <4>1
      <4> QED
        BY <4>2, <4>3
    <3> QED
      BY <3>1, <3>2
  <2>3. Encodes(d, es, next, n + 1)
    <3> HIDE DEF d
    <3> QED
      BY <2>2 DEF Encodes
  <2> QED
    BY <2>3
<1>3. Nat \subseteq T
  <2> HIDE DEF T
  <2> QED
    BY <1>1, <1>2, StepInduction
<1> QED
  BY <1>3

LEMMA EncodeDef ==
  ASSUME NEW es, NEW next, Len(es) \in Nat
  PROVE  \E b : Encodes(b, es, next, Len(es)) /\ EncodeMarked(es, next) = b[Len(es)]
<1> DEFINE n == Len(es)
           Is(b) == b = [k \in 0..n |-> IF k = 0 THEN << << "icp", Len(es) >> >>
                                        ELSE b[k - 1] \o EncodeEntry(es[k], next[k])]
<1>1. PICK d : Encodes(d, es, next, n)
  BY EncodesExist
<1> DEFINE e == [k \in 0..n |-> d[k]]
<1>2. Is(e)
  <2>1. ASSUME NEW k \in 0..n
        PROVE  e[k] = IF k = 0 THEN << << "icp", Len(es) >> >>
                      ELSE e[k - 1] \o EncodeEntry(es[k], next[k])
    <3>1. d[k] = IF k = 0 THEN << << "icp", Len(es) >> >>
                 ELSE d[k - 1] \o EncodeEntry(es[k], next[k])
      BY <1>1 DEF Encodes
    <3>2. k # 0 => k - 1 \in 0..n
      OBVIOUS
    <3>3. e[k] = d[k] /\ (k # 0 => e[k - 1] = d[k - 1])
      BY <3>2
    <3> QED
      BY <3>1, <3>3
  <2>2. e = [k \in 0..n |-> e[k]]
    OBVIOUS
  <2> HIDE DEF e, n
  <2> QED
    BY <2>1, <2>2 DEF n
<1>3. PICK c : c = (CHOOSE x : Is(x)) /\ Is(c)
  <2> HIDE DEF Is
  <2> QED
    BY <1>2
<1>4. EncodeMarked(es, next) = c[n]
  BY <1>3 DEF EncodeMarked
<1>5. Encodes(c, es, next, n)
  BY <1>3 DEF Encodes
<1> QED
  BY <1>4, <1>5

LEMMA EncodeTurn ==
  ASSUME NEW es, NEW next, NEW n, NEW b, n \in Nat, Encodes(b, es, next, n),
         \A k \in 1..n : WellFormed(es[k])
  PROVE  /\ \A k \in 0..n : IsSeq(b[k]) /\ Len(b[k]) \in Nat \ {0}
         /\ \A k \in 0..(n - 1) : IsBehind(b[k + 1], b[k], EncodeEntry(es[k + 1], next[k + 1]))
         /\ b[0] = << << "icp", Len(es) >> >>
<1>1. b[0] = << << "icp", Len(es) >> >>
  <2>1. 0 \in 0..n
    OBVIOUS
  <2> QED
    BY <2>1 DEF Encodes
<1>2. IsSeq(b[0]) /\ Len(b[0]) = 1
  <2> DEFINE x == << "icp", Len(es) >>
  <2>1. << x >> \in Seq({x}) /\ Len(<< x >>) = 1
    OBVIOUS
  <2> QED
    BY <1>1, <2>1, SeqIsSeq
<1>3. ASSUME NEW k \in 0..(n - 1), IsSeq(b[k])
      PROVE  IsBehind(b[k + 1], b[k], EncodeEntry(es[k + 1], next[k + 1]))
  <2>1. k + 1 \in 0..n /\ k + 1 # 0 /\ (k + 1) - 1 = k /\ k + 1 \in 1..n
    OBVIOUS
  <2>2. b[k + 1] = b[k] \o EncodeEntry(es[k + 1], next[k + 1])
    BY <2>1 DEF Encodes
  <2>3. IsSeq(EncodeEntry(es[k + 1], next[k + 1]))
    BY <2>1, EntryCells
  <2> QED
    BY <1>3, <2>2, <2>3, ConcatIs
<1> DEFINE T == {k \in Nat : k <= n => IsSeq(b[k]) /\ Len(b[k]) \in Nat \ {0}}
<1>4. 0 \in T
  BY <1>2
<1>5. ASSUME NEW k \in Nat, k \in T
      PROVE  k + 1 \in T
  <2> SUFFICES ASSUME k + 1 <= n PROVE IsSeq(b[k + 1]) /\ Len(b[k + 1]) \in Nat \ {0}
    OBVIOUS
  <2>1. k \in 0..(n - 1) /\ IsSeq(b[k]) /\ Len(b[k]) \in Nat \ {0} /\ k + 1 \in 1..n
    BY <1>5
  <2>2. IsBehind(b[k + 1], b[k], EncodeEntry(es[k + 1], next[k + 1]))
    BY <1>3, <2>1
  <2>3. Len(EncodeEntry(es[k + 1], next[k + 1])) \in Nat
    BY <2>1, EntryCells DEF IsSeq
  <2>4. IsSeq(b[k + 1]) /\ Len(b[k + 1]) = Len(b[k]) + Len(EncodeEntry(es[k + 1], next[k + 1]))
    BY <2>2 DEF IsBehind
  <2>5. \A x \in Nat \ {0}, y \in Nat : x + y \in Nat \ {0}
    OBVIOUS
  <2> QED
    BY <2>1, <2>3, <2>4, <2>5
<1>6. Nat \subseteq T
  <2> HIDE DEF T
  <2> QED
    BY <1>4, <1>5, StepInduction
<1>7. \A k \in 0..n : IsSeq(b[k]) /\ Len(b[k]) \in Nat \ {0}
  BY <1>6
<1> QED
  BY <1>1, <1>3, <1>7

(* c begins with the cells of a.                                           *)
BeginsWith(c, a) == Len(a) <= Len(c) /\ \A j \in 1..Len(a) : c[j] = a[j]

LEMMA EncodePrefix ==
  ASSUME NEW es, NEW next, NEW n, NEW b, NEW k, n \in Nat, k \in 0..n, Encodes(b, es, next, n),
         \A i \in 1..n : WellFormed(es[i])
  PROVE  BeginsWith(b[n], b[k])
<1>1. /\ \A i \in 0..n : IsSeq(b[i]) /\ Len(b[i]) \in Nat \ {0}
      /\ \A i \in 0..(n - 1) : IsBehind(b[i + 1], b[i], EncodeEntry(es[i + 1], next[i + 1]))
  BY EncodeTurn
<1> DEFINE P(m) == Len(b[k]) <= Len(b[m]) /\ \A j \in 1..Len(b[k]) : b[m][j] = b[k][j]
           T == {d \in Nat : k + d <= n => P(k + d)}
<1>2. 0 \in T
  <2>1. k + 0 = k /\ Len(b[k]) \in Nat
    BY <1>1
  <2> QED
    BY <2>1
<1>3. ASSUME NEW d \in Nat, d \in T
      PROVE  d + 1 \in T
  <2> SUFFICES ASSUME k + (d + 1) <= n PROVE P(k + (d + 1))
    OBVIOUS
  <2> DEFINE m == k + d
  <2>1. m \in 0..(n - 1) /\ k + (d + 1) = m + 1 /\ m + 1 \in 1..n /\ m \in 0..n /\ k + d <= n
    OBVIOUS
  <2>2. P(m)
    BY <1>3, <2>1
  <2> HIDE DEF m
  <2>3. IsBehind(b[m + 1], b[m], EncodeEntry(es[m + 1], next[m + 1]))
    BY <1>1, <2>1
  <2>4. Len(EncodeEntry(es[m + 1], next[m + 1])) \in Nat
    BY <2>1, EntryCells DEF IsSeq
  <2>5. Len(b[m]) \in Nat /\ Len(b[k]) \in Nat
    BY <1>1, <2>1
  <2>6. Len(b[m + 1]) = Len(b[m]) + Len(EncodeEntry(es[m + 1], next[m + 1]))
        /\ \A j \in 1..Len(b[m]) : b[m + 1][j] = b[m][j]
    BY <2>3 DEF IsBehind
  <2>7. Len(b[k]) <= Len(b[m + 1])
    <3>1. Len(b[k]) <= Len(b[m])
      BY <2>2
    <3>2. Len(b[m + 1]) = Len(b[m]) + Len(EncodeEntry(es[m + 1], next[m + 1]))
      BY <2>6
    <3>3. \A x \in Nat, y \in Nat, z \in Nat : x <= y => x <= y + z
      OBVIOUS
    <3> QED
      BY <2>4, <2>5, <3>1, <3>2, <3>3
  <2>8. ASSUME NEW j \in 1..Len(b[k])
        PROVE  b[m + 1][j] = b[k][j]
    <3>1. j \in 1..Len(b[m])
      BY <2>2, <2>5
    <3> QED
      BY <2>2, <2>6, <3>1
  <2> QED
    BY <2>1, <2>7, <2>8
<1>4. Nat \subseteq T
  <2> HIDE DEF T
  <2> QED
    BY <1>2, <1>3, StepInduction
<1>5. n - k \in Nat /\ k + (n - k) = n
  OBVIOUS
<1>6. n - k \in T
  BY <1>4, <1>5
<1>7. P(n)
  BY <1>5, <1>6
<1> QED
  BY <1>7 DEF BeginsWith

(* The turns of the loop that reads them.                                  *)
Decodes(b, data, count, n) ==
  \A k \in 0..n : b[k] = IF k = 0 THEN Loop(Tail(data), << >>, "on")
                         ELSE NextEntry(b[k - 1], k = count)

LEMMA DecodesExist ==
  ASSUME NEW data, NEW count
  PROVE  \A n \in Nat : \E b : Decodes(b, data, count, n)
<1> DEFINE T == {n \in Nat : \E b : Decodes(b, data, count, n)}
           first == Loop(Tail(data), << >>, "on")
<1>1. 0 \in T
  <2>1. Decodes([k \in {0} |-> first], data, count, 0)
    BY DEF Decodes
  <2> QED
    BY <2>1
<1>2. ASSUME NEW n \in Nat, n \in T
      PROVE  n + 1 \in T
  <2>1. PICK b : Decodes(b, data, count, n)
    BY <1>2
  <2> DEFINE d == [k \in 0..(n + 1) |->
                     IF k = n + 1 THEN NextEntry(b[n], n + 1 = count) ELSE b[k]]
  <2>2. ASSUME NEW k \in 0..(n + 1)
        PROVE  d[k] = IF k = 0 THEN first ELSE NextEntry(d[k - 1], k = count)
    <3>1. CASE k = n + 1
      <4>1. k # 0 /\ k - 1 = n /\ n \in 0..(n + 1) /\ n # n + 1
        BY <3>1
      <4>2. d[k] = NextEntry(b[n], k = count) /\ d[n] = b[n]
        BY <3>1, <4>1
      <4> QED
        BY <4>1, <4>2
    <3>2. CASE k # n + 1
      <4>1. k \in 0..n /\ (k # 0 => k - 1 \in 0..(n + 1) /\ k - 1 # n + 1)
        BY <3>2
      <4>2. b[k] = IF k = 0 THEN first ELSE NextEntry(b[k - 1], k = count)
        BY <2>1, <4>1 DEF Decodes
      <4>3. d[k] = b[k] /\ (k # 0 => d[k - 1] = b[k - 1])
        BY <3>2, <4>1
      <4> QED
        BY <4>2, <4>3
    <3> QED
      BY <3>1, <3>2
  <2>3. Decodes(d, data, count, n + 1)
    <3> HIDE DEF d
    <3> QED
      BY <2>2 DEF Decodes
  <2> QED
    BY <2>3
<1>3. Nat \subseteq T
  <2> HIDE DEF T
  <2> QED
    BY <1>1, <1>2, StepInduction
<1> QED
  BY <1>3

LEMMA DecodeDef ==
  ASSUME NEW data, NEW count, count \in Nat, count = data[1][2]
  PROVE  \E b : Decodes(b, data, count, count) /\ DecodeBlob(data) = b[count]
<1> DEFINE n == count
           Is(b) == b = [k \in 0..n |-> IF k = 0 THEN Loop(Tail(data), << >>, "on")
                                        ELSE NextEntry(b[k - 1], k = count)]
<1>1. PICK d : Decodes(d, data, count, n)
  BY DecodesExist
<1> DEFINE e == [k \in 0..n |-> d[k]]
<1>2. Is(e)
  <2>1. ASSUME NEW k \in 0..n
        PROVE  e[k] = IF k = 0 THEN Loop(Tail(data), << >>, "on")
                      ELSE NextEntry(e[k - 1], k = count)
    <3>1. d[k] = IF k = 0 THEN Loop(Tail(data), << >>, "on")
                 ELSE NextEntry(d[k - 1], k = count)
      BY <1>1 DEF Decodes
    <3>2. k # 0 => k - 1 \in 0..n
      OBVIOUS
    <3>3. e[k] = d[k] /\ (k # 0 => e[k - 1] = d[k - 1])
      BY <3>2
    <3> QED
      BY <3>1, <3>3
  <2>2. e = [k \in 0..n |-> e[k]]
    OBVIOUS
  <2> HIDE DEF e, n
  <2> QED
    BY <2>1, <2>2 DEF n
<1>3. PICK c : c = (CHOOSE x : Is(x)) /\ Is(c)
  <2> HIDE DEF Is
  <2> QED
    BY <1>2
<1>4. DecodeBlob(data) = c[n]
  BY <1>3 DEF DecodeBlob
<1>5. Decodes(c, data, count, n)
  BY <1>3 DEF Decodes
<1> QED
  BY <1>4, <1>5

LEMMA NextOfNothing ==
  ASSUME NEW es, NEW last
  PROVE  NextEntry(Loop(<< >>, es, "on"), last)
           = Loop(<< >>, Append(es, Blank), IF last THEN "ok" ELSE "refused")
  BY DEF NextEntry, Loop

LEMMA NextWhenOver ==
  ASSUME NEW l, NEW last, l.state # "on"
  PROVE  NextEntry(l, last) = l
  BY DEF NextEntry

LEMMA NextOfPart ==
  ASSUME NEW e, NEW mark, NEW data, NEW es, NEW last, WellFormed(e), IsSeq(data), data # << >>,
         data[1] = EncodeEntry(e, mark)[1], Len(data) < Len(EncodeEntry(e, mark))
  PROVE  NextEntry(Loop(data, es, "on"), last) = Loop(data, es, "refused")
<1>1. data[1][1] = "entry" /\ ExpectedSize(data[1][2]) = Len(EncodeEntry(e, mark))
  BY EntryCells
<1>2. EntryRefused(data)
  BY <1>1 DEF EntryRefused
<1> QED
  BY <1>2 DEF NextEntry, Loop

StateAfter(mark, last) == IF last THEN "ok" ELSE IF mark = 1 THEN "on" ELSE "refused"

LEMMA NextOfEntry ==
  ASSUME NEW e, NEW mark, NEW data, NEW es, NEW last, NEW cell,
         mark \in {0, 1}, WellFormed(e), cell = EncodeEntry(e, mark), IsSeq(data), data # << >>,
         BeginsWith(data, cell), Len(cell) = Len(data) \/ mark = 1
  PROVE  NextEntry(Loop(data, es, "on"), last)
           = Loop(SubSeq(data, Len(cell) + 1, Len(data)), Append(es, e), StateAfter(mark, last))
<1> DEFINE h == data[1][2]
           n == Len(e.proofs)
<1>1. /\ IsSeq(cell) /\ Len(cell) = 3 + n /\ n \in Nat
      /\ cell[2] = << "url", e.log_url[1] >> /\ cell[3] = << "root", e.signed_root_blob >>
      /\ \A k \in 1..n : cell[3 + k] = e.proofs[k]
  BY EntryCells
<1>2. Len(cell) <= Len(data) /\ \A j \in 1..(3 + n) : data[j] = cell[j]
  BY <1>1 DEF BeginsWith
<1>3. data[1] = cell[1] /\ data[2] = cell[2] /\ data[3] = cell[3]
  <2>1. 1 \in 1..(3 + n) /\ 2 \in 1..(3 + n) /\ 3 \in 1..(3 + n)
    BY <1>1
  <2> QED
    BY <1>2, <2>1
<1>4. data[1][1] = "entry" /\ ExpectedSize(h) = Len(cell) /\ h.next_entry = mark
      /\ h.leaf_index = e.leaf_index /\ h.proof_hash_count = n
  BY <1>3, EntryCells
<1> HIDE DEF h, n
<1>5. ~EntryRefused(data)
  <2>1. ~(Len(data) < Len(cell))
    BY <1>1, <1>2 DEF IsSeq
  <2>2. ~(Len(data) # Len(cell) /\ mark = 0)
    OBVIOUS
  <2> QED
    BY <1>4, <2>1, <2>2 DEF EntryRefused, h
<1>6. DecodeEntry(data) = e
  <2>1. SubSeq(data, 4, 3 + n) = e.proofs
    <3>1. 3 \in Nat /\ 3 + n \in Nat /\ 3 <= 3 + n /\ 3 + n <= Len(data) /\ 3 + 1 = 4 /\ (3 + n) - 3 = n
      BY <1>1, <1>2
    <3>2. IsPart(SubSeq(data, 3 + 1, 3 + n), data, 3, 3 + n)
      BY <3>1, SubSeqIs
    <3>3. \A k \in 1..n : data[3 + k] = e.proofs[k]
      <4>1. \A k \in 1..n : 3 + k \in 1..(3 + n)
        BY <1>1
      <4> QED
        BY <1>1, <1>2, <4>1
    <3>4. PICK p : p = SubSeq(data, 3 + 1, 3 + n)
      OBVIOUS
    <3>5. IsSeq(p) /\ Len(p) = n /\ \A k \in 1..n : p[k] = e.proofs[k]
      BY <3>1, <3>2, <3>3, <3>4 DEF IsPart
    <3>6. p = e.proofs
      <4>1. IsSeq(e.proofs) /\ Len(e.proofs) = n
        BY DEF WellFormed, n
      <4> QED
        BY <3>5, <4>1, IsSeqEqual
    <3> QED
      BY <3>1, <3>4, <3>6
  <2>2. data[2][2] = e.log_url[1] /\ data[3][2] = e.signed_root_blob
    BY <1>1, <1>3
  <2>3. DecodeEntry(data) = [log_url |-> << e.log_url[1] >>, leaf_index |-> e.leaf_index,
                             signed_root_blob |-> e.signed_root_blob, proofs |-> e.proofs]
    BY <1>4, <2>1, <2>2 DEF DecodeEntry, h
  <2> QED
    BY <2>3 DEF WellFormed
<1>7. NextEntry(Loop(data, es, "on"), last)
        = Loop(SubSeq(data, Len(cell) + 1, Len(data)), Append(es, e),
               CASE mark = 1 /\ ~last -> "on"
                 [] mark = 0 /\ ~last -> "refused"
                 [] OTHER -> "ok")
  <2> DEFINE l == Loop(data, es, "on")
  <2>1. l.state = "on" /\ l.data = data /\ l.entries = es
    BY DEF Loop
  <2> HIDE DEF l
  <2> QED
    BY <1>4, <1>5, <1>6, <2>1 DEF NextEntry, h, l
<1> QED
  BY <1>7 DEF StateAfter

(* What AvbIcpBlob makes of the first c cells of a blob: all its entries   *)
(* when these are all its cells, and never fewer.                          *)
LEMMA ReadBack ==
  ASSUME NEW es, IsSeq(es), es # << >>, \A k \in 1..Len(es) : WellFormed(es[k]),
         NEW c, c \in 1..Len(EncodeBlob(es)), NEW d, d = SubSeq(EncodeBlob(es), 1, c)
  PROVE  /\ d[1] = << "icp", Len(es) >> /\ d # << >>
         /\ DecodeBlob(d).state = "ok" =>
              /\ Len(DecodeBlob(d).entries) = Len(es)
              /\ \A k \in 1..Len(es) : DecodeBlob(d).entries[k] \in {es[k], Blank}
         /\ c = Len(EncodeBlob(es)) => DecodeBlob(d) = Loop(<< >>, es, "ok")
<1> DEFINE n == Len(es)
           E == EncodeBlob(es)
           next == [k \in DOMAIN es |-> IF k < Len(es) THEN 1 ELSE 0]
           cell(k) == EncodeEntry(es[k], next[k])
<1>1. n \in Nat \ {0} /\ DOMAIN es = 1..n
  <2>1. PICK S : es \in Seq(S)
    BY IsSeqOf
  <2> QED
    BY <2>1
<1>2. \A k \in 1..n : next[k] = IF k < n THEN 1 ELSE 0
  BY <1>1
<1>3. PICK b : Encodes(b, es, next, n) /\ E = b[n]
  <2> HIDE DEF next
  <2>1. n \in Nat
    BY <1>1
  <2>2. E = EncodeMarked(es, next)
    BY DEF EncodeBlob, next
  <2> HIDE DEF E
  <2> QED
    BY <2>1, <2>2, EncodeDef
<1> HIDE DEF E, next, n
<1>4. /\ \A k \in 0..n : IsSeq(b[k]) /\ Len(b[k]) \in Nat \ {0}
      /\ \A k \in 0..(n - 1) : IsBehind(b[k + 1], b[k], cell(k + 1))
      /\ b[0] = << << "icp", n >> >>
  BY <1>1, <1>3, EncodeTurn DEF n
<1>5. ASSUME NEW k \in 0..n
      PROVE  Len(b[k]) <= Len(E) /\ \A j \in 1..Len(b[k]) : E[j] = b[k][j]
  <2>1. n \in Nat /\ k \in 0..n /\ \A i \in 1..n : WellFormed(es[i])
    BY <1>1 DEF n
  <2>2. BeginsWith(b[n], b[k])
    BY <1>3, <2>1, EncodePrefix
  <2> QED
    BY <1>3, <2>2 DEF BeginsWith
<1>6. IsSeq(E) /\ Len(E) \in Nat \ {0} /\ c \in Nat \ {0} /\ c <= Len(E)
  <2>1. n \in 0..n
    BY <1>1
  <2> QED
    BY <1>3, <1>4, <2>1 DEF E
<1>7. IsPart(d, E, 0, c)
  <2>1. 0 \in Nat /\ 0 <= c /\ 0 + 1 = 1 /\ d = SubSeq(E, 0 + 1, c)
    BY <1>6 DEF E
  <2> QED
    BY <1>6, <2>1, SubSeqIs
<1>8. IsSeq(d) /\ Len(d) = c /\ \A j \in 1..c : d[j] = E[j]
  <2>1. c - 0 = c /\ \A j \in 1..c : 0 + j = j
    BY <1>6
  <2> QED
    BY <1>7, <2>1 DEF IsPart
<1>9. d[1] = << "icp", n >> /\ d # << >>
  <2>1. 0 \in 0..n /\ Len(b[0]) = 1 /\ b[0][1] = << "icp", n >> /\ 1 \in 1..c
    BY <1>1, <1>4, <1>6
  <2>2. E[1] = << "icp", n >>
    <3>1. 1 \in 1..Len(b[0])
      BY <2>1
    <3> QED
      BY <1>5, <2>1, <3>1
  <2>3. d # << >>
    <3>1. Len(<< >>) = 0
      OBVIOUS
    <3> QED
      BY <1>6, <1>8, <3>1
  <2> QED
    BY <1>8, <2>1, <2>2, <2>3
<1> DEFINE off(k) == Len(b[k])
           First(f, k) == IsSeq(f) /\ Len(f) = k /\ \A i \in 1..k : f[i] = es[i]
           On(x, k) == \E r, f : /\ x = Loop(r, f, "on") /\ k < n /\ First(f, k)
                                 /\ off(k) <= c /\ IsPart(r, E, off(k), c)
           Over(x, k) == /\ x.state = "ok" /\ k = n /\ Len(x.entries) = n
                         /\ \A i \in 1..n : x.entries[i] \in {es[i], Blank}
                         /\ c = Len(E) => x = Loop(<< >>, es, "ok")
           Bad(x) == x.state = "refused" /\ c < Len(E)
<1>10. PICK l : Decodes(l, d, n, n) /\ DecodeBlob(d) = l[n]
  <2>1. n \in Nat /\ n = d[1][2]
    BY <1>1, <1>9
  <2> QED
    BY <2>1, DecodeDef
<1> DEFINE T == {k \in Nat : k <= n => On(l[k], k) \/ Over(l[k], k) \/ Bad(l[k])}
<1>11. 0 \in T
  <2>1. 0 \in 0..n /\ 0 < n /\ 0 \in Nat
    BY <1>1
  <2>2. l[0] = Loop(Tail(d), << >>, "on")
    BY <1>10, <2>1 DEF Decodes
  <2>3. off(0) = 1 /\ 1 <= c
    BY <1>4, <1>6
  <2>4. IsPart(Tail(d), E, 1, c)
    <3>1. Tail(d) = SubSeq(d, 1 + 1, c)
      <4>1. PICK S : d \in Seq(S)
        BY <1>8, IsSeqOf
      <4> QED
        BY <1>8, <1>9, <4>1
    <3>2. IsPart(SubSeq(d, 1 + 1, c), d, 1, c)
      <4>1. 1 \in Nat /\ c \in Nat /\ 1 <= c /\ c <= Len(d)
        BY <1>6, <1>8
      <4> QED
        BY <1>8, <4>1, SubSeqIs
    <3>3. \A k \in 1..(c - 1) : 1 + k \in 1..c
      BY <1>6
    <3> QED
      BY <1>8, <3>1, <3>2, <3>3 DEF IsPart
  <2>5. First(<< >>, 0)
    <3>1. Len(<< >>) = 0 /\ IsSeq(<< >>)
      BY DEF IsSeq
    <3> QED
      BY <3>1
  <2>6. On(l[0], 0)
    BY <2>1, <2>2, <2>3, <2>4, <2>5
  <2> QED
    BY <2>1, <2>6
<1>12. ASSUME NEW k \in Nat, k \in T
       PROVE  k + 1 \in T
  <2> SUFFICES ASSUME k + 1 <= n
               PROVE  On(l[k + 1], k + 1) \/ Over(l[k + 1], k + 1) \/ Bad(l[k + 1])
    BY DEF T
  <2>1. k \in 0..n /\ k < n /\ k + 1 \in 1..n /\ k \in 0..(n - 1) /\ k + 1 \in 0..n
    BY <1>1
  <2>2. On(l[k], k) \/ Bad(l[k])
    BY <1>12, <2>1
  <2>3. l[k + 1] = NextEntry(l[k], k + 1 = n)
    <3>1. k + 1 # 0 /\ (k + 1) - 1 = k
      OBVIOUS
    <3> QED
      BY <1>10, <2>1, <3>1 DEF Decodes
  <2>4. CASE Bad(l[k])
    <3>1. l[k + 1] = l[k]
      BY <2>3, <2>4, NextWhenOver
    <3> QED
      BY <2>4, <3>1
  <2>5. CASE On(l[k], k)
    <3>1. PICK r, f : /\ l[k] = Loop(r, f, "on") /\ First(f, k)
                      /\ off(k) <= c /\ IsPart(r, E, off(k), c)
      BY <2>5
    <3> DEFINE last == (k + 1 = n)
               e == es[k + 1]
               x == cell(k + 1)
    <3>2. WellFormed(e) /\ next[k + 1] = IF k + 1 < n THEN 1 ELSE 0
      BY <1>2, <2>1 DEF n
    <3>3. IsBehind(b[k + 1], b[k], x) /\ off(k) \in Nat \ {0} /\ off(k + 1) \in Nat
      BY <1>4, <2>1
    <3>4. IsSeq(x) /\ Len(x) \in Nat /\ 1 \in 1..Len(x) /\ off(k + 1) = off(k) + Len(x)
      <4>1. IsSeq(x) /\ Len(x) = 3 + Len(e.proofs) /\ Len(e.proofs) \in Nat
        BY <3>2, EntryCells
      <4> QED
        BY <3>3, <4>1 DEF IsBehind
    <3>5. off(k + 1) <= Len(E) /\ \A j \in 1..Len(x) : E[off(k) + j] = x[j]
      <4>1. off(k + 1) <= Len(E) /\ \A j \in 1..off(k + 1) : E[j] = b[k + 1][j]
        BY <1>5, <2>1
      <4>2. ASSUME NEW j \in 1..Len(x)
            PROVE  E[off(k) + j] = x[j]
        <5>1. off(k) + j \in 1..off(k + 1)
          <6> HIDE DEF off, x
          <6> QED
            BY <3>3, <3>4
        <5>2. b[k + 1][off(k) + j] = x[j]
          BY <3>3 DEF IsBehind
        <5> QED
          BY <4>1, <5>1, <5>2
      <4> QED
        BY <4>1, <4>2
    <3>6. k + 1 = n => off(k + 1) = Len(E)
      BY <1>3
    <3>7. IsSeq(r) /\ Len(r) = c - off(k) /\ Len(r) \in Nat
          /\ \A j \in 1..(c - off(k)) : r[j] = E[off(k) + j]
      BY <1>6, <3>1, <3>3 DEF IsPart
    <3> HIDE DEF off, x
    <3>8. CASE r = << >>
      <4>1. off(k) = c /\ c < Len(E)
        <5>1. Len(r) = 0
          BY <3>8
        <5>2. off(k) < off(k + 1)
          BY <3>3, <3>4
        <5> QED
          BY <1>6, <3>3, <3>5, <3>7, <5>1, <5>2
      <4>2. l[k + 1] = Loop(<< >>, Append(f, Blank), IF last THEN "ok" ELSE "refused")
        BY <2>3, <3>1, <3>8, NextOfNothing, Zenon
      <4>3. CASE last
        <5>1. l[k + 1] = Loop(<< >>, Append(f, Blank), "ok")
          BY <4>2, <4>3
        <5>2. l[k + 1].state = "ok" /\ l[k + 1].entries = Append(f, Blank)
          BY <5>1 DEF Loop
        <5>3. /\ Len(Append(f, Blank)) = k + 1 /\ Append(f, Blank)[k + 1] = Blank
              /\ \A i \in 1..k : Append(f, Blank)[i] = es[i]
          BY <3>1, AppendIs
        <5>4. \A i \in 1..n : Append(f, Blank)[i] \in {es[i], Blank}
          <6>1. \A i \in 1..n : i \in 1..k \/ i = k + 1
            BY <2>1, <4>3
          <6> QED
            BY <5>3, <6>1
        <5>5. Over(l[k + 1], k + 1)
          BY <4>1, <4>3, <5>2, <5>3, <5>4
        <5> QED
          BY <5>5
      <4>4. CASE ~last
        <5>1. l[k + 1].state = "refused"
          BY <4>2, <4>4 DEF Loop
        <5> QED
          BY <4>1, <5>1
      <4> QED
        BY <4>3, <4>4
    <3>9. CASE r # << >> /\ Len(r) < Len(x)
      <4>1. r[1] = x[1]
        <5>1. 1 \in 1..(c - off(k))
          <6>1. Len(r) # 0
            <7>1. PICK S : r \in Seq(S)
              BY <3>7, IsSeqOf
            <7> QED
              BY <3>9, <7>1
          <6> QED
            BY <3>7, <6>1
        <5> QED
          BY <3>4, <3>5, <3>7, <5>1
      <4>2. l[k + 1] = Loop(r, f, "refused")
        BY <2>3, <3>1, <3>2, <3>7, <3>9, <4>1, NextOfPart DEF x
      <4>3. c < Len(E)
        BY <1>6, <3>3, <3>4, <3>5, <3>7, <3>9
      <4>4. l[k + 1].state = "refused"
        BY <4>2 DEF Loop
      <4> QED
        BY <4>3, <4>4
    <3>10. CASE r # << >> /\ Len(x) <= Len(r)
      <4>1. off(k + 1) <= c
        BY <1>6, <3>3, <3>4, <3>7, <3>10
      <4>2. \A j \in 1..Len(x) : r[j] = x[j]
        <5>1. \A j \in 1..Len(x) : j \in 1..(c - off(k))
          BY <3>4, <3>7, <3>10
        <5> QED
          BY <3>5, <3>7, <5>1
      <4>3. Len(x) = Len(r) \/ next[k + 1] = 1
        <5>1. CASE k + 1 < n
          BY <3>2, <5>1
        <5>2. CASE ~(k + 1 < n)
          <6>1. off(k + 1) = Len(E)
            BY <1>1, <2>1, <3>6, <5>2
          <6> QED
            BY <1>6, <3>3, <3>4, <3>7, <3>10, <6>1
        <5> QED
          BY <5>1, <5>2
      <4>4. next[k + 1] \in {0, 1}
        BY <3>2
      <4>5. l[k + 1] = Loop(SubSeq(r, Len(x) + 1, Len(r)), Append(f, e),
                            IF last THEN "ok" ELSE IF next[k + 1] = 1 THEN "on" ELSE "refused")
        <5>1. x = EncodeEntry(e, next[k + 1])
          BY DEF x
        <5>2. PICK m : m = next[k + 1]
          OBVIOUS
        <5>3. PICK u : u = last
          OBVIOUS
        <5>4. BeginsWith(r, x)
          BY <3>10, <4>2 DEF BeginsWith
        <5>5. /\ m \in {0, 1} /\ WellFormed(e) /\ x = EncodeEntry(e, m) /\ IsSeq(r) /\ r # << >>
              /\ Len(x) = Len(r) \/ m = 1
          BY <3>2, <3>7, <3>10, <4>3, <4>4, <5>1, <5>2
        <5> HIDE DEF e
        <5>6. NextEntry(Loop(r, f, "on"), u)
                = Loop(SubSeq(r, Len(x) + 1, Len(r)), Append(f, e), StateAfter(m, u))
          BY <5>4, <5>5, NextOfEntry
        <5>7. l[k + 1] = Loop(SubSeq(r, Len(x) + 1, Len(r)), Append(f, e), StateAfter(m, u))
          BY <2>3, <3>1, <5>3, <5>6, Zenon
        <5> QED
          BY <5>2, <5>3, <5>7, Zenon DEF StateAfter
      <4>6. First(Append(f, e), k + 1)
        <5>1. /\ IsSeq(Append(f, e)) /\ Len(Append(f, e)) = k + 1 /\ Append(f, e)[k + 1] = e
              /\ \A i \in 1..k : Append(f, e)[i] = es[i]
          BY <3>1, AppendIs
        <5>2. \A i \in 1..(k + 1) : i \in 1..k \/ i = k + 1
          OBVIOUS
        <5> QED
          BY <5>1, <5>2
      <4>7. IsPart(SubSeq(r, Len(x) + 1, Len(r)), E, off(k + 1), c)
        <5>1. IsPart(SubSeq(r, Len(x) + 1, Len(r)), r, Len(x), Len(r))
          <6>1. Len(x) \in Nat /\ Len(r) \in Nat /\ Len(x) <= Len(r) /\ Len(r) <= Len(r)
            BY <3>4, <3>7, <3>10
          <6> QED
            BY <3>7, <6>1, SubSeqIs, Zenon
        <5>2. Len(r) - Len(x) = c - off(k + 1)
          BY <1>6, <3>3, <3>4, <3>7
        <5>3. ASSUME NEW j \in 1..(c - off(k + 1))
              PROVE  r[Len(x) + j] = E[off(k + 1) + j]
          <6>1. Len(x) + j \in 1..(c - off(k)) /\ off(k) + (Len(x) + j) = off(k + 1) + j
            BY <1>6, <3>3, <3>4, <4>1
          <6> QED
            BY <3>7, <6>1
        <5> QED
          BY <5>1, <5>2, <5>3 DEF IsPart
      <4>8. CASE last
        <5>1. l[k + 1] = Loop(SubSeq(r, Len(x) + 1, Len(r)), Append(f, e), "ok")
          BY <4>5, <4>8
        <5>2. Append(f, e) = es
          <6>1. PICK g : g = Append(f, e) /\ First(g, k + 1)
            BY <4>6
          <6>2. IsSeq(g) /\ Len(g) = Len(es) /\ \A i \in 1..Len(g) : g[i] = es[i]
            BY <4>8, <6>1 DEF n
          <6>3. g = es
            BY <6>2, IsSeqEqual
          <6> QED
            BY <6>1, <6>3
        <5>3. SubSeq(r, Len(x) + 1, Len(r)) = << >>
          <6>1. off(k + 1) = Len(E) /\ c = Len(E)
            BY <1>6, <3>3, <3>6, <4>1, <4>8
          <6>2. Len(SubSeq(r, Len(x) + 1, Len(r))) = 0 /\ IsSeq(SubSeq(r, Len(x) + 1, Len(r)))
            BY <1>6, <4>7, <6>1 DEF IsPart
          <6>3. PICK S : SubSeq(r, Len(x) + 1, Len(r)) \in Seq(S)
            BY <6>2, IsSeqOf
          <6> QED
            BY <6>2, <6>3
        <5>4. l[k + 1] = Loop(<< >>, es, "ok")
          BY <5>1, <5>2, <5>3
        <5>5. Over(l[k + 1], k + 1)
          BY <4>8, <5>4 DEF Loop, n
        <5> QED
          BY <5>5
      <4>9. CASE ~last
        <5>1. k + 1 < n /\ next[k + 1] = 1
          BY <1>1, <2>1, <3>2, <4>9
        <5>2. l[k + 1] = Loop(SubSeq(r, Len(x) + 1, Len(r)), Append(f, e), "on")
          BY <4>5, <4>9, <5>1
        <5> QED
          BY <4>1, <4>6, <4>7, <5>1, <5>2
      <4> QED
        BY <4>8, <4>9
    <3>11. Len(r) < Len(x) \/ Len(x) <= Len(r)
      BY <3>4, <3>7
    <3> QED
      BY <3>8, <3>9, <3>10, <3>11
  <2> QED
    BY <2>2, <2>4, <2>5
<1>13. Nat \subseteq T
  <2> HIDE DEF T
  <2> QED
    BY <1>11, <1>12, StepInduction
<1>14. Over(l[n], n) \/ Bad(l[n])
  <2>1. ~On(l[n], n)
    BY <1>1
  <2> QED
    BY <1>1, <1>13, <2>1
<1>15. /\ l[n].state = "ok" => /\ Len(l[n].entries) = n
                               /\ \A k \in 1..n : l[n].entries[k] \in {es[k], Blank}
       /\ c = Len(E) => l[n] = Loop(<< >>, es, "ok")
  BY <1>6, <1>14
<1> QED
  BY <1>9, <1>10, <1>15 DEF E, n

LEMMA NextOfLonger ==
  ASSUME NEW e, NEW data, NEW es, NEW last, WellFormed(e), data # << >>,
         data[1] = EncodeEntry(e, 0)[1], Len(data) # Len(EncodeEntry(e, 0))
  PROVE  NextEntry(Loop(data, es, "on"), last).state = "refused"
<1>1. ExpectedSize(data[1][2]) = Len(EncodeEntry(e, 0)) /\ data[1][2].next_entry = 0
  BY EntryCells
<1>2. EntryRefused(data)
  BY <1>1 DEF EntryRefused
<1> QED
  BY <1>2 DEF NextEntry, Loop

(* With more behind a blob its last entry is refused.                      *)
LEMMA LongerIsRefused ==
  ASSUME NEW es, NEW d, NEW E, IsSeq(es), es # << >>, \A k \in 1..Len(es) : WellFormed(es[k]),
         E = EncodeBlob(es), IsSeq(d), BeginsWith(d, E), Len(E) < Len(d)
  PROVE  DecodeBlob(d).state = "refused"
<1> DEFINE n == Len(es)
           c == Len(d)
           next == [k \in DOMAIN es |-> IF k < Len(es) THEN 1 ELSE 0]
           cell(k) == EncodeEntry(es[k], next[k])
<1>1. n \in Nat \ {0} /\ DOMAIN es = 1..n
  <2>1. PICK S : es \in Seq(S)
    BY IsSeqOf
  <2> QED
    BY <2>1
<1>2. \A k \in 1..n : next[k] = IF k < n THEN 1 ELSE 0
  BY <1>1
<1>3. PICK b : Encodes(b, es, next, n) /\ E = b[n]
  <2> HIDE DEF next
  <2>1. n \in Nat
    BY <1>1
  <2>2. E = EncodeMarked(es, next)
    BY DEF EncodeBlob, next
  <2> QED
    BY <2>1, <2>2, EncodeDef
<1> HIDE DEF next, n, c
<1>4. /\ \A k \in 0..n : IsSeq(b[k]) /\ Len(b[k]) \in Nat \ {0}
      /\ \A k \in 0..(n - 1) : IsBehind(b[k + 1], b[k], cell(k + 1))
      /\ b[0] = << << "icp", n >> >>
  BY <1>1, <1>3, EncodeTurn DEF n
<1>5. Len(E) \in Nat \ {0} /\ c \in Nat \ {0} /\ Len(E) < c /\ \A j \in 1..Len(E) : d[j] = E[j]
  <2>1. n \in 0..n
    BY <1>1
  <2>2. Len(E) \in Nat \ {0}
    BY <1>3, <1>4, <2>1
  <2> QED
    BY <2>2 DEF BeginsWith, IsSeq, c
<1>6. ASSUME NEW k \in 0..n
      PROVE  Len(b[k]) <= Len(E) /\ \A j \in 1..Len(b[k]) : d[j] = b[k][j]
  <2>1. n \in Nat /\ k \in 0..n /\ \A i \in 1..n : WellFormed(es[i])
    BY <1>1 DEF n
  <2>2. BeginsWith(b[n], b[k])
    BY <1>3, <2>1, EncodePrefix
  <2>3. Len(b[k]) <= Len(E) /\ \A j \in 1..Len(b[k]) : E[j] = b[k][j]
    BY <1>3, <2>2 DEF BeginsWith
  <2>4. Len(b[k]) \in Nat
    BY <1>4
  <2>5. \A j \in 1..Len(b[k]) : j \in 1..Len(E)
    BY <1>5, <2>3, <2>4
  <2> QED
    BY <1>5, <2>3, <2>5
<1>7. d[1] = << "icp", n >> /\ d # << >> /\ Len(b[0]) = 1
  <2>1. 0 \in 0..n /\ Len(b[0]) = 1 /\ b[0][1] = << "icp", n >> /\ 1 \in 1..1
    BY <1>1, <1>4
  <2>2. d[1] = b[0][1]
    BY <1>6, <2>1
  <2>3. Len(<< >>) = 0
    OBVIOUS
  <2> QED
    BY <1>5, <2>1, <2>2, <2>3 DEF c
<1> DEFINE off(k) == Len(b[k])
           On(x, k) == \E r, f : x = Loop(r, f, "on") /\ k < n /\ IsPart(r, d, off(k), c)
           Bad(x, k) == x.state = "refused" /\ k = n
<1>8. PICK l : Decodes(l, d, n, n) /\ DecodeBlob(d) = l[n]
  <2>1. n \in Nat /\ n = d[1][2]
    BY <1>1, <1>7
  <2> QED
    BY <2>1, DecodeDef
<1> DEFINE T == {k \in Nat : k <= n => On(l[k], k) \/ Bad(l[k], k)}
<1>9. 0 \in T
  <2>1. 0 \in 0..n /\ 0 < n /\ 0 \in Nat
    BY <1>1
  <2>2. l[0] = Loop(Tail(d), << >>, "on")
    BY <1>8, <2>1 DEF Decodes
  <2>3. IsPart(Tail(d), d, 1, c)
    <3>1. Tail(d) = SubSeq(d, 1 + 1, c)
      <4>1. PICK S : d \in Seq(S)
        BY IsSeqOf
      <4> QED
        BY <1>7, <4>1 DEF c
    <3>2. 1 \in Nat /\ c \in Nat /\ 1 <= c /\ c <= Len(d)
      BY <1>5 DEF c
    <3>3. IsPart(SubSeq(d, 1 + 1, c), d, 1, c)
      BY <3>2, SubSeqIs
    <3> QED
      BY <3>1, <3>3
  <2>4. On(l[0], 0)
    BY <1>7, <2>1, <2>2, <2>3
  <2> QED
    BY <2>1, <2>4
<1>10. ASSUME NEW k \in Nat, k \in T
       PROVE  k + 1 \in T
  <2> SUFFICES ASSUME k + 1 <= n PROVE On(l[k + 1], k + 1) \/ Bad(l[k + 1], k + 1)
    BY DEF T
  <2>1. k \in 0..n /\ k < n /\ k + 1 \in 1..n /\ k \in 0..(n - 1) /\ k + 1 \in 0..n
    BY <1>1
  <2>2. PICK r, f : l[k] = Loop(r, f, "on") /\ IsPart(r, d, off(k), c)
    BY <1>10, <2>1
  <2>3. l[k + 1] = NextEntry(l[k], k + 1 = n)
    <3>1. k + 1 # 0 /\ (k + 1) - 1 = k
      OBVIOUS
    <3> QED
      BY <1>8, <2>1, <3>1 DEF Decodes
  <2> DEFINE last == (k + 1 = n)
             e == es[k + 1]
             x == cell(k + 1)
  <2>4. WellFormed(e) /\ next[k + 1] = IF k + 1 < n THEN 1 ELSE 0
    BY <1>2, <2>1 DEF n
  <2>5. IsBehind(b[k + 1], b[k], x) /\ off(k) \in Nat \ {0} /\ off(k + 1) \in Nat
    BY <1>4, <2>1
  <2>6. IsSeq(x) /\ Len(x) \in Nat /\ 1 \in 1..Len(x) /\ off(k + 1) = off(k) + Len(x)
    <3>1. IsSeq(x) /\ Len(x) = 3 + Len(e.proofs) /\ Len(e.proofs) \in Nat
      BY <2>4, EntryCells
    <3> QED
      BY <2>5, <3>1 DEF IsBehind
  <2>7. off(k + 1) <= Len(E) /\ \A j \in 1..Len(x) : d[off(k) + j] = x[j]
    <3>1. off(k + 1) <= Len(E) /\ \A j \in 1..off(k + 1) : d[j] = b[k + 1][j]
      BY <1>6, <2>1
    <3>2. ASSUME NEW j \in 1..Len(x)
          PROVE  d[off(k) + j] = x[j]
      <4>1. off(k) + j \in 1..off(k + 1)
        <5> HIDE DEF off, x
        <5> QED
          BY <2>5, <2>6
      <4>2. b[k + 1][off(k) + j] = x[j]
        BY <2>5 DEF IsBehind
      <4> QED
        BY <3>1, <4>1, <4>2
    <3> QED
      BY <3>1, <3>2
  <2>8. IsSeq(r) /\ Len(r) = c - off(k) /\ \A j \in 1..(c - off(k)) : r[j] = d[off(k) + j]
    BY <2>2 DEF IsPart
  <2> HIDE DEF off, x
  <2>9. Len(r) \in Nat /\ Len(x) < Len(r) /\ off(k + 1) < c
    BY <1>5, <2>5, <2>6, <2>7, <2>8
  <2>10. \A j \in 1..Len(x) : r[j] = x[j]
    <3>1. \A j \in 1..Len(x) : j \in 1..(c - off(k))
      BY <1>5, <2>5, <2>6, <2>8, <2>9
    <3> QED
      BY <2>7, <2>8, <3>1
  <2>11. r # << >>
    <3>1. Len(<< >>) = 0
      OBVIOUS
    <3> QED
      BY <2>6, <2>9, <3>1
  <2>12. CASE last
    <3>1. x = EncodeEntry(e, 0)
      BY <1>1, <2>4, <2>12 DEF x
    <3>2. r[1] = x[1] /\ Len(r) # Len(x)
      BY <2>6, <2>9, <2>10
    <3>3. PICK u : u = last
      OBVIOUS
    <3> HIDE DEF e
    <3>4. NextEntry(Loop(r, f, "on"), u).state = "refused"
      BY <2>4, <2>11, <3>1, <3>2, NextOfLonger
    <3>5. l[k + 1].state = "refused"
      BY <2>2, <2>3, <3>3, <3>4, Zenon
    <3> QED
      BY <2>12, <3>5
  <2>13. CASE ~last
    <3>1. k + 1 < n /\ next[k + 1] = 1
      BY <1>1, <2>1, <2>4, <2>13
    <3>2. x = EncodeEntry(e, 1)
      BY <3>1 DEF x
    <3>3. PICK u : u = last
      OBVIOUS
    <3>4. BeginsWith(r, x)
      BY <2>9, <2>10, <2>6 DEF BeginsWith
    <3>5. PICK m : m = 1 /\ m \in {0, 1}
      OBVIOUS
    <3> HIDE DEF e
    <3>6. NextEntry(Loop(r, f, "on"), u)
            = Loop(SubSeq(r, Len(x) + 1, Len(r)), Append(f, e), StateAfter(m, u))
      BY <2>4, <2>8, <2>11, <3>2, <3>4, <3>5, NextOfEntry
    <3>7. StateAfter(m, u) = "on"
      BY <2>13, <3>3, <3>5 DEF StateAfter
    <3>8. l[k + 1] = Loop(SubSeq(r, Len(x) + 1, Len(r)), Append(f, e), "on")
      BY <2>2, <2>3, <3>3, <3>6, <3>7, Zenon
    <3>9. IsPart(SubSeq(r, Len(x) + 1, Len(r)), d, off(k + 1), c)
      <4>1. IsPart(SubSeq(r, Len(x) + 1, Len(r)), r, Len(x), Len(r))
        <5>1. Len(x) \in Nat /\ Len(r) \in Nat /\ Len(x) <= Len(r) /\ Len(r) <= Len(r)
          BY <2>6, <2>9
        <5> QED
          BY <2>8, <5>1, SubSeqIs, Zenon
      <4>2. Len(r) - Len(x) = c - off(k + 1)
        BY <1>5, <2>5, <2>6, <2>8
      <4>3. ASSUME NEW j \in 1..(c - off(k + 1))
            PROVE  r[Len(x) + j] = d[off(k + 1) + j]
        <5>1. Len(x) + j \in 1..(c - off(k)) /\ off(k) + (Len(x) + j) = off(k + 1) + j
          BY <1>5, <2>5, <2>6, <2>9
        <5> QED
          BY <2>8, <5>1
      <4> QED
        BY <4>1, <4>2, <4>3 DEF IsPart
    <3> QED
      BY <3>1, <3>8, <3>9
  <2> QED
    BY <2>12, <2>13
<1>11. Nat \subseteq T
  <2> HIDE DEF T
  <2> QED
    BY <1>9, <1>10, StepInduction
<1>12. Bad(l[n], n)
  <2>1. ~On(l[n], n)
    BY <1>1
  <2> QED
    BY <1>1, <1>11, <2>1
<1> QED
  BY <1>8, <1>12

(* A blob of entries is a sequence of cells.                               *)
LEMMA BlobIs ==
  ASSUME NEW es, IsSeq(es), \A k \in 1..Len(es) : WellFormed(es[k])
  PROVE  IsSeq(EncodeBlob(es)) /\ Len(EncodeBlob(es)) \in Nat \ {0}
<1> DEFINE n == Len(es)
           next == [k \in DOMAIN es |-> IF k < Len(es) THEN 1 ELSE 0]
<1>1. n \in Nat
  BY DEF IsSeq
<1>2. EncodeBlob(es) = EncodeMarked(es, next)
  BY DEF EncodeBlob
<1> HIDE DEF next
<1>3. PICK b : Encodes(b, es, next, n) /\ EncodeMarked(es, next) = b[n]
  BY <1>1, EncodeDef
<1>4. \A k \in 1..n : WellFormed(es[k])
  OBVIOUS
<1> HIDE DEF n
<1>5. \A k \in 0..n : IsSeq(b[k]) /\ Len(b[k]) \in Nat \ {0}
  BY <1>1, <1>3, <1>4, EncodeTurn
<1>6. n \in 0..n
  BY <1>1
<1> QED
  BY <1>2, <1>3, <1>5, <1>6

-----------------------------------------------------------------------------
(* What a log can answer.                                                  *)

LEMMA ProofIsSeq ==
  ASSUME NEW leaves, Len(leaves) \in Nat \ {0}, NEW i, i \in 0..(Len(leaves) - 1)
  PROVE  IsSeq(InclusionProof(leaves, i))
<1> DEFINE n == Len(leaves)
           S == {TreeHash(leaves)[s] : s \in Pairs(n)}
           seed == HashLeaf(leaves[i + 1])
<1>1. Fits(TreePath(leaves, i)[<< 0, n >>], S, seed, TreeHash(leaves)[<< 0, n >>], i, n - 1)
  BY PathFits
<1>2. Fits(InclusionProof(leaves, i), S, seed, RootHash(leaves), i, n - 1)
  BY <1>1 DEF InclusionProof, RootHash
<1> HIDE DEF S, seed, n
<1> QED
  BY <1>2, SeqIsSeq DEF Fits

(* A tree the log has had, its root, and an index and a proof that may be  *)
(* of any leaf of it or of none.                                           *)
Shape(a, leaves) ==
  /\ a.index \in Nat /\ a.size \in 1..Len(leaves)
  /\ a.root = RootHash(SubSeq(leaves, 1, a.size)) /\ IsSeq(a.proofs)

LEMMA PrefixIs ==
  ASSUME NEW leaves, IsSeq(leaves), NEW n, n \in 1..Len(leaves)
  PROVE  /\ Len(SubSeq(leaves, 1, n)) = n
         /\ \A k \in 1..n : SubSeq(leaves, 1, n)[k] = leaves[k]
<1>1. 0 \in Nat /\ n \in Nat /\ 0 <= n /\ n <= Len(leaves) /\ 0 + 1 = 1
  BY DEF IsSeq
<1>2. IsPart(SubSeq(leaves, 0 + 1, n), leaves, 0, n)
  BY <1>1, SubSeqIs
<1>3. n - 0 = n /\ \A k \in 1..n : 0 + k = k
  BY <1>1
<1> QED
  BY <1>1, <1>2, <1>3 DEF IsPart

LEMMA GoodAnswersAre ==
  ASSUME NEW l, NEW leaf, NEW a, a \in GoodAnswers(l, leaf), IsSeq(tree[l])
  PROVE  /\ Shape(a, tree[l]) /\ a.index < a.size
         /\ a = [leaf |-> a.leaf, index |-> a.index, size |-> a.size, root |-> a.root,
                 proofs |-> a.proofs, key |-> a.key, whole |-> a.whole]
         /\ VerifyIcp(Entry(l, a), l)
<1>1. PICK p \in Places(tree[l], leaf) : \E n \in p..Len(tree[l]) :
        a = Answer(leaf, p - 1, SubSeq(tree[l], 1, n), InclusionProof(SubSeq(tree[l], 1, n), p - 1), l)
  BY DEF GoodAnswers
<1>2. p \in 1..Len(tree[l]) /\ tree[l][p] = leaf /\ Len(tree[l]) \in Nat
  BY DEF Places, IsSeq
<1>3. PICK n \in p..Len(tree[l]) :
        a = Answer(leaf, p - 1, SubSeq(tree[l], 1, n), InclusionProof(SubSeq(tree[l], 1, n), p - 1), l)
  BY <1>1
<1>4. n \in 1..Len(tree[l]) /\ n \in Nat \ {0} /\ p \in 1..n
  BY <1>2
<1>5. PICK s : s = SubSeq(tree[l], 1, n)
  OBVIOUS
<1>6. Len(s) = n /\ s[p] = leaf
  BY <1>2, <1>4, <1>5, PrefixIs
<1>7. PICK i : i = p - 1
  OBVIOUS
<1>8. i \in 0..(Len(s) - 1) /\ i + 1 = p /\ Len(s) \in Nat \ {0} /\ i < n
  BY <1>4, <1>6, <1>7
<1>9. PICK proof : proof = InclusionProof(s, i) /\ IsSeq(proof)
  BY <1>8, ProofIsSeq
<1>10. RootFromIcp(i, Len(s), proof, HashLeaf(s[i + 1])) = RootHash(s)
  BY <1>8, <1>9, InclusionProofsVerify
<1>11. a = [leaf |-> leaf, index |-> i, size |-> n, root |-> RootHash(s),
            proofs |-> proof, key |-> l, whole |-> TRUE]
  BY <1>3, <1>5, <1>6, <1>7, <1>9 DEF Answer
<1>12. /\ a.leaf = leaf /\ a.index = i /\ a.size = n /\ a.root = RootHash(s)
       /\ a.proofs = proof /\ a.key = l /\ a.whole = TRUE
  BY <1>11
<1>13. Shape(a, tree[l]) /\ a.index < a.size
  BY <1>4, <1>5, <1>8, <1>9, <1>12 DEF Shape
<1>14. VerifyIcp(Entry(l, a), l)
  <2>1. RootFromIcp(i, n, proof, HashLeaf(leaf)) = RootHash(s)
    BY <1>6, <1>8, <1>10
  <2> QED
    BY <1>12, <2>1, Zenon DEF VerifyIcp, Entry, SignedRoot
<1> QED
  BY <1>11, <1>12, <1>13, <1>14, Zenon

LEMMA BadAnswersAre ==
  ASSUME NEW l, NEW leaf, NEW a, a \in BadAnswers(l, leaf), IsSeq(tree[l])
  PROVE  Shape(a, tree[l])
<1>1. PICK g \in GoodAnswers(l, leaf) :
        a \in {[g EXCEPT !.index = k] : k \in (0..g.size) \ {g.index}}
              \cup {[g EXCEPT !.proofs = SubSeq(@, 1, Len(@) - 1)]}
              \cup {[g EXCEPT !.leaf = << "unlogged" >>], [g EXCEPT !.key = "nobody"],
                    [g EXCEPT !.whole = FALSE]}
  BY DEF BadAnswers
<1>2. /\ Shape(g, tree[l])
      /\ g = [leaf |-> g.leaf, index |-> g.index, size |-> g.size, root |-> g.root,
              proofs |-> g.proofs, key |-> g.key, whole |-> g.whole]
  BY GoodAnswersAre
<1>3. CASE a \in {[g EXCEPT !.index = k] : k \in (0..g.size) \ {g.index}}
  <2>1. PICK k \in 0..g.size : a = [g EXCEPT !.index = k]
    BY <1>3
  <2>2. a.index = k /\ a.size = g.size /\ a.root = g.root /\ a.proofs = g.proofs
    BY <1>2, <2>1
  <2>3. k \in Nat
    BY <1>2
  <2> QED
    BY <1>2, <2>2, <2>3 DEF Shape
<1>4. CASE a = [g EXCEPT !.proofs = SubSeq(@, 1, Len(@) - 1)]
  <2>1. /\ a.index = g.index /\ a.size = g.size /\ a.root = g.root
        /\ a.proofs = SubSeq(g.proofs, 1, Len(g.proofs) - 1)
    BY <1>2, <1>4
  <2>2. IsSeq(SubSeq(g.proofs, 1, Len(g.proofs) - 1))
    <3>1. PICK S : g.proofs \in Seq(S)
      BY <1>2, IsSeqOf DEF Shape
    <3>2. PICK q : q = g.proofs
      OBVIOUS
    <3>3. q \in Seq(S)
      BY <3>1, <3>2
    <3>4. SubSeq(q, 1, Len(q) - 1) \in Seq(S)
      <4>1. \A k \in 1..(Len(q) - 1) : k \in 1..Len(q)
        BY <3>3
      <4> QED
        BY <3>3, <4>1, SMTT(30)
    <3> QED
      BY <3>2, <3>4, SeqIsSeq
  <2> QED
    BY <1>2, <2>1, <2>2 DEF Shape
<1>5. CASE a \in {[g EXCEPT !.leaf = << "unlogged" >>], [g EXCEPT !.key = "nobody"],
                  [g EXCEPT !.whole = FALSE]}
  <2>1. a.index = g.index /\ a.size = g.size /\ a.root = g.root /\ a.proofs = g.proofs
    BY <1>2, <1>5
  <2> QED
    BY <1>2, <2>1 DEF Shape
<1> QED
  BY <1>1, <1>3, <1>4, <1>5

-----------------------------------------------------------------------------
(* What is true of an entry for as long as the command runs: a tree only   *)
(* grows at its end.                                                       *)

HasLeaf(leaves, size, hash) == \E p \in 1..size : HashLeaf(leaves[p]) = hash

Sound(x, t) ==
  LET e == x.entry
      r == e.signed_root_blob
      l == e.log_url[1] IN
  /\ WellFormed(e) /\ l \in Log /\ r.tree_size \in 1..Len(t[l])
  /\ x.good => x.verified
  /\ x.verified => HasLeaf(t[l], r.tree_size, r.leaf_hash)

(* An answer that verifies, right or wrong, is of a leaf of the tree.      *)
LEMMA VerifiedIsOfLeaf ==
  ASSUME NEW l, NEW a, NEW leaves, NEW key, IsSeq(leaves), Shape(a, leaves), VerifyIcp(Entry(l, a), key)
  PROVE  HasLeaf(leaves, a.size, HashLeaf(a.leaf))
<1>1. RootFromIcp(a.index, a.size, a.proofs, HashLeaf(a.leaf)) = a.root
  BY DEF VerifyIcp, Entry, SignedRoot
<1>2. PICK s : s = SubSeq(leaves, 1, a.size)
  OBVIOUS
<1>3. a.size \in 1..Len(leaves) /\ a.index \in Nat /\ a.root = RootHash(s) /\ IsSeq(a.proofs)
  BY <1>2 DEF Shape
<1>4. Len(s) = a.size /\ \A k \in 1..a.size : s[k] = leaves[k]
  BY <1>2, <1>3, PrefixIs
<1>5. PICK S : a.proofs \in Seq(S)
  BY <1>3, IsSeqOf
<1>6. a.size \in Nat \ {0}
  BY <1>3 DEF IsSeq
<1>7. PICK i, n, p, x : i = a.index /\ n = a.size /\ p = a.proofs /\ x = a.leaf
  OBVIOUS
<1>8. /\ i \in Nat /\ n \in Nat \ {0} /\ p \in Seq(S) /\ Len(s) \in Nat \ {0}
      /\ RootFromIcp(i, n, p, HashLeaf(x)) = RootHash(s)
  BY <1>1, <1>3, <1>4, <1>5, <1>6, <1>7
<1>9. \E k \in 1..Len(s) : s[k] = x
  <2>1. Climb(HashLeaf(x), p, [k \in DOMAIN p |-> OnLeft(i, n - 1, k)]) = RootHash(s)
    BY <1>8, RootFromIcpIs
  <2>2. Len(p) \in Nat
    BY <1>8
  <2> QED
    BY <1>8, <2>1, <2>2, RootHoldsLeaf
<1> QED
  BY <1>4, <1>7, <1>9 DEF HasLeaf

LEMMA AnswerIsSound ==
  ASSUME NEW l, l \in Log, NEW a, NEW good, IsSeq(tree[l]), Shape(a, tree[l]),
         good => VerifyIcp(Entry(l, a), l)
  PROVE  Sound([entry |-> Entry(l, a), good |-> good, verified |-> VerifyIcp(Entry(l, a), l)], tree)
<1> DEFINE e == Entry(l, a)
           x == [entry |-> e, good |-> good, verified |-> VerifyIcp(e, l)]
<1>1. e = [log_url |-> << l >>, leaf_index |-> a.index,
           signed_root_blob |-> SignedRoot(a.leaf, a.size, a.root, a.key, a.whole), proofs |-> a.proofs]
  BY DEF Entry
<1>2. /\ e.log_url = << l >> /\ e.log_url[1] = l /\ e.leaf_index = a.index /\ e.proofs = a.proofs
      /\ e.signed_root_blob = SignedRoot(a.leaf, a.size, a.root, a.key, a.whole)
  BY <1>1
<1>3. e.signed_root_blob.tree_size = a.size /\ e.signed_root_blob.leaf_hash = HashLeaf(a.leaf)
  BY <1>2 DEF SignedRoot
<1>4. WellFormed(e)
  BY <1>1, <1>2 DEF WellFormed, Shape
<1>5. VerifyIcp(e, l) => HasLeaf(tree[l], a.size, HashLeaf(a.leaf))
  BY VerifiedIsOfLeaf
<1>6. x.entry = e /\ x.good = good /\ x.verified = VerifyIcp(e, l)
  OBVIOUS
<1>7. a.size \in 1..Len(tree[l])
  BY DEF Shape
<1> HIDE DEF e, x
<1>8. Sound(x, tree)
  BY <1>2, <1>3, <1>4, <1>5, <1>6, <1>7 DEF Sound, e
<1> QED
  BY <1>8 DEF x, e

LEMMA StaysSound ==
  ASSUME NEW x, NEW t, NEW l, NEW leaf, IsSeq(t[l]), t \in [Log -> Seq(LeafData)], l \in Log, Sound(x, t)
  PROVE  Sound(x, [t EXCEPT ![l] = Append(t[l], leaf)])
<1> DEFINE k == x.entry.log_url[1]
           u == [t EXCEPT ![l] = Append(t[l], leaf)]
           size == x.entry.signed_root_blob.tree_size
<1>1. k \in Log /\ size \in 1..Len(t[k]) /\ (k # l => u[k] = t[k]) /\ u[l] = Append(t[l], leaf)
  BY DEF Sound
<1>2. Len(t[k]) \in Nat
  BY <1>1
<1>3. size \in 1..Len(u[k]) /\ \A p \in 1..size : u[k][p] = t[k][p]
  <2>1. CASE k = l
    <3>1. u[k] = Append(t[k], leaf)
      BY <1>1, <2>1
    <3>2. Len(u[k]) = Len(t[k]) + 1 /\ \A p \in 1..Len(t[k]) : u[k][p] = t[k][p]
      <4>1. IsSeq(t[k])
        BY <2>1
      <4> HIDE DEF k, u
      <4> QED
        BY <3>1, <4>1, AppendIs
    <3> HIDE DEF k, u, size
    <3> QED
      BY <1>1, <1>2, <3>2
  <2>2. CASE k # l
    BY <1>1, <2>2
  <2> QED
    BY <2>1, <2>2
<1>4. ASSUME NEW hash, HasLeaf(t[k], size, hash)
      PROVE  HasLeaf(u[k], size, hash)
  <2> HIDE DEF k, u, size
  <2> QED
    BY <1>3, <1>4 DEF HasLeaf
<1> HIDE DEF u
<1>5. Sound(x, u)
  BY <1>1, <1>3, <1>4 DEF Sound
<1> QED
  BY <1>5 DEF u

-----------------------------------------------------------------------------
(* The inductive invariant.                                                *)

Types ==
  /\ tree \in [Log -> Seq(LeafData)]
  /\ servers \in Seq(Log) /\ at \in Nat \ {0}
  /\ asked => at <= Len(servers)
  /\ IsSeq(entries)
  /\ IsSeq(image) /\ VbmetaSize <= Len(image) /\ image[1][2] \in Vbmeta

AllSound == \A n \in 1..Len(entries) : Sound(entries[n], tree)

Written ==
  /\ result = "True" => /\ pc = "done" /\ entries # << >>
                        /\ \E p \in PaddingSizes : output = Whole(p)
  /\ pc = "killed" => /\ entries # << >>
                      /\ \E n \in 0..(Len(Whole(0)) - 1) : output = SubSeq(Whole(0), 1, n)

IInv == Types /\ AllSound /\ Written

LEMMA ImageIs ==
  ASSUME NEW v, v \in Vbmeta, NEW file,
         \/ file \in {Blob(v), Append(Blob(v), << "footer" >>)}
         \/ file = Blob(v) \o EncodeBlob(<< OldEntry(v) >>)
  PROVE  IsSeq(file) /\ VbmetaSize <= Len(file) /\ file[1][2] \in Vbmeta
<1>1. VbmetaSize \in Nat \ {0}
  BY AftlAssumption
<1>2. PICK b : b = Blob(v)
  OBVIOUS
<1>3. IsSeq(b) /\ Len(b) = VbmetaSize /\ b[1][2] = v
  <2> DEFINE cell(n) == << "vbmeta", v, n >>
             S == {cell(n) : n \in 1..VbmetaSize}
  <2>1. b = [n \in 1..VbmetaSize |-> cell(n)]
    BY <1>2 DEF Blob
  <2>2. \A n \in 1..VbmetaSize : cell(n) \in S
    OBVIOUS
  <2>3. cell(1)[2] = v
    OBVIOUS
  <2> HIDE DEF cell, S
  <2>4. b \in [1..VbmetaSize -> S]
    BY <2>1, <2>2
  <2>5. b \in Seq(S) /\ Len(b) = VbmetaSize
    BY <1>1, <2>4
  <2>6. 1 \in 1..VbmetaSize
    BY <1>1
  <2> QED
    BY <2>1, <2>3, <2>5, <2>6, SeqIsSeq
<1>4. CASE file = b
  BY <1>3, <1>4
<1>5. CASE file = Append(b, << "footer" >>)
  <2>1. IsSeq(file) /\ Len(file) = Len(b) + 1 /\ \A k \in 1..Len(b) : file[k] = b[k]
    BY <1>3, <1>5, AppendIs
  <2>2. 1 \in 1..Len(b) /\ VbmetaSize <= Len(b) + 1
    BY <1>1, <1>3
  <2> QED
    BY <1>3, <2>1, <2>2
<1>6. CASE file = b \o EncodeBlob(<< OldEntry(v) >>)
  <2>1. PICK o : o = OldEntry(v)
    OBVIOUS
  <2>2. WellFormed(o)
    <3>1. PICK l, r : o = [log_url |-> << l >>, leaf_index |-> 0, signed_root_blob |-> r, proofs |-> << >>]
      BY <2>1 DEF OldEntry, Entry, Answer
    <3>2. o.log_url[1] = l /\ o.leaf_index = 0 /\ o.signed_root_blob = r /\ o.proofs = << >>
      BY <3>1
    <3>3. IsSeq(<< >>)
      <4>1. << >> \in Seq({})
        OBVIOUS
      <4> QED
        BY <4>1, SeqIsSeq
    <3> QED
      BY <3>1, <3>2, <3>3 DEF WellFormed
  <2>3. << o >> \in Seq({o}) /\ Len(<< o >>) = 1 /\ << o >>[1] = o
    OBVIOUS
  <2>4. PICK es : es = << o >> /\ IsSeq(es) /\ \A k \in 1..Len(es) : WellFormed(es[k])
    <3>1. PICK es : es = << o >>
      OBVIOUS
    <3>2. es \in Seq({o}) /\ Len(es) = 1 /\ es[1] = o
      BY <2>3, <3>1
    <3>3. IsSeq(es)
      BY <3>2, SeqIsSeq
    <3>4. \A k \in 1..Len(es) : k = 1
      BY <3>2
    <3> QED
      BY <2>2, <3>1, <3>2, <3>3, <3>4
  <2>5. PICK c : c = EncodeBlob(es) /\ IsSeq(c) /\ Len(c) \in Nat \ {0}
    BY <2>4, BlobIs
  <2>6. file = b \o c
    BY <1>6, <2>1, <2>4, <2>5
  <2>7. IsBehind(file, b, c)
    BY <1>3, <2>5, <2>6, ConcatIs
  <2>8. IsSeq(file) /\ Len(file) = Len(b) + Len(c) /\ \A k \in 1..Len(b) : file[k] = b[k]
    BY <2>7 DEF IsBehind
  <2>9. 1 \in 1..Len(b) /\ VbmetaSize <= Len(b) + Len(c)
    BY <1>1, <1>3, <2>5
  <2> QED
    BY <1>3, <2>8, <2>9
<1> QED
  BY <1>2, <1>4, <1>5, <1>6

LEMMA InitInv == Init => IInv
<1> SUFFICES ASSUME Init PROVE IInv
  OBVIOUS
<1>1. tree \in [Log -> Seq(LeafData)]
  <2>1. tree \in [Log -> UNION {StartTrees[l] : l \in Log}] /\ \A l \in Log : tree[l] \in StartTrees[l]
    BY DEF Init
  <2>2. \A l \in Log : tree[l] \in Seq(LeafData)
    BY <2>1, AftlAssumption
  <2> QED
    BY <2>1, <2>2
<1>2. IsSeq(image) /\ VbmetaSize <= Len(image) /\ image[1][2] \in Vbmeta
  <2>1. PICK v \in Vbmeta : \/ image \in {Blob(v), Append(Blob(v), << "footer" >>)}
                            \/ image = Blob(v) \o EncodeBlob(<< OldEntry(v) >>)
    BY DEF Init
  <2>2. PICK file : file = image
    OBVIOUS
  <2> QED
    BY <2>1, <2>2, ImageIs
<1>3. servers = << >> /\ at = 1 /\ asked = FALSE /\ entries = << >> /\ result = "none" /\ pc = "idle"
  BY DEF Init
<1>4. IsSeq(entries) /\ Len(entries) = 0
  <2>1. << >> \in Seq({}) /\ Len(<< >>) = 0
    OBVIOUS
  <2> QED
    BY <1>3, <2>1, SeqIsSeq
<1>5. AllSound
  BY <1>4 DEF AllSound
<1> QED
  BY <1>1, <1>2, <1>3, <1>4, <1>5 DEF IInv, Types, Written

(* A log takes a leaf in behind the ones it has.                           *)
LEMMA TakesIn ==
  ASSUME NEW leaf, leaf \in LeafData, NEW l, l \in Log, tree \in [Log -> Seq(LeafData)],
         tree' = [tree EXCEPT ![l] = Append(tree[l], leaf)], entries' = entries, AllSound
  PROVE  tree' \in [Log -> Seq(LeafData)] /\ AllSound'
<1>1. tree' \in [Log -> Seq(LeafData)]
  <2>1. Append(tree[l], leaf) \in Seq(LeafData)
    <3> HIDE DEF LeafData
    <3> QED
      OBVIOUS
  <2> QED
    BY <2>1
<1>2. ASSUME NEW n \in 1..Len(entries)
      PROVE  Sound(entries[n], tree')
  <2>1. PICK t : t = tree
    OBVIOUS
  <2>2. PICK x : x = entries[n]
    OBVIOUS
  <2>3. Sound(x, t) /\ t \in [Log -> Seq(LeafData)]
    BY <2>1, <2>2 DEF AllSound
  <2>4. IsSeq(t[l])
    BY <2>3, SeqIsSeq
  <2>5. Sound(x, [t EXCEPT ![l] = Append(t[l], leaf)])
    BY <2>3, <2>4, StaysSound
  <2> QED
    BY <2>1, <2>2, <2>5
<1> QED
  BY <1>1, <1>2 DEF AllSound

LEMMA ServerIs ==
  ASSUME Types, at <= Len(servers)
  PROVE  Server \in Log /\ IsSeq(tree[Server]) /\ Len(tree[Server]) \in Nat
<1>1. Server \in Log
  BY DEF Types, Server
<1>2. tree[Server] \in Seq(LeafData)
  BY <1>1 DEF Types
<1> QED
  BY <1>1, <1>2, SeqIsSeq DEF IsSeq

LEMMA ReceiveIs ==
  ASSUME Types, AllSound, at <= Len(servers), NEW a, NEW good,
         Shape(a, tree[Server]), good => VerifyIcp(Entry(Server, a), Server),
         Receive(a, good), tree' = tree
  PROVE  IsSeq(entries') /\ AllSound'
<1>1. Server \in Log /\ IsSeq(tree[Server])
  BY ServerIs
<1>2. PICK x : x = [entry |-> Entry(Server, a), good |-> good, verified |-> VerifyIcp(Entry(Server, a), Server)]
  OBVIOUS
<1>3. entries' = entries \/ entries' = Append(entries, x)
  BY <1>2 DEF Receive, Key
<1>4. Sound(x, tree)
  <2>1. PICK l : l = Server
    OBVIOUS
  <2>2. l \in Log /\ IsSeq(tree[l]) /\ Shape(a, tree[l]) /\ (good => VerifyIcp(Entry(l, a), l))
    BY <1>1, <2>1
  <2>3. Sound([entry |-> Entry(l, a), good |-> good, verified |-> VerifyIcp(Entry(l, a), l)], tree)
    BY <2>2, AnswerIsSound
  <2> QED
    BY <1>2, <2>1, <2>3
<1>5. IsSeq(entries)
  BY DEF Types
<1>6. CASE entries' = entries
  BY <1>5, <1>6 DEF AllSound
<1>7. CASE entries' = Append(entries, x)
  <2>1. /\ IsSeq(entries') /\ Len(entries') = Len(entries) + 1 /\ entries'[Len(entries) + 1] = x
        /\ \A k \in 1..Len(entries) : entries'[k] = entries[k]
    BY <1>5, <1>7, AppendIs
  <2>2. ASSUME NEW n \in 1..Len(entries')
        PROVE  Sound(entries'[n], tree)
    <3>1. n \in 1..Len(entries) \/ n = Len(entries) + 1
      BY <1>5, <2>1 DEF IsSeq
    <3> QED
      BY <1>4, <2>1, <3>1 DEF AllSound
  <2> QED
    BY <2>1, <2>2 DEF AllSound
<1> QED
  BY <1>3, <1>6, <1>7

LEMMA StepInv == IInv /\ [Next]_vars => IInv'
<1> SUFFICES ASSUME IInv, [Next]_vars PROVE IInv'
  OBVIOUS
<1>1. Types /\ AllSound /\ Written
  BY DEF IInv
<1>2. CASE Grow
  <2>1. at <= Len(servers)
    BY <1>1, <1>2 DEF Types, Grow
  <2>2. Server \in Log /\ Len(tree[Server]) \in Nat
    BY <1>1, <2>1, ServerIs
  <2>3. PICK l, leaf : l = Server /\ leaf = << "other", Len(tree[l]) >>
    OBVIOUS
  <2>4. l \in Log /\ leaf \in LeafData
    BY <2>2, <2>3 DEF LeafData
  <2>5. tree' = [tree EXCEPT ![l] = Append(tree[l], leaf)] /\ entries' = entries
    BY <1>2, <2>3 DEF Grow
  <2>6. tree' \in [Log -> Seq(LeafData)] /\ AllSound'
    BY <1>1, <2>4, <2>5, TakesIn DEF Types
  <2>7. Types'
    BY <1>1, <1>2, <2>6 DEF Types, Grow
  <2>8. Written'
    BY <1>1, <1>2 DEF Written, Grow
  <2> QED
    BY <2>6, <2>7, <2>8 DEF IInv
<1>3. CASE Start
  <2>1. servers' \in Seq(Log)
    <3>1. PICK m \in 0..Cardinality(Log) : servers' \in [1..m -> Log]
      BY <1>3 DEF Start, SeqOf
    <3>2. m \in Nat
      BY FS_CardinalityType, AftlAssumption
    <3> QED
      BY <3>1, <3>2
  <2>2. IsSeq(entries') /\ Len(entries') = 0
    <3>1. << >> \in Seq({}) /\ Len(<< >>) = 0 /\ entries' = << >>
      BY <1>3 DEF Start
    <3> QED
      BY <3>1, SeqIsSeq
  <2>3. Types'
    BY <1>1, <1>3, <2>1, <2>2 DEF Types, Start
  <2>4. AllSound'
    BY <2>2 DEF AllSound
  <2>5. Written'
    BY <1>3 DEF Written, Start
  <2> QED
    BY <2>3, <2>4, <2>5 DEF IInv
<1>4. CASE Request
  <2>1. Server \in Log /\ Leaf(image) \in LeafData
    BY <1>1, <1>4, ServerIs DEF Types, Leaf, LeafData, Request
  <2>2. tree' = [tree EXCEPT ![Server] = Append(tree[Server], Leaf(image))] /\ entries' = entries
    BY <1>4 DEF Request
  <2>3. tree' \in [Log -> Seq(LeafData)] /\ AllSound'
    <3>1. PICK l, leaf : l = Server /\ leaf = Leaf(image)
      OBVIOUS
    <3> QED
      BY <1>1, <2>1, <2>2, <3>1, TakesIn DEF Types
  <2>4. Types'
    BY <1>1, <1>4, <2>3 DEF Types, Request
  <2>5. Written'
    BY <1>1, <1>4 DEF Written, Request
  <2> QED
    BY <2>3, <2>4, <2>5 DEF IInv
<1>5. CASE RpcError
  <2>1. Types'
    <3>1. at' \in Nat \ {0}
      BY <1>1, <1>5 DEF Types, RpcError
    <3> QED
      BY <1>1, <1>5, <3>1 DEF Types, RpcError
  <2>2. AllSound'
    BY <1>1, <1>5 DEF AllSound, RpcError
  <2>3. Written'
    BY <1>1, <1>5 DEF Written, RpcError
  <2> QED
    BY <2>1, <2>2, <2>3 DEF IInv
<1>6. CASE Answered
  <2>1. at <= Len(servers) /\ tree' = tree
    BY <1>6 DEF Answered
  <2>2. Server \in Log /\ IsSeq(tree[Server])
    BY <1>1, <2>1, ServerIs
  <2>3. PICK l, leaf : l = Server /\ leaf = Leaf(image)
    OBVIOUS
  <2>4. IsSeq(entries') /\ AllSound'
    <3>1. CASE \E a \in GoodAnswers(l, leaf) : Receive(a, TRUE)
      <4>1. PICK a \in GoodAnswers(l, leaf) : Receive(a, TRUE)
        BY <3>1
      <4>2. Shape(a, tree[l]) /\ VerifyIcp(Entry(l, a), l)
        BY <2>2, <2>3, GoodAnswersAre
      <4>3. PICK good : good = TRUE
        OBVIOUS
      <4>4. Receive(a, good) /\ (good => VerifyIcp(Entry(Server, a), Server)) /\ Shape(a, tree[Server])
        BY <2>3, <4>1, <4>2, <4>3
      <4> QED
        BY <1>1, <2>1, <4>4, ReceiveIs
    <3>2. CASE \E a \in BadAnswers(l, leaf) : Receive(a, FALSE)
      <4>1. PICK a \in BadAnswers(l, leaf) : Receive(a, FALSE)
        BY <3>2
      <4>2. Shape(a, tree[l])
        BY <2>2, <2>3, BadAnswersAre
      <4>3. PICK good : good = FALSE
        OBVIOUS
      <4>4. Receive(a, good) /\ (good => VerifyIcp(Entry(Server, a), Server)) /\ Shape(a, tree[Server])
        BY <2>3, <4>1, <4>2, <4>3
      <4> QED
        BY <1>1, <2>1, <4>4, ReceiveIs
    <3> QED
      BY <1>6, <2>3, <3>1, <3>2 DEF Answered
  <2>5. Types'
    <3>1. at' \in Nat \ {0}
      BY <1>1, <1>6 DEF Types, Answered
    <3> QED
      BY <1>1, <1>6, <2>4, <3>1 DEF Types, Answered
  <2>6. Written'
    BY <1>1, <1>6 DEF Written, Answered
  <2> QED
    BY <2>4, <2>5, <2>6 DEF IInv
<1>7. CASE Finish
  <2>1. Types' /\ AllSound'
    BY <1>1, <1>7 DEF Types, AllSound, Finish
  <2>2. Written'
    <3>1. pc' = "done" /\ Whole(0)' = Whole(0) /\ \A p : Whole(p)' = Whole(p)
      BY <1>7 DEF Finish, Whole, Icps, VbmetaOf
    <3>2. result' = "True" => Accepted /\ \E p \in PaddingSizes : output' = Whole(p)
      BY <1>7 DEF Finish
    <3> QED
      BY <1>7, <3>1, <3>2 DEF Written, Finish, Accepted
  <2> QED
    BY <2>1, <2>2 DEF IInv
<1>8. CASE Killed
  <2>1. Types' /\ AllSound'
    BY <1>1, <1>8 DEF Types, AllSound, Killed
  <2>2. Written'
    <3>1. Whole(0)' = Whole(0)
      BY <1>8 DEF Killed, Whole, Icps, VbmetaOf
    <3>2. \E n \in 0..(Len(Whole(0)) - 1) : output' = SubSeq(Whole(0), 1, n)
      BY <1>8 DEF Killed
    <3>3. result' # "True" /\ entries' # << >> /\ pc' = "killed"
      BY <1>1, <1>8 DEF Killed, Written, Accepted
    <3> QED
      BY <3>1, <3>2, <3>3 DEF Written
  <2> QED
    BY <2>1, <2>2 DEF IInv
<1>9. CASE UNCHANGED vars
  <2>1. \A p : Whole(p)' = Whole(p)
    BY <1>9 DEF vars, Whole, Icps, VbmetaOf
  <2>2. Whole(0)' = Whole(0)
    BY <2>1
  <2> QED
    BY <1>1, <1>9, <2>1, <2>2 DEF IInv, Types, AllSound, Written, vars
<1> QED
  BY <1>2, <1>3, <1>4, <1>5, <1>6, <1>7, <1>8, <1>9 DEF Next

-----------------------------------------------------------------------------
(* What info_image_icp finds in the first n cells of a blob that has proofs *)
(* behind it.                                                               *)

IsRead(m, n) == m = IF n < VbmetaSize + ReadLimit THEN n ELSE VbmetaSize + ReadLimit

Reads(o, b, m) ==
  /\ m <= VbmetaSize => InfoImageIcp(o).state # "ok"
  /\ VbmetaSize < m => /\ m - VbmetaSize \in 1..Len(b)
                       /\ InfoImageIcp(o) = DecodeBlob(SubSeq(b, 1, m - VbmetaSize))

LEMMA ReadsPart ==
  ASSUME NEW v, NEW b, NEW file, NEW n, NEW m, NEW o, IsSeq(v), IsSeq(b), IsBehind(file, v, b),
         Len(v) = VbmetaSize, n \in 0..Len(file), o = SubSeq(file, 1, n),
         IsRead(m, n), b[1][1] = "icp"
  PROVE  Reads(o, b, m)
<1> DEFINE w == VbmetaSize
<1>1. w \in Nat \ {0} /\ ReadLimit \in Nat
  BY AftlAssumption
<1>2. /\ IsSeq(file) /\ Len(file) = w + Len(b) /\ Len(b) \in Nat
      /\ \A k \in 1..Len(b) : file[w + k] = b[k]
  BY DEF IsBehind, IsSeq
<1> HIDE DEF w
<1>3. n \in Nat /\ m \in Nat /\ m <= n /\ n <= w + Len(b) /\ n <= Len(file)
  BY <1>1, <1>2 DEF w, IsRead
<1>4. IsSeq(o) /\ Len(o) = n /\ \A k \in 1..n : o[k] = file[k]
  <2>1. 0 \in Nat /\ 0 <= n /\ 0 + 1 = 1 /\ n - 0 = n /\ \A k \in 1..n : 0 + k = k
    BY <1>3
  <2>2. IsPart(SubSeq(file, 0 + 1, n), file, 0, n)
    BY <1>2, <1>3, <2>1, SubSeqIs
  <2> QED
    BY <2>1, <2>2 DEF IsPart
<1>5. PICK d : d = SubSeq(o, w + 1, m)
  OBVIOUS
<1>6. m = IF Len(o) < w + ReadLimit THEN Len(o) ELSE w + ReadLimit
  BY <1>4 DEF w, IsRead
<1>7. InfoImageIcp(o) =
        CASE Len(o) < w -> Loop(d, << >>, "refused")
          [] Len(o) >= w /\ (d = << >> \/ d[1][1] # "icp") -> Loop(d, << >>, "none")
          [] OTHER -> DecodeBlob(d)
  BY <1>5, <1>6 DEF InfoImageIcp, w
<1>8. CASE m < w
  <2>1. Len(o) < w /\ ~(Len(o) >= w)
    BY <1>1, <1>3, <1>4, <1>6, <1>8
  <2>2. InfoImageIcp(o) = Loop(d, << >>, "refused")
    BY <1>7, <2>1, Zenon
  <2>3. InfoImageIcp(o).state = "refused"
    BY <2>2 DEF Loop
  <2> QED
    BY <1>1, <1>3, <1>8, <2>3 DEF Reads, w
<1>9. CASE w <= m
  <2>1. IsPart(d, o, w, m)
    <3>1. w \in Nat /\ m \in Nat /\ m <= Len(o)
      BY <1>1, <1>3, <1>4
    <3> QED
      BY <1>4, <1>5, <1>9, <3>1, SubSeqIs
  <2>2. ~(Len(o) < w) /\ Len(o) >= w
    BY <1>1, <1>3, <1>4, <1>9
  <2>3. CASE m = w
    <3>1. IsSeq(d) /\ Len(d) = 0
      BY <1>1, <2>1, <2>3 DEF IsPart
    <3>2. d = << >>
      <4>1. PICK S : d \in Seq(S)
        BY <3>1, IsSeqOf
      <4> QED
        BY <3>1, <4>1
    <3>3. InfoImageIcp(o) = Loop(d, << >>, "none")
      BY <1>7, <2>2, <3>2
    <3>4. InfoImageIcp(o).state = "none"
      BY <3>3 DEF Loop
    <3> QED
      BY <1>1, <2>3, <3>4 DEF Reads, w
  <2>4. CASE w < m
    <3>1. PICK c : c = m - w
      OBVIOUS
    <3>2. c \in 1..Len(b) /\ c \in Nat \ {0}
      BY <1>1, <1>2, <1>3, <2>4, <3>1
    <3>3. /\ IsSeq(d) /\ Len(d) = c /\ \A k \in 1..c : d[k] = o[w + k]
      BY <2>1, <3>1 DEF IsPart
    <3>4. ASSUME NEW k \in 1..c
          PROVE  d[k] = b[k]
      <4>1. w + k \in 1..n /\ k \in 1..Len(b)
        BY <1>1, <1>2, <1>3, <3>1, <3>2
      <4> QED
        BY <1>2, <1>4, <3>3, <4>1
    <3>5. PICK e : e = SubSeq(b, 1, c)
      OBVIOUS
    <3>6. IsSeq(e) /\ Len(e) = c /\ \A k \in 1..c : e[k] = b[k]
      <4>1. 0 \in Nat /\ 0 <= c /\ 0 + 1 = 1 /\ c - 0 = c /\ c \in Nat /\ c <= Len(b)
            /\ \A k \in 1..c : 0 + k = k
        BY <1>2, <3>2
      <4>2. IsPart(SubSeq(b, 0 + 1, c), b, 0, c)
        BY <4>1, SubSeqIs
      <4> QED
        BY <3>5, <4>1, <4>2 DEF IsPart
    <3>7. d = e
      BY <3>3, <3>4, <3>6, IsSeqEqual
    <3>8. d # << >> /\ d[1][1] = "icp"
      <4>1. Len(<< >>) = 0 /\ 1 \in 1..c /\ Len(b) # 0
        BY <1>2, <3>2
      <4>2. d[1] = b[1]
        BY <3>4, <4>1
      <4> QED
        BY <3>2, <3>3, <4>1, <4>2
    <3>9. InfoImageIcp(o) = DecodeBlob(d)
      BY <1>7, <2>2, <3>8
    <3>10. InfoImageIcp(o) = DecodeBlob(SubSeq(b, 1, m - w)) /\ m - w \in 1..Len(b)
      BY <3>1, <3>2, <3>5, <3>7, <3>9
    <3> QED
      BY <1>1, <1>3, <2>4, <3>10 DEF Reads, w
  <2> QED
    BY <1>1, <1>3, <1>9, <2>3, <2>4
<1> QED
  BY <1>1, <1>3, <1>8, <1>9

(* What Finish and Killed write: the blob of the image and the proofs.     *)
LEMMA WholeIs ==
  ASSUME Types, AllSound, entries # << >>
  PROVE  /\ IsSeq(VbmetaOf(image)) /\ Len(VbmetaOf(image)) = VbmetaSize
         /\ IsSeq(Icps) /\ Icps # << >> /\ Len(Icps) = Len(entries)
         /\ \A k \in 1..Len(Icps) : WellFormed(Icps[k])
         /\ IsSeq(EncodeBlob(Icps)) /\ Len(EncodeBlob(Icps)) \in Nat \ {0}
         /\ EncodeBlob(Icps)[1][1] = "icp"
         /\ IsBehind(VbmetaOf(image) \o EncodeBlob(Icps), VbmetaOf(image), EncodeBlob(Icps))
<1>1. IsSeq(VbmetaOf(image)) /\ Len(VbmetaOf(image)) = VbmetaSize
  <2>1. VbmetaSize \in Nat /\ 0 \in Nat /\ 0 <= VbmetaSize /\ 0 + 1 = 1 /\ VbmetaSize - 0 = VbmetaSize
    BY AftlAssumption
  <2>2. IsPart(SubSeq(image, 0 + 1, VbmetaSize), image, 0, VbmetaSize)
    BY <2>1, SubSeqIs DEF Types
  <2> QED
    BY <2>1, <2>2 DEF IsPart, VbmetaOf
<1>2. PICK n : n = Len(entries) /\ n \in Nat \ {0}
  <2>1. PICK S : entries \in Seq(S)
    BY IsSeqOf DEF Types
  <2> QED
    BY <2>1
<1>3. DOMAIN entries = 1..n
  <2>1. PICK S : entries \in Seq(S)
    BY IsSeqOf DEF Types
  <2> QED
    BY <1>2, <2>1
<1>4. PICK es : es = Icps
  OBVIOUS
<1>5. es = [k \in 1..n |-> entries[k].entry]
  BY <1>3, <1>4 DEF Icps
<1>6. IsSeq(es) /\ Len(es) = n /\ es # << >>
  <2> DEFINE S == {entries[k].entry : k \in 1..n}
  <2>1. \A k \in 1..n : entries[k].entry \in S
    OBVIOUS
  <2> HIDE DEF S
  <2>2. es \in [1..n -> S]
    BY <1>5, <2>1
  <2>3. es \in Seq(S) /\ Len(es) = n
    BY <1>2, <2>2
  <2>4. es # << >>
    BY <1>2, <2>3
  <2> QED
    BY <2>3, <2>4, SeqIsSeq
<1>7. \A k \in 1..Len(es) : WellFormed(es[k])
  BY <1>2, <1>5, <1>6 DEF AllSound, Sound
<1>8. PICK b : b = EncodeBlob(es) /\ IsSeq(b) /\ Len(b) \in Nat \ {0}
  BY <1>6, <1>7, BlobIs
<1>9. b[1][1] = "icp"
  <2>1. PICK d : d = SubSeq(b, 1, 1)
    OBVIOUS
  <2>2. d[1] = << "icp", Len(es) >>
    <3>1. 1 \in 1..Len(EncodeBlob(es))
      BY <1>8
    <3> QED
      BY <1>6, <1>7, <1>8, <2>1, <3>1, ReadBack
  <2>3. d[1] = b[1]
    <3>1. 0 \in Nat /\ 1 \in Nat /\ 0 <= 1 /\ 0 + 1 = 1 /\ 1 <= Len(b) /\ 1 \in 1..(1 - 0)
      BY <1>8
    <3>2. IsPart(SubSeq(b, 0 + 1, 1), b, 0, 1)
      BY <1>8, <3>1, SubSeqIs
    <3> QED
      BY <2>1, <3>1, <3>2 DEF IsPart
  <2>4. << "icp", Len(es) >>[1] = "icp"
    OBVIOUS
  <2> QED
    BY <2>2, <2>3, <2>4
<1>10. IsBehind(VbmetaOf(image) \o b, VbmetaOf(image), b)
  BY <1>1, <1>8, ConcatIs
<1> QED
  BY <1>1, <1>2, <1>4, <1>6, <1>7, <1>8, <1>9, <1>10

LEMMA WholeOfNoPadding ==
  ASSUME Types, AllSound, entries # << >>
  PROVE  Whole(0) = VbmetaOf(image) \o EncodeBlob(Icps)
<1>1. PICK v, b, f : v = VbmetaOf(image) /\ b = EncodeBlob(Icps) /\ f = v \o b
  OBVIOUS
<1>2. IsBehind(f, v, b)
  BY <1>1, WholeIs
<1>3. PICK S : f \in Seq(S)
  BY <1>2, IsSeqOf DEF IsBehind
<1>4. f \o << >> = f
  BY <1>3
<1> QED
  BY <1>1, <1>4 DEF Whole, NulPadding

LEMMA CutInv ==
  ASSUME IInv
  PROVE  CutNeverShort
<1> SUFFICES ASSUME pc = "killed", InfoImageIcp(output).state = "ok"
             PROVE  /\ Len(InfoImageIcp(output).entries) = Len(Icps)
                    /\ \A n \in DOMAIN Icps : InfoImageIcp(output).entries[n] \in {Icps[n], Blank}
  BY DEF CutNeverShort
<1>1. Types /\ AllSound /\ entries # << >>
  BY DEF IInv, Written
<1>2. PICK n \in 0..(Len(Whole(0)) - 1) : output = SubSeq(Whole(0), 1, n)
  BY DEF IInv, Written
<1>3. PICK v, es, b, f : v = VbmetaOf(image) /\ es = Icps /\ b = EncodeBlob(es) /\ f = v \o b
  OBVIOUS
<1>4. /\ IsSeq(v) /\ Len(v) = VbmetaSize /\ IsSeq(es) /\ es # << >>
      /\ \A k \in 1..Len(es) : WellFormed(es[k])
      /\ IsSeq(b) /\ Len(b) \in Nat \ {0} /\ b[1][1] = "icp" /\ IsBehind(f, v, b)
  BY <1>1, <1>3, WholeIs
<1>5. Whole(0) = f
  BY <1>1, <1>3, WholeOfNoPadding
<1>6. PICK o : o = output
  OBVIOUS
<1>7. n \in 0..Len(f) /\ o = SubSeq(f, 1, n)
  BY <1>2, <1>4, <1>5, <1>6 DEF IsBehind, IsSeq
<1>8. PICK m : IsRead(m, n)
  BY DEF IsRead
<1>9. /\ m <= VbmetaSize => InfoImageIcp(o).state # "ok"
      /\ VbmetaSize < m => /\ m - VbmetaSize \in 1..Len(b)
                           /\ InfoImageIcp(o) = DecodeBlob(SubSeq(b, 1, m - VbmetaSize))
  <2>1. Reads(o, b, m)
    BY <1>4, <1>7, <1>8, ReadsPart
  <2> QED
    BY <2>1 DEF Reads
<1>10. VbmetaSize < m
  <2>1. m \in Nat /\ VbmetaSize \in Nat
    BY <1>7, <1>8, AftlAssumption DEF IsRead
  <2> QED
    BY <1>6, <1>9, <2>1
<1>11. PICK c, d : c = m - VbmetaSize /\ d = SubSeq(b, 1, c)
  OBVIOUS
<1>12. c \in 1..Len(EncodeBlob(es)) /\ d = SubSeq(EncodeBlob(es), 1, c)
  BY <1>3, <1>9, <1>10, <1>11
<1>13. DecodeBlob(d).state = "ok" =>
         /\ Len(DecodeBlob(d).entries) = Len(es)
         /\ \A k \in 1..Len(es) : DecodeBlob(d).entries[k] \in {es[k], Blank}
  BY <1>4, <1>12, ReadBack
<1>14. InfoImageIcp(output) = DecodeBlob(d)
  BY <1>6, <1>9, <1>10, <1>11
<1>15. DOMAIN Icps = 1..Len(es)
  <2>1. PICK S : es \in Seq(S)
    BY <1>4, IsSeqOf
  <2> QED
    BY <1>3, <2>1
<1> QED
  BY <1>3, <1>13, <1>14, <1>15

(* With cells behind the proofs info_image_icp reads at least one of them. *)
LEMMA ReadsLonger ==
  ASSUME NEW v, NEW b, NEW f, NEW q, NEW o, IsSeq(v), IsSeq(b), IsSeq(q),
         IsBehind(f, v, b), IsBehind(o, f, q), Len(v) = VbmetaSize, Len(b) < ReadLimit,
         Len(q) # 0, Len(b) \in Nat \ {0}, b[1][1] = "icp"
  PROVE  \E d : /\ IsSeq(d) /\ BeginsWith(d, b) /\ Len(b) < Len(d)
                /\ InfoImageIcp(o) = DecodeBlob(d)
<1> DEFINE w == VbmetaSize
<1>1. w \in Nat \ {0} /\ ReadLimit \in Nat /\ Len(q) \in Nat
  BY AftlAssumption DEF IsSeq
<1>2. /\ IsSeq(o) /\ Len(o) = w + Len(b) + Len(q) /\ Len(f) = w + Len(b)
      /\ \A k \in 1..Len(b) : f[w + k] = b[k]
      /\ \A k \in 1..Len(f) : o[k] = f[k]
  BY DEF IsBehind
<1> HIDE DEF w
<1>3. PICK m : m = IF Len(o) < w + ReadLimit THEN Len(o) ELSE w + ReadLimit
  OBVIOUS
<1>4. m \in Nat /\ w + Len(b) < m /\ m <= Len(o) /\ w <= m /\ ~(Len(o) < w) /\ Len(o) >= w
  BY <1>1, <1>2, <1>3
<1>5. PICK d : d = SubSeq(o, w + 1, m)
  OBVIOUS
<1>6. IsPart(d, o, w, m)
  <2>1. w \in Nat /\ m \in Nat
    BY <1>1, <1>4
  <2> QED
    BY <1>2, <1>4, <1>5, <2>1, SubSeqIs
<1>7. IsSeq(d) /\ Len(d) = m - w /\ Len(b) < Len(d) /\ Len(b) <= Len(d)
      /\ \A k \in 1..(m - w) : d[k] = o[w + k]
  BY <1>1, <1>4, <1>6 DEF IsPart
<1>8. ASSUME NEW k \in 1..Len(b)
      PROVE  d[k] = b[k]
  <2>1. k \in 1..(m - w) /\ w + k \in 1..Len(f)
    BY <1>1, <1>2, <1>4
  <2> QED
    BY <1>2, <1>7, <2>1
<1>9. BeginsWith(d, b)
  BY <1>7, <1>8 DEF BeginsWith
<1>10. d # << >> /\ d[1][1] = "icp"
  <2>1. 1 \in 1..Len(b) /\ Len(d) # 0 /\ Len(<< >>) = 0
    BY <1>1, <1>4, <1>7
  <2>2. d[1] = b[1]
    BY <1>8, <2>1
  <2> QED
    BY <2>1, <2>2
<1>11. InfoImageIcp(o) =
        CASE Len(o) < w -> Loop(d, << >>, "refused")
          [] Len(o) >= w /\ (d = << >> \/ d[1][1] # "icp") -> Loop(d, << >>, "none")
          [] OTHER -> DecodeBlob(d)
  BY <1>3, <1>5 DEF InfoImageIcp, w
<1>12. InfoImageIcp(o) = DecodeBlob(d)
  BY <1>4, <1>10, <1>11
<1> QED
  BY <1>7, <1>9, <1>12

LEMMA PaddingIs ==
  ASSUME NEW n \in Nat, NEW p \in PaddingSizes
  PROVE  IsSeq(NulPadding(n, p))
<1>1. CASE p = 0
  <2>1. << >> \in Seq({})
    OBVIOUS
  <2> QED
    BY <1>1, <2>1, SeqIsSeq DEF NulPadding
<1>2. CASE p # 0
  <2>1. PICK k : k = (0 - n) % p
    OBVIOUS
  <2>2. k \in Nat
    <3>1. p \in Nat \ {0}
      BY <1>2, AftlAssumption
    <3>2. \A x \in Int, y \in Nat \ {0} : x % y \in Nat
      OBVIOUS
    <3> QED
      BY <2>1, <3>1, <3>2
  <2>3. [i \in 1..k |-> Pad] \in Seq({Pad})
    BY <2>2
  <2> QED
    BY <1>2, <2>1, <2>3, SeqIsSeq DEF NulPadding
<1> QED
  BY <1>1, <1>2

(* info_image_icp reads the proofs when nothing is behind them, and raises *)
(* when something is.                                                      *)
ReadIs(o, b, es) ==
  /\ Len(o) = VbmetaSize + Len(b) => InfoImageIcp(o) = Loop(<< >>, es, "ok")
  /\ Len(o) > VbmetaSize + Len(b) => InfoImageIcp(o).state = "refused"

LEMMA ReadOfOutput ==
  ASSUME NEW v, NEW es, NEW b, NEW f, NEW q, NEW o, IsSeq(v), IsSeq(b), IsSeq(q), IsSeq(es),
         IsBehind(f, v, b), IsBehind(o, f, q), Len(v) = VbmetaSize, Len(b) < ReadLimit,
         Len(b) \in Nat \ {0}, b[1][1] = "icp", b = EncodeBlob(es), es # << >>,
         \A k \in 1..Len(es) : WellFormed(es[k])
  PROVE  ReadIs(o, b, es)
<1> DEFINE w == VbmetaSize
<1>1. w \in Nat \ {0} /\ ReadLimit \in Nat /\ Len(q) \in Nat
  BY AftlAssumption DEF IsSeq
<1>2. /\ IsSeq(f) /\ Len(f) = w + Len(b)
      /\ IsSeq(o) /\ Len(o) = Len(f) + Len(q) /\ \A k \in 1..Len(f) : o[k] = f[k]
  BY DEF IsBehind
<1>3. CASE Len(q) # 0
  <2>1. PICK d : /\ IsSeq(d) /\ BeginsWith(d, b) /\ Len(b) < Len(d)
                 /\ InfoImageIcp(o) = DecodeBlob(d)
    BY <1>3, ReadsLonger
  <2>2. DecodeBlob(d).state = "refused"
    BY <2>1, LongerIsRefused
  <2>3. Len(o) # w + Len(b)
    BY <1>1, <1>2, <1>3
  <2> QED
    BY <2>1, <2>2, <2>3 DEF ReadIs
<1>4. CASE Len(q) = 0
  <2>1. Len(o) = Len(f) /\ o = f
    <3>1. Len(o) = Len(f)
      BY <1>1, <1>2, <1>4
    <3>2. \A k \in 1..Len(o) : o[k] = f[k]
      BY <1>2, <3>1
    <3> QED
      BY <1>2, <3>1, <3>2, IsSeqEqual
  <2>2. PICK n : n = Len(f)
    OBVIOUS
  <2>3. n \in 0..Len(f) /\ f = SubSeq(f, 1, n) /\ n = w + Len(b) /\ n \in Nat
    <3>1. PICK R : f \in Seq(R)
      BY <1>2, IsSeqOf
    <3> QED
      BY <1>1, <1>2, <2>2, <3>1
  <2>4. PICK m : IsRead(m, n)
    BY DEF IsRead
  <2>5. m = n /\ w < m /\ m - w = Len(b)
    BY <1>1, <2>3, <2>4 DEF IsRead
  <2>6. Reads(f, b, m)
    BY <2>3, <2>4, ReadsPart
  <2>7. InfoImageIcp(f) = DecodeBlob(SubSeq(b, 1, m - w))
    BY <2>5, <2>6 DEF Reads
  <2>8. PICK c, d : c = Len(b) /\ d = SubSeq(b, 1, c)
    OBVIOUS
  <2>9. c \in 1..Len(EncodeBlob(es)) /\ d = SubSeq(EncodeBlob(es), 1, c)
        /\ c = Len(EncodeBlob(es))
    BY <2>8
  <2>10. DecodeBlob(d) = Loop(<< >>, es, "ok")
    BY <2>9, ReadBack
  <2>11. InfoImageIcp(o) = Loop(<< >>, es, "ok")
    BY <2>1, <2>5, <2>7, <2>8, <2>10
  <2>12. ~(Len(o) > w + Len(b))
    BY <1>1, <2>1, <2>2, <2>3
  <2> QED
    BY <2>11, <2>12 DEF ReadIs
<1> QED
  BY <1>3, <1>4

LEMMA OutputInv ==
  ASSUME IInv, Len(EncodeBlob(Icps)) < ReadLimit
  PROVE  OutputReadsBack
<1> SUFFICES ASSUME result = "True"
             PROVE  VbmetaOf(output) = VbmetaOf(image)
                    /\ ReadIs(output, EncodeBlob(Icps), Icps)
  BY DEF OutputReadsBack, ReadIs, Loop
<1>1. Types /\ AllSound /\ entries # << >>
  BY DEF IInv, Written
<1>2. PICK p \in PaddingSizes : output = Whole(p)
  BY DEF IInv, Written
<1>3. PICK v, es, b, f : v = VbmetaOf(image) /\ es = Icps /\ b = EncodeBlob(es) /\ f = v \o b
  OBVIOUS
<1>4. /\ IsSeq(v) /\ Len(v) = VbmetaSize /\ IsSeq(es) /\ es # << >>
      /\ \A k \in 1..Len(es) : WellFormed(es[k])
      /\ IsSeq(b) /\ Len(b) \in Nat \ {0} /\ b[1][1] = "icp" /\ IsBehind(f, v, b)
  BY <1>1, <1>3, WholeIs
<1>5. IsSeq(f) /\ Len(f) = Len(v) + Len(b) /\ \A k \in 1..Len(v) : f[k] = v[k]
  BY <1>4 DEF IsBehind
<1>6. PICK o, q : o = output /\ q = NulPadding(Len(f), p) /\ o = f \o q
  BY <1>2, <1>3 DEF Whole
<1>7. IsSeq(q)
  <2>1. Len(f) \in Nat
    BY <1>5 DEF IsSeq
  <2> QED
    BY <1>6, <2>1, PaddingIs
<1>8. IsBehind(o, f, q)
  BY <1>5, <1>6, <1>7, ConcatIs
<1>9. VbmetaOf(output) = v
  <2>1. PICK w : w = VbmetaSize
    OBVIOUS
  <2>2. IsSeq(o) /\ Len(o) = Len(f) + Len(q) /\ \A k \in 1..Len(f) : o[k] = f[k]
    BY <1>8 DEF IsBehind
  <2>3. w \in Nat /\ Len(f) = w + Len(b) /\ Len(q) \in Nat
    BY <1>4, <1>5, <1>7, <2>1, AftlAssumption DEF IsSeq
  <2>4. 0 \in Nat /\ 0 <= w /\ w <= Len(o) /\ 0 + 1 = 1 /\ w - 0 = w
        /\ (\A k \in 1..w : 0 + k = k) /\ \A k \in 1..w : k \in 1..Len(f)
    BY <1>4, <2>2, <2>3
  <2>5. IsPart(SubSeq(o, 0 + 1, w), o, 0, w)
    BY <2>2, <2>3, <2>4, SubSeqIs
  <2>6. PICK u : u = SubSeq(o, 1, w)
    OBVIOUS
  <2>7. IsSeq(u) /\ Len(u) = w /\ \A k \in 1..w : u[k] = o[k]
    BY <2>4, <2>5, <2>6 DEF IsPart
  <2>8. Len(v) = w /\ \A k \in 1..w : u[k] = v[k]
    BY <1>4, <1>5, <2>1, <2>2, <2>4, <2>7
  <2>9. u = v
    BY <1>4, <2>7, <2>8, IsSeqEqual
  <2> QED
    BY <1>6, <2>1, <2>6, <2>9 DEF VbmetaOf
<1>10. Len(b) < ReadLimit
  BY <1>3
<1>11. ReadIs(o, b, es)
  BY <1>3, <1>4, <1>7, <1>8, <1>10, ReadOfOutput
<1> QED
  BY <1>3, <1>6, <1>9, <1>11

-----------------------------------------------------------------------------
(* The invariant holds in every state.                                     *)
LEMMA InvHolds == Spec => []IInv
  BY InitInv, StepInv, PTL DEF Spec

LEMMA EntriesInv == IInv => GoodAnswersVerify /\ VerifiedLeafIsLogged
<1> SUFFICES ASSUME IInv PROVE GoodAnswersVerify /\ VerifiedLeafIsLogged
  OBVIOUS
<1>1. DOMAIN entries = 1..Len(entries)
  <2>1. PICK S : entries \in Seq(S)
    BY IsSeqOf DEF IInv, Types
  <2> QED
    BY <2>1
<1>2. \A n \in DOMAIN entries : Sound(entries[n], tree)
  BY <1>1 DEF IInv, AllSound
<1>3. GoodAnswersVerify
  BY <1>2 DEF GoodAnswersVerify, Sound
<1>4. VerifiedLeafIsLogged
  BY <1>2 DEF VerifiedLeafIsLogged, Sound, HasLeaf
<1> QED
  BY <1>3, <1>4

(* verify_icp says True of the answer of every log that works.             *)
THEOREM WorkingLogsAreBelieved == Spec => []GoodAnswersVerify
  BY InvHolds, EntriesInv, PTL

(* Whatever a log answers, the leaf of an entry verify_icp accepted is in  *)
(* the tree of the root that was signed.                                   *)
THEOREM AcceptedLeavesAreLogged == Spec => []VerifiedLeafIsLogged
  BY InvHolds, EntriesInv, PTL

(* However many cells of the output a kill leaves, info_image_icp does not *)
(* read fewer proofs from them.                                            *)
THEOREM CutFilesAreNotShort == Spec => []CutNeverShort
  BY InvHolds, CutInv, PTL

(* As long as the proofs are shorter than the part of the file that it     *)
(* reads, info_image_icp reads those make_icp_from_vbmeta wrote without    *)
(* padding, and refuses every padded output.                               *)
THEOREM OutputIsReadBack ==
  Spec => [](Len(EncodeBlob(Icps)) < ReadLimit => OutputReadsBack)
  BY InvHolds, OutputInv, PTL
=============================================================================
