--------------------------- MODULE AvbVerifyProofs ---------------------------
(***************************************************************************)
(* For any number of partitions of any length and any changes: the hash    *)
(* tree that verify_image generates is dm-verity's, what make_vbmeta_image *)
(* includes is read back, a command that succeeds has seen what was signed *)
(* and described, and images as they were made are refused for a reason.   *)
(***************************************************************************)
EXTENDS AvbVerify, SequenceTheorems, WellFoundedInduction, FiniteSetTheorems, TLAPS

(* Every nonempty set of naturals has a least element.                     *)
LEMMA NatLeast ==
  ASSUME NEW T \in SUBSET Nat, T # {}
  PROVE  \E x \in T : \A y \in T : x <= y
<1>1. IsWellFoundedOn(OpToRel(<, Nat), Nat)
  BY NatLessThanWellFounded
<1>2. PICK x \in T : \A y \in T : ~(<< y, x >> \in OpToRel(<, Nat))
  BY <1>1, WFMin
<1>3. \A y \in T : ~(y < x)
  BY <1>2 DEF OpToRel
<1> QED
  BY <1>3

(* A set of naturals that has n when it has all below n has them all.      *)
LEMMA StrongInduction ==
  ASSUME NEW T, \A n \in Nat : (\A k \in Nat : k < n => k \in T) => n \in T
  PROVE  Nat \subseteq T
<1> DEFINE Bad == Nat \ T
<1>1. SUFFICES ASSUME Bad # {} PROVE FALSE
  OBVIOUS
<1>2. Bad \in SUBSET Nat
  OBVIOUS
<1>3. PICK x \in Bad : \A y \in Bad : x <= y
  <2> HIDE DEF Bad
  <2> QED
    BY <1>1, <1>2, NatLeast
<1>4. \A k \in Nat : k < x => k \in T
  BY <1>3
<1> QED
  BY <1>3, <1>4

(* One that has 0, and n + 1 when it has n, has them all.                  *)
LEMMA StepInduction ==
  ASSUME NEW T, 0 \in T, \A n \in Nat : n \in T => n + 1 \in T
  PROVE  Nat \subseteq T
<1>1. ASSUME NEW n \in Nat, \A k \in Nat : k < n => k \in T
      PROVE  n \in T
  <2>1. CASE n = 0
    BY <2>1
  <2>2. CASE n # 0
    <3>1. n - 1 \in Nat /\ n - 1 < n /\ (n - 1) + 1 = n
      BY <2>2
    <3> QED
      BY <1>1, <3>1
  <2> QED
    BY <2>1, <2>2
<1> QED
  BY <1>1, StrongInduction
-----------------------------------------------------------------------------
(* Sequences of anything.                                                  *)

IsSeq(s) == Len(s) \in Nat /\ s = [k \in 1..Len(s) |-> s[k]]

LEMMA SeqIsSeq ==
  ASSUME NEW S, NEW s, s \in Seq(S)
  PROVE  IsSeq(s)
  BY DEF IsSeq

LEMMA IsSeqOf ==
  ASSUME NEW s, IsSeq(s)
  PROVE  \E S : s \in Seq(S)
<1> DEFINE S == {s[k] : k \in 1..Len(s)}
<1>1. s \in [1..Len(s) -> S]
  <2>1. s = [k \in 1..Len(s) |-> s[k]]
    BY DEF IsSeq
  <2>2. \A k \in 1..Len(s) : s[k] \in S
    OBVIOUS
  <2> HIDE DEF S
  <2> QED
    BY <2>1, <2>2
<1>2. Len(s) \in Nat
  BY DEF IsSeq
<1>3. s \in Seq(S)
  <2> HIDE DEF S
  <2> QED
    BY <1>1, <1>2
<1> QED
  BY <1>3

LEMMA AppendIs ==
  ASSUME NEW s, NEW x, IsSeq(s)
  PROVE  /\ IsSeq(Append(s, x)) /\ Len(Append(s, x)) = Len(s) + 1
         /\ Append(s, x)[Len(s) + 1] = x
         /\ \A k \in 1..Len(s) : Append(s, x)[k] = s[k]
<1>1. PICK S : s \in Seq(S)
  BY IsSeqOf
<1>2. s \in Seq(S \cup {x}) /\ x \in S \cup {x}
  BY <1>1
<1>3. Append(s, x) \in Seq(S \cup {x})
  BY <1>2
<1>4. IsSeq(Append(s, x))
  BY <1>3, SeqIsSeq
<1> QED
  BY <1>1, <1>4

(* c is t behind s.                                                        *)
IsBehind(c, s, t) ==
  /\ IsSeq(c) /\ Len(c) = Len(s) + Len(t)
  /\ \A k \in 1..Len(s) : c[k] = s[k]
  /\ \A k \in 1..Len(t) : c[Len(s) + k] = t[k]

LEMMA ConcatIs ==
  ASSUME NEW s, NEW t, IsSeq(s), IsSeq(t)
  PROVE  IsBehind(s \o t, s, t)
<1>1. PICK S : s \in Seq(S)
  BY IsSeqOf
<1>2. PICK T : t \in Seq(T)
  BY IsSeqOf
<1>3. s \in Seq(S \cup T) /\ t \in Seq(S \cup T)
  BY <1>1, <1>2
<1>4. s \o t \in Seq(S \cup T)
  BY <1>3
<1>5. IsSeq(s \o t)
  BY <1>4, SeqIsSeq
<1>6. Len(s \o t) = Len(s) + Len(t)
  BY <1>3
<1>7. \A k \in 1..Len(s) : (s \o t)[k] = s[k]
  BY <1>3
<1>8. ASSUME NEW k \in 1..Len(t)
      PROVE  (s \o t)[Len(s) + k] = t[k]
  BY <1>3
<1> QED
  BY <1>5, <1>6, <1>7, <1>8 DEF IsBehind

(* p is what s has behind m and up to n.                                   *)
IsPart(p, s, m, n) ==
  IsSeq(p) /\ Len(p) = n - m /\ \A k \in 1..(n - m) : p[k] = s[m + k]

LEMMA SubSeqIs ==
  ASSUME NEW s, NEW m, NEW n, IsSeq(s), m \in Nat, n \in Nat, m <= n, n <= Len(s)
  PROVE  IsPart(SubSeq(s, m + 1, n), s, m, n)
<1>1. PICK S : s \in Seq(S)
  BY IsSeqOf
<1>2. SubSeq(s, m + 1, n) \in Seq(S)
  <2>1. \A k \in (m + 1)..n : k \in 1..Len(s)
    BY <1>1
  <2> QED
    BY <1>1, <2>1, SMTT(30)
<1>3. IsSeq(SubSeq(s, m + 1, n))
  BY <1>2, SeqIsSeq
<1>4. Len(SubSeq(s, m + 1, n)) = n - m
  BY <1>1, SMTT(30)
<1>5. ASSUME NEW k \in 1..(n - m)
      PROVE  SubSeq(s, m + 1, n)[k] = s[m + k]
  BY <1>1, SMTT(30)
<1> QED
  BY <1>3, <1>4, <1>5 DEF IsPart

LEMMA IsSeqEqual ==
  ASSUME NEW s, NEW t, IsSeq(s), IsSeq(t), Len(s) = Len(t), \A k \in 1..Len(s) : s[k] = t[k]
  PROVE  s = t
<1>1. s = [k \in 1..Len(s) |-> s[k]] /\ t = [k \in 1..Len(s) |-> t[k]]
  BY DEF IsSeq
<1>2. [k \in 1..Len(s) |-> s[k]] = [k \in 1..Len(s) |-> t[k]]
  OBVIOUS
<1> QED
  BY <1>1, <1>2, Zenon

-----------------------------------------------------------------------------
(* Blocks of a level.                                                      *)

LEMMA FanIs == Fan \in Nat /\ Fan > 1 /\ NoHash[1] # "hash"
  BY HashTreeAssumption

LEMMA Division ==
  ASSUME NEW F \in Nat \ {0}, NEW n \in Int
  PROVE  /\ n = F * (n \div F) + (n % F)
         /\ n \div F \in Int /\ n % F \in 0..(F - 1)
  OBVIOUS

LEMMA Products ==
  ASSUME NEW F \in Nat, NEW a \in Int, NEW b \in Int, F > 0, F * a < F * b
  PROVE  a < b
<1>1. SUFFICES ASSUME b <= a PROVE FALSE
  OBVIOUS
<1>2. PICK d \in Nat : a = b + d
  <2>1. a - b \in Nat /\ a = b + (a - b)
    BY <1>1
  <2> QED
    BY <2>1
<1>3. F * a = F * b + F * d /\ F * d >= 0
  <2>1. F * a \in Int /\ F * b \in Int /\ F * d \in Nat
    OBVIOUS
  <2>2. F * (b + d) = F * b + F * d
    OBVIOUS
  <2> QED
    BY <1>2, <2>1, <2>2
<1>4. F * a \in Int /\ F * b \in Int /\ F * d \in Int
  OBVIOUS
<1> HIDE <1>2
<1> QED
  BY <1>3, <1>4

(* As many blocks as hold k hashes, and no more.                           *)
LEMMA BlocksAre ==
  ASSUME NEW k \in Nat
  PROVE  /\ BlocksFor(k) \in Nat
         /\ Fan * BlocksFor(k) >= k /\ Fan * BlocksFor(k) < k + Fan
<1> DEFINE q == (k + Fan - 1) \div Fan
           r == (k + Fan - 1) % Fan
<1>1. Fan \in Nat /\ Fan > 1
  BY FanIs
<1>2. /\ k + Fan - 1 = Fan * q + r /\ q \in Int /\ r \in 0..(Fan - 1)
  <2>1. Fan \in Nat \ {0} /\ k + Fan - 1 \in Int
    BY <1>1
  <2> QED
    BY <2>1, Division
<1> HIDE DEF q, r
<1>3. Fan * q \in Int
  BY <1>1, <1>2
<1>4. Fan * q >= k /\ Fan * q < k + Fan
  BY <1>1, <1>2, <1>3
<1>5. q \in Nat
  <2>1. Fan * (0 - 1) = 0 - Fan
    BY <1>1
  <2>2. Fan * (0 - 1) < Fan * q
    BY <1>1, <1>3, <1>4, <2>1
  <2>3. 0 - 1 < q
    BY <1>1, <1>2, <2>2, Products
  <2> QED
    BY <1>2, <2>3
<1> QED
  BY <1>4, <1>5 DEF BlocksFor, q

(* A level of more than one block has fewer above it, and one at least.    *)
LEMMA BlocksShrink ==
  ASSUME NEW k \in Nat, k > 1
  PROVE  BlocksFor(k) \in Nat /\ 1 <= BlocksFor(k) /\ BlocksFor(k) < k
<1> DEFINE b == BlocksFor(k)
<1>1. Fan \in Nat /\ Fan > 1
  BY FanIs
<1>2. b \in Nat /\ Fan * b >= k /\ Fan * b < k + Fan
  BY BlocksAre
<1> HIDE DEF b
<1>3. b # 0
  <2>1. SUFFICES ASSUME b = 0 PROVE FALSE
    OBVIOUS
  <2>2. Fan * 0 = 0
    BY <1>1
  <2> QED
    BY <1>2, <2>1, <2>2
<1>4. b < k
  <2> DEFINE f == Fan - 1
             m == k - 1
  <2>1. f \in Nat /\ m \in Nat /\ f > 0 /\ m > 0 /\ Fan = f + 1 /\ k = m + 1
    BY <1>1
  <2>2. Fan * k = k + f * k
    <3> HIDE DEF f, m
    <3>1. (f + 1) * k = k + f * k
      BY <2>1
    <3> QED
      BY <2>1, <3>1
  <2>3. f * k = f * m + f
    <3> HIDE DEF f, m
    <3>1. f * (m + 1) = f * m + f
      BY <2>1
    <3> QED
      BY <2>1, <3>1
  <2>4. f * m \in Nat /\ f * m > 0
    <3> HIDE DEF f, m
    <3> QED
      BY <2>1
  <2> DEFINE fm == f * m
             fk == f * k
             Fk == Fan * k
             Fb == Fan * b
  <2>5. fm \in Nat /\ fk \in Int /\ Fk \in Int /\ Fb \in Int
    BY <1>1, <1>2, <2>1, <2>4
  <2>6. Fb < Fk
    <3>1. Fk = k + fk /\ fk = fm + f /\ fm > 0 /\ Fb < k + Fan
      BY <1>2, <2>2, <2>3, <2>4
    <3> HIDE DEF fm, fk, Fk, Fb
    <3> QED
      BY <1>1, <2>5, <3>1
  <2>7. Fan > 0 /\ Fan * b < Fan * k
    BY <1>1, <2>6
  <2> QED
    BY <1>1, <1>2, <2>7, Products
<1>5. 1 <= b
  BY <1>2, <1>3
<1> QED
  BY <1>2, <1>4, <1>5 DEF b

-----------------------------------------------------------------------------
(* The sums of a sequence of numbers, number by number.                    *)

Sums(s, ns, n) == \A k \in 0..n : s[k] = IF k = 0 THEN 0 ELSE s[k - 1] + ns[k]

LEMMA SumsExist ==
  ASSUME NEW ns
  PROVE  \A n \in Nat : \E s : Sums(s, ns, n)
<1> DEFINE T == {n \in Nat : \E s : Sums(s, ns, n)}
<1>1. 0 \in T
  <2>1. Sums([k \in {0} |-> 0], ns, 0)
    BY DEF Sums
  <2> QED
    BY <2>1
<1>2. ASSUME NEW n \in Nat, n \in T
      PROVE  n + 1 \in T
  <2>1. PICK s : Sums(s, ns, n)
    BY <1>2
  <2> DEFINE d == [k \in 0..(n + 1) |-> IF k = n + 1 THEN s[n] + ns[n + 1] ELSE s[k]]
  <2>2. ASSUME NEW k \in 0..(n + 1)
        PROVE  d[k] = IF k = 0 THEN 0 ELSE d[k - 1] + ns[k]
    <3>1. CASE k = n + 1
      <4>1. k # 0 /\ k - 1 = n /\ n \in 0..(n + 1) /\ n # n + 1
        BY <3>1
      <4>2. d[k] = s[n] + ns[k] /\ d[n] = s[n]
        BY <3>1, <4>1
      <4> QED
        BY <4>1, <4>2
    <3>2. CASE k # n + 1
      <4>1. k \in 0..n /\ (k # 0 => k - 1 \in 0..(n + 1) /\ k - 1 # n + 1)
        BY <3>2
      <4>2. s[k] = IF k = 0 THEN 0 ELSE s[k - 1] + ns[k]
        BY <2>1, <4>1 DEF Sums
      <4>3. d[k] = s[k] /\ (k # 0 => d[k - 1] = s[k - 1])
        BY <3>2, <4>1
      <4> QED
        BY <4>2, <4>3
    <3> QED
      BY <3>1, <3>2
  <2>3. Sums(d, ns, n + 1)
    <3> HIDE DEF d
    <3> QED
      BY <2>2 DEF Sums
  <2> QED
    BY <2>3
<1>3. Nat \subseteq T
  <2> HIDE DEF T
  <2> QED
    BY <1>1, <1>2, StepInduction
<1> QED
  BY <1>3

(* A sum that is a recursive function is one of these.                     *)
LEMMA SumIs ==
  ASSUME NEW ns, NEW n, n \in Nat
  PROVE  \E s : /\ Sums(s, ns, n)
                /\ (CHOOSE f : f = [k \in 0..n |-> IF k = 0 THEN 0 ELSE f[k - 1] + ns[k]])[n] = s[n]
<1> DEFINE Is(s) == s = [k \in 0..n |-> IF k = 0 THEN 0 ELSE s[k - 1] + ns[k]]
<1>1. PICK d : Sums(d, ns, n)
  BY SumsExist
<1> DEFINE e == [k \in 0..n |-> d[k]]
<1>2. Is(e)
  <2>1. ASSUME NEW k \in 0..n
        PROVE  e[k] = IF k = 0 THEN 0 ELSE e[k - 1] + ns[k]
    <3>1. d[k] = IF k = 0 THEN 0 ELSE d[k - 1] + ns[k]
      BY <1>1 DEF Sums
    <3>2. k # 0 => k - 1 \in 0..n
      OBVIOUS
    <3>3. e[k] = d[k] /\ (k # 0 => e[k - 1] = d[k - 1])
      BY <3>2
    <3> QED
      BY <3>1, <3>3
  <2>2. e = [k \in 0..n |-> e[k]]
    OBVIOUS
  <2> HIDE DEF e
  <2> QED
    BY <2>1, <2>2
<1>3. PICK c : c = (CHOOSE x : Is(x)) /\ Is(c)
  <2> HIDE DEF Is
  <2> QED
    BY <1>2
<1>4. Sums(c, ns, n)
  BY <1>3 DEF Sums
<1> QED
  BY <1>3, <1>4

LEMMA TotalIs ==
  ASSUME NEW ns, Len(ns) \in Nat
  PROVE  \E s : Sums(s, ns, Len(ns)) /\ Total(ns) = s[Len(ns)]
<1> DEFINE n == Len(ns)
<1>1. PICK s : /\ Sums(s, ns, n)
               /\ (CHOOSE f : f = [k \in 0..n |-> IF k = 0 THEN 0 ELSE f[k - 1] + ns[k]])[n] = s[n]
  <2> HIDE DEF n
  <2>1. n \in Nat
    BY DEF n
  <2> QED
    BY <2>1, SumIs
<1>2. Total(ns) = s[n]
  BY <1>1 DEF Total
<1> QED
  BY <1>1, <1>2

LEMMA SumsAre ==
  ASSUME NEW ns, NEW n, NEW s, n \in Nat, Sums(s, ns, n), \A k \in 1..n : ns[k] \in Nat
  PROVE  /\ \A k \in 0..n : s[k] \in Nat
         /\ s[0] = 0 /\ \A k \in 1..n : s[k] = s[k - 1] + ns[k]
<1> DEFINE T == {k \in Nat : k <= n => s[k] \in Nat}
<1>1. 0 \in T /\ s[0] = 0
  <2>1. 0 \in 0..n
    OBVIOUS
  <2> QED
    BY <2>1 DEF Sums
<1>2. \A k \in 1..n : s[k] = s[k - 1] + ns[k]
  BY DEF Sums
<1>3. ASSUME NEW k \in Nat, k \in T
      PROVE  k + 1 \in T
  <2> SUFFICES ASSUME k + 1 <= n PROVE s[k + 1] \in Nat
    OBVIOUS
  <2>1. (k + 1) - 1 = k /\ k + 1 \in 1..n /\ k <= n
    OBVIOUS
  <2>2. s[k + 1] = s[k] + ns[k + 1]
    BY <1>2, <2>1
  <2> QED
    BY <1>3, <2>1, <2>2
<1>4. Nat \subseteq T
  <2> HIDE DEF T
  <2> QED
    BY <1>1, <1>3, StepInduction
<1> QED
  BY <1>1, <1>2, <1>4

(* The sum so far never gets less.                                         *)
LEMMA SumsGrow ==
  ASSUME NEW ns, NEW n, NEW s, NEW i, NEW j, n \in Nat, i \in 0..n, j \in i..n, Sums(s, ns, n),
         \A k \in 1..n : ns[k] \in Nat
  PROVE  s[i] <= s[j]
<1>1. (\A k \in 0..n : s[k] \in Nat) /\ \A k \in 1..n : s[k] = s[k - 1] + ns[k]
  BY SumsAre
<1> DEFINE T == {d \in Nat : i + d <= n => s[i] <= s[i + d]}
<1>2. 0 \in T
  <2>1. i + 0 = i /\ s[i] \in Nat
    BY <1>1
  <2> QED
    BY <2>1
<1>3. ASSUME NEW d \in Nat, d \in T
      PROVE  d + 1 \in T
  <2> SUFFICES ASSUME i + (d + 1) <= n PROVE s[i] <= s[i + (d + 1)]
    OBVIOUS
  <2> DEFINE m == i + d
  <2>1. m \in 0..n /\ i + (d + 1) = m + 1 /\ m + 1 \in 1..n /\ m + 1 \in 0..n /\ (m + 1) - 1 = m
    OBVIOUS
  <2>2. s[i] <= s[m]
    BY <1>3, <2>1
  <2> HIDE DEF m
  <2>3. s[m + 1] = s[m] + ns[m + 1] /\ s[m] \in Nat /\ s[i] \in Nat /\ ns[m + 1] \in Nat
    BY <1>1, <2>1
  <2> QED
    BY <2>1, <2>2, <2>3
<1>4. Nat \subseteq T
  <2> HIDE DEF T
  <2> QED
    BY <1>2, <1>3, StepInduction
<1>5. j - i \in T /\ i + (j - i) = j /\ j <= n
  <2>1. j - i \in Nat /\ i + (j - i) = j /\ j <= n
    OBVIOUS
  <2> HIDE DEF T
  <2> QED
    BY <1>4, <2>1
<1> QED
  BY <1>5

(* The sum of a piece.                                                     *)
LEMMA SumOfPart ==
  ASSUME NEW ns, NEW s, NEW m, IsSeq(ns), m \in 0..Len(ns), Sums(s, ns, Len(ns)),
         \A k \in 1..Len(ns) : ns[k] \in Nat
  PROVE  Total(SubSeq(ns, m + 1, Len(ns))) = s[Len(ns)] - s[m]
<1> DEFINE n == Len(ns)
           p == SubSeq(ns, m + 1, n)
<1>1. n \in Nat /\ m \in Nat /\ m <= n
  BY DEF IsSeq
<1>2. IsPart(p, ns, m, n)
  <2>1. n <= Len(ns)
    BY <1>1
  <2> HIDE DEF n
  <2> QED
    BY <1>1, <2>1, SubSeqIs
<1> HIDE DEF p
<1>3. Len(p) = n - m /\ Len(p) \in Nat /\ \A k \in 1..(n - m) : p[k] = ns[m + k]
  BY <1>1, <1>2 DEF IsPart
<1>4. PICK r : Sums(r, p, n - m) /\ Total(p) = r[n - m]
  BY <1>3, TotalIs
<1>5. (\A k \in 0..n : s[k] \in Nat) /\ \A k \in 1..n : s[k] = s[k - 1] + ns[k]
  BY <1>1, SumsAre
<1> DEFINE T == {k \in Nat : k <= n - m => r[k] = s[m + k] - s[m]}
<1> HIDE DEF n
<1>6. 0 \in T
  <2>1. 0 \in 0..(n - m) /\ m + 0 = m /\ m \in 0..n
    BY <1>1
  <2>2. r[0] = 0 /\ s[m] \in Nat
    BY <1>4, <1>5, <2>1 DEF Sums
  <2> QED
    BY <2>1, <2>2
<1>7. ASSUME NEW k \in Nat, k \in T
      PROVE  k + 1 \in T
  <2> SUFFICES ASSUME k + 1 <= n - m PROVE r[k + 1] = s[m + (k + 1)] - s[m]
    OBVIOUS
  <2>1. /\ (k + 1) - 1 = k /\ k + 1 \in 0..(n - m) /\ k + 1 # 0 /\ k + 1 \in 1..(n - m)
        /\ k <= n - m /\ m + (k + 1) \in 1..n /\ (m + (k + 1)) - 1 = m + k
        /\ m + k \in 0..n /\ m \in 0..n
    BY <1>1
  <2>2. r[k + 1] = r[k] + p[k + 1] /\ p[k + 1] = ns[m + (k + 1)]
    BY <1>3, <1>4, <2>1 DEF Sums
  <2>3. s[m + (k + 1)] = s[m + k] + ns[m + (k + 1)] /\ ns[m + (k + 1)] \in Nat
    <3> DEFINE q == m + (k + 1)
    <3>1. q \in 1..n /\ q - 1 = m + k
      BY <2>1
    <3> HIDE DEF q
    <3>2. s[q] = s[q - 1] + ns[q] /\ ns[q] \in Nat
      BY <1>5, <3>1 DEF n
    <3> QED
      BY <3>1, <3>2 DEF q
  <2>4. r[k] = s[m + k] - s[m] /\ s[m + k] \in Nat /\ s[m] \in Nat
    BY <1>5, <1>7, <2>1
  <2> QED
    BY <2>2, <2>3, <2>4
<1>8. Nat \subseteq T
  <2> HIDE DEF T
  <2> QED
    BY <1>6, <1>7, StepInduction
<1>9. r[n - m] = s[m + (n - m)] - s[m]
  <2>1. n - m \in Nat
    BY <1>1
  <2> QED
    BY <1>8, <2>1
<1> QED
  <2>1. m + (n - m) = n
    BY <1>1
  <2> QED
    BY <1>4, <1>9, <2>1 DEF p, n

-----------------------------------------------------------------------------
(* The sizes of the levels: each the blocks for the one below.             *)

(* The blocks of level j of an image of k blocks, which is level 0.        *)
LevelLen(s, k, j) == IF j = 0 THEN k ELSE s[j]

IsSizes(s, k) ==
  /\ IsSeq(s)
  /\ \A j \in 0..Len(s) : LevelLen(s, k, j) \in Nat
  /\ \A j \in 1..Len(s) : LevelLen(s, k, j - 1) > 1 /\ s[j] = BlocksFor(LevelLen(s, k, j - 1))
  /\ LevelLen(s, k, Len(s)) <= 1

SizesRule(f, n) ==
  \A k \in 0..n : f[k] = IF k <= 1 THEN << >> ELSE << BlocksFor(k) >> \o f[BlocksFor(k)]

LEMMA SizesExist == \A n \in Nat : \E f : SizesRule(f, n)
<1> DEFINE T == {n \in Nat : \E f : SizesRule(f, n)}
<1>1. 0 \in T
  <2> DEFINE d == [k \in {0} |-> << >>]
  <2>1. \A k \in 0..0 : k = 0 /\ k <= 1 /\ d[k] = << >>
    OBVIOUS
  <2>2. SizesRule(d, 0)
    <3> HIDE DEF d
    <3> QED
      BY <2>1 DEF SizesRule
  <2> QED
    BY <2>2
<1>2. ASSUME NEW n \in Nat, n \in T
      PROVE  n + 1 \in T
  <2>1. PICK f : SizesRule(f, n)
    BY <1>2
  <2> DEFINE e == IF n + 1 <= 1 THEN << >> ELSE << BlocksFor(n + 1) >> \o f[BlocksFor(n + 1)]
             d == [k \in 0..(n + 1) |-> IF k = n + 1 THEN e ELSE f[k]]
  <2>2. ASSUME NEW k \in 0..(n + 1)
        PROVE  d[k] = IF k <= 1 THEN << >> ELSE << BlocksFor(k) >> \o d[BlocksFor(k)]
    <3>1. k > 1 => BlocksFor(k) \in 0..n /\ BlocksFor(k) \in 0..(n + 1) /\ BlocksFor(k) # n + 1
      <4> SUFFICES ASSUME k > 1
                   PROVE  BlocksFor(k) \in 0..n /\ BlocksFor(k) \in 0..(n + 1) /\ BlocksFor(k) # n + 1
        OBVIOUS
      <4>1. k \in Nat
        OBVIOUS
      <4>2. BlocksFor(k) \in Nat /\ BlocksFor(k) < k
        BY <4>1, BlocksShrink
      <4> QED
        BY <4>1, <4>2
    <3>2. k > 1 => d[BlocksFor(k)] = f[BlocksFor(k)]
      BY <3>1
    <3>3. CASE k = n + 1
      <4>1. d[k] = IF k <= 1 THEN << >> ELSE << BlocksFor(k) >> \o f[BlocksFor(k)]
        BY <3>3
      <4>2. k <= 1 \/ k > 1
        OBVIOUS
      <4> HIDE DEF d, e
      <4> QED
        BY <3>2, <4>1, <4>2
    <3>4. CASE k # n + 1
      <4>1. k \in 0..n /\ d[k] = f[k]
        BY <3>4
      <4>2. f[k] = IF k <= 1 THEN << >> ELSE << BlocksFor(k) >> \o f[BlocksFor(k)]
        BY <2>1, <4>1 DEF SizesRule
      <4>3. k <= 1 \/ k > 1
        OBVIOUS
      <4> HIDE DEF d, e
      <4> QED
        BY <3>2, <4>1, <4>2, <4>3
    <3> QED
      BY <3>3, <3>4
  <2>3. SizesRule(d, n + 1)
    <3> HIDE DEF d
    <3> QED
      BY <2>2 DEF SizesRule
  <2> QED
    BY <2>3
<1>3. Nat \subseteq T
  <2> HIDE DEF T
  <2> QED
    BY <1>1, <1>2, StepInduction
<1> QED
  BY <1>3

LEMMA SizesDef ==
  ASSUME NEW n \in Nat
  PROVE  \E f : SizesRule(f, n) /\ LevelSizes(n) = f[n]
<1> DEFINE Is(f) == f = [k \in 0..n |-> IF k <= 1 THEN << >>
                                        ELSE << BlocksFor(k) >> \o f[BlocksFor(k)]]
<1>1. PICK d : SizesRule(d, n)
  BY SizesExist
<1> DEFINE e == [k \in 0..n |-> d[k]]
<1>2. Is(e)
  <2>1. ASSUME NEW k \in 0..n
        PROVE  e[k] = IF k <= 1 THEN << >> ELSE << BlocksFor(k) >> \o e[BlocksFor(k)]
    <3>1. d[k] = IF k <= 1 THEN << >> ELSE << BlocksFor(k) >> \o d[BlocksFor(k)]
      BY <1>1 DEF SizesRule
    <3>2. k > 1 => BlocksFor(k) \in 0..n
      <4> SUFFICES ASSUME k > 1 PROVE BlocksFor(k) \in 0..n
        OBVIOUS
      <4>1. k \in Nat
        OBVIOUS
      <4>2. BlocksFor(k) \in Nat /\ BlocksFor(k) < k
        BY <4>1, BlocksShrink
      <4> QED
        BY <4>1, <4>2
    <3>3. e[k] = d[k] /\ (k > 1 => e[BlocksFor(k)] = d[BlocksFor(k)])
      BY <3>2
    <3>4. k <= 1 \/ k > 1
      OBVIOUS
    <3> HIDE DEF e
    <3> QED
      BY <3>1, <3>3, <3>4
  <2>2. e = [k \in 0..n |-> e[k]]
    OBVIOUS
  <2> HIDE DEF e
  <2> QED
    BY <2>1, <2>2
<1>3. PICK c : c = (CHOOSE x : Is(x)) /\ Is(c)
  <2> HIDE DEF Is
  <2> QED
    BY <1>2
<1>4. LevelSizes(n) = c[n]
  BY <1>3 DEF LevelSizes
<1>5. SizesRule(c, n)
  BY <1>3 DEF SizesRule
<1> QED
  BY <1>4, <1>5

(* One level on top of the levels of an image of so many blocks.           *)
LEMMA SizesStep ==
  ASSUME NEW k, NEW s, k \in Nat, k > 1, IsSizes(s, BlocksFor(k))
  PROVE  IsSizes(<< BlocksFor(k) >> \o s, k)
<1> DEFINE b == BlocksFor(k)
           t == << b >> \o s
<1>1. b \in Nat
  BY BlocksShrink
<1>2. IsSeq(s) /\ Len(s) \in Nat
  BY DEF IsSizes, IsSeq
<1>3. IsSeq(<< b >>) /\ Len(<< b >>) = 1 /\ << b >>[1] = b
  <2>1. << b >> \in Seq(Nat)
    BY <1>1
  <2> QED
    BY <2>1, SeqIsSeq
<1>4. IsBehind(t, << b >>, s)
  BY <1>2, <1>3, ConcatIs
<1> HIDE DEF t
<1>5. /\ IsSeq(t) /\ Len(t) = 1 + Len(s) /\ t[1] = b
      /\ \A j \in 1..Len(s) : t[1 + j] = s[j]
  BY <1>3, <1>4 DEF IsBehind
<1>6. ASSUME NEW j \in 1..Len(t)
      PROVE  LevelLen(t, k, j) = LevelLen(s, b, j - 1)
  <2>1. CASE j = 1
    BY <1>5, <2>1 DEF LevelLen
  <2>2. CASE j # 1
    <3>1. j - 1 \in 1..Len(s) /\ 1 + (j - 1) = j /\ j # 0 /\ j - 1 # 0
      BY <1>2, <1>5, <2>2
    <3>2. t[1 + (j - 1)] = s[j - 1]
      BY <1>5, <3>1
    <3> QED
      BY <3>1, <3>2 DEF LevelLen
  <2> QED
    BY <2>1, <2>2
<1>7. ASSUME NEW j \in 0..Len(t)
      PROVE  LevelLen(t, k, j) \in Nat
  <2>1. CASE j = 0
    BY <2>1 DEF LevelLen
  <2>2. CASE j # 0
    <3>1. j \in 1..Len(t) /\ j - 1 \in 0..Len(s)
      BY <1>2, <1>5, <2>2
    <3>2. LevelLen(s, b, j - 1) \in Nat
      BY <3>1 DEF IsSizes, b
    <3> QED
      BY <1>6, <3>1, <3>2
  <2> QED
    BY <2>1, <2>2
<1>8. ASSUME NEW j \in 1..Len(t)
      PROVE  LevelLen(t, k, j - 1) > 1 /\ t[j] = BlocksFor(LevelLen(t, k, j - 1))
  <2>1. CASE j = 1
    <3>1. LevelLen(t, k, j - 1) = k
      BY <2>1 DEF LevelLen
    <3> QED
      BY <1>5, <2>1, <3>1 DEF b
  <2>2. CASE j # 1
    <3>1. j - 1 \in 1..Len(t) /\ j - 1 \in 1..Len(s) /\ j # 0 /\ j - 1 # 0 /\ 1 + (j - 1) = j
      BY <1>2, <1>5, <2>2
    <3>2. LevelLen(s, b, (j - 1) - 1) > 1 /\ s[j - 1] = BlocksFor(LevelLen(s, b, (j - 1) - 1))
      BY <3>1 DEF IsSizes, b
    <3>3. LevelLen(t, k, j - 1) = LevelLen(s, b, (j - 1) - 1)
      BY <1>6, <3>1
    <3>4. t[1 + (j - 1)] = s[j - 1]
      BY <1>5, <3>1
    <3> QED
      BY <3>1, <3>2, <3>3, <3>4
  <2> QED
    BY <2>1, <2>2
<1>9. LevelLen(t, k, Len(t)) <= 1
  <2>1. Len(t) \in 1..Len(t) /\ Len(t) - 1 = Len(s)
    BY <1>2, <1>5
  <2>2. LevelLen(t, k, Len(t)) = LevelLen(s, b, Len(s))
    BY <1>6, <2>1
  <2> QED
    BY <2>2 DEF IsSizes, b
<1> QED
  BY <1>5, <1>7, <1>8, <1>9 DEF IsSizes, t, b

LEMMA LevelSizesAre ==
  ASSUME NEW n \in Nat
  PROVE  IsSizes(LevelSizes(n), n)
<1>1. PICK f : SizesRule(f, n) /\ LevelSizes(n) = f[n]
  BY SizesDef
<1> DEFINE T == {k \in Nat : k <= n => IsSizes(f[k], k)}
<1>2. ASSUME NEW k \in Nat, \A i \in Nat : i < k => i \in T
      PROVE  k \in T
  <2> SUFFICES ASSUME k <= n PROVE IsSizes(f[k], k)
    OBVIOUS
  <2>1. k \in 0..n
    OBVIOUS
  <2>2. CASE k <= 1
    <3>1. f[k] = << >>
      BY <1>1, <2>1, <2>2 DEF SizesRule
    <3>2. IsSeq(<< >>) /\ Len(<< >>) = 0
      <4>1. << >> \in Seq(Nat)
        OBVIOUS
      <4> QED
        BY <4>1, SeqIsSeq
    <3>3. /\ \A j \in 0..0 : LevelLen(<< >>, k, j) = k
          /\ 1..0 = {}
      BY DEF LevelLen
    <3>4. LevelLen(<< >>, k, 0) = k
      BY DEF LevelLen
    <3> QED
      BY <2>2, <3>1, <3>2, <3>3, <3>4 DEF IsSizes
  <2>3. CASE k > 1
    <3> DEFINE b == BlocksFor(k)
    <3>1. b \in Nat /\ b < k
      BY <2>3, BlocksShrink
    <3>2. f[k] = << b >> \o f[b]
      <4>1. ~(k <= 1)
        BY <2>3
      <4> QED
        BY <1>1, <2>1, <4>1 DEF SizesRule
    <3>3. IsSizes(f[b], b)
      <4> HIDE DEF b
      <4>1. b \in T /\ b <= n
        BY <1>2, <3>1
      <4> QED
        BY <4>1
    <3>4. IsSizes(<< b >> \o f[b], k)
      BY <2>3, <3>3, SizesStep
    <3> QED
      BY <3>2, <3>4
  <2> QED
    BY <2>2, <2>3
<1>3. Nat \subseteq T
  <2> HIDE DEF T
  <2> QED
    BY <1>2, StrongInduction
<1> QED
  BY <1>1, <1>3

-----------------------------------------------------------------------------
(* The levels themselves, from the image upwards.                          *)

Hashes(blocks) == [i \in DOMAIN blocks |-> Hash(blocks[i])]

LEMMA HashesAre ==
  ASSUME NEW s, IsSeq(s)
  PROVE  IsSeq(Hashes(s)) /\ Len(Hashes(s)) = Len(s) /\ \A k \in 1..Len(s) : Hashes(s)[k] = Hash(s[k])
<1>1. PICK S : s \in Seq(S)
  BY IsSeqOf
<1> DEFINE H == {Hash(x) : x \in S}
<1>2. Len(s) \in Nat /\ DOMAIN s = 1..Len(s)
  BY <1>1
<1>3. \A k \in 1..Len(s) : s[k] \in S
  BY <1>1
<1>4. Hashes(s) = [k \in 1..Len(s) |-> Hash(s[k])]
  BY <1>2 DEF Hashes
<1>5. \A k \in 1..Len(s) : Hash(s[k]) \in H
  BY <1>3
<1> HIDE DEF H
<1>6. Hashes(s) \in [1..Len(s) -> H]
  BY <1>4, <1>5
<1>7. Hashes(s) \in Seq(H)
  BY <1>2, <1>6
<1>8. Len(Hashes(s)) = Len(s)
  BY <1>2, <1>4
<1> QED
  BY <1>4, <1>7, <1>8, SeqIsSeq

LEMMA GroupIs ==
  ASSUME NEW hs, Len(hs) \in Nat
  PROVE  IsSeq(Group(hs)) /\ Len(Group(hs)) = BlocksFor(Len(hs))
<1> DEFINE n == BlocksFor(Len(hs))
           B(b) == TreeBlock([i \in 1..Fan |-> IF (b - 1) * Fan + i <= Len(hs)
                                 THEN hs[(b - 1) * Fan + i] ELSE NoHash])
<1>1. n \in Nat
  BY BlocksAre
<1>2. Group(hs) = [b \in 1..n |-> B(b)]
  BY DEF Group
<1> HIDE DEF n, B
<1> DEFINE S == {B(b) : b \in 1..n}
<1>3. \A b \in 1..n : B(b) \in S
  OBVIOUS
<1> HIDE DEF S
<1>4. Group(hs) \in [1..n -> S]
  BY <1>2, <1>3
<1>5. Group(hs) \in Seq(S)
  BY <1>1, <1>4
<1>6. Len(Group(hs)) = n
  BY <1>1, <1>2
<1> QED
  BY <1>5, <1>6, SeqIsSeq DEF n

AreLevels(ls, data) ==
  /\ IsSeq(ls) /\ Len(ls) >= 1 /\ ls[1] = data
  /\ \A j \in 1..Len(ls) : IsSeq(ls[j])
  /\ \A j \in 2..Len(ls) : Len(ls[j - 1]) > 1 /\ ls[j] = Group(Hashes(ls[j - 1]))

LevelsRule(f, data, n) ==
  \A k \in 0..n : f[k] = IF k = 0 THEN << data >>
                         ELSE LET below == f[k - 1][Len(f[k - 1])] IN
                              IF Len(below) <= 1 THEN f[k - 1]
                              ELSE Append(f[k - 1], Group([i \in DOMAIN below |-> Hash(below[i])]))

LevelsOn(f) ==
  LET below == f[Len(f)] IN
  IF Len(below) <= 1 THEN f ELSE Append(f, Group([i \in DOMAIN below |-> Hash(below[i])]))

LEMMA LevelsExist ==
  ASSUME NEW data
  PROVE  \A n \in Nat : \E f : LevelsRule(f, data, n)
<1> DEFINE T == {n \in Nat : \E f : LevelsRule(f, data, n)}
<1>1. 0 \in T
  <2> DEFINE d == [k \in {0} |-> << data >>]
  <2>1. \A k \in 0..0 : k = 0 /\ d[k] = << data >>
    OBVIOUS
  <2>2. LevelsRule(d, data, 0)
    <3> HIDE DEF d
    <3> QED
      BY <2>1 DEF LevelsRule
  <2> QED
    BY <2>2
<1>2. ASSUME NEW n \in Nat, n \in T
      PROVE  n + 1 \in T
  <2>1. PICK f : LevelsRule(f, data, n)
    BY <1>2
  <2> DEFINE e == LevelsOn(f[n])
             d == [k \in 0..(n + 1) |-> IF k = n + 1 THEN e ELSE f[k]]
  <2>2. ASSUME NEW k \in 0..(n + 1)
        PROVE  d[k] = IF k = 0 THEN << data >> ELSE LevelsOn(d[k - 1])
    <3>1. CASE k = n + 1
      <4>1. k # 0 /\ k - 1 = n /\ n \in 0..(n + 1) /\ n # n + 1
        BY <3>1
      <4>2. d[k] = LevelsOn(f[n]) /\ d[n] = f[n]
        BY <3>1, <4>1
      <4> QED
        BY <4>1, <4>2
    <3>2. CASE k # n + 1
      <4>1. k \in 0..n /\ (k # 0 => k - 1 \in 0..(n + 1) /\ k - 1 # n + 1)
        BY <3>2
      <4>2. f[k] = IF k = 0 THEN << data >> ELSE LevelsOn(f[k - 1])
        BY <2>1, <4>1 DEF LevelsRule, LevelsOn
      <4>3. d[k] = f[k] /\ (k # 0 => d[k - 1] = f[k - 1])
        BY <3>2, <4>1
      <4> QED
        BY <4>2, <4>3
    <3> QED
      BY <3>1, <3>2
  <2>3. LevelsRule(d, data, n + 1)
    <3> HIDE DEF d
    <3> QED
      BY <2>2 DEF LevelsRule, LevelsOn
  <2> QED
    BY <2>3
<1>3. Nat \subseteq T
  <2> HIDE DEF T
  <2> QED
    BY <1>1, <1>2, StepInduction
<1> QED
  BY <1>3

LEMMA LevelsDef ==
  ASSUME NEW data, Len(data) \in Nat
  PROVE  \E f : LevelsRule(f, data, Len(data)) /\ Levels(data) = f[Len(data)]
<1> DEFINE n == Len(data)
           Is(f) == f = [k \in 0..n |->
                           IF k = 0 THEN << data >>
                           ELSE LET below == f[k - 1][Len(f[k - 1])] IN
                                IF Len(below) <= 1 THEN f[k - 1]
                                ELSE Append(f[k - 1], Group([i \in DOMAIN below |-> Hash(below[i])]))]
<1>1. PICK d : LevelsRule(d, data, n)
  BY LevelsExist
<1> DEFINE e == [k \in 0..n |-> d[k]]
<1>2. Is(e)
  <2>1. ASSUME NEW k \in 0..n
        PROVE  e[k] = IF k = 0 THEN << data >> ELSE LevelsOn(e[k - 1])
    <3>1. d[k] = IF k = 0 THEN << data >> ELSE LevelsOn(d[k - 1])
      BY <1>1 DEF LevelsRule, LevelsOn
    <3>2. k # 0 => k - 1 \in 0..n
      OBVIOUS
    <3>3. e[k] = d[k] /\ (k # 0 => e[k - 1] = d[k - 1])
      BY <3>2
    <3> QED
      BY <3>1, <3>3
  <2>2. e = [k \in 0..n |-> e[k]]
    OBVIOUS
  <2>3. e = [k \in 0..n |-> IF k = 0 THEN << data >> ELSE LevelsOn(e[k - 1])]
    <3> HIDE DEF e, n
    <3> QED
      BY <2>1, <2>2
  <2> HIDE DEF e, n
  <2> QED
    BY <2>3 DEF LevelsOn
<1>3. PICK c : c = (CHOOSE x : Is(x)) /\ Is(c)
  <2> HIDE DEF Is
  <2> QED
    BY <1>2
<1>4. Levels(data) = c[n]
  BY <1>3 DEF Levels
<1>5. LevelsRule(c, data, n)
  BY <1>3 DEF LevelsRule
<1> QED
  BY <1>4, <1>5

(* One more level, if there is one, with fewer blocks.                     *)
LEMMA LevelsStep ==
  ASSUME NEW ls, NEW data, AreLevels(ls, data)
  PROVE  /\ AreLevels(LevelsOn(ls), data)
         /\ LET top == LevelsOn(ls)[Len(LevelsOn(ls))]
            IN  Len(top) <= 1 \/ Len(top) < Len(ls[Len(ls)])
<1> DEFINE m == Len(ls)
           below == ls[m]
<1>1. IsSeq(ls) /\ m \in Nat /\ m >= 1 /\ m \in 1..m /\ ls[1] = data
  BY DEF AreLevels, IsSeq
<1>2. IsSeq(below) /\ Len(below) \in Nat
  <2>1. IsSeq(below)
    BY <1>1 DEF AreLevels
  <2> QED
    BY <2>1 DEF IsSeq
<1>3. CASE Len(below) <= 1
  <2>1. LevelsOn(ls) = ls
    BY <1>3 DEF LevelsOn
  <2> QED
    BY <1>3, <2>1
<1>4. CASE Len(below) > 1
  <2> DEFINE g == Group(Hashes(below))
             up == Append(ls, g)
  <2>1. LevelsOn(ls) = up
    <3>1. ~(Len(below) <= 1)
      BY <1>2, <1>4
    <3> QED
      BY <3>1 DEF LevelsOn, Hashes
  <2>2. IsSeq(g) /\ Len(g) = BlocksFor(Len(below))
    <3>1. Len(Hashes(below)) = Len(below)
      BY <1>2, HashesAre
    <3> QED
      BY <1>2, <3>1, GroupIs
  <2>3. Len(g) < Len(below)
    BY <1>2, <1>4, <2>2, BlocksShrink
  <2>4. IsSeq(up) /\ Len(up) = m + 1 /\ up[m + 1] = g /\ \A k \in 1..m : up[k] = ls[k]
    BY <1>1, AppendIs
  <2> HIDE DEF up
  <2>5. AreLevels(up, data)
    <3>1. Len(up) >= 1 /\ up[1] = data
      BY <1>1, <2>4
    <3>2. ASSUME NEW j \in 1..Len(up)
          PROVE  IsSeq(up[j])
      <4>1. CASE j = m + 1
        BY <2>2, <2>4, <4>1
      <4>2. CASE j # m + 1
        <5>1. j \in 1..m
          BY <1>1, <2>4, <4>2
        <5>2. IsSeq(ls[j])
          BY <5>1 DEF AreLevels
        <5> QED
          BY <2>4, <5>1, <5>2
      <4> QED
        BY <4>1, <4>2
    <3>3. ASSUME NEW j \in 2..Len(up)
          PROVE  Len(up[j - 1]) > 1 /\ up[j] = Group(Hashes(up[j - 1]))
      <4>1. CASE j = m + 1
        <5>1. j - 1 = m /\ up[j - 1] = below /\ up[j] = g
          BY <1>1, <2>4, <4>1
        <5> QED
          BY <1>4, <5>1
      <4>2. CASE j # m + 1
        <5>1. j \in 2..m /\ j \in 1..m /\ j - 1 \in 1..m
          BY <1>1, <2>4, <4>2
        <5>2. Len(ls[j - 1]) > 1 /\ ls[j] = Group(Hashes(ls[j - 1]))
          BY <5>1 DEF AreLevels
        <5>3. up[j - 1] = ls[j - 1] /\ up[j] = ls[j]
          BY <2>4, <5>1
        <5> QED
          BY <5>2, <5>3
      <4> QED
        BY <4>1, <4>2
    <3> QED
      BY <2>4, <3>1, <3>2, <3>3 DEF AreLevels
  <2> QED
    BY <2>1, <2>3, <2>4, <2>5
<1> QED
  BY <1>2, <1>3, <1>4

(* The top level is one block.                                             *)
LEMMA LevelsAre ==
  ASSUME NEW data, IsSeq(data)
  PROVE  AreLevels(Levels(data), data) /\ Len(Levels(data)[Len(Levels(data))]) <= 1
<1> DEFINE n == Len(data)
<1>1. n \in Nat
  BY DEF IsSeq
<1>2. PICK f : LevelsRule(f, data, n) /\ Levels(data) = f[n]
  BY <1>1, LevelsDef
<1> HIDE DEF n
<1> DEFINE TopOf(k) == f[k][Len(f[k])]
           T == {k \in Nat : k <= n => /\ AreLevels(f[k], data)
                                       /\ Len(TopOf(k)) <= 1 \/ Len(TopOf(k)) <= n - k}
<1>3. 0 \in T
  <2>1. f[0] = << data >>
    <3>1. 0 \in 0..n
      BY <1>1
    <3> QED
      BY <1>2, <3>1 DEF LevelsRule
  <2>2. << data >> \in Seq({data}) /\ Len(<< data >>) = 1 /\ << data >>[1] = data
    OBVIOUS
  <2>3. AreLevels(<< data >>, data)
    <3>1. IsSeq(<< data >>)
      BY <2>2, SeqIsSeq
    <3>2. \A j \in 1..1 : j = 1
      OBVIOUS
    <3>3. 2..1 = {}
      OBVIOUS
    <3> QED
      BY <2>2, <3>1, <3>2, <3>3 DEF AreLevels
  <2>4. TopOf(0) = data
    BY <2>1, <2>2
  <2>5. Len(TopOf(0)) <= n - 0
    BY <1>1, <2>4 DEF n
  <2> QED
    BY <2>1, <2>3, <2>5
<1>4. ASSUME NEW k \in Nat, k \in T
      PROVE  k + 1 \in T
  <2> SUFFICES ASSUME k + 1 <= n
               PROVE  /\ AreLevels(f[k + 1], data)
                      /\ Len(TopOf(k + 1)) <= 1 \/ Len(TopOf(k + 1)) <= n - (k + 1)
    OBVIOUS
  <2>1. k + 1 \in 0..n /\ k + 1 # 0 /\ (k + 1) - 1 = k /\ k <= n
    BY <1>1
  <2>2. f[k + 1] = LevelsOn(f[k])
    <3> DEFINE j == k + 1
    <3> HIDE DEF j
    <3>1. j \in 0..n /\ j # 0 /\ j - 1 = k
      BY <2>1 DEF j
    <3>2. f[j] = LevelsOn(f[j - 1])
      BY <1>2, <3>1 DEF LevelsRule, LevelsOn
    <3> QED
      BY <3>1, <3>2 DEF j
  <2>3. AreLevels(f[k], data) /\ (Len(TopOf(k)) <= 1 \/ Len(TopOf(k)) <= n - k)
    BY <1>4, <2>1
  <2> HIDE DEF TopOf
  <2>4. AreLevels(f[k + 1], data)
    BY <2>2, <2>3, LevelsStep
  <2>5. Len(TopOf(k + 1)) <= 1 \/ Len(TopOf(k + 1)) < Len(TopOf(k))
    BY <2>2, <2>3, LevelsStep DEF TopOf
  <2>6. ASSUME NEW i \in {k, k + 1}
        PROVE  Len(TopOf(i)) \in Nat
    <3>1. AreLevels(f[i], data)
      BY <2>3, <2>4
    <3>2. Len(f[i]) \in 1..Len(f[i])
      BY <3>1 DEF AreLevels, IsSeq
    <3>3. IsSeq(f[i][Len(f[i])])
      BY <3>1, <3>2 DEF AreLevels
    <3> QED
      BY <3>3 DEF IsSeq, TopOf
  <2>7. Len(TopOf(k + 1)) <= 1 \/ Len(TopOf(k + 1)) <= n - (k + 1)
    <3> DEFINE a == Len(TopOf(k))
               b == Len(TopOf(k + 1))
    <3>1. a \in Nat /\ b \in Nat /\ (a <= 1 \/ a <= n - k) /\ (b <= 1 \/ b < a)
      BY <2>3, <2>5, <2>6
    <3> HIDE DEF a, b
    <3>2. b <= 1 \/ b <= n - (k + 1)
      BY <1>1, <3>1
    <3> QED
      BY <3>2 DEF b
  <2> QED
    BY <2>4, <2>7
<1>5. Nat \subseteq T
  <2> HIDE DEF T
  <2> QED
    BY <1>3, <1>4, StepInduction
<1>6. AreLevels(f[n], data) /\ (Len(TopOf(n)) <= 1 \/ Len(TopOf(n)) <= n - n)
  <2>1. n <= n
    BY <1>1
  <2> QED
    BY <1>1, <1>5, <2>1
<1>7. Len(TopOf(n)) <= 1
  <2>1. Len(TopOf(n)) \in Nat
    <3>1. Len(f[n]) \in 1..Len(f[n])
      BY <1>6 DEF AreLevels, IsSeq
    <3>2. IsSeq(f[n][Len(f[n])])
      BY <1>6, <3>1 DEF AreLevels
    <3> QED
      BY <3>2 DEF IsSeq
  <2> HIDE DEF TopOf
  <2> QED
    BY <1>1, <1>6, <2>1
<1> QED
  BY <1>2, <1>6, <1>7

(* The sizes are those of the levels.                                      *)
LEMMA SameLevels ==
  ASSUME NEW data, IsSeq(data), Len(data) >= 1
  PROVE  LET ls == Levels(data)
             s == LevelSizes(Len(data))
         IN  /\ Len(ls) = Len(s) + 1
             /\ \A j \in 0..Len(s) : Len(ls[j + 1]) = LevelLen(s, Len(data), j)
<1> DEFINE n == Len(data)
           ls == Levels(data)
           s == LevelSizes(n)
<1>1. n \in Nat
  BY DEF IsSeq
<1>2. IsSizes(s, n)
  BY <1>1, LevelSizesAre
<1>3. AreLevels(ls, data) /\ Len(ls[Len(ls)]) <= 1
  BY LevelsAre
<1> HIDE DEF ls, s
<1>4. Len(s) \in Nat /\ Len(ls) \in Nat /\ Len(ls) >= 1 /\ ls[1] = data
  BY <1>2, <1>3 DEF IsSizes, AreLevels, IsSeq
<1> DEFINE T == {j \in Nat : j <= Len(s) => j + 1 <= Len(ls) /\ Len(ls[j + 1]) = LevelLen(s, n, j)}
<1>5. 0 \in T
  <2>1. 0 + 1 = 1 /\ LevelLen(s, n, 0) = n
    BY DEF LevelLen
  <2> QED
    BY <1>4, <2>1
<1>6. ASSUME NEW j \in Nat, j \in T
      PROVE  j + 1 \in T
  <2> SUFFICES ASSUME j + 1 <= Len(s)
               PROVE  (j + 1) + 1 <= Len(ls) /\ Len(ls[(j + 1) + 1]) = LevelLen(s, n, j + 1)
    OBVIOUS
  <2>1. j + 1 \in 1..Len(s) /\ (j + 1) - 1 = j /\ j <= Len(s) /\ j + 1 # 0 /\ j \in 0..Len(s)
    BY <1>4
  <2>2. j + 1 <= Len(ls) /\ Len(ls[j + 1]) = LevelLen(s, n, j)
    BY <1>6, <2>1
  <2>3. LevelLen(s, n, j) > 1 /\ s[j + 1] = BlocksFor(LevelLen(s, n, j)) /\ LevelLen(s, n, j) \in Nat
    BY <1>2, <2>1 DEF IsSizes
  <2>4. j + 1 # Len(ls)
    BY <1>3, <2>2, <2>3
  <2>5. (j + 1) + 1 \in 2..Len(ls) /\ ((j + 1) + 1) - 1 = j + 1 /\ j + 1 \in 1..Len(ls)
    BY <1>4, <2>2, <2>4
  <2>6. ls[(j + 1) + 1] = Group(Hashes(ls[j + 1])) /\ IsSeq(ls[j + 1])
    <3> DEFINE q == (j + 1) + 1
    <3>1. q \in 2..Len(ls) /\ q - 1 = j + 1
      BY <2>5
    <3> HIDE DEF q
    <3>2. ls[q] = Group(Hashes(ls[q - 1]))
      BY <1>3, <3>1 DEF AreLevels
    <3>3. IsSeq(ls[j + 1])
      BY <1>3, <2>5 DEF AreLevels
    <3> QED
      BY <3>1, <3>2, <3>3 DEF q
  <2>7. Len(ls[(j + 1) + 1]) = BlocksFor(Len(ls[j + 1]))
    <3>1. Len(Hashes(ls[j + 1])) = Len(ls[j + 1]) /\ Len(ls[j + 1]) \in Nat
      BY <2>6, HashesAre DEF IsSeq
    <3> QED
      BY <2>6, <3>1, GroupIs
  <2>8. LevelLen(s, n, j + 1) = s[j + 1]
    BY <2>1 DEF LevelLen
  <2> QED
    BY <2>2, <2>3, <2>5, <2>7, <2>8
<1>7. Nat \subseteq T
  <2> HIDE DEF T
  <2> QED
    BY <1>5, <1>6, StepInduction
<1>8. \A j \in 0..Len(s) : j + 1 <= Len(ls) /\ Len(ls[j + 1]) = LevelLen(s, n, j)
  BY <1>4, <1>7
<1>9. Len(ls) = Len(s) + 1
  <2>1. Len(s) + 1 <= Len(ls) /\ Len(ls[Len(s) + 1]) <= 1
    <3>1. Len(s) \in 0..Len(s)
      BY <1>4
    <3>2. LevelLen(s, n, Len(s)) <= 1
      BY <1>2 DEF IsSizes
    <3> QED
      BY <1>8, <3>1, <3>2
  <2>2. SUFFICES ASSUME Len(s) + 2 <= Len(ls) PROVE FALSE
    BY <1>4, <2>1
  <2> DEFINE q == Len(s) + 2
  <2>3. q \in 2..Len(ls) /\ q - 1 = Len(s) + 1
    BY <1>4, <2>2
  <2> HIDE DEF q
  <2>4. Len(ls[q - 1]) > 1
    BY <1>3, <2>3 DEF AreLevels
  <2>5. IsSeq(ls[Len(s) + 1])
    <3>1. Len(s) + 1 \in 1..Len(ls)
      BY <1>4, <2>1
    <3> QED
      BY <1>3, <3>1 DEF AreLevels
  <2>6. Len(ls[Len(s) + 1]) \in Nat
    BY <2>5 DEF IsSeq
  <2> QED
    BY <2>1, <2>3, <2>4, <2>6
<1> QED
  BY <1>8, <1>9 DEF ls, s

-----------------------------------------------------------------------------
(* Where each level is: the top level first.                               *)

(* What is known of the levels of an image of one block or more, and of    *)
(* the sums of their sizes.                                                *)
Tower(data, ls, s, t) ==
  /\ IsSeq(data) /\ Len(data) >= 1
  /\ ls = Levels(data) /\ s = LevelSizes(Len(data))
  /\ IsSeq(ls) /\ IsSeq(s) /\ Len(ls) = Len(s) + 1 /\ ls[1] = data
  /\ \A j \in 1..Len(ls) : IsSeq(ls[j]) /\ Len(ls[j]) >= 1
  /\ \A j \in 1..Len(s) : Len(ls[j]) > 1 /\ ls[j + 1] = Group(Hashes(ls[j])) /\ Len(ls[j + 1]) = s[j]
  /\ Len(ls[Len(ls)]) = 1
  /\ \A j \in 0..Len(s) : t[j] \in Nat
  /\ t[0] = 0
  /\ \A j \in 1..Len(s) : t[j] = t[j - 1] + s[j] /\ s[j] \in Nat /\ s[j] >= 1
  /\ Sums(t, s, Len(s))

LEMMA TowerIs ==
  ASSUME NEW data, IsSeq(data), Len(data) >= 1
  PROVE  \E t : Tower(data, Levels(data), LevelSizes(Len(data)), t)
<1> DEFINE n == Len(data)
           ls == Levels(data)
           s == LevelSizes(n)
<1>1. n \in Nat
  BY DEF IsSeq
<1>2. IsSizes(s, n)
  BY <1>1, LevelSizesAre
<1>3. AreLevels(ls, data) /\ Len(ls[Len(ls)]) <= 1
  BY LevelsAre
<1>4. /\ Len(ls) = Len(s) + 1
      /\ \A j \in 0..Len(s) : Len(ls[j + 1]) = LevelLen(s, n, j)
  BY SameLevels
<1> HIDE DEF ls, s
<1>5. Len(s) \in Nat /\ IsSeq(s) /\ IsSeq(ls) /\ ls[1] = data
  BY <1>2, <1>3 DEF IsSizes, AreLevels, IsSeq
<1>6. ASSUME NEW j \in 1..Len(s)
      PROVE  /\ Len(ls[j]) > 1 /\ ls[j + 1] = Group(Hashes(ls[j])) /\ Len(ls[j + 1]) = s[j]
             /\ s[j] \in Nat /\ s[j] >= 1
  <2>1. j \in 0..Len(s) /\ j - 1 \in 0..Len(s) /\ j # 0 /\ (j - 1) + 1 = j /\ j + 1 \in 2..Len(ls)
        /\ (j + 1) - 1 = j
    BY <1>4, <1>5
  <2>2. LevelLen(s, n, j) = s[j]
    BY <2>1 DEF LevelLen
  <2>3. Len(ls[j + 1]) = s[j]
    BY <1>4, <2>1, <2>2
  <2>4. LevelLen(s, n, j - 1) > 1 /\ s[j] = BlocksFor(LevelLen(s, n, j - 1)) /\ LevelLen(s, n, j - 1) \in Nat
    BY <1>2, <2>1 DEF IsSizes
  <2>5. Len(ls[(j - 1) + 1]) = LevelLen(s, n, j - 1)
    BY <1>4, <2>1
  <2>6. Len(ls[j]) > 1
    BY <2>1, <2>4, <2>5
  <2>7. ls[j + 1] = Group(Hashes(ls[j]))
    <3> DEFINE q == j + 1
    <3>1. q \in 2..Len(ls) /\ q - 1 = j
      BY <2>1
    <3> HIDE DEF q
    <3>2. ls[q] = Group(Hashes(ls[q - 1]))
      BY <1>3, <3>1 DEF AreLevels
    <3> QED
      BY <3>1, <3>2 DEF q
  <2>8. s[j] \in Nat /\ s[j] >= 1
    BY <2>4, BlocksShrink
  <2> QED
    BY <2>3, <2>6, <2>7, <2>8
<1>7. ASSUME NEW j \in 1..Len(ls)
      PROVE  IsSeq(ls[j]) /\ Len(ls[j]) >= 1
  <2>1. IsSeq(ls[j])
    BY <1>3 DEF AreLevels
  <2>2. CASE j = 1
    BY <1>5, <2>1, <2>2
  <2>3. CASE j # 1
    <3>1. j - 1 \in 1..Len(s) /\ (j - 1) + 1 = j
      BY <1>4, <1>5, <2>3
    <3>2. Len(ls[(j - 1) + 1]) = s[j - 1] /\ s[j - 1] >= 1
      BY <1>6, <3>1
    <3> QED
      BY <2>1, <3>1, <3>2
  <2> QED
    BY <2>2, <2>3
<1>8. Len(ls[Len(ls)]) = 1
  <2>1. Len(ls) \in 1..Len(ls)
    BY <1>4, <1>5
  <2>2. IsSeq(ls[Len(ls)]) /\ Len(ls[Len(ls)]) >= 1
    BY <1>7, <2>1
  <2>3. Len(ls[Len(ls)]) \in Nat
    BY <2>2 DEF IsSeq
  <2> DEFINE q == Len(ls[Len(ls)])
  <2>4. q \in Nat /\ q <= 1 /\ q >= 1
    BY <1>3, <2>2, <2>3
  <2> HIDE DEF q
  <2>5. q = 1
    BY <2>4
  <2> QED
    BY <2>5 DEF q
<1>9. PICK t : Sums(t, s, Len(s))
  BY <1>5, SumsExist
<1>10. /\ \A j \in 0..Len(s) : t[j] \in Nat
       /\ t[0] = 0 /\ \A j \in 1..Len(s) : t[j] = t[j - 1] + s[j]
  <2>1. \A j \in 1..Len(s) : s[j] \in Nat
    BY <1>6
  <2> QED
    BY <1>5, <1>9, <2>1, SumsAre
<1>11. Tower(data, ls, s, t)
  <2>1. ls = Levels(data) /\ s = LevelSizes(Len(data))
    BY DEF ls, s
  <2> QED
    BY <1>4, <1>5, <1>6, <1>7, <1>8, <1>9, <1>10, <2>1 DEF Tower
<1> QED
  BY <1>11 DEF ls, s

LEMMA OffsetsAre ==
  ASSUME NEW data, NEW ls, NEW s, NEW t, Tower(data, ls, s, t)
  PROVE  /\ TreeSize(Len(data)) = t[Len(s)]
         /\ \A i \in 1..Len(s) : LevelOffsets(Len(data))[i] = t[Len(s)] - t[i]
<1> DEFINE H == Len(s)
<1>1. H \in Nat /\ IsSeq(s) /\ s = LevelSizes(Len(data)) /\ Sums(t, s, H)
      /\ (\A j \in 1..H : s[j] \in Nat) /\ t[0] = 0 /\ \A j \in 0..H : t[j] \in Nat
  BY DEF Tower, IsSeq
<1>2. ASSUME NEW m \in 0..H
      PROVE  Total(SubSeq(s, m + 1, H)) = t[H] - t[m]
  BY <1>1, SumOfPart
<1>3. Total(s) = t[H]
  <2>1. Total(SubSeq(s, 0 + 1, H)) = t[H] - t[0]
    <3>1. 0 \in 0..H
      BY <1>1
    <3> QED
      BY <1>2, <3>1
  <2>2. SubSeq(s, 0 + 1, H) = s
    <3>1. 0 \in Nat /\ H \in Nat /\ 0 <= H /\ H <= Len(s)
      BY <1>1
    <3>2. IsPart(SubSeq(s, 0 + 1, H), s, 0, H)
      <4> DEFINE z == 0
      <4>1. z \in Nat /\ z <= H /\ H <= Len(s)
        BY <3>1
      <4> HIDE DEF z, H
      <4>2. IsPart(SubSeq(s, z + 1, H), s, z, H)
        BY <1>1, <4>1, SubSeqIs
      <4> QED
        BY <4>2 DEF z
    <3>3. H - 0 = H /\ \A k \in 1..H : 0 + k = k
      BY <1>1
    <3>4. IsSeq(SubSeq(s, 0 + 1, H)) /\ Len(SubSeq(s, 0 + 1, H)) = Len(s)
          /\ \A k \in 1..Len(s) : SubSeq(s, 0 + 1, H)[k] = s[k]
      BY <3>2, <3>3 DEF IsPart
    <3> QED
      BY <1>1, <3>4, IsSeqEqual
  <2>3. t[H] \in Nat /\ t[0] = 0
    BY <1>1
  <2>4. Total(s) = t[H] - t[0]
    BY <2>1, <2>2, Zenon
  <2> DEFINE q == t[H]
  <2> HIDE DEF q
  <2>5. q \in Nat /\ Total(s) = q - 0
    BY <2>3, <2>4 DEF q
  <2>6. Total(s) = q
    BY <2>5
  <2> QED
    BY <2>6 DEF q
<1>4. TreeSize(Len(data)) = t[H]
  BY <1>1, <1>3 DEF TreeSize
<1>5. ASSUME NEW i \in 1..H
      PROVE  LevelOffsets(Len(data))[i] = t[H] - t[i]
  <2>1. i \in 0..H /\ DOMAIN s = 1..H
    <3>1. DOMAIN s = 1..H
      BY <1>1 DEF IsSeq
    <3> QED
      BY <1>1, <3>1
  <2>2. LevelOffsets(Len(data)) = [k \in DOMAIN s |-> Total(SubSeq(s, k + 1, Len(s)))]
    BY <1>1 DEF LevelOffsets
  <2>3. LevelOffsets(Len(data))[i] = Total(SubSeq(s, i + 1, H))
    BY <2>1, <2>2
  <2> QED
    BY <1>2, <2>1, <2>3
<1> QED
  BY <1>4, <1>5

(* Each cell of the tree is in one level, and in one only.                 *)
InLevel(s, t, x) == \E i \in 1..Len(s) : \E b \in 1..s[i] : x = (t[Len(s)] - t[i]) + b

LEMMA LevelOfCell ==
  ASSUME NEW data, NEW ls, NEW s, NEW t, NEW x, Tower(data, ls, s, t), x \in 1..t[Len(s)]
  PROVE  InLevel(s, t, x)
<1> SUFFICES \E i \in 1..Len(s) : \E b \in 1..s[i] : x = (t[Len(s)] - t[i]) + b
  BY DEF InLevel
<1> DEFINE H == Len(s)
           y == t[H] - x
           T == {i \in 0..H : t[i] > y}
<1>1. H \in Nat /\ t[0] = 0 /\ (\A j \in 0..H : t[j] \in Nat)
      /\ \A j \in 1..H : t[j] = t[j - 1] + s[j] /\ s[j] \in Nat
  BY DEF Tower, IsSeq
<1> HIDE DEF H
<1>2. t[H] \in Nat /\ H \in 0..H /\ 0 \in 0..H
  BY <1>1
<1>3. x \in 1..t[H]
  BY DEF H
<1>4. y \in Nat /\ t[H] > y
  BY <1>2, <1>3
<1> HIDE DEF y
<1>5. H \in T /\ T \subseteq Nat
  BY <1>1, <1>2, <1>4
<1>6. PICK i \in T : \A j \in T : i <= j
  <2> HIDE DEF T
  <2>1. T \in SUBSET Nat /\ T # {}
    BY <1>5
  <2> QED
    BY <2>1, NatLeast
<1>7. i # 0
  BY <1>1, <1>4, <1>6
<1>8. i \in 1..H /\ i - 1 \in 0..H
  BY <1>1, <1>6, <1>7
<1>9. ~(t[i - 1] > y)
  <2>1. i - 1 \notin T
    <3> SUFFICES ASSUME i - 1 \in T PROVE FALSE
      OBVIOUS
    <3>1. i <= i - 1
      BY <1>6
    <3> QED
      BY <1>8, <3>1
  <2> QED
    BY <1>8, <2>1
<1>10. t[i] > y /\ t[i] = t[i - 1] + s[i] /\ s[i] \in Nat /\ t[i] \in Nat /\ t[i - 1] \in Nat
  BY <1>1, <1>6, <1>8
<1> DEFINE b == t[i] - y
<1>11. b \in 1..s[i]
  BY <1>4, <1>9, <1>10
<1>12. x = (t[H] - t[i]) + b
  <2>1. y = t[H] - x
    BY DEF y
  <2> QED
    BY <1>2, <1>3, <1>10, <2>1
<1> QED
  BY <1>8, <1>11, <1>12 DEF H

LEMMA LevelsApart ==
  ASSUME NEW data, NEW ls, NEW s, NEW t, NEW i, NEW j, NEW b, NEW c, Tower(data, ls, s, t),
         i \in 1..Len(s), j \in 1..Len(s), i < j, b \in 1..s[i], c \in 1..s[j]
  PROVE  /\ (t[Len(s)] - t[i]) + b # (t[Len(s)] - t[j]) + c
         /\ (t[Len(s)] - t[i]) + b \in 1..t[Len(s)]
         /\ (t[Len(s)] - t[j]) + c \in 1..t[Len(s)]
<1> DEFINE H == Len(s)
<1>1. H \in Nat /\ (\A k \in 0..H : t[k] \in Nat) /\ Sums(t, s, H)
      /\ \A k \in 1..H : t[k] = t[k - 1] + s[k] /\ s[k] \in Nat
  BY DEF Tower, IsSeq
<1>2. i \in 1..H /\ j \in 1..H
  OBVIOUS
<1> HIDE DEF H
<1>3. i \in 0..H /\ j \in i..H /\ i - 1 \in 0..H /\ j - 1 \in 0..H /\ j - 1 \in i..H /\ H \in j..H
      /\ H \in i..H /\ j \in 0..H /\ H \in 0..H
  BY <1>1, <1>2
<1>4. \A k \in 1..H : s[k] \in Nat
  BY <1>1
<1>5. t[i] <= t[j - 1]
  BY <1>1, <1>3, <1>4, SumsGrow
<1>6. t[j] <= t[H]
  BY <1>1, <1>3, <1>4, SumsGrow
<1>7. t[i] <= t[H]
  BY <1>1, <1>3, <1>4, SumsGrow
<1>8. /\ t[i] = t[i - 1] + s[i] /\ t[j] = t[j - 1] + s[j] /\ s[i] \in Nat /\ s[j] \in Nat
      /\ t[i] \in Nat /\ t[j] \in Nat /\ t[i - 1] \in Nat /\ t[j - 1] \in Nat /\ t[H] \in Nat
  BY <1>1, <1>2, <1>3
<1> DEFINE p == t[i]
           q == t[j]
           p1 == t[i - 1]
           q1 == t[j - 1]
           h == t[H]
           u == s[i]
           v == s[j]
<1>9. /\ p = p1 + u /\ q = q1 + v /\ p <= q1 /\ q <= h /\ p <= h /\ b \in 1..u /\ c \in 1..v
      /\ p \in Nat /\ q \in Nat /\ p1 \in Nat /\ q1 \in Nat /\ h \in Nat /\ u \in Nat /\ v \in Nat
  BY <1>5, <1>6, <1>7, <1>8
<1> HIDE DEF p, q, p1, q1, h, u, v
<1>10. (h - p) + b # (h - q) + c /\ (h - p) + b \in 1..h /\ (h - q) + c \in 1..h
  BY <1>9
<1> QED
  BY <1>10 DEF p, q, h, H

LEMMA LevelInside ==
  ASSUME NEW data, NEW ls, NEW s, NEW t, NEW i, NEW b, Tower(data, ls, s, t),
         i \in 1..Len(s), b \in 1..s[i]
  PROVE  (t[Len(s)] - t[i]) + b \in 1..t[Len(s)]
<1> DEFINE H == Len(s)
<1>1. H \in Nat /\ (\A k \in 0..H : t[k] \in Nat) /\ Sums(t, s, H)
      /\ \A k \in 1..H : t[k] = t[k - 1] + s[k] /\ s[k] \in Nat
  BY DEF Tower, IsSeq
<1>2. i \in 1..H
  OBVIOUS
<1> HIDE DEF H
<1>3. i \in 0..H /\ i - 1 \in 0..H /\ H \in i..H /\ H \in 0..H
  BY <1>1, <1>2
<1>4. \A k \in 1..H : s[k] \in Nat
  BY <1>1
<1>5. t[i] <= t[H]
  BY <1>1, <1>3, <1>4, SumsGrow
<1>6. t[i] = t[i - 1] + s[i] /\ s[i] \in Nat /\ t[i] \in Nat /\ t[i - 1] \in Nat /\ t[H] \in Nat
  BY <1>1, <1>2, <1>3
<1> DEFINE p == t[i]
           p1 == t[i - 1]
           h == t[H]
           u == s[i]
<1>7. /\ p = p1 + u /\ p <= h /\ b \in 1..u
      /\ p \in Nat /\ p1 \in Nat /\ h \in Nat /\ u \in Nat
  BY <1>5, <1>6
<1> HIDE DEF p, p1, h, u
<1>8. (h - p) + b \in 1..h
  BY <1>7
<1> QED
  BY <1>8 DEF p, h, H

-----------------------------------------------------------------------------
(* Sequences behind each other.                                            *)

(* Where each of the first n sequences begins.                             *)
Offsets(r, w, n) ==
  /\ r[0] = 0 /\ \A k \in 0..n : r[k] \in Nat
  /\ \A k \in 1..n : r[k] = r[k - 1] + Len(w[k]) /\ IsSeq(w[k])

LEMMA OffsetsExist ==
  ASSUME NEW w, NEW n, n \in Nat, \A k \in 1..n : IsSeq(w[k])
  PROVE  \E r : Offsets(r, w, n)
<1> DEFINE ns == [k \in 1..n |-> Len(w[k])]
<1>1. \A k \in 1..n : ns[k] = Len(w[k]) /\ ns[k] \in Nat
  BY DEF IsSeq
<1> HIDE DEF ns
<1>2. PICK r : Sums(r, ns, n)
  BY SumsExist
<1>3. /\ \A k \in 0..n : r[k] \in Nat
      /\ r[0] = 0 /\ \A k \in 1..n : r[k] = r[k - 1] + ns[k]
  BY <1>1, <1>2, SumsAre
<1> QED
  BY <1>1, <1>3 DEF Offsets

(* What is behind the first n grows with n.                                *)
LEMMA OffsetsGrow ==
  ASSUME NEW r, NEW w, NEW n, NEW i, NEW j, n \in Nat, i \in 0..n, j \in i..n, Offsets(r, w, n)
  PROVE  r[i] <= r[j]
<1> DEFINE ns == [k \in 1..n |-> Len(w[k])]
<1>1. \A k \in 1..n : ns[k] = Len(w[k]) /\ ns[k] \in Nat
  BY DEF Offsets, IsSeq
<1> HIDE DEF ns
<1>2. \A k \in 0..n : r[k] = IF k = 0 THEN 0 ELSE r[k - 1] + ns[k]
  BY <1>1 DEF Offsets
<1>3. Sums(r, ns, n)
  BY <1>2 DEF Sums
<1> QED
  BY <1>1, <1>3, SumsGrow

Flats(f, g, n) == \A k \in 1..n : f[k] = IF k = 1 THEN g[k] ELSE f[k - 1] \o g[k]

LEMMA FlatsExist ==
  ASSUME NEW g
  PROVE  \A n \in Nat : \E f : Flats(f, g, n)
<1> DEFINE T == {n \in Nat : \E f : Flats(f, g, n)}
<1>1. 0 \in T
  <2>1. Flats(<< >>, g, 0)
    BY DEF Flats
  <2> QED
    BY <2>1
<1>2. ASSUME NEW n \in Nat, n \in T
      PROVE  n + 1 \in T
  <2>1. PICK f : Flats(f, g, n)
    BY <1>2
  <2> DEFINE e == IF n + 1 = 1 THEN g[n + 1] ELSE f[n] \o g[n + 1]
             d == [k \in 1..(n + 1) |-> IF k = n + 1 THEN e ELSE f[k]]
  <2>2. ASSUME NEW k \in 1..(n + 1)
        PROVE  d[k] = IF k = 1 THEN g[k] ELSE d[k - 1] \o g[k]
    <3>1. CASE k = n + 1
      <4>1. d[k] = e /\ k - 1 = n
        BY <3>1
      <4>2. CASE k = 1
        BY <3>1, <4>1, <4>2
      <4>3. CASE k # 1
        <5>1. n \in 1..(n + 1) /\ n # n + 1
          BY <3>1, <4>3
        <5>2. d[n] = f[n]
          BY <5>1
        <5> QED
          BY <3>1, <4>1, <4>3, <5>2
      <4> QED
        BY <4>2, <4>3
    <3>2. CASE k # n + 1
      <4>1. k \in 1..n /\ (k # 1 => k - 1 \in 1..(n + 1) /\ k - 1 # n + 1)
        BY <3>2
      <4>2. f[k] = IF k = 1 THEN g[k] ELSE f[k - 1] \o g[k]
        BY <2>1, <4>1 DEF Flats
      <4>3. d[k] = f[k] /\ (k # 1 => d[k - 1] = f[k - 1])
        BY <3>2, <4>1
      <4> QED
        BY <4>2, <4>3
    <3> QED
      BY <3>1, <3>2
  <2>3. Flats(d, g, n + 1)
    <3> HIDE DEF d
    <3> QED
      BY <2>2 DEF Flats
  <2> QED
    BY <2>3
<1>3. Nat \subseteq T
  <2> HIDE DEF T
  <2> QED
    BY <1>1, <1>2, StepInduction
<1> QED
  BY <1>3

LEMMA FlattenDef ==
  ASSUME NEW g, Len(g) \in Nat, Len(g) # 0
  PROVE  \E f : Flats(f, g, Len(g)) /\ FlattenSeq(g) = f[Len(g)]
<1> DEFINE n == Len(g)
           Is(f) == f = [k \in 1..n |-> IF k = 1 THEN g[k] ELSE f[k - 1] \o g[k]]
<1>1. PICK d : Flats(d, g, n)
  BY FlatsExist
<1> DEFINE e == [k \in 1..n |-> d[k]]
<1>2. Is(e)
  <2>1. ASSUME NEW k \in 1..n
        PROVE  e[k] = IF k = 1 THEN g[k] ELSE e[k - 1] \o g[k]
    <3>1. d[k] = IF k = 1 THEN g[k] ELSE d[k - 1] \o g[k]
      BY <1>1 DEF Flats
    <3>2. k # 1 => k - 1 \in 1..n
      OBVIOUS
    <3>3. e[k] = d[k] /\ (k # 1 => e[k - 1] = d[k - 1])
      BY <3>2
    <3> QED
      BY <3>1, <3>3
  <2>2. e = [k \in 1..n |-> e[k]]
    OBVIOUS
  <2> HIDE DEF e, n
  <2> QED
    BY <2>1, <2>2 DEF n
<1>3. PICK b : b = (CHOOSE x : Is(x)) /\ Is(b)
  <2> HIDE DEF Is
  <2> QED
    BY <1>2
<1>4. FlattenSeq(g) = b[n]
  BY <1>3 DEF FlattenSeq
<1>5. Flats(b, g, n)
  BY <1>3 DEF Flats
<1> QED
  BY <1>4, <1>5

FlatIs(f, w, r, n) ==
  /\ IsSeq(f) /\ Len(f) = r[n]
  /\ \A i \in 1..n : \A j \in 1..Len(w[i]) : f[r[i - 1] + j] = w[i][j]

LEMMA FlatGrows ==
  ASSUME NEW w, NEW r, NEW n, NEW k, NEW f, n \in Nat, k \in 0..n, k + 1 \in 1..n,
         Offsets(r, w, n), FlatIs(f, w, r, k)
  PROVE  FlatIs(f \o w[k + 1], w, r, k + 1)
<1> DEFINE c == w[k + 1]
           g == f \o c
<1>1. /\ IsSeq(c) /\ IsSeq(f) /\ Len(f) = r[k] /\ Len(f) \in Nat /\ Len(c) \in Nat
      /\ r[k + 1] = r[k] + Len(c) /\ k \in Nat /\ (k + 1) - 1 = k
  <2>1. (k + 1) - 1 = k /\ k \in Nat
    OBVIOUS
  <2>2. r[k + 1] = r[(k + 1) - 1] + Len(c) /\ IsSeq(c)
    BY DEF Offsets
  <2> QED
    BY <2>1, <2>2 DEF FlatIs, IsSeq
<1> HIDE DEF c
<1>2. IsBehind(g, f, c)
  BY <1>1, ConcatIs
<1> HIDE DEF g
<1>3. /\ IsSeq(g) /\ Len(g) = Len(f) + Len(c)
      /\ \A i \in 1..Len(f) : g[i] = f[i]
      /\ \A i \in 1..Len(c) : g[Len(f) + i] = c[i]
  BY <1>2 DEF IsBehind
<1>4. ASSUME NEW i \in 1..(k + 1), NEW j \in 1..Len(w[i])
      PROVE  g[r[i - 1] + j] = w[i][j]
  <2>1. CASE i = k + 1
    <3>1. i - 1 = k /\ w[i] = c /\ j \in 1..Len(c)
      BY <1>1, <2>1 DEF c
    <3> QED
      BY <1>1, <1>3, <3>1
  <2>2. CASE i # k + 1
    <3>1. i \in 1..k /\ i \in 1..n /\ i - 1 \in 0..n /\ i \in 0..n /\ k \in i..n
      BY <1>1, <2>2
    <3>2. f[r[i - 1] + j] = w[i][j]
      BY <3>1 DEF FlatIs
    <3>3. r[i] <= r[k]
      BY <3>1, OffsetsGrow
    <3>4. r[i] = r[i - 1] + Len(w[i]) /\ r[i - 1] \in Nat /\ Len(w[i]) \in Nat
      BY <3>1 DEF Offsets, IsSeq
    <3>5. r[i - 1] + j \in 1..Len(f)
      <4> DEFINE a == r[i - 1]
                 u == Len(w[i])
                 h == Len(f)
      <4>1. a + u <= h /\ a \in Nat /\ u \in Nat /\ h \in Nat /\ j \in 1..u
        BY <1>1, <3>3, <3>4
      <4> HIDE DEF a, u, h
      <4>2. a + j \in 1..h
        BY <4>1
      <4> QED
        BY <4>2 DEF a, h
    <3> QED
      BY <1>3, <3>2, <3>5
  <2> QED
    BY <2>1, <2>2
<1>5. FlatIs(g, w, r, k + 1)
  BY <1>1, <1>3, <1>4 DEF FlatIs
<1> QED
  BY <1>5 DEF g, c

(* Each of the sequences is where the lengths of those before it say.      *)
LEMMA FlattenIs ==
  ASSUME NEW w, NEW r, IsSeq(w), Offsets(r, w, Len(w))
  PROVE  FlatIs(FlattenSeq(w), w, r, Len(w))
<1> DEFINE n == Len(w)
<1>1. n \in Nat /\ r[0] = 0
  BY DEF IsSeq, Offsets
<1>2. CASE n = 0
  <2>1. FlattenSeq(w) = w
    BY <1>2 DEF FlattenSeq
  <2>2. Len(w) = 0 /\ 1..0 = {}
    BY <1>2
  <2> QED
    BY <1>1, <2>1, <2>2 DEF FlatIs
<1>3. CASE n # 0
  <2>1. PICK f : Flats(f, w, n) /\ FlattenSeq(w) = f[n]
    BY <1>1, <1>3, FlattenDef
  <2> DEFINE T == {k \in Nat : k + 1 <= n => FlatIs(f[k + 1], w, r, k + 1)}
  <2>2. Offsets(r, w, n)
    OBVIOUS
  <2> HIDE DEF n
  <2>3. 0 \in T
    <3>1. 1 \in 1..n /\ 1 - 1 = 0 /\ 0 + 1 = 1 /\ 1..1 = {1}
      BY <1>1, <1>3
    <3>2. f[1] = w[1]
      BY <2>1, <3>1 DEF Flats
    <3>3. r[1] = r[0] + Len(w[1]) /\ IsSeq(w[1]) /\ Len(w[1]) \in Nat
      <4>1. r[1] = r[1 - 1] + Len(w[1]) /\ IsSeq(w[1])
        BY <2>2, <3>1 DEF Offsets
      <4> QED
        BY <3>1, <4>1 DEF IsSeq
    <3>4. r[1] = Len(w[1]) /\ \A j \in 1..Len(w[1]) : r[0] + j = j
      BY <1>1, <3>3
    <3>5. FlatIs(f[1], w, r, 1)
      <4>1. ASSUME NEW i \in 1..1, NEW j \in 1..Len(w[i])
            PROVE  f[1][r[i - 1] + j] = w[i][j]
        <5>1. i = 1 /\ i - 1 = 0
          BY <3>1
        <5> QED
          BY <3>2, <3>4, <5>1
      <4> QED
        BY <3>2, <3>3, <3>4, <4>1 DEF FlatIs
    <3> QED
      BY <3>1, <3>5
  <2>4. ASSUME NEW k \in Nat, k \in T
        PROVE  k + 1 \in T
    <3> SUFFICES ASSUME (k + 1) + 1 <= n
                 PROVE  FlatIs(f[(k + 1) + 1], w, r, (k + 1) + 1)
      OBVIOUS
    <3> DEFINE m == k + 1
    <3>1. m \in 0..n /\ m + 1 \in 1..n /\ m + 1 # 1 /\ (m + 1) - 1 = m
      BY <1>1
    <3>2. FlatIs(f[m], w, r, m)
      BY <2>4, <3>1
    <3> HIDE DEF m
    <3>3. f[m + 1] = f[m] \o w[m + 1]
      BY <2>1, <3>1 DEF Flats
    <3>4. FlatIs(f[m] \o w[m + 1], w, r, m + 1)
      BY <1>1, <2>2, <3>1, <3>2, FlatGrows
    <3> QED
      BY <3>3, <3>4 DEF m
  <2>5. Nat \subseteq T
    <3> HIDE DEF T
    <3> QED
      BY <2>3, <2>4, StepInduction
  <2>6. n - 1 \in Nat /\ (n - 1) + 1 = n
    BY <1>1, <1>3
  <2>7. FlatIs(f[n], w, r, n)
    BY <2>5, <2>6
  <2> QED
    BY <2>1, <2>7 DEF n
<1> QED
  BY <1>2, <1>3

-----------------------------------------------------------------------------
(* The tree that dm-verity expects, cell by cell.                          *)

LEMMA TailIs ==
  ASSUME NEW s, IsSeq(s), Len(s) >= 1
  PROVE  IsSeq(Tail(s)) /\ Len(Tail(s)) = Len(s) - 1 /\ \A k \in 1..(Len(s) - 1) : Tail(s)[k] = s[k + 1]
<1>1. PICK S : s \in Seq(S)
  BY IsSeqOf
<1>2. s # << >>
  OBVIOUS
<1>3. Tail(s) \in Seq(S) /\ Len(Tail(s)) = Len(s) - 1
  BY <1>1, <1>2
<1>4. ASSUME NEW k \in 1..(Len(s) - 1)
      PROVE  Tail(s)[k] = s[k + 1]
  BY <1>1, <1>2
<1> QED
  BY <1>3, <1>4, SeqIsSeq

LEMMA ReverseIs ==
  ASSUME NEW s, IsSeq(s)
  PROVE  IsSeq(Reverse(s)) /\ Len(Reverse(s)) = Len(s)
         /\ \A k \in 1..Len(s) : Reverse(s)[k] = s[(Len(s) - k) + 1]
<1> DEFINE n == Len(s)
           f == [k \in 1..n |-> s[(n - k) + 1]]
           S == {s[k] : k \in 1..n}
<1>1. n \in Nat /\ Reverse(s) = f
  BY DEF IsSeq, Reverse
<1>2. \A k \in 1..n : (n - k) + 1 \in 1..n
  BY <1>1
<1>3. \A k \in 1..n : s[(n - k) + 1] \in S
  BY <1>2
<1> HIDE DEF S, n
<1>4. f \in [1..n -> S]
  BY <1>3
<1>5. f \in Seq(S) /\ Len(f) = n
  BY <1>1, <1>4
<1>6. \A k \in 1..n : f[k] = s[(n - k) + 1]
  OBVIOUS
<1>7. IsSeq(f)
  BY <1>5, SeqIsSeq
<1> QED
  BY <1>1, <1>5, <1>6, <1>7 DEF n

LEMMA VerityTreeIs ==
  ASSUME NEW data, NEW ls, NEW s, NEW t, Tower(data, ls, s, t)
  PROVE  /\ IsSeq(VerityTree(data)) /\ Len(VerityTree(data)) = t[Len(s)]
         /\ \A i \in 1..Len(s) : \A b \in 1..s[i] :
              VerityTree(data)[(t[Len(s)] - t[i]) + b] = ls[i + 1][b]
         /\ VerityRoot(data) = Hash(ls[Len(ls)][1])
<1> DEFINE H == Len(s)
           u == Tail(ls)
           w == Reverse(u)
           r == [k \in 0..H |-> t[H] - t[H - k]]
<1>1. /\ ls = Levels(data) /\ H \in Nat /\ IsSeq(ls) /\ Len(ls) = H + 1
      /\ (\A j \in 1..Len(ls) : IsSeq(ls[j]))
      /\ (\A j \in 1..H : Len(ls[j + 1]) = s[j] /\ t[j] = t[j - 1] + s[j] /\ s[j] \in Nat)
      /\ \A j \in 0..H : t[j] \in Nat
      /\ Sums(t, s, H)
  BY DEF Tower, IsSeq
<1>2. VerityTree(data) = FlattenSeq(w) /\ VerityRoot(data) = Hash(ls[Len(ls)][1])
  BY <1>1 DEF VerityTree, VerityRoot
<1>3. IsSeq(u) /\ Len(u) = H /\ \A k \in 1..H : u[k] = ls[k + 1]
  <2>1. Len(ls) >= 1 /\ Len(ls) - 1 = H
    BY <1>1
  <2> QED
    BY <1>1, <2>1, TailIs
<1> HIDE DEF u
<1>4. IsSeq(w) /\ Len(w) = H /\ \A k \in 1..H : w[k] = u[(H - k) + 1]
  BY <1>3, ReverseIs
<1> HIDE DEF w, H
<1>5. ASSUME NEW k \in 1..H
      PROVE  /\ w[k] = ls[((H - k) + 1) + 1] /\ (H - k) + 1 \in 1..H
             /\ Len(w[k]) = s[(H - k) + 1] /\ IsSeq(w[k])
  <2> DEFINE q == (H - k) + 1
  <2>1. q \in 1..H /\ q + 1 \in 1..Len(ls)
    BY <1>1
  <2>2. w[k] = u[q]
    BY <1>4
  <2> HIDE DEF q
  <2>3. u[q] = ls[q + 1] /\ Len(ls[q + 1]) = s[q] /\ IsSeq(ls[q + 1])
    BY <1>1, <1>3, <2>1
  <2> QED
    BY <2>1, <2>2, <2>3 DEF q
<1>6. Offsets(r, w, H)
  <2>1. \A k \in 0..H : r[k] = t[H] - t[H - k] /\ H - k \in 0..H /\ H \in 0..H
    BY <1>1
  <2> HIDE DEF r
  <2>2. r[0] = 0
    <3>1. r[0] = t[H] - t[H - 0] /\ H - 0 = H /\ t[H] \in Nat
      BY <1>1, <2>1
    <3> QED
      BY <3>1
  <2>3. ASSUME NEW k \in 0..H
        PROVE  r[k] \in Nat
    <3> DEFINE q == H - k
    <3>1. q \in 0..H /\ H \in q..H
      BY <1>1
    <3>2. r[k] = t[H] - t[q]
      BY <2>1
    <3> HIDE DEF q
    <3>3. t[q] <= t[H]
      <4>1. \A j \in 1..H : s[j] \in Nat
        BY <1>1
      <4> QED
        BY <1>1, <3>1, <4>1, SumsGrow
    <3>4. t[q] \in Nat /\ t[H] \in Nat
      BY <1>1, <3>1
    <3> QED
      BY <3>2, <3>3, <3>4
  <2>4. ASSUME NEW k \in 1..H
        PROVE  r[k] = r[k - 1] + Len(w[k]) /\ IsSeq(w[k])
    <3> DEFINE q == (H - k) + 1
    <3>1. q \in 1..H /\ H - k = q - 1 /\ H - (k - 1) = q /\ k - 1 \in 0..H /\ k \in 0..H
          /\ q \in 0..H /\ q - 1 \in 0..H /\ H \in 0..H
      BY <1>1
    <3>2. r[k] = t[H] - t[q - 1] /\ r[k - 1] = t[H] - t[q]
      <4>1. r[k] = t[H] - t[H - k] /\ r[k - 1] = t[H] - t[H - (k - 1)]
        BY <2>1, <3>1
      <4> QED
        BY <3>1, <4>1
    <3>3. Len(w[k]) = s[q] /\ IsSeq(w[k])
      BY <1>5
    <3> HIDE DEF q
    <3>4. t[q] = t[q - 1] + s[q] /\ s[q] \in Nat /\ t[q] \in Nat /\ t[q - 1] \in Nat /\ t[H] \in Nat
      BY <1>1, <3>1
    <3> QED
      BY <3>2, <3>3, <3>4
  <2> QED
    BY <2>2, <2>3, <2>4 DEF Offsets
<1>7. FlatIs(FlattenSeq(w), w, r, H)
  BY <1>4, <1>6, FlattenIs
<1>8. \A k \in 0..H : r[k] = t[H] - t[H - k]
  OBVIOUS
<1> HIDE DEF r
<1>9. IsSeq(FlattenSeq(w)) /\ Len(FlattenSeq(w)) = t[H]
  <2>1. H - H = 0 /\ H \in 0..H /\ t[H] \in Nat /\ t[0] = 0
    BY <1>1 DEF Tower
  <2>2. r[H] = t[H] - t[0]
    BY <1>8, <2>1
  <2> QED
    BY <1>7, <2>1, <2>2 DEF FlatIs
<1>10. ASSUME NEW i \in 1..H, NEW b \in 1..s[i]
       PROVE  FlattenSeq(w)[(t[H] - t[i]) + b] = ls[i + 1][b]
  <2> DEFINE k == (H - i) + 1
  <2>1. k \in 1..H /\ k - 1 = H - i /\ (H - k) + 1 = i /\ k - 1 \in 0..H /\ H - (k - 1) = i
    BY <1>1
  <2> HIDE DEF k
  <2>2. w[k] = ls[i + 1] /\ Len(w[k]) = s[i]
    BY <1>5, <2>1
  <2>3. r[k - 1] = t[H] - t[i]
    BY <1>8, <2>1
  <2>4. FlattenSeq(w)[r[k - 1] + b] = w[k][b]
    BY <1>7, <2>1, <2>2 DEF FlatIs
  <2> QED
    BY <2>2, <2>3, <2>4
<1> QED
  BY <1>2, <1>9, <1>10 DEF H

-----------------------------------------------------------------------------
(* The loop of generate_hash_tree.                                         *)

IsGen(g) ==
  g = [size |-> g.size, level |-> g.level, src |-> g.src, remaining |-> g.remaining,
       out |-> g.out, tree |-> g.tree, root |-> g.root]

(* The levels up to L are in place.                                        *)
Filled(tree, ls, s, t, L) ==
  /\ IsSeq(tree) /\ Len(tree) = t[Len(s)]
  /\ \A i \in 1..L : \A b \in 1..s[i] : tree[(t[Len(s)] - t[i]) + b] = ls[i + 1][b]

(* In the middle of a level: src - remaining of its blocks are hashed.     *)
InLoop(g, ls, s, t) ==
  /\ IsGen(g) /\ g.size = Len(ls[1]) /\ g.root = NoHash
  /\ g.level \in 0..Len(s) /\ (Len(s) > 0 => g.level < Len(s))
  /\ g.src = Len(ls[g.level + 1]) /\ g.remaining \in 1..g.src
  /\ IsSeq(g.out) /\ Len(g.out) = g.src - g.remaining
  /\ \A k \in 1..Len(g.out) : g.out[k] = Hash(ls[g.level + 1][k])
  /\ Filled(g.tree, ls, s, t, g.level)

Complete(g, data) == IsGen(g) /\ g.size = Len(data) /\ g.root = VerityRoot(data) /\ g.tree = VerityTree(data)

Running(g, data) ==
  \/ \E t : /\ Tower(data, Levels(data), LevelSizes(Len(data)), t)
            /\ InLoop(g, Levels(data), LevelSizes(Len(data)), t)
  \/ Complete(g, data)

LEMMA NotZeros ==
  ASSUME NEW x
  PROVE  Hash(x) # NoHash
<1>1. Hash(x)[1] = "hash"
  BY DEF Hash
<1> QED
  BY <1>1, FanIs

LEMMA StartRuns ==
  ASSUME NEW data, IsSeq(data), Len(data) >= 1
  PROVE  Running(StartTree(Len(data)), data)
<1> DEFINE ls == Levels(data)
           s == LevelSizes(Len(data))
           g == StartTree(Len(data))
<1>1. PICK t : Tower(data, ls, s, t)
  BY TowerIs
<1> HIDE DEF ls, s
<1>2. Len(data) \in Nat /\ Len(s) \in Nat /\ ls[1] = data /\ t[Len(s)] \in Nat
  BY <1>1 DEF Tower, IsSeq
<1>3. TreeSize(Len(data)) = t[Len(s)]
  BY <1>1, OffsetsAre
<1>4. /\ IsGen(g) /\ g.size = Len(data) /\ g.root = NoHash /\ g.level = 0 /\ g.src = Len(data)
      /\ g.remaining = Len(data) /\ g.out = << >>
      /\ g.tree = [i \in 1..t[Len(s)] |-> TreeBlock(<< >>)]
  BY <1>3 DEF StartTree, IsGen
<1> HIDE DEF g
<1>5. IsSeq(<< >>) /\ Len(<< >>) = 0
  <2>1. << >> \in Seq(Nat)
    OBVIOUS
  <2> QED
    BY <2>1, SeqIsSeq
<1>6. IsSeq(g.tree) /\ Len(g.tree) = t[Len(s)]
  <2> DEFINE n == t[Len(s)]
             z == TreeBlock(<< >>)
  <2>1. n \in Nat /\ g.tree = [i \in 1..n |-> z]
    BY <1>2, <1>4
  <2> HIDE DEF n, z
  <2>2. [i \in 1..n |-> z] \in [1..n -> {z}]
    OBVIOUS
  <2>3. g.tree \in Seq({z})
    BY <2>1, <2>2
  <2>4. Len(g.tree) = n
    BY <2>1
  <2> QED
    BY <2>3, <2>4, SeqIsSeq DEF n
<1>7. Filled(g.tree, ls, s, t, 0)
  <2>1. 1..0 = {}
    OBVIOUS
  <2> QED
    BY <1>6, <2>1 DEF Filled
<1>8. InLoop(g, ls, s, t)
  <2>1. g.level \in 0..Len(s) /\ (Len(s) > 0 => g.level < Len(s)) /\ g.level + 1 = 1
    BY <1>2, <1>4
  <2>2. g.remaining \in 1..g.src /\ g.src - g.remaining = 0
    BY <1>2, <1>4
  <2>3. \A k \in 1..Len(g.out) : g.out[k] = Hash(ls[g.level + 1][k])
    <3>1. 1..Len(g.out) = {}
      BY <1>4, <1>5
    <3> QED
      BY <3>1
  <2> QED
    BY <1>2, <1>4, <1>5, <1>7, <2>1, <2>2, <2>3 DEF InLoop
<1> QED
  BY <1>1, <1>8 DEF Running, ls, s, g

Gen(size, level, src, remaining, out, tree, root) ==
  [size |-> size, level |-> level, src |-> src, remaining |-> remaining, out |-> out, tree |-> tree,
   root |-> root]

LEMMA GenFields ==
  ASSUME NEW size, NEW level, NEW src, NEW remaining, NEW out, NEW tree, NEW root, NEW h,
         h = Gen(size, level, src, remaining, out, tree, root)
  PROVE  /\ IsGen(h) /\ h.size = size /\ h.level = level /\ h.src = src /\ h.remaining = remaining
         /\ h.out = out /\ h.tree = tree /\ h.root = root
<1>1. /\ h.size = size /\ h.level = level /\ h.src = src /\ h.remaining = remaining
      /\ h.out = out /\ h.tree = tree /\ h.root = root
  BY DEF Gen
<1> QED
  BY <1>1, Zenon DEF IsGen, Gen

LEMMA GenExcept ==
  ASSUME NEW size, NEW level, NEW src, NEW remaining, NEW out, NEW tree, NEW root,
         NEW level2, NEW src2, NEW remaining2, NEW out2, NEW tree2, NEW root2, NEW g,
         g = Gen(size, level, src, remaining, out, tree, root)
  PROVE  /\ [g EXCEPT !.root = root2] = Gen(size, level, src, remaining, out, tree, root2)
         /\ [g EXCEPT !.out = out2] = Gen(size, level, src, remaining, out2, tree, root)
         /\ [g EXCEPT !.remaining = remaining2] = Gen(size, level, src, remaining2, out, tree, root)
         /\ [g EXCEPT !.tree = tree2] = Gen(size, level, src, remaining, out, tree2, root)
         /\ [g EXCEPT !.level = level2] = Gen(size, level2, src, remaining, out, tree, root)
         /\ [g EXCEPT !.src = src2] = Gen(size, level, src2, remaining, out, tree, root)
  BY DEF Gen

LEMMA ExceptInTurn ==
  ASSUME NEW g, NEW tree, NEW level, NEW src, NEW remaining, NEW out, NEW root
  PROVE  /\ [g EXCEPT !.root = root, !.remaining = remaining]
            = [[g EXCEPT !.root = root] EXCEPT !.remaining = remaining]
         /\ [g EXCEPT !.out = out, !.remaining = remaining]
            = [[g EXCEPT !.out = out] EXCEPT !.remaining = remaining]
         /\ [g EXCEPT !.tree = tree, !.level = level, !.src = src, !.remaining = remaining, !.out = out,
                      !.root = root]
            = [[[[[[g EXCEPT !.tree = tree] EXCEPT !.level = level] EXCEPT !.src = src]
                  EXCEPT !.remaining = remaining] EXCEPT !.out = out] EXCEPT !.root = root]
  OBVIOUS

SetRoot(h, g, root, remaining) == h = [g EXCEPT !.root = root, !.remaining = remaining]
SetOut(h, g, out, remaining) == h = [g EXCEPT !.out = out, !.remaining = remaining]
SetAll(h, g, tree, level, src, out, root) ==
  h = [g EXCEPT !.tree = tree, !.level = level, !.src = src, !.remaining = src, !.out = out, !.root = root]

LEMMA GenOnly ==
  ASSUME NEW g, NEW root, NEW remaining, NEW h, IsGen(g),
         SetRoot(h, g, root, remaining)
  PROVE  IsGen(h) /\ h.size = g.size /\ h.root = root /\ h.tree = g.tree
<1>1. g = Gen(g.size, g.level, g.src, g.remaining, g.out, g.tree, g.root)
  BY DEF IsGen, Gen
<1> DEFINE g1 == [g EXCEPT !.root = root]
<1>2. h = Gen(g.size, g.level, g.src, remaining, g.out, g.tree, root)
  <2>1. h = [g1 EXCEPT !.remaining = remaining]
    BY ExceptInTurn DEF SetRoot
  <2>2. g1 = Gen(g.size, g.level, g.src, g.remaining, g.out, g.tree, root)
    BY <1>1, GenExcept
  <2> HIDE DEF g1
  <2>3. [g1 EXCEPT !.remaining = remaining] = Gen(g.size, g.level, g.src, remaining, g.out, g.tree, root)
    BY <2>2, GenExcept
  <2> QED
    BY <2>1, <2>3, Zenon
<1>3. IsGen(h) /\ h.size = g.size /\ h.root = root /\ h.tree = g.tree
  BY <1>2, GenFields
<1> QED
  BY <1>3

LEMMA GenMore ==
  ASSUME NEW g, NEW out, NEW remaining, NEW h, IsGen(g),
         SetOut(h, g, out, remaining)
  PROVE  /\ IsGen(h) /\ h.size = g.size /\ h.level = g.level /\ h.src = g.src /\ h.tree = g.tree
         /\ h.root = g.root /\ h.out = out /\ h.remaining = remaining
<1>1. g = Gen(g.size, g.level, g.src, g.remaining, g.out, g.tree, g.root)
  BY DEF IsGen, Gen
<1> DEFINE g1 == [g EXCEPT !.out = out]
<1>2. h = Gen(g.size, g.level, g.src, remaining, out, g.tree, g.root)
  <2>1. h = [g1 EXCEPT !.remaining = remaining]
    BY ExceptInTurn DEF SetOut
  <2>2. g1 = Gen(g.size, g.level, g.src, g.remaining, out, g.tree, g.root)
    BY <1>1, GenExcept
  <2> HIDE DEF g1
  <2>3. [g1 EXCEPT !.remaining = remaining] = Gen(g.size, g.level, g.src, remaining, out, g.tree, g.root)
    BY <2>2, GenExcept
  <2> QED
    BY <2>1, <2>3, Zenon
<1>3. /\ IsGen(h) /\ h.size = g.size /\ h.level = g.level /\ h.src = g.src /\ h.tree = g.tree
      /\ h.root = g.root /\ h.out = out /\ h.remaining = remaining
  BY <1>2, GenFields
<1> QED
  BY <1>3

LEMMA GenLast ==
  ASSUME NEW g, NEW tree, NEW level, NEW src, NEW out, NEW root, NEW h, IsGen(g),
         SetAll(h, g, tree, level, src, out, root)
  PROVE  /\ IsGen(h) /\ h.size = g.size /\ h.level = level /\ h.src = src /\ h.tree = tree
         /\ h.root = root /\ h.out = out /\ h.remaining = src
<1>1. g = Gen(g.size, g.level, g.src, g.remaining, g.out, g.tree, g.root)
  BY DEF IsGen, Gen
<1> DEFINE g1 == [g EXCEPT !.tree = tree]
           g2 == [g1 EXCEPT !.level = level]
           g3 == [g2 EXCEPT !.src = src]
           g4 == [g3 EXCEPT !.remaining = src]
           g5 == [g4 EXCEPT !.out = out]
<1>2. h = Gen(g.size, level, src, src, out, tree, root)
  <2>1. h = [g5 EXCEPT !.root = root]
    BY ExceptInTurn DEF SetAll
  <2>2. g1 = Gen(g.size, g.level, g.src, g.remaining, g.out, tree, g.root)
    BY <1>1, GenExcept
  <2> HIDE DEF g1
  <2>3. g2 = Gen(g.size, level, g.src, g.remaining, g.out, tree, g.root)
    BY <2>2, GenExcept
  <2> HIDE DEF g2
  <2>4. g3 = Gen(g.size, level, src, g.remaining, g.out, tree, g.root)
    BY <2>3, GenExcept
  <2> HIDE DEF g3
  <2>5. g4 = Gen(g.size, level, src, src, g.out, tree, g.root)
    BY <2>4, GenExcept
  <2> HIDE DEF g4
  <2>6. g5 = Gen(g.size, level, src, src, out, tree, g.root)
    BY <2>5, GenExcept
  <2> HIDE DEF g5
  <2>7. [g5 EXCEPT !.root = root] = Gen(g.size, level, src, src, out, tree, root)
    BY <2>6, GenExcept
  <2> QED
    BY <2>1, <2>7, Zenon
<1>3. /\ IsGen(h) /\ h.size = g.size /\ h.level = level /\ h.src = src /\ h.tree = tree
      /\ h.root = root /\ h.out = out /\ h.remaining = src
  BY <1>2, GenFields
<1> QED
  BY <1>3

(* An image of one block.                                                  *)
LEMMA OnlyBlockRuns ==
  ASSUME NEW data, NEW g, Running(g, data), g.root = NoHash, IsSeq(data), Len(data) = 1
  PROVE  Running(HashOnlyBlock(g, data[1]), data)
<1> DEFINE ls == Levels(data)
           s == LevelSizes(Len(data))
           h == HashOnlyBlock(g, data[1])
<1>1. PICK t : Tower(data, ls, s, t) /\ InLoop(g, ls, s, t)
  <2>1. ~Complete(g, data)
    <3> SUFFICES ASSUME Complete(g, data) PROVE FALSE
      OBVIOUS
    <3>1. g.root = Hash(ls[Len(ls)][1])
      BY DEF Complete, VerityRoot
    <3> QED
      BY <3>1, NotZeros
  <2> QED
    BY <2>1 DEF Running
<1> HIDE DEF ls, s
<1>2. /\ Len(s) \in Nat /\ Len(ls) = Len(s) + 1 /\ ls[1] = data /\ t[0] = 0
      /\ \A j \in 1..Len(s) : Len(ls[j]) > 1
  BY <1>1 DEF Tower, IsSeq
<1>3. Len(s) = 0
  <2> SUFFICES ASSUME Len(s) # 0 PROVE FALSE
    OBVIOUS
  <2>1. 1 \in 1..Len(s)
    BY <1>2
  <2>2. Len(ls[1]) > 1 /\ Len(ls[1]) = 1
    BY <1>2, <2>1
  <2>3. ~(1 > 1)
    OBVIOUS
  <2> QED
    BY <2>2, <2>3
<1>4. /\ IsSeq(VerityTree(data)) /\ Len(VerityTree(data)) = 0
      /\ VerityRoot(data) = Hash(data[1])
  <2>1. /\ IsSeq(VerityTree(data)) /\ Len(VerityTree(data)) = t[Len(s)]
        /\ VerityRoot(data) = Hash(ls[Len(ls)][1])
    BY <1>1, VerityTreeIs
  <2>2. Len(ls) = 1 /\ t[Len(s)] = 0
    BY <1>2, <1>3
  <2> QED
    BY <1>2, <2>1, <2>2
<1>5. IsGen(g) /\ g.size = Len(data) /\ IsSeq(g.tree) /\ Len(g.tree) = 0
  BY <1>1, <1>2, <1>3 DEF InLoop, Filled
<1>6. g.tree = VerityTree(data)
  <2>1. \A k \in 1..Len(g.tree) : g.tree[k] = VerityTree(data)[k]
    BY <1>5
  <2> QED
    BY <1>4, <1>5, <2>1, IsSeqEqual
<1>7. IsGen(h) /\ h.size = g.size /\ h.root = Hash(data[1]) /\ h.tree = g.tree
  <2>1. SetRoot(h, g, Hash(data[1]), 0)
    BY DEF HashOnlyBlock, SetRoot
  <2> HIDE DEF h
  <2> QED
    BY <1>5, <2>1, GenOnly
<1> QED
  BY <1>4, <1>5, <1>6, <1>7 DEF Running, Complete

(* What is read back from the array is the level below.                    *)
LEMMA ArrayIsLevel ==
  ASSUME NEW g, NEW data, NEW ls, NEW s, NEW t, Tower(data, ls, s, t), InLoop(g, ls, s, t), g.level # 0
  PROVE  ArrayBlock(g) = ls[g.level + 1][(g.src - g.remaining) + 1]
<1> DEFINE L == g.level
           b == (g.src - g.remaining) + 1
<1>1. Len(s) \in Nat /\ ls[1] = data
  BY DEF Tower, IsSeq
<1>2. L \in 1..Len(s) /\ g.size = Len(data) /\ g.src = Len(ls[L + 1]) /\ g.remaining \in 1..g.src
  BY <1>1 DEF InLoop
<1>3. Len(ls[L + 1]) = s[L] /\ s[L] \in Nat /\ t[Len(s)] \in Nat /\ t[L] \in Nat
  <2>1. L \in 0..Len(s) /\ Len(s) \in 0..Len(s)
    BY <1>1, <1>2
  <2> QED
    BY <1>2, <2>1 DEF Tower
<1>4. b \in 1..s[L] /\ g.src \in Nat /\ g.remaining \in Nat
  BY <1>2, <1>3
<1>5. g.tree[(t[Len(s)] - t[L]) + b] = ls[L + 1][b]
  <2>1. Filled(g.tree, ls, s, t, L) /\ L \in 1..L
    BY <1>2 DEF InLoop
  <2> HIDE DEF L, b
  <2> QED
    BY <1>4, <2>1 DEF Filled
<1>6. LevelOffsets(Len(data))[L] = t[Len(s)] - t[L]
  BY <1>2, OffsetsAre
<1>7. LevelOffsets(g.size)[g.level] + g.src - g.remaining + 1 = (t[Len(s)] - t[L]) + b
  <2> DEFINE o == t[Len(s)] - t[L]
  <2>1. o \in Int /\ LevelOffsets(g.size)[g.level] = o
    BY <1>2, <1>3, <1>6
  <2> HIDE DEF o
  <2>2. o + g.src - g.remaining + 1 = o + b
    BY <1>4, <2>1
  <2> QED
    BY <2>1, <2>2 DEF o
<1> QED
  BY <1>5, <1>7 DEF ArrayBlock

(* A block that is not the last of its level.                              *)
LEMMA MoreBlocks ==
  ASSUME NEW g, NEW data, NEW ls, NEW s, NEW t, NEW block, Tower(data, ls, s, t), InLoop(g, ls, s, t),
         g.remaining > 1, block = ls[g.level + 1][(g.src - g.remaining) + 1]
  PROVE  InLoop(HashBlock(g, block), ls, s, t)
<1> DEFINE out == Append(g.out, Hash(block))
           h == [g EXCEPT !.out = out, !.remaining = @ - 1]
<1>1. HashBlock(g, block) = h
  BY DEF HashBlock
<1>2. IsGen(g) /\ IsSeq(g.out) /\ g.remaining \in 1..g.src /\ Len(g.out) = g.src - g.remaining
      /\ g.src = Len(ls[g.level + 1])
  BY DEF InLoop
<1>3. /\ IsGen(h) /\ h.size = g.size /\ h.level = g.level /\ h.src = g.src /\ h.tree = g.tree
      /\ h.root = g.root /\ h.out = out /\ h.remaining = g.remaining - 1
  <2>1. SetOut(h, g, out, g.remaining - 1)
    BY DEF SetOut
  <2> HIDE DEF out, h
  <2> QED
    BY <1>2, <2>1, GenMore
<1>4. /\ IsSeq(out) /\ Len(out) = Len(g.out) + 1 /\ out[Len(g.out) + 1] = Hash(block)
      /\ \A k \in 1..Len(g.out) : out[k] = g.out[k]
  BY <1>2, AppendIs
<1> HIDE DEF out, h
<1>5. Len(g.out) \in Nat /\ g.src \in Nat /\ g.remaining \in Nat
  <2>1. g.level \in 0..Len(s) /\ Len(s) \in Nat /\ Len(ls) = Len(s) + 1
    BY DEF InLoop, Tower, IsSeq
  <2>2. IsSeq(ls[g.level + 1])
    <3>1. g.level + 1 \in 1..Len(ls)
      BY <2>1
    <3> QED
      BY <3>1 DEF Tower
  <2>3. g.src \in Nat
    BY <1>2, <2>2 DEF IsSeq
  <2> QED
    BY <1>2, <2>3
<1>6. h.remaining \in 1..h.src /\ Len(h.out) = h.src - h.remaining
  BY <1>2, <1>3, <1>4, <1>5
<1>7. ASSUME NEW k \in 1..Len(h.out)
      PROVE  h.out[k] = Hash(ls[h.level + 1][k])
  <2>1. CASE k = Len(g.out) + 1
    <3>1. k = (g.src - g.remaining) + 1
      BY <1>2, <2>1
    <3> QED
      BY <1>3, <1>4, <2>1, <3>1
  <2>2. CASE k # Len(g.out) + 1
    <3>1. k \in 1..Len(g.out)
      BY <1>3, <1>4, <1>5, <2>2
    <3>2. g.out[k] = Hash(ls[g.level + 1][k])
      BY <3>1 DEF InLoop
    <3> QED
      BY <1>3, <1>4, <3>1, <3>2
  <2> QED
    BY <2>1, <2>2
<1>8. /\ h.size = Len(ls[1]) /\ h.root = NoHash /\ h.level \in 0..Len(s)
      /\ (Len(s) > 0 => h.level < Len(s)) /\ h.src = Len(ls[h.level + 1])
      /\ Filled(h.tree, ls, s, t, h.level)
  BY <1>3 DEF InLoop
<1> QED
  BY <1>1, <1>3, <1>4, <1>6, <1>7, <1>8 DEF InLoop

(* The blocks of a level that is finished, put where it belongs.           *)
LEMMA LevelWritten ==
  ASSUME NEW tree, NEW new, NEW data, NEW ls, NEW s, NEW t, NEW L, Tower(data, ls, s, t),
         L \in 0..Len(s), L < Len(s), Filled(tree, ls, s, t, L),
         new = [i \in DOMAIN tree |->
                  IF i - (t[Len(s)] - t[L + 1]) \in DOMAIN ls[L + 2]
                  THEN ls[L + 2][i - (t[Len(s)] - t[L + 1])] ELSE tree[i]]
  PROVE  Filled(new, ls, s, t, L + 1)
<1> DEFINE H == Len(s)
           N == t[H]
           o == N - t[L + 1]
           up == ls[L + 2]
<1>1. /\ H \in Nat /\ N \in Nat /\ t[L + 1] \in Nat /\ L + 1 \in 1..H
      /\ IsSeq(up) /\ Len(up) = s[L + 1] /\ s[L + 1] \in Nat
  <2>1. H \in Nat /\ Len(ls) = H + 1
    BY DEF Tower, IsSeq
  <2>2. L + 1 \in 1..H /\ L + 1 \in 0..H /\ H \in 0..H /\ L + 2 \in 1..Len(ls) /\ (L + 1) + 1 = L + 2
    BY <2>1
  <2>3. IsSeq(ls[L + 2]) /\ N \in Nat /\ t[L + 1] \in Nat
    BY <2>2 DEF Tower
  <2>4. Len(ls[(L + 1) + 1]) = s[L + 1] /\ s[L + 1] \in Nat
    BY <2>2 DEF Tower
  <2> QED
    BY <2>1, <2>2, <2>3, <2>4
<1>2. o \in Int
  BY <1>1
<1>3. DOMAIN up = 1..s[L + 1] /\ DOMAIN tree = 1..N /\ IsSeq(tree)
  <2>1. DOMAIN up = 1..Len(up)
    BY <1>1 DEF IsSeq
  <2>2. DOMAIN tree = 1..Len(tree) /\ Len(tree) = N /\ IsSeq(tree)
    BY DEF Filled, IsSeq
  <2> QED
    BY <1>1, <2>1, <2>2
<1>4. new = [i \in 1..N |-> IF i - o \in 1..s[L + 1] THEN up[i - o] ELSE tree[i]]
  BY <1>3
<1>5. IsSeq(new) /\ Len(new) = N
  <2> DEFINE S == {new[i] : i \in 1..N}
  <2>1. new \in [1..N -> S]
    <3>1. new = [i \in 1..N |-> new[i]]
      BY <1>4
    <3>2. \A i \in 1..N : new[i] \in S
      OBVIOUS
    <3> HIDE DEF S, N
    <3> QED
      BY <3>1, <3>2
  <2> HIDE DEF S, N
  <2>2. new \in Seq(S)
    BY <1>1, <2>1
  <2>3. Len(new) = N
    BY <1>1, <2>1, LenProperties
  <2> QED
    BY <2>2, <2>3, SeqIsSeq
<1>6. ASSUME NEW i \in 1..(L + 1), NEW b \in 1..s[i]
      PROVE  new[(N - t[i]) + b] = ls[i + 1][b]
  <2>1. CASE i = L + 1
    <3>1. (N - t[i]) + b = o + b /\ i + 1 = L + 2 /\ b \in 1..s[L + 1]
      BY <2>1
    <3>2. o + b \in 1..N
      BY <1>1, <3>1, LevelInside
    <3>3. (o + b) - o = b
      BY <1>2
    <3> HIDE DEF o
    <3>4. new[o + b] = up[b]
      BY <1>4, <3>1, <3>2, <3>3
    <3> QED
      BY <3>1, <3>4
  <2>2. CASE i # L + 1
    <3>1. i \in 1..L /\ i \in 1..H /\ i < L + 1
      BY <1>1, <2>2
    <3> DEFINE x == (N - t[i]) + b
    <3>2. x \in 1..N
      BY <3>1, LevelInside
    <3>3. x - o \notin 1..s[L + 1]
      <4> SUFFICES ASSUME x - o \in 1..s[L + 1] PROVE FALSE
        OBVIOUS
      <4> DEFINE c == x - o
      <4>1. c \in 1..s[L + 1]
        OBVIOUS
      <4>2. x # o + c
        <5> HIDE DEF c
        <5> QED
          BY <1>1, <3>1, <4>1, LevelsApart
      <4>3. x \in Int
        BY <3>2
      <4> HIDE DEF x, o
      <4> QED
        BY <1>2, <4>2, <4>3
    <3>4. tree[x] = ls[i + 1][b]
      BY <3>1 DEF Filled
    <3> HIDE DEF x, o
    <3>5. new[x] = tree[x]
      BY <1>4, <3>2, <3>3
    <3> QED
      BY <3>4, <3>5 DEF x
  <2> QED
    BY <2>1, <2>2
<1> QED
  BY <1>5, <1>6 DEF Filled

(* The last block of a level.                                              *)
LEMMA LastBlock ==
  ASSUME NEW g, NEW data, NEW ls, NEW s, NEW t, NEW block, Tower(data, ls, s, t), InLoop(g, ls, s, t),
         ~(g.remaining > 1), Len(s) > 0, block = ls[g.level + 1][(g.src - g.remaining) + 1]
  PROVE  InLoop(HashBlock(g, block), ls, s, t) \/ Complete(HashBlock(g, block), data)
<1> DEFINE L == g.level
           out == Append(g.out, Hash(block))
           blocks == Group(out)
           offset == LevelOffsets(g.size)[L + 1]
           written == [i \in DOMAIN g.tree |->
                         IF i - offset \in DOMAIN blocks THEN blocks[i - offset] ELSE g.tree[i]]
           root == IF Len(blocks) = 1 THEN Hash(blocks[1]) ELSE NoHash
           h == [g EXCEPT !.tree = written, !.level = @ + 1, !.src = Len(blocks),
                          !.remaining = Len(blocks), !.out = << >>, !.root = root]
<1>1. HashBlock(g, block) = h
  BY DEF HashBlock
<1>2. /\ IsGen(g) /\ IsSeq(g.out) /\ g.remaining \in 1..g.src /\ Len(g.out) = g.src - g.remaining
      /\ g.src = Len(ls[L + 1]) /\ L \in 0..Len(s) /\ L < Len(s) /\ g.size = Len(data)
      /\ Filled(g.tree, ls, s, t, L)
      /\ \A k \in 1..Len(g.out) : g.out[k] = Hash(ls[L + 1][k])
  BY DEF InLoop, Tower
<1>3. /\ IsGen(h) /\ h.size = g.size /\ h.level = L + 1 /\ h.src = Len(blocks) /\ h.tree = written
      /\ h.root = root /\ h.out = << >> /\ h.remaining = Len(blocks)
  <2>1. SetAll(h, g, written, L + 1, Len(blocks), << >>, root)
    BY DEF SetAll
  <2> HIDE DEF blocks, written, root, L, h
  <2> QED
    BY <1>2, <2>1, GenLast
<1>4. /\ IsSeq(out) /\ Len(out) = Len(g.out) + 1 /\ out[Len(g.out) + 1] = Hash(block)
      /\ \A k \in 1..Len(g.out) : out[k] = g.out[k]
  BY <1>2, AppendIs
<1> HIDE DEF out, h
<1>5. /\ Len(s) \in Nat /\ L + 1 \in 1..Len(s) /\ L + 1 \in 1..Len(ls) /\ (L + 1) + 1 = L + 2
      /\ L + 2 \in 1..Len(ls) /\ Len(ls) = Len(s) + 1 /\ L \in Nat
  <2>1. Len(s) \in Nat /\ Len(ls) = Len(s) + 1
    BY DEF Tower, IsSeq
  <2>2. L \in 0..Len(s) /\ L < Len(s)
    BY <1>2
  <2> DEFINE H == Len(s)
             M == Len(ls)
  <2>3. H \in Nat /\ M = H + 1 /\ L \in 0..H /\ L < H
    BY <2>1, <2>2
  <2> HIDE DEF H, M, L
  <2>4. L + 1 \in 1..H /\ L + 1 \in 1..M /\ (L + 1) + 1 = L + 2 /\ L + 2 \in 1..M /\ L \in Nat
    BY <2>3
  <2> QED
    BY <2>1, <2>4 DEF H, M
<1>6. /\ IsSeq(ls[L + 1]) /\ ls[L + 2] = Group(Hashes(ls[L + 1])) /\ IsSeq(ls[L + 2])
      /\ Len(ls[L + 2]) = s[L + 1] /\ s[L + 1] \in Nat /\ s[L + 1] >= 1
  <2>1. IsSeq(ls[L + 1]) /\ IsSeq(ls[L + 2])
    BY <1>5 DEF Tower
  <2>2. ls[(L + 1) + 1] = Group(Hashes(ls[L + 1])) /\ Len(ls[(L + 1) + 1]) = s[L + 1]
        /\ s[L + 1] \in Nat /\ s[L + 1] >= 1
    BY <1>5 DEF Tower
  <2> QED
    BY <1>5, <2>1, <2>2
<1>7. g.src \in Nat /\ g.remaining = 1 /\ Len(g.out) = g.src - 1
  <2>1. g.src \in Nat
    BY <1>2, <1>6 DEF IsSeq
  <2> QED
    BY <1>2, <2>1
<1>8. out = Hashes(ls[L + 1])
  <2>1. /\ IsSeq(Hashes(ls[L + 1])) /\ Len(Hashes(ls[L + 1])) = Len(ls[L + 1])
        /\ \A k \in 1..Len(ls[L + 1]) : Hashes(ls[L + 1])[k] = Hash(ls[L + 1][k])
    BY <1>6, HashesAre
  <2>2. Len(out) = Len(Hashes(ls[L + 1])) /\ Len(out) = g.src
    BY <1>2, <1>4, <1>7, <2>1
  <2>3. ASSUME NEW k \in 1..Len(out)
        PROVE  out[k] = Hashes(ls[L + 1])[k]
    <3>1. k \in 1..Len(ls[L + 1])
      BY <1>2, <2>2
    <3>2. CASE k = g.src
      <4>1. k = Len(g.out) + 1 /\ k = (g.src - g.remaining) + 1
        BY <1>7, <3>2
      <4> QED
        BY <1>4, <2>1, <3>1, <4>1
    <3>3. CASE k # g.src
      <4>1. k \in 1..Len(g.out)
        BY <1>7, <2>2, <3>3
      <4> QED
        BY <1>2, <1>4, <2>1, <3>1, <4>1
    <3> QED
      BY <3>2, <3>3
  <2> QED
    BY <1>4, <2>1, <2>2, <2>3, IsSeqEqual
<1>9. blocks = ls[L + 2]
  BY <1>6, <1>8
<1>10. offset = t[Len(s)] - t[L + 1]
  BY <1>2, <1>5, OffsetsAre
<1> HIDE DEF blocks, offset
<1>11. Filled(written, ls, s, t, L + 1)
  BY <1>2, <1>9, <1>10, LevelWritten
<1> HIDE DEF written
<1>12. CASE Len(blocks) = 1
  <2>1. L + 1 = Len(s)
    <3> SUFFICES ASSUME L + 1 # Len(s) PROVE FALSE
      OBVIOUS
    <3>1. L + 2 \in 1..Len(s)
      BY <1>5
    <3>2. Len(ls[L + 2]) > 1
      BY <3>1 DEF Tower
    <3> QED
      BY <1>9, <1>12, <3>2
  <2>2. /\ IsSeq(VerityTree(data)) /\ Len(VerityTree(data)) = t[Len(s)]
        /\ \A i \in 1..Len(s) : \A b \in 1..s[i] :
              VerityTree(data)[(t[Len(s)] - t[i]) + b] = ls[i + 1][b]
        /\ VerityRoot(data) = Hash(ls[Len(ls)][1])
    BY VerityTreeIs
  <2>3. h.root = VerityRoot(data)
    <3>1. Len(ls) = L + 2
      BY <1>5, <2>1
    <3> QED
      BY <1>3, <1>9, <1>12, <2>2, <3>1
  <2>4. IsSeq(written) /\ Len(written) = t[Len(s)]
        /\ \A i \in 1..Len(s) : \A b \in 1..s[i] : written[(t[Len(s)] - t[i]) + b] = ls[i + 1][b]
    BY <1>11, <2>1 DEF Filled
  <2>5. ASSUME NEW x \in 1..t[Len(s)]
        PROVE  written[x] = VerityTree(data)[x]
    <3>1. PICK i \in 1..Len(s) : \E b \in 1..s[i] : x = (t[Len(s)] - t[i]) + b
      <4>1. InLevel(s, t, x)
        BY LevelOfCell
      <4> QED
        BY <4>1 DEF InLevel
    <3>2. PICK b \in 1..s[i] : x = (t[Len(s)] - t[i]) + b
      BY <3>1
    <3> QED
      BY <2>2, <2>4, <3>2
  <2>6. written = VerityTree(data)
    BY <2>2, <2>4, <2>5, IsSeqEqual
  <2> QED
    BY <1>1, <1>2, <1>3, <2>3, <2>6 DEF Complete
<1>13. CASE Len(blocks) # 1
  <2>1. L + 1 # Len(s)
    <3> SUFFICES ASSUME L + 1 = Len(s) PROVE FALSE
      OBVIOUS
    <3>1. Len(ls) = L + 2
      BY <1>5
    <3>2. Len(ls[Len(ls)]) = 1
      BY DEF Tower
    <3> QED
      BY <1>9, <1>13, <3>1, <3>2
  <2>2. h.level \in 0..Len(s) /\ h.level < Len(s) /\ h.level + 1 = L + 2
    BY <1>3, <1>5, <2>1
  <2>3. h.src = Len(ls[L + 2]) /\ h.remaining \in 1..h.src /\ h.src - h.remaining = 0
    BY <1>3, <1>6, <1>9
  <2>4. IsSeq(h.out) /\ Len(h.out) = 0 /\ 1..Len(h.out) = {}
    <3>1. << >> \in Seq(Nat) /\ Len(<< >>) = 0 /\ 1..0 = {}
      OBVIOUS
    <3> QED
      BY <1>3, <3>1, SeqIsSeq
  <2>5. h.root = NoHash /\ h.size = Len(ls[1])
    <3>1. ls[1] = data
      BY DEF Tower
    <3> QED
      BY <1>2, <1>3, <1>13, <3>1
  <2>6. InLoop(h, ls, s, t)
    <3>1. \A k \in 1..Len(h.out) : h.out[k] = Hash(ls[h.level + 1][k])
      BY <2>4
    <3>2. Filled(h.tree, ls, s, t, h.level)
      BY <1>3, <1>11
    <3> QED
      BY <1>3, <2>2, <2>3, <2>4, <2>5, <3>1, <3>2 DEF InLoop
  <2> QED
    BY <1>1, <2>6
<1> QED
  BY <1>12, <1>13

(* One turn of the loop, on the block it reads.                            *)
LEMMA BlockRuns ==
  ASSUME NEW data, NEW g, NEW block, Running(g, data), g.root = NoHash, IsSeq(data), Len(data) > 1,
         g.level = 0 => block = data[(g.src - g.remaining) + 1],
         g.level # 0 => block = ArrayBlock(g)
  PROVE  Running(HashBlock(g, block), data)
<1> DEFINE ls == Levels(data)
           s == LevelSizes(Len(data))
<1>1. PICK t : Tower(data, ls, s, t) /\ InLoop(g, ls, s, t)
  <2>1. ~Complete(g, data)
    <3> SUFFICES ASSUME Complete(g, data) PROVE FALSE
      OBVIOUS
    <3>1. g.root = Hash(ls[Len(ls)][1])
      BY DEF Complete, VerityRoot
    <3> QED
      BY <3>1, NotZeros
  <2> QED
    BY <2>1 DEF Running
<1> HIDE DEF ls, s
<1>2. block = ls[g.level + 1][(g.src - g.remaining) + 1]
  <2>1. ls[1] = data
    BY <1>1 DEF Tower
  <2>2. CASE g.level = 0
    <3>1. g.level + 1 = 1
      BY <2>2
    <3> QED
      BY <2>1, <2>2, <3>1
  <2>3. CASE g.level # 0
    BY <1>1, <2>3, ArrayIsLevel
  <2> QED
    BY <2>2, <2>3
<1>3. Len(s) > 0
  <2>1. Len(s) \in Nat /\ Len(ls) = Len(s) + 1 /\ ls[1] = data /\ Len(ls[Len(ls)]) = 1
    BY <1>1 DEF Tower, IsSeq
  <2> SUFFICES ASSUME Len(s) = 0 PROVE FALSE
    BY <2>1
  <2>2. Len(ls) = 1
    BY <2>1
  <2>3. Len(data) = 1
    BY <2>1, <2>2
  <2>4. ~(1 > 1)
    OBVIOUS
  <2> QED
    BY <2>3, <2>4
<1>4. InLoop(HashBlock(g, block), ls, s, t) \/ Complete(HashBlock(g, block), data)
  BY <1>1, <1>2, <1>3, MoreBlocks, LastBlock
<1> QED
  BY <1>1, <1>4 DEF Running, ls, s
-----------------------------------------------------------------------------
(* Sums and lengths.                                                       *)

LEMMA SumsSame ==
  ASSUME NEW ns, NEW n, NEW s, NEW r, n \in Nat, Sums(s, ns, n), Sums(r, ns, n)
  PROVE  \A k \in 0..n : s[k] = r[k]
<1> DEFINE T == {k \in Nat : k <= n => s[k] = r[k]}
<1>1. 0 \in T
  <2>1. 0 \in 0..n
    OBVIOUS
  <2> QED
    BY <2>1 DEF Sums
<1>2. ASSUME NEW k \in Nat, k \in T
      PROVE  k + 1 \in T
  <2> SUFFICES ASSUME k + 1 <= n PROVE s[k + 1] = r[k + 1]
    OBVIOUS
  <2> DEFINE j == k + 1
  <2>1. j \in 0..n /\ j # 0 /\ j - 1 = k /\ k <= n
    OBVIOUS
  <2> HIDE DEF j
  <2>2. s[j] = s[j - 1] + ns[j] /\ r[j] = r[j - 1] + ns[j]
    BY <2>1 DEF Sums
  <2>3. s[k] = r[k]
    BY <1>2, <2>1
  <2>4. s[j] = r[j]
    BY <2>1, <2>2, <2>3
  <2> QED
    BY <2>4 DEF j
<1>3. Nat \subseteq T
  <2> HIDE DEF T
  <2> QED
    BY <1>1, <1>2, StepInduction
<1> QED
  BY <1>3

LEMMA BeforeIs ==
  ASSUME NEW lens, NEW n, NEW m, NEW s, n \in Nat, m \in 0..n, Sums(s, lens, n)
  PROVE  Before(lens, m) = s[m]
<1>1. m \in Nat
  OBVIOUS
<1>2. PICK r : /\ Sums(r, lens, m)
               /\ (CHOOSE f : f = [k \in 0..m |-> IF k = 0 THEN 0 ELSE f[k - 1] + lens[k]])[m] = r[m]
  BY <1>1, SumIs
<1>3. Before(lens, m) = r[m]
  BY <1>2 DEF Before
<1>4. Sums(s, lens, m)
  <2>1. \A k \in 0..m : k \in 0..n
    BY <1>1
  <2> QED
    BY <2>1 DEF Sums
<1>5. m \in 0..m
  BY <1>1
<1>6. s[m] = r[m]
  BY <1>1, <1>2, <1>4, <1>5, SumsSame
<1> QED
  BY <1>3, <1>6

LEMMA FillIs ==
  ASSUME NEW n, NEW to, n \in Nat, to \in Nat \ {0}
  PROVE  RoundUp(n, to) \in Nat /\ RoundUp(n, to) >= n
<1>1. (0 - n) % to \in 0..(to - 1)
  OBVIOUS
<1> DEFINE m == (0 - n) % to
<1>2. RoundUp(n, to) = n + m
  BY DEF RoundUp, Fill
<1>3. m \in Nat
  BY <1>1
<1> HIDE DEF m
<1> QED
  BY <1>2, <1>3

LEMMA ZerosAre ==
  ASSUME NEW n, n \in Nat
  PROVE  IsSeq(Zeros(n)) /\ Len(Zeros(n)) = n /\ \A k \in 1..n : Zeros(n)[k] = Zero
<1>1. Zeros(n) \in [1..n -> {Zero}] /\ \A k \in 1..n : Zeros(n)[k] = Zero
  BY DEF Zeros
<1>2. Zeros(n) \in Seq({Zero}) /\ Len(Zeros(n)) = n
  <2> DEFINE z == Zeros(n)
  <2>1. z \in [1..n -> {Zero}]
    BY <1>1
  <2> HIDE DEF z
  <2>2. z \in Seq({Zero}) /\ Len(z) = n
    BY <2>1, LenProperties
  <2> QED
    BY <2>2 DEF z
<1> QED
  BY <1>1, <1>2, SeqIsSeq

(* A sequence written as a function of its places.                         *)
IsMap(s, n, f) == s = [k \in 1..n |-> f[k]]

LEMMA MapIs ==
  ASSUME NEW s, NEW n, NEW f, n \in Nat, IsMap(s, n, f)
  PROVE  IsSeq(s) /\ Len(s) = n /\ \A k \in 1..n : s[k] = f[k]
<1> DEFINE S == {f[k] : k \in 1..n}
<1>1. s \in [1..n -> S] /\ \A k \in 1..n : s[k] = f[k]
  BY DEF IsMap
<1> HIDE DEF S
<1>2. s \in Seq(S) /\ Len(s) = n
  BY <1>1, LenProperties
<1> QED
  BY <1>1, <1>2, SeqIsSeq

LEMMA OneIs ==
  ASSUME NEW x
  PROVE  IsSeq(<< x >>) /\ Len(<< x >>) = 1 /\ << x >>[1] = x
<1>1. << x >> \in Seq({x})
  OBVIOUS
<1> QED
  BY <1>1, SeqIsSeq

LEMMA NoneIs == IsSeq(<< >>) /\ Len(<< >>) = 0
<1>1. << >> \in Seq({})
  OBVIOUS
<1> QED
  BY <1>1, SeqIsSeq

LEMMA EmptyIs ==
  ASSUME NEW s, IsSeq(s), Len(s) = 0
  PROVE  s = << >>
<1>1. \A k \in 1..Len(s) : s[k] = << >>[k]
  OBVIOUS
<1> QED
  BY <1>1, NoneIs, IsSeqEqual

LEMMA SingleIs ==
  ASSUME NEW s, IsSeq(s), Len(s) = 1
  PROVE  s = << s[1] >>
<1>1. \A k \in 1..Len(s) : s[k] = << s[1] >>[k]
  <2>1. \A k \in 1..Len(s) : k = 1
    OBVIOUS
  <2> QED
    BY <2>1, OneIs
<1> QED
  BY <1>1, OneIs, IsSeqEqual

LEMMA UptoIs ==
  ASSUME NEW f, NEW from, NEW size, IsSeq(f), from \in Nat, size \in Nat, from + size <= Len(f)
  PROVE  IsPart(Upto(f, from, size), f, from, from + size)
<1>1. Len(f) \in Nat
  BY DEF IsSeq
<1>2. (IF from + size < Len(f) THEN from + size ELSE Len(f)) = from + size
  BY <1>1
<1>3. Upto(f, from, size) = SubSeq(f, from + 1, from + size)
  BY <1>2 DEF Upto
<1> DEFINE n == from + size
<1>4. n \in Nat /\ from <= n /\ n <= Len(f)
  OBVIOUS
<1> HIDE DEF n
<1>5. IsPart(SubSeq(f, from + 1, n), f, from, n)
  BY <1>4, SubSeqIs
<1> QED
  BY <1>3, <1>5 DEF n

(* At the end of a file there is less to read.                             *)
LEMMA UptoShort ==
  ASSUME NEW f, NEW from, NEW size, IsSeq(f), from \in Nat, size \in Nat, from + size > Len(f)
  PROVE  /\ IsSeq(Upto(f, from, size)) /\ (size # 0 => Len(Upto(f, from, size)) < size)
         /\ from >= Len(f) => Upto(f, from, size) = << >>
         /\ from < Len(f) => IsPart(Upto(f, from, size), f, from, Len(f))
<1>1. Len(f) \in Nat
  BY DEF IsSeq
<1>2. (IF from + size < Len(f) THEN from + size ELSE Len(f)) = Len(f)
  BY <1>1
<1>3. Upto(f, from, size) = SubSeq(f, from + 1, Len(f))
  BY <1>2 DEF Upto
<1>4. CASE from < Len(f)
  <2>1. IsPart(SubSeq(f, from + 1, Len(f)), f, from, Len(f))
    <3>1. Len(f) <= Len(f) /\ from <= Len(f)
      BY <1>1, <1>4
    <3> QED
      BY <1>1, <3>1, SubSeqIs
  <2>2. IsSeq(SubSeq(f, from + 1, Len(f))) /\ Len(SubSeq(f, from + 1, Len(f))) = Len(f) - from
    BY <2>1 DEF IsPart
  <2>3. Len(f) - from < size
    BY <1>1
  <2> QED
    BY <1>1, <1>3, <1>4, <2>1, <2>2, <2>3
<1>5. CASE ~(from < Len(f))
  <2>1. SubSeq(f, from + 1, Len(f)) = << >>
    <3> DEFINE m == from + 1
               n == Len(f)
    <3>1. m \in Int /\ n \in Int /\ n < m
      BY <1>1, <1>5
    <3> HIDE DEF m, n
    <3>2. SubSeq(f, m, n) = << >>
      BY <3>1, SubSeqEmpty
    <3> QED
      BY <3>2 DEF m, n
  <2>2. size # 0 => 0 < size
    OBVIOUS
  <2> QED
    BY <1>3, <1>5, <2>1, <2>2, NoneIs
<1> QED
  BY <1>4, <1>5

LEMMA UptoNothing ==
  ASSUME NEW f, NEW from, IsSeq(f), from \in Nat
  PROVE  Upto(f, from, 0) = << >>
<1>1. CASE from + 0 <= Len(f)
  <2>1. IsPart(Upto(f, from, 0), f, from, from + 0)
    BY <1>1, UptoIs
  <2>2. IsSeq(Upto(f, from, 0)) /\ Len(Upto(f, from, 0)) = 0
    BY <2>1 DEF IsPart
  <2> QED
    BY <2>2, EmptyIs
<1>2. CASE ~(from + 0 <= Len(f))
  <2>1. Len(f) \in Nat
    BY DEF IsSeq
  <2>2. from >= Len(f) /\ from + 0 > Len(f)
    BY <1>2, <2>1
  <2> QED
    BY <2>2, UptoShort
<1> QED
  BY <1>1, <1>2

(* Every place of what is behind each other is a place of one of them.     *)
HasPlace(r, w, n, x) == \E i \in 1..n : \E j \in 1..Len(w[i]) : x = r[i - 1] + j

LEMMA PlaceOf ==
  ASSUME NEW r, NEW w, NEW n, NEW x, n \in Nat, Offsets(r, w, n), x \in 1..r[n]
  PROVE  HasPlace(r, w, n, x)
<1> DEFINE T == {i \in 0..n : x <= r[i]}
<1>1. r[0] = 0 /\ \A k \in 0..n : r[k] \in Nat
  BY DEF Offsets
<1>2. n \in T /\ T \in SUBSET Nat
  <2>1. n \in 0..n /\ r[n] \in Nat
    BY <1>1
  <2>2. x <= r[n]
    BY <2>1
  <2> QED
    BY <2>1, <2>2
<1>3. PICK i \in T : \A k \in T : i <= k
  <2> HIDE DEF T
  <2> QED
    BY <1>2, NatLeast
<1>4. i \in 1..n /\ i - 1 \in 0..n
  <2>1. i # 0
    BY <1>1, <1>3
  <2> QED
    BY <1>3, <2>1
<1>5. ~(x <= r[i - 1])
  <2> SUFFICES ASSUME x <= r[i - 1] PROVE FALSE
    OBVIOUS
  <2>1. i - 1 \in T
    BY <1>4
  <2> QED
    BY <1>3, <1>4, <2>1
<1>6. r[i] = r[i - 1] + Len(w[i]) /\ IsSeq(w[i]) /\ x <= r[i] /\ r[i - 1] \in Nat
  BY <1>1, <1>3, <1>4 DEF Offsets
<1> DEFINE j == x - r[i - 1]
           l == Len(w[i])
           q == r[i - 1]
<1>7. l \in Nat /\ q \in Nat /\ x \in Nat /\ x <= q + l /\ ~(x <= q)
  <2>1. x \in Nat
    <3>1. r[n] \in Nat
      BY <1>1
    <3> QED
      BY <3>1
  <2> QED
    BY <1>5, <1>6, <2>1 DEF IsSeq
<1>8. x - q \in 1..l /\ x = q + (x - q)
  <2> HIDE DEF q, l
  <2> QED
    BY <1>7
<1> QED
  BY <1>4, <1>8 DEF HasPlace

-----------------------------------------------------------------------------
(* Descriptors and their encoding.                                         *)

IsFields(var) == IsSeq(var) /\ \A j \in 1..Len(var) : IsSeq(var[j])
Rest(d) == RoundUp(Len(FlattenSeq(d.var)), Align)

(* Where the fields are in what is behind the fixed part.                  *)
FieldsAt(r, var) ==
  /\ Offsets(r, var, Len(var)) /\ FlatIs(FlattenSeq(var), var, r, Len(var))
  /\ \A j \in 0..Len(var) : Before(Lens(var), j) = r[j]
  /\ IsSeq(Lens(var)) /\ Len(Lens(var)) = Len(var)
  /\ \A j \in 1..Len(var) : Lens(var)[j] = Len(var[j])

LEMMA FieldsAre ==
  ASSUME NEW var, IsFields(var)
  PROVE  \E r : FieldsAt(r, var)
<1> DEFINE n == Len(var)
<1>1. n \in Nat /\ IsSeq(var) /\ DOMAIN var = 1..n
  <2>1. IsSeq(var) /\ n \in Nat /\ var = [k \in 1..n |-> var[k]]
    BY DEF IsFields, IsSeq
  <2> QED
    BY <2>1
<1>2. \A j \in 1..n : IsSeq(var[j])
  BY DEF IsFields
<1>3. PICK r : Offsets(r, var, n)
  BY <1>1, <1>2, OffsetsExist
<1>4. FlatIs(FlattenSeq(var), var, r, n)
  BY <1>1, <1>3, FlattenIs
<1>5. IsSeq(Lens(var)) /\ Len(Lens(var)) = n /\ \A j \in 1..n : Lens(var)[j] = Len(var[j])
  <2> DEFINE f == [j \in 1..n |-> Len(var[j])]
  <2>1. IsMap(Lens(var), n, f) /\ \A j \in 1..n : f[j] = Len(var[j])
    BY <1>1 DEF Lens, IsMap
  <2> HIDE DEF f, n
  <2> QED
    BY <1>1, <2>1, MapIs
<1>6. ASSUME NEW j \in 0..n
      PROVE  Before(Lens(var), j) = r[j]
  <2>1. \A k \in 0..n : r[k] = IF k = 0 THEN 0 ELSE r[k - 1] + Lens(var)[k]
    BY <1>3, <1>5 DEF Offsets
  <2>2. Sums(r, Lens(var), n)
    BY <2>1 DEF Sums
  <2> QED
    BY <1>1, <2>2, BeforeIs
<1> QED
  BY <1>3, <1>4, <1>5, <1>6 DEF FieldsAt

(* e is the encoding of d.                                                 *)
IsEncoded(e, d, r) ==
  /\ Rest(d) \in Nat /\ r[Len(d.var)] <= Rest(d)
  /\ IsSeq(e) /\ Len(e) = 1 + Rest(d) /\ e[1] = FixedCell(d, Rest(d))
  /\ \A j \in 1..Len(d.var) : \A k \in 1..Len(d.var[j]) : e[(1 + r[j - 1]) + k] = d.var[j][k]
  /\ \A k \in 2..Len(e) :
       e[k] = Zero \/ \E j \in 1..Len(d.var) : \E m \in 1..Len(d.var[j]) : e[k] = d.var[j][m]

LEMMA AlignIs == Align \in Nat \ {0}
  BY DescriptorsAssumption

LEMMA RestIs ==
  ASSUME NEW d, NEW r, IsFields(d.var), FieldsAt(r, d.var)
  PROVE  /\ Rest(d) \in Nat /\ r[Len(d.var)] <= Rest(d)
         /\ Rest(d) = RoundUp(r[Len(d.var)], Align)
<1> DEFINE n == Len(d.var)
<1>1. n \in Nat
  BY DEF IsFields, IsSeq
<1>2. r[n] \in Nat /\ Len(FlattenSeq(d.var)) = r[n]
  <2>1. n \in 0..n
    BY <1>1
  <2> QED
    BY <2>1 DEF FieldsAt, Offsets, FlatIs
<1> DEFINE q == r[n]
<1>3. q \in Nat /\ Rest(d) = RoundUp(q, Align)
  BY <1>2 DEF Rest
<1> HIDE DEF q
<1>4. RoundUp(q, Align) \in Nat /\ RoundUp(q, Align) >= q
  BY <1>3, AlignIs, FillIs
<1>5. Rest(d) \in Nat /\ q <= Rest(d)
  BY <1>3, <1>4
<1> QED
  BY <1>3, <1>5 DEF q

LEMMA EncodeIs ==
  ASSUME NEW d, NEW r, IsFields(d.var), FieldsAt(r, d.var)
  PROVE  IsEncoded(Encode(d), d, r)
<1> DEFINE n == Len(d.var)
           body == FlattenSeq(d.var)
           head == << FixedCell(d, Rest(d)) >>
           front == head \o body
           e == Encode(d)
<1>1. Rest(d) \in Nat /\ r[n] <= Rest(d)
  BY RestIs
<1>2. /\ n \in Nat /\ IsSeq(body) /\ Len(body) = r[n] /\ r[n] \in Nat
      /\ \A j \in 1..n : \A k \in 1..Len(d.var[j]) : body[r[j - 1] + k] = d.var[j][k]
      /\ Offsets(r, d.var, n)
  <2>1. n \in Nat
    BY DEF IsFields, IsSeq
  <2>2. n \in 0..n
    BY <2>1
  <2> QED
    BY <2>1, <2>2 DEF FieldsAt, Offsets, FlatIs
<1>3. e = front \o Zeros(Rest(d) - Len(body))
  BY DEF Encode, Rest
<1>4. IsSeq(head) /\ Len(head) = 1 /\ head[1] = FixedCell(d, Rest(d))
  BY OneIs
<1> HIDE DEF body, head, e
<1>5. IsBehind(front, head, body)
  BY <1>2, <1>4, ConcatIs
<1>6. /\ IsSeq(front) /\ Len(front) = 1 + r[n] /\ front[1] = FixedCell(d, Rest(d))
      /\ \A k \in 1..r[n] : front[1 + k] = body[k]
  <2>1. 1 \in 1..Len(head)
    BY <1>4
  <2> QED
    BY <1>2, <1>4, <1>5, <2>1 DEF IsBehind
<1> HIDE DEF front
<1> DEFINE z == Rest(d) - r[n]
<1>7. z \in Nat /\ Len(front) + z = 1 + Rest(d)
  <2> DEFINE q == r[n]
             t == Rest(d)
  <2>1. q \in Nat /\ t \in Nat /\ q <= t /\ Len(front) = 1 + q
    BY <1>1, <1>2, <1>6
  <2>2. t - q \in Nat /\ Len(front) + (t - q) = 1 + t
    <3> HIDE DEF q, t
    <3> QED
      BY <2>1
  <2> QED
    BY <2>2
<1>8. IsSeq(Zeros(z)) /\ Len(Zeros(z)) = z /\ \A k \in 1..z : Zeros(z)[k] = Zero
  <2> HIDE DEF z
  <2> QED
    BY <1>7, ZerosAre
<1>9. IsBehind(e, front, Zeros(z))
  <2>1. e = front \o Zeros(z)
    BY <1>2, <1>3
  <2> HIDE DEF z
  <2> QED
    BY <1>6, <1>8, <2>1, ConcatIs
<1> HIDE DEF z
<1>10. /\ IsSeq(e) /\ Len(e) = 1 + Rest(d)
       /\ \A k \in 1..(1 + r[n]) : e[k] = front[k]
       /\ \A k \in 1..z : e[(1 + r[n]) + k] = Zero
  BY <1>6, <1>7, <1>8, <1>9 DEF IsBehind
<1>11. e[1] = FixedCell(d, Rest(d))
  <2>1. 1 \in 1..(1 + r[n])
    BY <1>2
  <2> QED
    BY <1>6, <1>10, <2>1
<1>12. ASSUME NEW j \in 1..n, NEW k \in 1..Len(d.var[j])
       PROVE  e[(1 + r[j - 1]) + k] = d.var[j][k]
  <2> DEFINE x == r[j - 1] + k
  <2>1. x \in 1..r[n] /\ (1 + r[j - 1]) + k = 1 + x /\ 1 + x \in 1..(1 + r[n])
    <3>1. r[j] = r[j - 1] + Len(d.var[j]) /\ IsSeq(d.var[j]) /\ r[j - 1] \in Nat
      <4>1. j - 1 \in 0..n
        BY <1>2
      <4> QED
        BY <1>2, <4>1 DEF Offsets
    <3>2. r[j] <= r[n]
      <4>1. j \in 0..n /\ n \in j..n
        BY <1>2
      <4> QED
        BY <1>2, <4>1, OffsetsGrow
    <3> DEFINE a == r[j - 1]
               l == Len(d.var[j])
               q == r[n]
    <3>3. a \in Nat /\ l \in Nat /\ q \in Nat /\ a + l <= q /\ k \in 1..l
      BY <1>2, <3>1, <3>2 DEF IsSeq
    <3>4. a + k \in 1..q /\ (1 + a) + k = 1 + (a + k) /\ 1 + (a + k) \in 1..(1 + q)
      <4> HIDE DEF a, l, q
      <4> QED
        BY <3>3
    <3> QED
      BY <3>4
  <2>2. body[x] = d.var[j][k]
    BY <1>2
  <2> HIDE DEF x
  <2>3. e[1 + x] = body[x]
    BY <1>6, <1>10, <2>1
  <2> QED
    BY <2>1, <2>2, <2>3
<1>13. ASSUME NEW k \in 2..Len(e)
       PROVE  e[k] = Zero \/ \E j \in 1..n : \E m \in 1..Len(d.var[j]) : e[k] = d.var[j][m]
  <2> DEFINE q == r[n]
             x == k - 1
             y == k - (1 + q)
  <2>1. q \in Nat /\ k \in 2..(1 + Rest(d)) /\ z \in Nat /\ 1 + Rest(d) = (1 + q) + z
    BY <1>2, <1>6, <1>7, <1>10
  <2>2. CASE x <= q
    <3>1. x \in 1..q /\ 1 + x = k /\ k \in 1..(1 + q)
      <4> HIDE DEF q
      <4> QED
        BY <2>1, <2>2
    <3>2. e[k] = body[x]
      BY <1>6, <1>10, <3>1
    <3>3. HasPlace(r, d.var, n, x)
      <4>1. n \in Nat /\ Offsets(r, d.var, n) /\ x \in 1..r[n]
        BY <1>2, <3>1
      <4> HIDE DEF x, n
      <4> QED
        BY <4>1, PlaceOf
    <3>4. PICK i \in 1..n : \E j \in 1..Len(d.var[i]) : x = r[i - 1] + j
      BY <3>3 DEF HasPlace
    <3>5. PICK j \in 1..Len(d.var[i]) : x = r[i - 1] + j
      BY <3>4
    <3>6. body[x] = d.var[i][j]
      BY <1>2, <3>5
    <3> QED
      BY <3>2, <3>6
  <2>3. CASE ~(x <= q)
    <3>1. y \in 1..z /\ (1 + q) + y = k
      <4> HIDE DEF q
      <4> QED
        BY <2>1, <2>3
    <3>2. e[(1 + q) + y] = Zero
      <4> HIDE DEF y
      <4> QED
        BY <1>10, <3>1
    <3> QED
      BY <3>1, <3>2
  <2> QED
    BY <2>2, <2>3
<1> QED
  BY <1>1, <1>10, <1>11, <1>12, <1>13 DEF IsEncoded, e

-----------------------------------------------------------------------------
(* The descriptors of a blob behind each other.                            *)

IsDescs(ds) == IsSeq(ds) /\ \A i \in 1..Len(ds) : IsFields(ds[i].var)
FieldOffsets(d) == CHOOSE r : FieldsAt(r, d.var)
Fixed(d) == FixedCell(d, Rest(d))

LEMMA FieldOffsetsAre ==
  ASSUME NEW d, IsFields(d.var)
  PROVE  FieldsAt(FieldOffsets(d), d.var)
<1>1. \E r : FieldsAt(r, d.var)
  BY FieldsAre
<1> QED
  BY <1>1, Zenon DEF FieldOffsets

(* o is where each of the descriptors begins.                              *)
Placed(o, ds) ==
  /\ o[0] = 0 /\ \A k \in 0..Len(ds) : o[k] \in Nat
  /\ \A k \in 1..Len(ds) : o[k] = o[k - 1] + (1 + Rest(ds[k])) /\ Rest(ds[k]) \in Nat

LEMMA PlacesGrow ==
  ASSUME NEW o, NEW ds, NEW i, NEW j, Len(ds) \in Nat, Placed(o, ds), i \in 0..Len(ds), j \in i..Len(ds)
  PROVE  o[i] <= o[j]
<1> DEFINE n == Len(ds)
           ns == [k \in 1..n |-> 1 + Rest(ds[k])]
<1>1. \A k \in 1..n : ns[k] = 1 + Rest(ds[k]) /\ ns[k] \in Nat
  BY DEF Placed
<1> HIDE DEF ns
<1>2. \A k \in 0..n : o[k] = IF k = 0 THEN 0 ELSE o[k - 1] + ns[k]
  BY <1>1 DEF Placed
<1>3. Sums(o, ns, n)
  BY <1>2 DEF Sums
<1>4. n \in Nat /\ i \in 0..n /\ j \in i..n
  OBVIOUS
<1> HIDE DEF n
<1> QED
  BY <1>1, <1>3, <1>4, SumsGrow

(* They begin in different places, within the encoding.                    *)
LEMMA PlacesApart ==
  ASSUME NEW o, NEW ds, NEW i, NEW j, Len(ds) \in Nat, Placed(o, ds), i \in 1..Len(ds), j \in 1..Len(ds)
  PROVE  /\ o[i - 1] < o[i] /\ o[i - 1] \in Nat /\ o[i] \in Nat
         /\ o[i] <= o[Len(ds)] /\ o[Len(ds)] \in Nat
         /\ o[i - 1] = o[j - 1] => i = j
<1> DEFINE n == Len(ds)
<1>1. ASSUME NEW k \in 1..n
      PROVE  o[k - 1] < o[k] /\ o[k - 1] \in Nat /\ o[k] \in Nat /\ k - 1 \in 0..n /\ k \in 0..n
  <2>1. k - 1 \in 0..n /\ k \in 0..n
    OBVIOUS
  <2>2. o[k] = o[k - 1] + (1 + Rest(ds[k])) /\ Rest(ds[k]) \in Nat /\ o[k - 1] \in Nat /\ o[k] \in Nat
    BY <2>1 DEF Placed
  <2> DEFINE a == o[k - 1]
             b == o[k]
             t == Rest(ds[k])
  <2>3. a \in Nat /\ b \in Nat /\ t \in Nat /\ b = a + (1 + t)
    BY <2>2
  <2> HIDE DEF a, b, t
  <2>4. a < b
    BY <2>3
  <2> QED
    BY <2>1, <2>3, <2>4 DEF a, b
<1>2. o[n] \in Nat /\ n \in 0..n
  <2>1. n \in 0..n
    OBVIOUS
  <2> QED
    BY <2>1 DEF Placed
<1>3. o[i] <= o[n]
  <2>1. i \in 0..n /\ n \in i..n
    OBVIOUS
  <2> QED
    BY <2>1, PlacesGrow
<1>4. ASSUME NEW k \in 1..n, NEW l \in 1..n, k < l
      PROVE  o[k - 1] # o[l - 1]
  <2>1. k \in 0..n /\ l - 1 \in k..n
    BY <1>4
  <2>2. o[k] <= o[l - 1]
    BY <2>1, PlacesGrow
  <2>3. o[k - 1] < o[k] /\ o[k - 1] \in Nat /\ o[k] \in Nat /\ o[l - 1] \in Nat
    BY <1>1
  <2> QED
    BY <2>2, <2>3
<1>5. o[i - 1] = o[j - 1] => i = j
  <2> SUFFICES ASSUME o[i - 1] = o[j - 1], i # j PROVE FALSE
    OBVIOUS
  <2>1. i < j \/ j < i
    OBVIOUS
  <2>2. i \in 1..n /\ j \in 1..n
    OBVIOUS
  <2> HIDE DEF n
  <2> QED
    BY <1>4, <2>1, <2>2
<1> QED
  BY <1>1, <1>2, <1>3, <1>5

(* What the descriptors are written as.                                    *)
IsEncoding(data, ds, o) ==
  /\ Placed(o, ds) /\ IsSeq(data) /\ Len(data) = o[Len(ds)]
  /\ \A i \in 1..Len(ds) :
       /\ data[o[i - 1] + 1] = Fixed(ds[i])
       /\ \A j \in 1..Len(ds[i].var) : \A k \in 1..Len(ds[i].var[j]) :
            data[(o[i - 1] + 1) + (FieldOffsets(ds[i])[j - 1] + k)] = ds[i].var[j][k]
  /\ \A x \in 1..Len(data) :
       \/ \E i \in 1..Len(ds) : x = o[i - 1] + 1
       \/ data[x] = Zero
       \/ \E i \in 1..Len(ds) : \E j \in 1..Len(ds[i].var) : \E k \in 1..Len(ds[i].var[j]) :
            data[x] = ds[i].var[j][k]

LEMMA EncodeAllIs ==
  ASSUME NEW ds, IsDescs(ds)
  PROVE  \E o : IsEncoding(EncodeAll(ds), ds, o)
<1> DEFINE n == Len(ds)
           w == [i \in DOMAIN ds |-> Encode(ds[i])]
           data == EncodeAll(ds)
<1>1. n \in Nat /\ DOMAIN ds = 1..n /\ \A i \in 1..n : IsFields(ds[i].var)
  <2>1. n \in Nat /\ ds = [k \in 1..n |-> ds[k]]
    BY DEF IsDescs, IsSeq
  <2> QED
    BY <2>1 DEF IsDescs
<1>2. IsSeq(w) /\ Len(w) = n /\ \A i \in 1..n : w[i] = Encode(ds[i])
  <2> DEFINE f == [i \in 1..n |-> Encode(ds[i])]
  <2>1. IsMap(w, n, f) /\ \A i \in 1..n : f[i] = Encode(ds[i])
    BY <1>1 DEF IsMap
  <2> HIDE DEF f, w, n
  <2> QED
    BY <1>1, <2>1, MapIs
<1>3. data = FlattenSeq(w)
  BY DEF EncodeAll
<1> HIDE DEF w, data
<1>4. ASSUME NEW i \in 1..n
      PROVE  IsEncoded(w[i], ds[i], FieldOffsets(ds[i]))
  <2>1. IsFields(ds[i].var)
    BY <1>1
  <2> DEFINE d == ds[i]
  <2>2. IsFields(d.var) /\ w[i] = Encode(d)
    BY <1>2, <2>1
  <2> HIDE DEF d
  <2>3. IsEncoded(w[i], d, FieldOffsets(d))
    BY <2>2, FieldOffsetsAre, EncodeIs
  <2> QED
    BY <2>3 DEF d
<1>5. \A i \in 1..n : IsSeq(w[i]) /\ Len(w[i]) = 1 + Rest(ds[i]) /\ Rest(ds[i]) \in Nat
  BY <1>4 DEF IsEncoded
<1>6. PICK o : Offsets(o, w, n)
  BY <1>1, <1>5, OffsetsExist
<1>7. FlatIs(data, w, o, n)
  BY <1>2, <1>3, <1>6, FlattenIs
<1>8. Placed(o, ds)
  BY <1>5, <1>6 DEF Offsets, Placed
<1>9. IsSeq(data) /\ Len(data) = o[n] /\ \A i \in 1..n : \A j \in 1..Len(w[i]) : data[o[i - 1] + j] = w[i][j]
  BY <1>7 DEF FlatIs
<1>10. ASSUME NEW i \in 1..n
       PROVE  data[o[i - 1] + 1] = Fixed(ds[i])
  <2>1. 1 \in 1..Len(w[i])
    BY <1>5
  <2>2. w[i][1] = Fixed(ds[i])
    BY <1>4 DEF IsEncoded, Fixed
  <2> QED
    BY <1>9, <2>1, <2>2
<1>11. ASSUME NEW i \in 1..n, NEW j \in 1..Len(ds[i].var), NEW k \in 1..Len(ds[i].var[j])
       PROVE  data[(o[i - 1] + 1) + (FieldOffsets(ds[i])[j - 1] + k)] = ds[i].var[j][k]
  <2> DEFINE d == ds[i]
             r == FieldOffsets(d)
             m == Len(d.var)
  <2>1. FieldsAt(r, d.var) /\ IsFields(d.var)
    BY <1>1, FieldOffsetsAre
  <2> HIDE DEF r
  <2>2. r[j - 1] \in Nat /\ r[j] = r[j - 1] + Len(d.var[j]) /\ Len(d.var[j]) \in Nat /\ r[m] \in Nat
        /\ r[j] <= r[m]
    <3>1. m \in Nat
      BY <2>1 DEF IsFields, IsSeq
    <3>2. j - 1 \in 0..m /\ j \in 0..m /\ m \in j..m /\ m \in 0..m /\ j \in 1..m
      BY <3>1
    <3>3. Offsets(r, d.var, m)
      BY <2>1 DEF FieldsAt
    <3> HIDE DEF d, m
    <3>4. r[j] <= r[m]
      BY <3>1, <3>2, <3>3, OffsetsGrow
    <3> QED
      BY <3>2, <3>3, <3>4 DEF Offsets, IsSeq
  <2>3. r[m] <= Rest(d) /\ Rest(d) \in Nat /\ Len(w[i]) = 1 + Rest(d) /\ w[i][(1 + r[j - 1]) + k] = d.var[j][k]
    BY <1>4 DEF IsEncoded, r
  <2>4. o[i - 1] \in Nat
    <3>1. i - 1 \in 0..n
      BY <1>1
    <3> QED
      BY <1>6, <3>1 DEF Offsets
  <2> DEFINE a == r[j - 1]
             l == Len(d.var[j])
             q == r[m]
             t == Rest(d)
             b == o[i - 1]
  <2>5. a \in Nat /\ l \in Nat /\ q \in Nat /\ t \in Nat /\ b \in Nat /\ a + l <= q /\ q <= t /\ k \in 1..l
    BY <2>2, <2>3, <2>4
  <2>6. (1 + a) + k \in 1..(1 + t) /\ b + ((1 + a) + k) = (b + 1) + (a + k)
    <3> HIDE DEF a, l, q, t, b
    <3> QED
      BY <2>5
  <2>7. data[b + ((1 + a) + k)] = w[i][(1 + a) + k]
    <3> DEFINE x == (1 + a) + k
    <3>1. x \in 1..Len(w[i])
      BY <2>3, <2>6
    <3> HIDE DEF x, n, d, a, l, q, t, m
    <3>2. data[o[i - 1] + x] = w[i][x]
      BY <1>9, <3>1
    <3> QED
      BY <3>2 DEF x
  <2> QED
    BY <2>3, <2>6, <2>7 DEF r
<1>12. ASSUME NEW x \in 1..Len(data)
       PROVE  \/ \E i \in 1..n : x = o[i - 1] + 1
              \/ data[x] = Zero
              \/ \E i \in 1..n : \E j \in 1..Len(ds[i].var) : \E k \in 1..Len(ds[i].var[j]) :
                   data[x] = ds[i].var[j][k]
  <2>1. HasPlace(o, w, n, x)
    <3>1. x \in 1..o[n]
      BY <1>9
    <3> HIDE DEF n
    <3> QED
      BY <1>1, <1>6, <3>1, PlaceOf
  <2>2. PICK i \in 1..n : \E y \in 1..Len(w[i]) : x = o[i - 1] + y
    BY <2>1 DEF HasPlace
  <2>3. PICK y \in 1..Len(w[i]) : x = o[i - 1] + y
    BY <2>2
  <2>4. data[x] = w[i][y]
    BY <1>9, <2>3
  <2>5. CASE y = 1
    BY <2>3, <2>5
  <2>6. CASE y # 1
    <3>1. y \in 2..Len(w[i])
      BY <1>5, <2>6
    <3>2. \/ w[i][y] = Zero
          \/ \E j \in 1..Len(ds[i].var) : \E m \in 1..Len(ds[i].var[j]) : w[i][y] = ds[i].var[j][m]
      BY <1>4, <3>1 DEF IsEncoded
    <3> QED
      BY <2>4, <3>2
  <2> QED
    BY <2>5, <2>6
<1>13. IsEncoding(data, ds, o)
  BY <1>8, <1>9, <1>10, <1>11, <1>12 DEF IsEncoding
<1> QED
  BY <1>13 DEF data

-----------------------------------------------------------------------------
(* Descriptors are parsed from what has their shape: the fixed parts that  *)
(* are there at all are theirs, where they were.                           *)

Shaped(data, ds, o) ==
  /\ IsDescs(ds) /\ Placed(o, ds) /\ IsSeq(data) /\ Len(data) = o[Len(ds)]
  /\ \A x \in 1..Len(data) : data[x][1] = "descriptor" =>
       \E i \in 1..Len(ds) : x = o[i - 1] + 1 /\ data[x] = Fixed(ds[i])

Intact(data, ds, o) == \A i \in 1..Len(ds) : data[o[i - 1] + 1] = Fixed(ds[i])

After(data, x) == x + 1 + Following(data, x)

LEMMA FixedIs ==
  ASSUME NEW d, IsFields(d.var)
  PROVE  /\ Fixed(d)[1] = "descriptor" /\ Fixed(d)[2].following = Rest(d)
         /\ Fixed(d)[2].tag = d.tag /\ Fixed(d)[2].fixed = d.fixed /\ Fixed(d)[2].lens = Lens(d.var)
         /\ ~Refused(Fixed(d)) /\ Rest(d) \in Nat
<1> DEFINE r == FieldOffsets(d)
           n == Len(d.var)
           c == Fixed(d)
<1>1. FieldsAt(r, d.var)
  BY FieldOffsetsAre
<1> HIDE DEF r
<1>2. /\ c[1] = "descriptor" /\ c[2].following = Rest(d) /\ c[2].tag = d.tag /\ c[2].fixed = d.fixed
      /\ c[2].lens = Lens(d.var)
  BY DEF Fixed, FixedCell
<1> HIDE DEF c
<1>3. Len(Lens(d.var)) = n /\ Before(Lens(d.var), n) = r[n]
  <2>1. n \in Nat
    BY DEF IsFields, IsSeq
  <2>2. n \in 0..n
    BY <2>1
  <2> QED
    BY <1>1, <2>2 DEF FieldsAt
<1>4. Rest(d) = RoundUp(r[n], Align) /\ Rest(d) \in Nat
  BY <1>1, RestIs
<1>5. ~Refused(c)
  <2>1. RoundUp(Before(c[2].lens, Len(c[2].lens)), Align) = c[2].following
    BY <1>2, <1>3, <1>4
  <2> QED
    BY <1>2, <2>1 DEF Refused
<1> QED
  BY <1>2, <1>4, <1>5 DEF c

HasNext(data, ds, o, x) ==
  \E i \in 1..Len(ds) : x = o[i - 1] /\ data[x + 1] = Fixed(ds[i]) /\ After(data, x) = o[i]

(* From a descriptor that is not refused on comes the next one.            *)
LEMMA AfterIs ==
  ASSUME NEW data, NEW ds, NEW o, NEW x, Shaped(data, ds, o), x \in Nat, x < Len(data),
         ~Refused(data[x + 1])
  PROVE  HasNext(data, ds, o, x)
<1> DEFINE y == x + 1
<1>1. Len(data) \in Nat /\ Len(ds) \in Nat
  BY DEF Shaped, IsDescs, IsSeq
<1>2. y \in 1..Len(data) /\ y - 1 = x
  BY <1>1
<1>3. data[y][1] = "descriptor"
  BY DEF Refused
<1> HIDE DEF y
<1>4. PICK i \in 1..Len(ds) : y = o[i - 1] + 1 /\ data[y] = Fixed(ds[i])
  BY <1>2, <1>3 DEF Shaped
<1>5. /\ o[i] = o[i - 1] + (1 + Rest(ds[i])) /\ Rest(ds[i]) \in Nat /\ o[i - 1] \in Nat
      /\ IsFields(ds[i].var)
  <2>1. i - 1 \in 0..Len(ds)
    BY <1>1
  <2> QED
    BY <2>1 DEF Shaped, Placed, IsDescs
<1>6. Fixed(ds[i])[2].following = Rest(ds[i])
  <2> DEFINE d == ds[i]
  <2>1. IsFields(d.var)
    BY <1>5
  <2> HIDE DEF d
  <2>2. Fixed(d)[2].following = Rest(d)
    BY <2>1, FixedIs
  <2> QED
    BY <2>2 DEF d
<1>7. Following(data, x) = Rest(ds[i])
  <2>1. data[x + 1] = Fixed(ds[i])
    BY <1>4 DEF y
  <2> QED
    BY <1>6, <2>1 DEF Following
<1>8. x = o[i - 1]
  <2> DEFINE a == o[i - 1]
  <2>1. a \in Nat /\ y = a + 1
    BY <1>4, <1>5
  <2> HIDE DEF a
  <2>2. x = a
    BY <1>2, <2>1
  <2> QED
    BY <2>2 DEF a
<1>9. After(data, x) = o[i]
  <2> DEFINE a == o[i - 1]
             t == Rest(ds[i])
             b == o[i]
  <2>1. a \in Nat /\ t \in Nat /\ b = a + (1 + t) /\ x = a /\ After(data, x) = x + 1 + t
    BY <1>5, <1>7, <1>8 DEF After
  <2> HIDE DEF a, t, b
  <2>2. After(data, x) = b
    BY <2>1
  <2> QED
    BY <2>2 DEF b
<1>10. data[x + 1] = Fixed(ds[i])
  BY <1>4 DEF y
<1> QED
  BY <1>8, <1>9, <1>10 DEF HasNext

LEMMA AfterMore ==
  ASSUME NEW data, NEW ds, NEW o, NEW x, Shaped(data, ds, o), x \in Nat, x < Len(data),
         ~Refused(data[x + 1])
  PROVE  After(data, x) \in Nat /\ After(data, x) > x
<1>1. PICK i \in 1..Len(ds) : x = o[i - 1] /\ After(data, x) = o[i]
  <2>1. HasNext(data, ds, o, x)
    BY AfterIs
  <2> QED
    BY <2>1 DEF HasNext
<1>2. Len(ds) \in Nat /\ Placed(o, ds)
  BY DEF Shaped, IsDescs, IsSeq
<1>3. o[i - 1] < o[i] /\ o[i - 1] \in Nat /\ o[i] \in Nat
  BY <1>2, PlacesApart
<1> DEFINE a == o[i - 1]
           b == o[i]
<1>4. a < b /\ a \in Nat /\ b \in Nat /\ x = a /\ After(data, x) = b
  BY <1>1, <1>3
<1> HIDE DEF a, b
<1> QED
  BY <1>4

(* A fixed part that is not intact is refused.                             *)
LEMMA BrokenIsRefused ==
  ASSUME NEW data, NEW ds, NEW o, NEW i, Shaped(data, ds, o), i \in 1..Len(ds)
  PROVE  /\ Refused(data[o[i - 1] + 1]) <=> data[o[i - 1] + 1] # Fixed(ds[i])
         /\ o[i - 1] \in Nat /\ o[i - 1] < Len(data)
<1>1. Len(ds) \in Nat /\ Placed(o, ds) /\ Len(data) = o[Len(ds)] /\ \A k \in 1..Len(ds) : IsFields(ds[k].var)
  BY DEF Shaped, IsDescs, IsSeq
<1>2. /\ o[i - 1] < o[i] /\ o[i - 1] \in Nat /\ o[i] \in Nat
      /\ o[i] <= o[Len(ds)] /\ o[Len(ds)] \in Nat
  BY <1>1, PlacesApart
<1>3. o[i - 1] < Len(data)
  <2> DEFINE a == o[i - 1]
             b == o[i]
             l == o[Len(ds)]
  <2>1. a \in Nat /\ b \in Nat /\ l \in Nat /\ a < b /\ b <= l
    BY <1>2
  <2> HIDE DEF a, b, l
  <2>2. a < l
    BY <2>1
  <2> QED
    BY <1>1, <2>2 DEF a, l
<1>4. ASSUME ~Refused(data[o[i - 1] + 1])
      PROVE  data[o[i - 1] + 1] = Fixed(ds[i])
  <2> DEFINE x == o[i - 1]
  <2>1. x \in Nat /\ x < Len(data) /\ ~Refused(data[x + 1])
    BY <1>2, <1>3, <1>4
  <2>2. PICK k \in 1..Len(ds) : x = o[k - 1] /\ data[x + 1] = Fixed(ds[k])
    <3> HIDE DEF x
    <3>1. HasNext(data, ds, o, x)
      BY <2>1, AfterIs
    <3> QED
      BY <3>1 DEF HasNext
  <2>3. i = k
    BY <1>1, <2>2, PlacesApart
  <2> QED
    BY <2>2, <2>3
<1>5. ASSUME data[o[i - 1] + 1] = Fixed(ds[i])
      PROVE  ~Refused(data[o[i - 1] + 1])
  <2> DEFINE d == ds[i]
  <2>1. IsFields(d.var)
    BY <1>1
  <2> HIDE DEF d
  <2>2. ~Refused(Fixed(d))
    BY <2>1, FixedIs
  <2> QED
    BY <1>5, <2>2 DEF d
<1> QED
  BY <1>2, <1>3, <1>4, <1>5

(* The places from which all descriptors are accepted.                     *)
AcceptRule(A, data, x) ==
  x \in A <=> (x >= Len(data) \/ (~Refused(data[x + 1]) /\ After(data, x) \in A))

LEMMA AcceptExists ==
  ASSUME NEW data, NEW ds, NEW o, Shaped(data, ds, o)
  PROVE  \E A : \A x \in Nat : AcceptRule(A, data, x)
<1> DEFINE L == Len(data)
           Good(A, m) == \A x \in Nat : x + m >= L => AcceptRule(A, data, x)
           T == {m \in Nat : \E A : Good(A, m)}
<1>1. L \in Nat
  BY DEF Shaped, IsSeq
<1>2. 0 \in T
  <2>1. \A x \in Nat : x + 0 >= L => AcceptRule(Nat, data, x)
    BY <1>1 DEF AcceptRule
  <2> QED
    BY <2>1
<1>3. ASSUME NEW m \in Nat, m \in T
      PROVE  m + 1 \in T
  <2>1. PICK A : Good(A, m)
    BY <1>3
  <2>2. CASE L <= m
    <3>1. \A x \in Nat : x + (m + 1) >= L => x + m >= L
      BY <1>1, <2>2
    <3>2. Good(A, m + 1)
      BY <2>1, <3>1
    <3> HIDE DEF Good
    <3> QED
      BY <3>2
  <2>3. CASE ~(L <= m)
    <3> DEFINE y == L - (m + 1)
               yes == ~Refused(data[y + 1]) /\ After(data, y) \in A
               B == IF yes THEN A \cup {y} ELSE A \ {y}
    <3>1. y \in Nat /\ y < L /\ ~(y >= L)
      BY <1>1, <2>3
    <3>2. \A x \in Nat : x + (m + 1) >= L => x = y \/ (x + m >= L /\ x # y /\ x > y)
      BY <1>1, <2>3
    <3> HIDE DEF y
    <3>3. (y \in B <=> yes) /\ \A x : x # y => (x \in B <=> x \in A)
      OBVIOUS
    <3> HIDE DEF B, yes
    <3>4. ASSUME NEW x \in Nat, x + (m + 1) >= L, ~Refused(data[x + 1]), x < L
          PROVE  After(data, x) # y /\ (x = y => (yes <=> After(data, x) \in A))
      <4>1. After(data, x) \in Nat /\ After(data, x) > x
        BY <3>4, AfterMore
      <4>2. After(data, x) # y
        BY <3>1, <3>2, <3>4, <4>1
      <4>3. x = y => (yes <=> After(data, x) \in A)
        BY <3>4 DEF yes
      <4> QED
        BY <4>2, <4>3
    <3>5. ASSUME NEW x \in Nat, x + (m + 1) >= L
          PROVE  AcceptRule(B, data, x)
      <4>1. CASE x = y
        <5>1. CASE Refused(data[x + 1])
          <6>1. ~yes /\ ~(x >= L)
            BY <3>1, <4>1, <5>1 DEF yes
          <6> QED
            BY <3>3, <4>1, <5>1, <6>1 DEF AcceptRule
        <5>2. CASE ~Refused(data[x + 1])
          <6>1. After(data, x) # y /\ (yes <=> After(data, x) \in A) /\ ~(x >= L)
            BY <3>1, <3>4, <3>5, <4>1, <5>2
          <6>2. After(data, x) \in B <=> After(data, x) \in A
            BY <3>3, <6>1
          <6> QED
            BY <3>3, <4>1, <5>2, <6>1, <6>2 DEF AcceptRule
        <5> QED
          BY <5>1, <5>2
      <4>2. CASE x # y
        <5>1. AcceptRule(A, data, x) /\ (x \in B <=> x \in A)
          BY <2>1, <3>2, <3>3, <3>5, <4>2
        <5>2. CASE x >= L \/ Refused(data[x + 1])
          BY <5>1, <5>2 DEF AcceptRule
        <5>3. CASE ~(x >= L) /\ ~Refused(data[x + 1])
          <6>1. x < L
            BY <1>1, <5>3
          <6>2. After(data, x) # y
            BY <3>4, <3>5, <5>3, <6>1
          <6>3. After(data, x) \in B <=> After(data, x) \in A
            BY <3>3, <6>2
          <6> QED
            BY <5>1, <6>3 DEF AcceptRule
        <5> QED
          BY <5>2, <5>3
      <4> QED
        BY <4>1, <4>2
    <3>6. Good(B, m + 1)
      BY <3>5
    <3> HIDE DEF Good
    <3> QED
      BY <3>6
  <2> QED
    BY <2>2, <2>3
<1>4. L \in T
  <2> HIDE DEF T
  <2>1. Nat \subseteq T
    BY <1>2, <1>3, StepInduction
  <2> QED
    BY <1>1, <2>1
<1>5. PICK A : Good(A, L)
  BY <1>4
<1>6. \A x \in Nat : x + L >= L
  BY <1>1
<1>7. \A x \in Nat : AcceptRule(A, data, x)
  BY <1>5, <1>6
<1> QED
  BY <1>7

LEMMA AcceptedSet ==
  ASSUME NEW data, NEW ds, NEW o, Shaped(data, ds, o)
  PROVE  \E C : (\A x \in Nat : AcceptRule(C, data, x)) /\ (Accepted(data) <=> 0 \in C)
<1> DEFINE L == Len(data)
           Is(f) == f = [x \in Nat |-> IF x >= L THEN TRUE
                                       ELSE ~Refused(data[x + 1]) /\ f[x + 1 + Following(data, x)]]
<1>1. PICK A : \A x \in Nat : AcceptRule(A, data, x)
  BY AcceptExists
<1>2. L \in Nat
  BY DEF Shaped, IsSeq
<1> DEFINE e == [x \in Nat |-> IF x \in A THEN TRUE ELSE FALSE]
<1>3. Is(e)
  <2>1. ASSUME NEW x \in Nat
        PROVE  e[x] = IF x >= L THEN TRUE
                      ELSE ~Refused(data[x + 1]) /\ e[x + 1 + Following(data, x)]
    <3>1. (e[x] = IF x \in A THEN TRUE ELSE FALSE) /\ AcceptRule(A, data, x)
      BY <1>1
    <3>2. CASE x >= L
      BY <3>1, <3>2 DEF AcceptRule
    <3>3. CASE ~(x >= L) /\ Refused(data[x + 1])
      <4>1. x \notin A
        BY <3>1, <3>3 DEF AcceptRule
      <4>2. e[x] = FALSE
        BY <3>1, <4>1
      <4> QED
        BY <3>3, <4>2
    <3>4. CASE ~(x >= L) /\ ~Refused(data[x + 1])
      <4>1. x < L
        BY <1>2, <3>4
      <4>2. After(data, x) \in Nat
        BY <3>4, <4>1, AfterMore
      <4>3. x + 1 + Following(data, x) \in Nat
        BY <4>2 DEF After
      <4>4. e[x + 1 + Following(data, x)] = IF After(data, x) \in A THEN TRUE ELSE FALSE
        BY <4>3 DEF After
      <4>5. x \in A <=> After(data, x) \in A
        BY <3>1, <3>4 DEF AcceptRule
      <4> DEFINE y == x + 1 + Following(data, x)
      <4>6. CASE After(data, x) \in A
        <5>1. e[x] = TRUE /\ e[y] = TRUE
          BY <3>1, <4>4, <4>5, <4>6
        <5> HIDE DEF e, y
        <5>2. e[x] = (~Refused(data[x + 1]) /\ e[y])
          BY <3>4, <5>1
        <5> QED
          BY <3>4, <5>2 DEF y
      <4>7. CASE After(data, x) \notin A
        <5>1. e[x] = FALSE /\ e[y] = FALSE
          BY <3>1, <4>4, <4>5, <4>7
        <5> HIDE DEF e, y
        <5>2. e[x] = (~Refused(data[x + 1]) /\ e[y])
          BY <3>4, <5>1
        <5> QED
          BY <3>4, <5>2 DEF y
      <4> QED
        BY <4>6, <4>7
    <3> QED
      BY <3>2, <3>3, <3>4
  <2>2. e = [x \in Nat |-> e[x]]
    OBVIOUS
  <2> HIDE DEF e
  <2>3. [x \in Nat |-> e[x]] = [x \in Nat |-> IF x >= L THEN TRUE
                                 ELSE ~Refused(data[x + 1]) /\ e[x + 1 + Following(data, x)]]
    BY <2>1
  <2> QED
    BY <2>2, <2>3, Zenon
<1>4. PICK c : c = (CHOOSE f : Is(f)) /\ Is(c)
  <2> HIDE DEF Is
  <2> QED
    BY <1>3
<1>5. Accepted(data) = c[0]
  BY <1>4, Zenon DEF Accepted
<1>6. \A x \in Nat : c[x] = IF x >= L THEN TRUE
                            ELSE ~Refused(data[x + 1]) /\ c[x + 1 + Following(data, x)]
  BY <1>4
<1> DEFINE C == {x \in Nat : c[x]}
<1>7. ASSUME NEW x \in Nat
      PROVE  AcceptRule(C, data, x)
  <2>1. c[x] = IF x >= L THEN TRUE ELSE ~Refused(data[x + 1]) /\ c[x + 1 + Following(data, x)]
    BY <1>6
  <2>2. CASE x >= L
    <3>1. c[x]
      BY <2>1, <2>2
    <3> QED
      BY <2>2, <3>1 DEF AcceptRule
  <2>3. CASE ~(x >= L) /\ Refused(data[x + 1])
    <3>1. c[x] = FALSE
      BY <2>1, <2>3
    <3> QED
      BY <2>3, <3>1 DEF AcceptRule
  <2>4. CASE ~(x >= L) /\ ~Refused(data[x + 1])
    <3>1. x < L
      BY <1>2, <2>4
    <3>2. After(data, x) \in Nat
      BY <2>4, <3>1, AfterMore
    <3>3. c[x] <=> c[After(data, x)]
      BY <2>1, <2>4 DEF After
    <3>4. x \in C <=> After(data, x) \in C
      BY <3>2, <3>3
    <3> HIDE DEF C
    <3> QED
      BY <2>4, <3>4 DEF AcceptRule
  <2> QED
    BY <2>2, <2>3, <2>4
<1>8. Accepted(data) <=> 0 \in C
  <2>1. 0 \in C <=> c[0]
    OBVIOUS
  <2> HIDE DEF C
  <2> QED
    BY <1>5, <2>1
<1> HIDE DEF C
<1> QED
  BY <1>7, <1>8

(* The descriptors are accepted when their fixed parts are all there.      *)
LEMMA AcceptedIs ==
  ASSUME NEW data, NEW ds, NEW o, Shaped(data, ds, o)
  PROVE  Accepted(data) <=> Intact(data, ds, o)
<1> DEFINE n == Len(ds)
           L == Len(data)
<1>1. n \in Nat /\ L = o[n] /\ L \in Nat /\ Placed(o, ds) /\ IsDescs(ds)
  BY DEF Shaped, IsSeq, IsDescs
<1>2. PICK C : (\A x \in Nat : AcceptRule(C, data, x)) /\ (Accepted(data) <=> 0 \in C)
  BY AcceptedSet
<1> DEFINE In(k) == \A i \in 1..n : i > n - k => data[o[i - 1] + 1] = Fixed(ds[i])
           T == {k \in Nat : k <= n => (o[n - k] \in C <=> In(k))}
<1>3. 0 \in T
  <2>1. L \in C
    <3>1. L >= L /\ AcceptRule(C, data, L)
      BY <1>1, <1>2
    <3> QED
      BY <3>1 DEF AcceptRule
  <2>2. In(0)
    <3>1. \A i \in 1..n : ~(i > n - 0)
      BY <1>1
    <3> QED
      BY <3>1
  <2>3. o[n - 0] = L
    <3>1. n - 0 = n
      BY <1>1
    <3> QED
      BY <1>1, <3>1
  <2> HIDE DEF In
  <2> QED
    BY <2>1, <2>2, <2>3
<1>4. ASSUME NEW k \in Nat, k \in T
      PROVE  k + 1 \in T
  <2> SUFFICES ASSUME k + 1 <= n PROVE o[n - (k + 1)] \in C <=> In(k + 1)
    OBVIOUS
  <2> DEFINE i == n - k
             x == o[i - 1]
  <2>1. i \in 1..n /\ n - (k + 1) = i - 1 /\ k <= n
        /\ \A j \in 1..n : (j > n - (k + 1) <=> (j = i \/ j > n - k)) /\ (j = i => ~(j > n - k))
    BY <1>1
  <2>2. o[i] \in C <=> In(k)
    BY <1>4, <2>1
  <2>3. In(k + 1) <=> (In(k) /\ data[x + 1] = Fixed(ds[i]))
    BY <2>1
  <2> HIDE DEF In, i
  <2>4. (Refused(data[x + 1]) <=> data[x + 1] # Fixed(ds[i])) /\ x \in Nat /\ x < L
    BY <2>1, BrokenIsRefused
  <2>5. x \in C <=> (x >= L \/ (~Refused(data[x + 1]) /\ After(data, x) \in C))
    <3>1. AcceptRule(C, data, x)
      BY <1>2, <2>4
    <3> QED
      BY <3>1 DEF AcceptRule
  <2>6. ~(x >= L)
    BY <1>1, <2>4
  <2>7. ~Refused(data[x + 1]) => After(data, x) = o[i]
    <3> SUFFICES ASSUME ~Refused(data[x + 1]) PROVE After(data, x) = o[i]
      OBVIOUS
    <3>1. PICK j \in 1..Len(ds) : x = o[j - 1] /\ After(data, x) = o[j]
      <4>1. HasNext(data, ds, o, x)
        <5> HIDE DEF x
        <5> QED
          BY <2>4, AfterIs
      <4> QED
        BY <4>1 DEF HasNext
    <3>2. i = j
      <4>1. o[i - 1] = o[j - 1] /\ Len(ds) \in Nat /\ i \in 1..Len(ds) /\ j \in 1..Len(ds)
        BY <1>1, <2>1, <3>1
      <4> HIDE DEF n, x
      <4> QED
        BY <1>1, <4>1, PlacesApart
    <3> QED
      BY <3>1, <3>2
  <2>8. x \in C <=> In(k + 1)
    <3> HIDE DEF x
    <3> QED
      BY <2>2, <2>3, <2>4, <2>5, <2>6, <2>7
  <2> QED
    BY <2>1, <2>8
<1>5. n \in T
  <2> HIDE DEF T
  <2>1. Nat \subseteq T
    BY <1>3, <1>4, StepInduction
  <2> QED
    BY <1>1, <2>1
<1>6. n - n = 0 /\ n <= n /\ o[0] = 0 /\ \A i \in 1..n : i > n - n
  BY <1>1 DEF Placed
<1>7. 0 \in C <=> In(n)
  BY <1>5, <1>6
<1>8. In(n) <=> Intact(data, ds, o)
  BY <1>6 DEF Intact
<1> HIDE DEF In
<1> QED
  BY <1>2, <1>7, <1>8

(* parse_descriptors, from each place on.                                  *)
ParseRule(f, data, x) ==
  f[x] = IF x >= Len(data) \/ Refused(data[x + 1]) THEN << >>
         ELSE << Decode(data, x) >> \o f[After(data, x)]

LEMMA ParseExists ==
  ASSUME NEW data, NEW ds, NEW o, Shaped(data, ds, o)
  PROVE  \E f : \A x \in Nat : ParseRule(f, data, x)
<1> DEFINE L == Len(data)
           Good(f, m) == \A x \in Nat : x + m >= L => ParseRule(f, data, x)
           T == {m \in Nat : \E f : Good(f, m)}
<1>1. L \in Nat
  BY DEF Shaped, IsSeq
<1>2. 0 \in T
  <2> DEFINE e == [x \in Nat |-> << >>]
  <2>1. ASSUME NEW x \in Nat, x + 0 >= L
        PROVE  ParseRule(e, data, x)
    <3>1. x >= L
      BY <1>1, <2>1
    <3> QED
      BY <3>1 DEF ParseRule
  <2> QED
    BY <2>1
<1>3. ASSUME NEW m \in Nat, m \in T
      PROVE  m + 1 \in T
  <2>1. PICK f : Good(f, m)
    BY <1>3
  <2>2. CASE L <= m
    <3>1. \A x \in Nat : x + (m + 1) >= L => x + m >= L
      BY <1>1, <2>2
    <3>2. Good(f, m + 1)
      BY <2>1, <3>1
    <3> HIDE DEF Good
    <3> QED
      BY <3>2
  <2>3. CASE ~(L <= m)
    <3> DEFINE y == L - (m + 1)
               v == IF y >= L \/ Refused(data[y + 1]) THEN << >>
                    ELSE << Decode(data, y) >> \o f[After(data, y)]
               g == [x \in Nat |-> IF x = y THEN v ELSE f[x]]
    <3>1. y \in Nat /\ y < L /\ ~(y >= L)
      BY <1>1, <2>3
    <3>2. \A x \in Nat : x + (m + 1) >= L => x = y \/ (x + m >= L /\ x # y /\ x > y)
      BY <1>1, <2>3
    <3> HIDE DEF y
    <3>3. g[y] = v /\ \A x \in Nat : x # y => g[x] = f[x]
      BY <3>1
    <3> HIDE DEF g
    <3>4. ASSUME NEW x \in Nat, x + (m + 1) >= L, ~Refused(data[x + 1]), x < L
          PROVE  g[After(data, x)] = f[After(data, x)]
      <4>1. After(data, x) \in Nat /\ After(data, x) > x
        BY <3>4, AfterMore
      <4>2. After(data, x) # y
        BY <3>1, <3>2, <3>4, <4>1
      <4> QED
        BY <3>3, <4>1, <4>2
    <3>5. ASSUME NEW x \in Nat, x + (m + 1) >= L
          PROVE  ParseRule(g, data, x)
      <4>1. CASE x >= L \/ Refused(data[x + 1])
        <5>1. g[x] = << >>
          <6>1. CASE x = y
            BY <3>3, <4>1, <6>1
          <6>2. CASE x # y
            <7>1. g[x] = f[x] /\ ParseRule(f, data, x)
              BY <2>1, <3>2, <3>3, <3>5, <6>2
            <7> QED
              BY <4>1, <7>1 DEF ParseRule
          <6> QED
            BY <6>1, <6>2
        <5> QED
          BY <4>1, <5>1 DEF ParseRule
      <4>2. CASE ~(x >= L) /\ ~Refused(data[x + 1])
        <5>1. x < L
          BY <1>1, <4>2
        <5>2. g[After(data, x)] = f[After(data, x)]
          BY <3>4, <3>5, <4>2, <5>1
        <5>3. g[x] = << Decode(data, x) >> \o f[After(data, x)]
          <6>1. CASE x = y
            BY <3>3, <4>2, <6>1
          <6>2. CASE x # y
            <7>1. g[x] = f[x] /\ ParseRule(f, data, x)
              BY <2>1, <3>2, <3>3, <3>5, <6>2
            <7> QED
              BY <4>2, <7>1 DEF ParseRule
          <6> QED
            BY <6>1, <6>2
        <5> QED
          BY <4>2, <5>2, <5>3 DEF ParseRule
      <4> QED
        BY <4>1, <4>2
    <3>6. Good(g, m + 1)
      BY <3>5
    <3> HIDE DEF Good
    <3> QED
      BY <3>6
  <2> QED
    BY <2>2, <2>3
<1>4. L \in T
  <2> HIDE DEF T
  <2>1. Nat \subseteq T
    BY <1>2, <1>3, StepInduction
  <2> QED
    BY <1>1, <2>1
<1>5. PICK f : Good(f, L)
  BY <1>4
<1>6. \A x \in Nat : x + L >= L
  BY <1>1
<1>7. \A x \in Nat : ParseRule(f, data, x)
  BY <1>5, <1>6
<1> QED
  BY <1>7

LEMMA ParseFunction ==
  ASSUME NEW data, NEW ds, NEW o, Shaped(data, ds, o)
  PROVE  \E c : (\A x \in Nat : ParseRule(c, data, x)) /\ ParseDescriptors(data) = c[0]
<1> DEFINE L == Len(data)
           Is(f) == f = [x \in Nat |-> IF x >= L \/ Refused(data[x + 1]) THEN << >>
                                       ELSE << Decode(data, x) >> \o f[x + 1 + Following(data, x)]]
<1>1. PICK f : \A x \in Nat : ParseRule(f, data, x)
  BY ParseExists
<1>2. L \in Nat
  BY DEF Shaped, IsSeq
<1> DEFINE e == [x \in Nat |-> f[x]]
<1>3. Is(e)
  <2>1. ASSUME NEW x \in Nat
        PROVE  e[x] = IF x >= L \/ Refused(data[x + 1]) THEN << >>
                      ELSE << Decode(data, x) >> \o e[x + 1 + Following(data, x)]
    <3>1. e[x] = f[x] /\ ParseRule(f, data, x)
      BY <1>1
    <3>2. CASE x >= L \/ Refused(data[x + 1])
      BY <3>1, <3>2 DEF ParseRule
    <3>3. CASE ~(x >= L) /\ ~Refused(data[x + 1])
      <4>1. x < L
        BY <1>2, <3>3
      <4>2. After(data, x) \in Nat
        BY <3>3, <4>1, AfterMore
      <4>3. e[After(data, x)] = f[After(data, x)]
        BY <4>2
      <4> HIDE DEF e
      <4> QED
        BY <3>1, <3>3, <4>3 DEF ParseRule, After
    <3> QED
      BY <3>2, <3>3
  <2>2. e = [x \in Nat |-> e[x]]
    OBVIOUS
  <2> HIDE DEF e
  <2>3. [x \in Nat |-> e[x]] = [x \in Nat |-> IF x >= L \/ Refused(data[x + 1]) THEN << >>
                                 ELSE << Decode(data, x) >> \o e[x + 1 + Following(data, x)]]
    BY <2>1
  <2> QED
    BY <2>2, <2>3, Zenon
<1>4. PICK c : c = (CHOOSE g : Is(g)) /\ Is(c)
  <2> HIDE DEF Is
  <2> QED
    BY <1>3
<1>5. ParseDescriptors(data) = c[0]
  BY <1>4, Zenon DEF ParseDescriptors
<1>6. \A x \in Nat : c[x] = IF x >= L \/ Refused(data[x + 1]) THEN << >>
                            ELSE << Decode(data, x) >> \o c[x + 1 + Following(data, x)]
  BY <1>4
<1>7. \A x \in Nat : ParseRule(c, data, x)
  BY <1>6, Zenon DEF ParseRule, After
<1> QED
  BY <1>5, <1>7

LEMMA ParsedIs ==
  ASSUME NEW data, NEW ds, NEW o, Shaped(data, ds, o), Intact(data, ds, o)
  PROVE  /\ IsSeq(ParseDescriptors(data)) /\ Len(ParseDescriptors(data)) = Len(ds)
         /\ \A i \in 1..Len(ds) : ParseDescriptors(data)[i] = Decode(data, o[i - 1])
<1> DEFINE n == Len(ds)
           L == Len(data)
<1>1. n \in Nat /\ L = o[n] /\ L \in Nat /\ Placed(o, ds) /\ IsDescs(ds)
  BY DEF Shaped, IsSeq, IsDescs
<1>2. PICK c : (\A x \in Nat : ParseRule(c, data, x)) /\ ParseDescriptors(data) = c[0]
  BY ParseFunction
<1> DEFINE Done(k) == LET s == c[o[n - k]] IN
                      IsSeq(s) /\ Len(s) = k /\ \A q \in 1..k : s[q] = Decode(data, o[((n - k) + q) - 1])
           T == {k \in Nat : k <= n => Done(k)}
<1>3. 0 \in T
  <2>1. c[L] = << >>
    <3>1. L >= L /\ ParseRule(c, data, L)
      BY <1>1, <1>2
    <3> QED
      BY <3>1 DEF ParseRule
  <2>2. o[n - 0] = L
    <3>1. n - 0 = n
      BY <1>1
    <3> QED
      BY <1>1, <3>1
  <2>3. 1..0 = {}
    OBVIOUS
  <2> QED
    BY <2>1, <2>2, <2>3, NoneIs
<1>4. ASSUME NEW k \in Nat, k \in T
      PROVE  k + 1 \in T
  <2> HIDE DEF Done
  <2> SUFFICES ASSUME k + 1 <= n PROVE Done(k + 1)
    OBVIOUS
  <2> DEFINE i == n - k
             x == o[i - 1]
             t == c[o[i]]
             s == c[x]
             h == << Decode(data, x) >>
  <2>1. i \in 1..n /\ n - (k + 1) = i - 1 /\ k <= n
    BY <1>1
  <2>2. IsSeq(t) /\ Len(t) = k /\ \A q \in 1..k : t[q] = Decode(data, o[(i + q) - 1])
    <3>1. Done(k)
      BY <1>4, <2>1
    <3> QED
      BY <3>1 DEF Done
  <2> HIDE DEF i
  <2>3. ~Refused(data[x + 1]) /\ x \in Nat /\ x < L
    <3>1. (Refused(data[o[i - 1] + 1]) <=> data[o[i - 1] + 1] # Fixed(ds[i])) /\ x \in Nat /\ x < L
      BY <2>1, BrokenIsRefused
    <3>2. data[o[i - 1] + 1] = Fixed(ds[i])
      BY <2>1 DEF Intact
    <3> QED
      BY <3>1, <3>2
  <2>4. ~(x >= L)
    BY <1>1, <2>3
  <2>5. After(data, x) = o[i]
    <3>1. PICK j \in 1..Len(ds) : x = o[j - 1] /\ After(data, x) = o[j]
      <4>1. HasNext(data, ds, o, x)
        <5> HIDE DEF x
        <5> QED
          BY <2>3, AfterIs
      <4> QED
        BY <4>1 DEF HasNext
    <3>2. i = j
      <4>1. o[i - 1] = o[j - 1] /\ Len(ds) \in Nat /\ i \in 1..Len(ds) /\ j \in 1..Len(ds)
        BY <1>1, <2>1, <3>1
      <4> HIDE DEF n, x
      <4> QED
        BY <1>1, <4>1, PlacesApart
    <3> QED
      BY <3>1, <3>2
  <2>6. s = h \o t
    <3>1. ParseRule(c, data, x)
      BY <1>2, <2>3
    <3> QED
      BY <2>3, <2>4, <2>5, <3>1 DEF ParseRule
  <2>7. IsSeq(h) /\ Len(h) = 1 /\ h[1] = Decode(data, x)
    BY OneIs
  <2> HIDE DEF h, s, t
  <2>8. IsBehind(s, h, t)
    BY <2>2, <2>6, <2>7, ConcatIs
  <2>9. IsSeq(s) /\ Len(s) = k + 1 /\ s[1] = Decode(data, x) /\ \A q \in 1..k : s[1 + q] = t[q]
    <3>1. 1 \in 1..Len(h) /\ 1 + k = k + 1
      BY <2>7
    <3> QED
      BY <2>2, <2>7, <2>8, <3>1 DEF IsBehind
  <2>10. ASSUME NEW q \in 1..(k + 1)
         PROVE  s[q] = Decode(data, o[((n - (k + 1)) + q) - 1])
    <3>1. CASE q = 1
      <4>1. ((n - (k + 1)) + q) - 1 = i - 1
        BY <2>1, <3>1
      <4> QED
        BY <2>9, <3>1, <4>1
    <3>2. CASE q # 1
      <4> DEFINE p == q - 1
      <4>1. p \in 1..k /\ 1 + p = q /\ ((n - (k + 1)) + q) - 1 = (i + p) - 1
        BY <2>1, <3>2
      <4> HIDE DEF p
      <4>2. s[q] = t[p] /\ t[p] = Decode(data, o[(i + p) - 1])
        BY <2>2, <2>9, <4>1
      <4> QED
        BY <4>1, <4>2
    <3> QED
      BY <3>1, <3>2
  <2>11. s = c[o[n - (k + 1)]]
    BY <2>1 DEF s
  <2> QED
    BY <2>9, <2>10, <2>11 DEF Done
<1>5. n \in T
  <2> HIDE DEF T
  <2>1. Nat \subseteq T
    BY <1>3, <1>4, StepInduction
  <2> QED
    BY <1>1, <2>1
<1>6. n - n = 0 /\ n <= n /\ o[0] = 0 /\ \A i : i \in 1..n => (n - n) + i = i
  BY <1>1 DEF Placed
<1>7. /\ IsSeq(c[0]) /\ Len(c[0]) = n
      /\ \A i \in 1..n : c[0][i] = Decode(data, o[i - 1])
  BY <1>5, <1>6
<1> QED
  BY <1>2, <1>7

(* p was decoded from what stands at base for d.                           *)
DecodedAs(p, d, data, base) ==
  /\ p = Descriptor(d.tag, d.fixed, p.var) /\ IsSeq(p.var) /\ Len(p.var) = Len(d.var)
  /\ \A j \in 1..Len(d.var) :
       /\ IsSeq(p.var[j]) /\ Len(p.var[j]) = Len(d.var[j])
       /\ \A k \in 1..Len(d.var[j]) : p.var[j][k] = data[base + (FieldOffsets(d)[j - 1] + k)]

LEMMA DecodeIs ==
  ASSUME NEW data, NEW d, NEW x, IsSeq(data), IsFields(d.var), x \in Nat, data[x + 1] = Fixed(d),
         (x + 1) + Rest(d) <= Len(data)
  PROVE  DecodedAs(Decode(data, x), d, data, x + 1)
<1> DEFINE r == FieldOffsets(d)
           m == Len(d.var)
           h == data[x + 1][2]
           var == [i \in DOMAIN h.lens |-> Upto(data, x + 1 + Before(h.lens, i - 1), h.lens[i])]
           p == Decode(data, x)
<1>1. FieldsAt(r, d.var) /\ m \in Nat
  BY FieldOffsetsAre DEF IsFields, IsSeq
<1>2. h.tag = d.tag /\ h.fixed = d.fixed /\ h.lens = Lens(d.var) /\ Rest(d) \in Nat
  BY FixedIs
<1>3. p = Descriptor(h.tag, h.fixed, var)
  BY DEF Decode
<1>4. p = Descriptor(d.tag, d.fixed, var) /\ p.var = var
  BY <1>2, <1>3 DEF Descriptor
<1> HIDE DEF r, h, p
<1>5. /\ IsSeq(h.lens) /\ Len(h.lens) = m
      /\ \A j \in 1..m : h.lens[j] = Len(d.var[j]) /\ Before(h.lens, j - 1) = r[j - 1] /\ j - 1 \in 0..m
  <2>1. \A j \in 1..m : j - 1 \in 0..m
    BY <1>1
  <2> QED
    BY <1>1, <1>2, <2>1 DEF FieldsAt
<1>6. DOMAIN h.lens = 1..m
  <2>1. h.lens = [k \in 1..m |-> h.lens[k]]
    BY <1>5 DEF IsSeq
  <2> QED
    BY <2>1
<1>7. IsSeq(var) /\ Len(var) = m /\ \A j \in 1..m : var[j] = Upto(data, (x + 1) + r[j - 1], Len(d.var[j]))
  <2> DEFINE f == [i \in 1..m |-> Upto(data, x + 1 + Before(h.lens, i - 1), h.lens[i])]
  <2>1. IsMap(var, m, f) /\ \A j \in 1..m : f[j] = Upto(data, (x + 1) + r[j - 1], Len(d.var[j]))
    BY <1>5, <1>6 DEF IsMap
  <2> HIDE DEF f, var, m
  <2>2. IsSeq(var) /\ Len(var) = m /\ \A j \in 1..m : var[j] = f[j]
    BY <1>1, <2>1, MapIs
  <2> QED
    BY <2>1, <2>2
<1> HIDE DEF var
<1>8. ASSUME NEW j \in 1..m
      PROVE  /\ IsSeq(var[j]) /\ Len(var[j]) = Len(d.var[j])
             /\ \A k \in 1..Len(d.var[j]) : var[j][k] = data[(x + 1) + (r[j - 1] + k)]
  <2> DEFINE a == r[j - 1]
             l == Len(d.var[j])
             q == r[m]
             t == Rest(d)
             from == (x + 1) + a
  <2>1. r[j] = a + l /\ a \in Nat /\ l \in Nat /\ q \in Nat /\ r[j] <= q /\ q <= t /\ t \in Nat
    <3>1. j - 1 \in 0..m /\ j \in 0..m /\ m \in j..m /\ m \in 0..m
      BY <1>1
    <3>2. Offsets(r, d.var, m)
      BY <1>1 DEF FieldsAt
    <3>3. r[j] <= r[m]
      <4> HIDE DEF m
      <4> QED
        BY <1>1, <3>1, <3>2, OffsetsGrow
    <3>4. r[m] <= Rest(d)
      BY <1>1, RestIs
    <3> QED
      BY <1>2, <3>1, <3>2, <3>3, <3>4 DEF Offsets, IsSeq
  <2>2. Len(data) \in Nat /\ (x + 1) + t <= Len(data)
    BY DEF IsSeq
  <2>3. from \in Nat /\ from + l <= Len(data) /\ (from + l) - from = l
        /\ \A k \in 1..l : from + k = (x + 1) + (a + k)
    <3>1. a + l <= q
      BY <2>1
    <3> HIDE DEF a, l, q, t
    <3> QED
      BY <2>1, <2>2, <3>1
  <2>4. IsPart(Upto(data, from, l), data, from, from + l)
    <3> HIDE DEF from, l
    <3> QED
      BY <2>1, <2>3, UptoIs
  <2>5. var[j] = Upto(data, from, l)
    BY <1>7
  <2> HIDE DEF from, a, l
  <2>6. IsSeq(var[j]) /\ Len(var[j]) = l /\ \A k \in 1..l : var[j][k] = data[(x + 1) + (a + k)]
    BY <2>3, <2>4, <2>5 DEF IsPart
  <2> QED
    BY <2>6 DEF l, a
<1>9. DecodedAs(p, d, data, x + 1)
  BY <1>4, <1>7, <1>8 DEF DecodedAs, r
<1> QED
  BY <1>9 DEF p

-----------------------------------------------------------------------------
(* Descriptors read back from what they were written as.                   *)

Ordinary(c) == c[1] \notin {"AVB0", "AVBf", "signature", "descriptor"}
Lost(c) == c \in {<< "damaged" >>, ZeroMark, Zero}

(* f is g with some of its cells lost.                                     *)
Derived(f, g) ==
  IsSeq(f) /\ IsSeq(g) /\ Len(f) = Len(g) /\ \A x \in 1..Len(g) : f[x] = g[x] \/ Lost(f[x])

IsOrdinary(d) ==
  /\ IsFields(d.var) /\ d = Descriptor(d.tag, d.fixed, d.var)
  /\ \A j \in 1..Len(d.var) : \A k \in 1..Len(d.var[j]) : Ordinary(d.var[j][k])
AreOrdinary(ds) == IsSeq(ds) /\ \A i \in 1..Len(ds) : IsOrdinary(ds[i])

Like(p, d) ==
  /\ p = Descriptor(d.tag, d.fixed, p.var) /\ IsSeq(p.var) /\ Len(p.var) = Len(d.var)
  /\ \A j \in 1..Len(d.var) : Derived(p.var[j], d.var[j])
AreLike(ps, ds) == IsSeq(ps) /\ Len(ps) = Len(ds) /\ \A i \in 1..Len(ds) : Like(ps[i], ds[i])

LEMMA LostIsOrdinary ==
  ASSUME NEW c, Lost(c)
  PROVE  Ordinary(c)
<1>1. Zero[1] \notin {"AVB0", "AVBf", "signature", "descriptor"}
  BY VerifyAssumption
<1>2. CASE c = << "damaged" >>
  <2>1. c[1] = "damaged"
    BY <1>2
  <2> QED
    BY <2>1 DEF Ordinary
<1>3. CASE c = ZeroMark
  <2>1. c[1] = "ZeRoHaSH"
    BY <1>3 DEF ZeroMark
  <2> QED
    BY <2>1 DEF Ordinary
<1>4. CASE c = Zero
  BY <1>1, <1>4 DEF Ordinary
<1> QED
  BY <1>2, <1>3, <1>4 DEF Lost

(* Like each other without a difference is the same.                       *)
LEMMA LikeSame ==
  ASSUME NEW p, NEW d, NEW data, NEW base, DecodedAs(p, d, data, base), IsOrdinary(d),
         \A j \in 1..Len(d.var) : \A k \in 1..Len(d.var[j]) :
           data[base + (FieldOffsets(d)[j - 1] + k)] = d.var[j][k]
  PROVE  p = d
<1>1. ASSUME NEW j \in 1..Len(d.var)
      PROVE  p.var[j] = d.var[j]
  <2>1. IsSeq(p.var[j]) /\ Len(p.var[j]) = Len(d.var[j]) /\ IsSeq(d.var[j])
    BY DEF DecodedAs, IsOrdinary, IsFields
  <2>2. \A k \in 1..Len(d.var[j]) : p.var[j][k] = d.var[j][k]
    BY DEF DecodedAs
  <2> DEFINE s == p.var[j]
             t == d.var[j]
  <2>3. IsSeq(s) /\ IsSeq(t) /\ Len(s) = Len(t) /\ \A k \in 1..Len(s) : s[k] = t[k]
    BY <2>1, <2>2
  <2> HIDE DEF s, t
  <2>4. s = t
    BY <2>3, IsSeqEqual
  <2> QED
    BY <2>4 DEF s, t
<1>2. p.var = d.var
  <2>1. IsSeq(p.var) /\ IsSeq(d.var) /\ Len(p.var) = Len(d.var)
    BY DEF DecodedAs, IsOrdinary, IsFields
  <2> DEFINE s == p.var
             t == d.var
  <2>2. IsSeq(s) /\ IsSeq(t) /\ Len(s) = Len(t) /\ \A k \in 1..Len(s) : s[k] = t[k]
    BY <1>1, <2>1
  <2> HIDE DEF s, t
  <2>3. s = t
    BY <2>2, IsSeqEqual
  <2> QED
    BY <2>3 DEF s, t
<1>3. p = Descriptor(d.tag, d.fixed, p.var) /\ d = Descriptor(d.tag, d.fixed, d.var)
  BY DEF DecodedAs, IsOrdinary
<1> QED
  BY <1>2, <1>3, Zenon

LEMMA ShapeIs ==
  ASSUME NEW ds, NEW data, NEW e, NEW o, AreOrdinary(ds), IsEncoding(e, ds, o), Derived(data, e)
  PROVE  Shaped(data, ds, o)
<1>1. IsDescs(ds)
  BY DEF AreOrdinary, IsOrdinary, IsDescs
<1>2. IsSeq(data) /\ Len(data) = o[Len(ds)] /\ Placed(o, ds) /\ Len(e) = Len(data)
  BY DEF IsEncoding, Derived
<1>3. Ordinary(Zero)
  BY LostIsOrdinary DEF Lost
<1>4. ASSUME NEW x \in 1..Len(data), data[x][1] = "descriptor"
      PROVE  \E i \in 1..Len(ds) : x = o[i - 1] + 1 /\ data[x] = Fixed(ds[i])
  <2>1. ~Ordinary(data[x])
    BY <1>4 DEF Ordinary
  <2>2. ~Lost(data[x])
    BY <2>1, LostIsOrdinary
  <2>3. data[x] = e[x]
    BY <1>2, <2>2 DEF Derived
  <2>4. ~\E i \in 1..Len(ds) : \E j \in 1..Len(ds[i].var) : \E k \in 1..Len(ds[i].var[j]) :
           e[x] = ds[i].var[j][k]
    BY <2>1, <2>3 DEF AreOrdinary, IsOrdinary
  <2>5. e[x] # Zero
    BY <1>3, <2>1, <2>3
  <2>6. \E i \in 1..Len(ds) : x = o[i - 1] + 1
    BY <1>2, <2>4, <2>5 DEF IsEncoding
  <2>7. PICK i \in 1..Len(ds) : x = o[i - 1] + 1
    BY <2>6
  <2>8. e[x] = Fixed(ds[i])
    BY <2>7 DEF IsEncoding
  <2> QED
    BY <2>3, <2>7, <2>8
<1> QED
  BY <1>1, <1>2, <1>4 DEF Shaped

(* The place of a cell of a field, and that it is within the blob.         *)
LEMMA FieldPlace ==
  ASSUME NEW ds, NEW e, NEW o, NEW i, NEW j, NEW k, IsDescs(ds), IsEncoding(e, ds, o), i \in 1..Len(ds),
         j \in 1..Len(ds[i].var), k \in 1..Len(ds[i].var[j])
  PROVE  (o[i - 1] + 1) + (FieldOffsets(ds[i])[j - 1] + k) \in 1..Len(e)
<1> DEFINE d == ds[i]
           r == FieldOffsets(d)
           m == Len(d.var)
           a == r[j - 1]
           b == o[i - 1]
           l == Len(d.var[j])
           q == r[m]
           t == Rest(d)
           z == o[Len(ds)]
<1>1. IsFields(d.var) /\ FieldsAt(r, d.var) /\ m \in Nat /\ Len(ds) \in Nat
  <2>1. IsFields(d.var) /\ Len(ds) \in Nat
    BY DEF IsDescs, IsSeq
  <2> QED
    BY <2>1, FieldOffsetsAre DEF IsFields, IsSeq
<1>2. r[j] = a + l /\ a \in Nat /\ l \in Nat /\ q \in Nat /\ r[j] <= q /\ q <= t /\ t \in Nat
  <2>1. j - 1 \in 0..m /\ j \in 0..m /\ m \in j..m /\ m \in 0..m
    BY <1>1
  <2>2. Offsets(r, d.var, m)
    BY <1>1 DEF FieldsAt
  <2>3. r[j] <= r[m]
    <3> HIDE DEF r, d, m
    <3> QED
      BY <1>1, <2>1, <2>2, OffsetsGrow
  <2>4. r[m] <= Rest(d) /\ Rest(d) \in Nat
    <3> HIDE DEF r, d
    <3> QED
      BY <1>1, RestIs
  <2> QED
    BY <2>1, <2>2, <2>3, <2>4 DEF Offsets, IsSeq
<1>3. /\ o[i - 1] \in Nat /\ o[i] \in Nat /\ o[i] <= z /\ z \in Nat /\ Len(e) = z
      /\ o[i] = b + (1 + t)
  <2>1. Placed(o, ds) /\ Len(e) = o[Len(ds)]
    BY DEF IsEncoding
  <2>2. o[i - 1] \in Nat /\ o[i] \in Nat /\ o[i] <= o[Len(ds)] /\ o[Len(ds)] \in Nat
    BY <1>1, <2>1, PlacesApart
  <2> QED
    BY <2>1, <2>2 DEF Placed
<1>4. a + l <= q /\ q <= t /\ b + (1 + t) <= z /\ b \in Nat /\ k \in 1..l
  BY <1>2, <1>3
<1> HIDE DEF a, b, l, q, t, z
<1>5. (b + 1) + (a + k) \in 1..z
  BY <1>2, <1>3, <1>4
<1> QED
  BY <1>3, <1>5 DEF a, b

LEMMA DecodeAt ==
  ASSUME NEW data, NEW ds, NEW o, NEW i, Shaped(data, ds, o), Intact(data, ds, o), i \in 1..Len(ds)
  PROVE  DecodedAs(Decode(data, o[i - 1]), ds[i], data, o[i - 1] + 1)
<1> DEFINE d == ds[i]
           x == o[i - 1]
<1>1. /\ Len(ds) \in Nat /\ Placed(o, ds) /\ Len(data) = o[Len(ds)] /\ IsSeq(data) /\ IsFields(d.var)
      /\ data[x + 1] = Fixed(d)
  BY DEF Shaped, IsDescs, IsSeq, Intact
<1>2. x \in Nat /\ o[i] \in Nat /\ o[i] <= Len(data) /\ Len(data) \in Nat
  <2>1. o[i - 1] \in Nat /\ o[i] \in Nat /\ o[i] <= o[Len(ds)] /\ o[Len(ds)] \in Nat
    BY <1>1, PlacesApart
  <2> QED
    BY <1>1, <2>1
<1>3. o[i] = x + (1 + Rest(d)) /\ Rest(d) \in Nat
  BY <1>1 DEF Placed
<1> HIDE DEF x, d
<1>4. (x + 1) + Rest(d) <= Len(data)
  <2> DEFINE t == Rest(d)
             b == o[i]
  <2>1. b = x + (1 + t) /\ t \in Nat /\ b <= Len(data)
    BY <1>2, <1>3
  <2> HIDE DEF t, b
  <2>2. (x + 1) + t <= Len(data)
    BY <1>2, <2>1
  <2> QED
    BY <2>2 DEF t
<1>5. DecodedAs(Decode(data, x), d, data, x + 1)
  BY <1>1, <1>2, <1>4, DecodeIs
<1> QED
  BY <1>5 DEF x, d

(* What make_vbmeta_image and the footers wrote is read back, and what is  *)
(* read back after cells were lost is like it.                             *)
LEMMA ReadBack ==
  ASSUME NEW ds, NEW data, AreOrdinary(ds), Derived(data, EncodeAll(ds))
  PROVE  /\ Accepted(data) => AreLike(ParseDescriptors(data), ds)
         /\ data = EncodeAll(ds) => Accepted(data) /\ ParseDescriptors(data) = ds
<1> DEFINE e == EncodeAll(ds)
           ps == ParseDescriptors(data)
<1>1. IsDescs(ds)
  BY DEF AreOrdinary, IsOrdinary, IsDescs
<1>2. PICK o : IsEncoding(e, ds, o)
  BY <1>1, EncodeAllIs
<1>3. Shaped(data, ds, o) /\ Derived(data, e)
  <2>1. Derived(data, e)
    OBVIOUS
  <2> HIDE DEF e
  <2> QED
    BY <1>2, <2>1, ShapeIs
<1> HIDE DEF e, ps
<1>4. Accepted(data) <=> Intact(data, ds, o)
  BY <1>3, AcceptedIs
<1>5. ASSUME Intact(data, ds, o)
      PROVE  IsSeq(ps) /\ Len(ps) = Len(ds) /\ \A i \in 1..Len(ds) : DecodedAs(ps[i], ds[i], data, o[i - 1] + 1)
  <2>1. IsSeq(ps) /\ Len(ps) = Len(ds) /\ \A i \in 1..Len(ds) : ps[i] = Decode(data, o[i - 1])
    BY <1>3, <1>5, ParsedIs DEF ps
  <2>2. \A i \in 1..Len(ds) : DecodedAs(Decode(data, o[i - 1]), ds[i], data, o[i - 1] + 1)
    BY <1>3, <1>5, DecodeAt
  <2> QED
    BY <2>1, <2>2
<1>6. ASSUME NEW i \in 1..Len(ds), NEW j \in 1..Len(ds[i].var), NEW k \in 1..Len(ds[i].var[j])
      PROVE  LET x == (o[i - 1] + 1) + (FieldOffsets(ds[i])[j - 1] + k)
             IN  e[x] = ds[i].var[j][k] /\ (data[x] = e[x] \/ Lost(data[x]))
  <2>1. (o[i - 1] + 1) + (FieldOffsets(ds[i])[j - 1] + k) \in 1..Len(e)
    BY <1>1, <1>2, FieldPlace
  <2>2. e[(o[i - 1] + 1) + (FieldOffsets(ds[i])[j - 1] + k)] = ds[i].var[j][k]
    BY <1>2 DEF IsEncoding
  <2> QED
    BY <1>3, <2>1, <2>2 DEF Derived
<1>7. ASSUME Accepted(data)
      PROVE  AreLike(ps, ds)
  <2>1. IsSeq(ps) /\ Len(ps) = Len(ds) /\ \A i \in 1..Len(ds) : DecodedAs(ps[i], ds[i], data, o[i - 1] + 1)
    BY <1>4, <1>5, <1>7
  <2>2. ASSUME NEW i \in 1..Len(ds)
        PROVE  Like(ps[i], ds[i])
    <3> DEFINE p == ps[i]
               d == ds[i]
               base == o[i - 1] + 1
    <3>1. DecodedAs(p, d, data, base) /\ IsOrdinary(d)
      BY <2>1 DEF AreOrdinary
    <3>2. ASSUME NEW j \in 1..Len(d.var)
          PROVE  Derived(p.var[j], d.var[j])
      <4>1. IsSeq(p.var[j]) /\ Len(p.var[j]) = Len(d.var[j]) /\ IsSeq(d.var[j])
            /\ \A k \in 1..Len(d.var[j]) : p.var[j][k] = data[base + (FieldOffsets(d)[j - 1] + k)]
        <5> HIDE DEF p, d, base
        <5> QED
          BY <3>1 DEF DecodedAs, IsOrdinary, IsFields
      <4>2. \A k \in 1..Len(d.var[j]) : p.var[j][k] = d.var[j][k] \/ Lost(p.var[j][k])
        BY <1>6, <4>1
      <4> HIDE DEF p, d, base
      <4> QED
        BY <4>1, <4>2 DEF Derived
    <3> HIDE DEF p, d, base
    <3>3. Like(p, d)
      BY <3>1, <3>2 DEF Like, DecodedAs
    <3> QED
      BY <3>3 DEF p, d
  <2> QED
    BY <2>1, <2>2 DEF AreLike
<1>8. ASSUME data = e
      PROVE  Accepted(data) /\ ps = ds
  <2>1. Intact(data, ds, o)
    BY <1>2, <1>8 DEF Intact, IsEncoding
  <2>2. IsSeq(ps) /\ Len(ps) = Len(ds) /\ \A i \in 1..Len(ds) : DecodedAs(ps[i], ds[i], data, o[i - 1] + 1)
    BY <1>5, <2>1
  <2>3. ASSUME NEW i \in 1..Len(ds)
        PROVE  ps[i] = ds[i]
    <3> DEFINE p == ps[i]
               d == ds[i]
               base == o[i - 1] + 1
    <3>1. DecodedAs(p, d, data, base) /\ IsOrdinary(d)
      BY <2>2 DEF AreOrdinary
    <3>2. \A j \in 1..Len(d.var) : \A k \in 1..Len(d.var[j]) :
            data[base + (FieldOffsets(d)[j - 1] + k)] = d.var[j][k]
      BY <1>6, <1>8
    <3> HIDE DEF p, d, base
    <3>3. p = d
      BY <3>1, <3>2, LikeSame
    <3> QED
      BY <3>3 DEF p, d
  <2>4. ps = ds
    <3>1. IsSeq(ds)
      BY DEF AreOrdinary
    <3> QED
      BY <2>2, <2>3, <3>1, IsSeqEqual
  <2> QED
    BY <1>4, <2>1, <2>4
<1> QED
  BY <1>7, <1>8 DEF e, ps


-----------------------------------------------------------------------------
(* A vbmeta blob, cell by cell.                                            *)

HashCells(key) == IF key = NoKey THEN 0 ELSE 1
AuthSize(key) == RoundUp(2 * HashCells(key), BlobAlign)
AuxSize(key, enc) == RoundUp(Len(enc) + HashCells(key), BlobAlign)
KeyCells(key) == IF key = NoKey THEN << >> ELSE << KeyCell(key) >>
Aux(key, enc) == (enc \o KeyCells(key)) \o Zeros(AuxSize(key, enc) - Len(enc \o KeyCells(key)))
Auth(key, header, aux) ==
  IF key = NoKey THEN << >> ELSE << Digest(header, aux), Signature(KeyCell(key), header, aux) >>

LaidOut(b, h, key, aux) ==
  b = ((<< h >> \o Auth(key, h, aux)) \o Zeros(AuthSize(key) - Len(Auth(key, h, aux)))) \o aux

LEMMA BlobDef ==
  ASSUME NEW key, NEW enc, NEW location, NEW minor, NEW h, NEW aux,
         h = Header(key, enc, location, minor), aux = Aux(key, enc)
  PROVE  LaidOut(Blob(key, enc, location, minor), h, key, aux)
  BY DEF LaidOut, Blob, Header, Aux, Auth, AuthSize, AuxSize, KeyCells, HashCells

LEMMA HeaderIs ==
  ASSUME NEW key, NEW enc, NEW location, NEW minor, NEW h, h = Header(key, enc, location, minor)
  PROVE  /\ h[1] = "AVB0" /\ h[2].minor = minor /\ h[2].hash_offset = 0
         /\ h[2].hash_size = HashCells(key) /\ h[2].signature_offset = HashCells(key)
         /\ h[2].signature_size = HashCells(key) /\ h[2].descriptors_offset = 0
         /\ h[2].descriptors_size = Len(enc) /\ h[2].public_key_offset = Len(enc)
         /\ h[2].public_key_size = HashCells(key)
         /\ h[2].authentication_data_block_size = AuthSize(key)
         /\ h[2].auxiliary_data_block_size = AuxSize(key, enc)
         /\ h[2].algorithm = (IF key = NoKey THEN "NONE" ELSE "RSA")
  BY DEF Header, AuthSize, AuxSize, HashCells

(* The auxiliary block: the descriptors, the key, zeros.                   *)
IsAux(aux, key, enc) ==
  /\ IsSeq(aux) /\ AuxSize(key, enc) \in Nat /\ Len(aux) = AuxSize(key, enc)
  /\ Len(enc) + HashCells(key) <= Len(aux)
  /\ \A k \in 1..Len(enc) : aux[k] = enc[k]
  /\ key # NoKey => aux[Len(enc) + 1] = KeyCell(key)
  /\ \A k \in 1..Len(aux) : k > Len(enc) => aux[k] = Zero \/ (key # NoKey /\ aux[k] = KeyCell(key))

LEMMA AuxIs ==
  ASSUME NEW key, NEW enc, IsSeq(enc)
  PROVE  IsAux(Aux(key, enc), key, enc)
<1> DEFINE kc == KeyCells(key)
           n == Len(enc)
           hc == HashCells(key)
           content == enc \o kc
           x == AuxSize(key, enc)
           z == Zeros(x - Len(content))
<1>1. n \in Nat /\ hc \in {0, 1} /\ (key # NoKey => hc = 1) /\ (key = NoKey => hc = 0)
  BY DEF IsSeq, HashCells
<1>2. IsSeq(kc) /\ Len(kc) = hc /\ (key # NoKey => kc[1] = KeyCell(key))
  BY OneIs, NoneIs DEF KeyCells, HashCells
<1>3. BlobAlign \in Nat \ {0}
  BY VerifyAssumption
<1>4. x \in Nat /\ x >= n + hc
  <2>1. n + hc \in Nat
    BY <1>1
  <2>2. RoundUp(n + hc, BlobAlign) \in Nat /\ RoundUp(n + hc, BlobAlign) >= n + hc
    <3> HIDE DEF n, hc
    <3> QED
      BY <1>3, <2>1, FillIs
  <2> QED
    BY <2>2 DEF AuxSize
<1>5. IsBehind(content, enc, kc)
  <2> HIDE DEF kc
  <2> QED
    BY <1>2, ConcatIs
<1>6. IsSeq(content) /\ Len(content) = n + hc
  BY <1>2, <1>5 DEF IsBehind
<1>7. x - Len(content) \in Nat /\ x - Len(content) = x - (n + hc)
  BY <1>1, <1>4, <1>6
<1>8. IsSeq(z) /\ Len(z) = x - (n + hc) /\ \A k \in 1..Len(z) : z[k] = Zero
  <2> HIDE DEF content, n, hc, x
  <2> QED
    BY <1>7, ZerosAre
<1>9. IsBehind(content \o z, content, z)
  <2> HIDE DEF content, z
  <2> QED
    BY <1>6, <1>8, ConcatIs
<1> DEFINE aux == content \o z
<1>10. aux = Aux(key, enc)
  BY DEF Aux
<1>11. IsSeq(aux) /\ Len(aux) = x
  <2>1. IsSeq(aux) /\ Len(aux) = Len(content) + Len(z)
    BY <1>9 DEF IsBehind
  <2> HIDE DEF content, z, aux, n, hc, x
  <2> QED
    BY <1>1, <1>4, <1>6, <1>8, <2>1
<1>12. ASSUME NEW k \in 1..n
       PROVE  aux[k] = enc[k]
  <2>1. k \in 1..Len(content)
    BY <1>1, <1>6
  <2>2. aux[k] = content[k] /\ content[k] = enc[k]
    <3> HIDE DEF content, z, kc
    <3> QED
      BY <1>5, <1>9, <2>1 DEF IsBehind
  <2> QED
    BY <2>2
<1>13. ASSUME key # NoKey
       PROVE  aux[n + 1] = KeyCell(key)
  <2>1. n + 1 \in 1..Len(content) /\ 1 \in 1..Len(kc)
    BY <1>1, <1>2, <1>6, <1>13
  <2>2. aux[n + 1] = content[n + 1] /\ content[n + 1] = kc[1]
    <3> HIDE DEF content, z, kc
    <3> QED
      BY <1>5, <1>9, <2>1 DEF IsBehind
  <2> QED
    BY <1>2, <1>13, <2>2
<1>14. ASSUME NEW k \in 1..Len(aux), k > n
       PROVE  aux[k] = Zero \/ (key # NoKey /\ aux[k] = KeyCell(key))
  <2>1. CASE k <= n + hc
    <3>1. key # NoKey /\ k = n + 1
      BY <1>1, <1>14, <2>1
    <3> QED
      BY <1>13, <3>1
  <2>2. CASE k > n + hc
    <3>1. k - (n + hc) \in 1..Len(z) /\ k = Len(content) + (k - (n + hc))
      <4> HIDE DEF content, z, aux, n, hc, x
      <4> QED
        BY <1>1, <1>4, <1>6, <1>8, <1>11, <2>2
    <3>2. aux[k] = z[k - (n + hc)]
      <4> DEFINE i == k - (n + hc)
      <4>1. i \in 1..Len(z) /\ k = Len(content) + i
        BY <3>1
      <4> HIDE DEF i, content, z
      <4>2. aux[k] = z[i]
        BY <1>9, <4>1 DEF IsBehind
      <4> QED
        BY <4>2 DEF i
    <3> QED
      BY <1>8, <3>1, <3>2
  <2> QED
    BY <1>1, <2>1, <2>2
<1> HIDE DEF aux
<1>15. Len(enc) + HashCells(key) <= Len(aux) /\ AuxSize(key, enc) \in Nat /\ Len(aux) = AuxSize(key, enc)
  BY <1>4, <1>11
<1>16. IsAux(aux, key, enc)
  BY <1>11, <1>12, <1>13, <1>14, <1>15 DEF IsAux
<1> QED
  BY <1>10, <1>16

(* The whole blob: the header, the hash and the signature, zeros, and the  *)
(* auxiliary block.                                                        *)
IsBlob(b, h, key, aux) ==
  /\ IsSeq(b) /\ AuthSize(key) \in Nat /\ Len(b) = (1 + AuthSize(key)) + Len(aux) /\ b[1] = h
  /\ key # NoKey => /\ AuthSize(key) >= 2 /\ b[2] = Digest(h, aux)
                    /\ b[3] = Signature(KeyCell(key), h, aux)
  /\ \A k \in 2..(1 + AuthSize(key)) : b[k] = Zero \/ (key # NoKey /\ k \in {2, 3})
  /\ \A k \in 1..Len(aux) : b[(1 + AuthSize(key)) + k] = aux[k]

LEMMA AuthIs ==
  ASSUME NEW key, NEW h, NEW aux
  PROVE  /\ IsSeq(Auth(key, h, aux)) /\ Len(Auth(key, h, aux)) = 2 * HashCells(key)
         /\ key # NoKey => /\ Auth(key, h, aux)[1] = Digest(h, aux)
                           /\ Auth(key, h, aux)[2] = Signature(KeyCell(key), h, aux)
<1>1. CASE key = NoKey
  BY <1>1, NoneIs DEF Auth, HashCells
<1>2. CASE key # NoKey
  <2> DEFINE x == Digest(h, aux)
             y == Signature(KeyCell(key), h, aux)
  <2>1. IsSeq(<< x, y >>) /\ Len(<< x, y >>) = 2 /\ << x, y >>[1] = x /\ << x, y >>[2] = y
    <3> HIDE DEF x, y
    <3>1. << x, y >> \in Seq({x, y})
      OBVIOUS
    <3>2. IsSeq(<< x, y >>)
      BY <3>1, SeqIsSeq
    <3> QED
      BY <3>2
  <2>2. Auth(key, h, aux) = << x, y >> /\ HashCells(key) = 1
    BY <1>2 DEF Auth, HashCells
  <2> HIDE DEF x, y
  <2>3. /\ IsSeq(Auth(key, h, aux)) /\ Len(Auth(key, h, aux)) = 2 * HashCells(key)
        /\ Auth(key, h, aux)[1] = x /\ Auth(key, h, aux)[2] = y
    BY <2>1, <2>2
  <2> QED
    BY <2>3 DEF x, y
<1> QED
  BY <1>1, <1>2

(* What is behind each other, thrice.                                      *)
AreBehind(b, h, s, z, t, m) ==
  /\ IsSeq(b) /\ Len(b) = (1 + m) + Len(t) /\ b[1] = h
  /\ \A k \in 1..Len(s) : b[1 + k] = s[k]
  /\ \A k \in 1..Len(z) : b[(1 + Len(s)) + k] = z[k]
  /\ \A k \in 1..Len(t) : b[(1 + m) + k] = t[k]

LEMMA FourBehind ==
  ASSUME NEW h, NEW s, NEW z, NEW t, NEW m, IsSeq(s), IsSeq(z), IsSeq(t), m = Len(s) + Len(z)
  PROVE  AreBehind(((<< h >> \o s) \o z) \o t, h, s, z, t, m)
<1> DEFINE o == << h >>
           p == o \o s
           q == p \o z
           b == q \o t
<1>1. IsSeq(o) /\ Len(o) = 1 /\ o[1] = h
  BY OneIs
<1>2. IsBehind(p, o, s)
  <2> HIDE DEF o
  <2> QED
    BY <1>1, ConcatIs
<1>3. IsSeq(p) /\ Len(p) = 1 + Len(s)
  BY <1>1, <1>2 DEF IsBehind
<1>4. IsBehind(q, p, z)
  <2> HIDE DEF p
  <2> QED
    BY <1>3, ConcatIs
<1>5. IsSeq(q) /\ Len(q) = (1 + Len(s)) + Len(z)
  BY <1>3, <1>4 DEF IsBehind
<1>6. IsBehind(b, q, t)
  <2> HIDE DEF q
  <2> QED
    BY <1>5, ConcatIs
<1>7. Len(s) \in Nat /\ Len(z) \in Nat /\ Len(t) \in Nat
  BY DEF IsSeq
<1> HIDE DEF o, p, q, b
<1>8. IsSeq(b) /\ Len(b) = (1 + m) + Len(t)
  BY <1>5, <1>6, <1>7 DEF IsBehind
<1>9. b[1] = h
  <2>1. 1 \in 1..Len(o) /\ 1 \in 1..Len(p) /\ 1 \in 1..Len(q)
    BY <1>1, <1>3, <1>5, <1>7
  <2>2. b[1] = q[1] /\ q[1] = p[1] /\ p[1] = o[1]
    BY <1>2, <1>4, <1>6, <2>1 DEF IsBehind
  <2> QED
    BY <1>1, <2>2
<1>10. ASSUME NEW k \in 1..Len(s)
       PROVE  b[1 + k] = s[k]
  <2> DEFINE i == 1 + k
  <2>1. i \in 1..Len(p) /\ i \in 1..Len(q) /\ i = Len(o) + k
    BY <1>1, <1>3, <1>5, <1>7
  <2>2. b[i] = q[i] /\ q[i] = p[i]
    <3> HIDE DEF i
    <3> QED
      BY <1>4, <1>6, <2>1 DEF IsBehind
  <2>3. p[i] = s[k]
    BY <1>2, <2>1 DEF IsBehind
  <2> QED
    BY <2>2, <2>3
<1>11. ASSUME NEW k \in 1..Len(z)
       PROVE  b[(1 + Len(s)) + k] = z[k]
  <2> DEFINE i == (1 + Len(s)) + k
  <2>1. i \in 1..Len(q) /\ i = Len(p) + k
    BY <1>1, <1>3, <1>5, <1>7
  <2>2. b[i] = q[i]
    <3> HIDE DEF i
    <3> QED
      BY <1>6, <2>1 DEF IsBehind
  <2>3. q[i] = z[k]
    BY <1>4, <2>1 DEF IsBehind
  <2> QED
    BY <2>2, <2>3
<1>12. ASSUME NEW k \in 1..Len(t)
       PROVE  b[(1 + m) + k] = t[k]
  <2>1. 1 + m = Len(q)
    BY <1>5, <1>7
  <2> QED
    BY <1>6, <2>1 DEF IsBehind
<1> QED
  BY <1>8, <1>9, <1>10, <1>11, <1>12 DEF b, q, p, o, AreBehind

LEMMA BlobIs ==
  ASSUME NEW key, NEW enc, NEW location, NEW minor, NEW h, IsSeq(enc),
         h = Header(key, enc, location, minor)
  PROVE  IsBlob(Blob(key, enc, location, minor), h, key, Aux(key, enc))
<1> DEFINE aux == Aux(key, enc)
           s == Auth(key, h, aux)
           m == AuthSize(key)
           z == Zeros(m - Len(s))
           hc == HashCells(key)
           b == Blob(key, enc, location, minor)
<1>1. IsSeq(aux)
  BY AuxIs DEF IsAux
<1>2. /\ IsSeq(s) /\ Len(s) = 2 * hc
      /\ key # NoKey => s[1] = Digest(h, aux) /\ s[2] = Signature(KeyCell(key), h, aux)
  <2> HIDE DEF aux
  <2> QED
    BY AuthIs
<1>3. hc \in {0, 1} /\ (key # NoKey => hc = 1) /\ (key = NoKey => hc = 0)
  BY DEF HashCells
<1>4. m \in Nat /\ m >= 2 * hc
  <2>1. 2 * hc \in Nat /\ BlobAlign \in Nat \ {0}
    BY <1>3, VerifyAssumption
  <2> HIDE DEF hc
  <2>2. RoundUp(2 * hc, BlobAlign) \in Nat /\ RoundUp(2 * hc, BlobAlign) >= 2 * hc
    BY <2>1, FillIs
  <2> QED
    BY <2>2 DEF AuthSize, hc
<1>5. m - Len(s) \in Nat
  BY <1>2, <1>3, <1>4
<1>6. IsSeq(z) /\ Len(z) = m - Len(s) /\ \A k \in 1..Len(z) : z[k] = Zero
  <2> HIDE DEF s, m
  <2> QED
    BY <1>5, ZerosAre
<1>7. m = Len(s) + Len(z)
  BY <1>2, <1>3, <1>4, <1>6
<1>8. b = ((<< h >> \o s) \o z) \o aux
  <2>1. aux = Aux(key, enc)
    OBVIOUS
  <2>2. h = Header(key, enc, location, minor)
    OBVIOUS
  <2> HIDE DEF aux, s, z, b, m
  <2>3. LaidOut(Blob(key, enc, location, minor), h, key, aux)
    BY <2>1, <2>2, BlobDef
  <2> QED
    BY <2>3, Zenon DEF LaidOut, b, s, z, m
<1> HIDE DEF aux, s, z, b, m, hc
<1>9. /\ IsSeq(b) /\ Len(b) = (1 + m) + Len(aux) /\ b[1] = h
      /\ \A k \in 1..Len(s) : b[1 + k] = s[k]
      /\ \A k \in 1..Len(z) : b[(1 + Len(s)) + k] = z[k]
      /\ \A k \in 1..Len(aux) : b[(1 + m) + k] = aux[k]
  <2>1. AreBehind(((<< h >> \o s) \o z) \o aux, h, s, z, aux, m)
    BY <1>1, <1>2, <1>6, <1>7, FourBehind
  <2> QED
    BY <1>8, <2>1 DEF AreBehind
<1>10. ASSUME key # NoKey
       PROVE  m >= 2 /\ b[2] = Digest(h, aux) /\ b[3] = Signature(KeyCell(key), h, aux)
  <2>1. 1 \in 1..Len(s) /\ 2 \in 1..Len(s) /\ 1 + 1 = 2 /\ 1 + 2 = 3 /\ m >= 2
    BY <1>2, <1>3, <1>4, <1>10
  <2>2. b[2] = s[1] /\ b[3] = s[2]
    BY <1>9, <2>1
  <2> QED
    BY <1>2, <1>10, <2>1, <2>2
<1>11. ASSUME NEW k \in 2..(1 + m)
       PROVE  b[k] = Zero \/ (key # NoKey /\ k \in {2, 3})
  <2>1. CASE k <= 1 + Len(s)
    BY <1>2, <1>3, <2>1
  <2>2. CASE k > 1 + Len(s)
    <3> DEFINE i == k - (1 + Len(s))
    <3>1. i \in 1..Len(z) /\ k = (1 + Len(s)) + i
      BY <1>2, <1>3, <1>4, <1>6, <2>2
    <3> HIDE DEF i
    <3> QED
      BY <1>6, <1>9, <3>1
  <2> QED
    BY <1>2, <1>3, <2>1, <2>2
<1>12. IsBlob(b, h, key, aux)
  BY <1>4, <1>9, <1>10, <1>11 DEF IsBlob, m
<1> QED
  BY <1>12 DEF b, aux

-----------------------------------------------------------------------------
(* A file with a blob at off: the header there and its descriptors are the *)
(* only ones in it, and its footer, if it has one, says where they are.    *)

IsImage(g, off, key, ds, location, minor) ==
  LET b == Blob(key, EncodeAll(ds), location, minor) IN
  /\ IsSeq(g) /\ off \in Nat /\ off + Len(b) <= Len(g)
  /\ \A x \in 1..Len(b) : g[off + x] = b[x]
  /\ AreOrdinary(ds)
  /\ \A x \in 1..Len(g) : /\ g[x][1] = "AVB0" => x = off + 1
                          /\ g[x][1] = "signature" => x = off + 3 /\ key # NoKey
  /\ IF g[Len(g)][1] = "AVBf" THEN g[Len(g)][2].vbmeta_offset = off ELSE off = 0

(* Where the parts of the blob are in it.                                  *)
Layout(g, off, h, key, enc) ==
  /\ IsSeq(g) /\ off \in Nat /\ IsSeq(enc) /\ AuthSize(key) \in Nat /\ AuxSize(key, enc) \in Nat
  /\ Len(enc) + HashCells(key) <= AuxSize(key, enc)
  /\ off + ((1 + AuthSize(key)) + AuxSize(key, enc)) <= Len(g)
  /\ g[off + 1] = h
  /\ IsSeq(Aux(key, enc)) /\ Len(Aux(key, enc)) = AuxSize(key, enc)
  /\ \A k \in 1..AuxSize(key, enc) : g[(off + (1 + AuthSize(key))) + k] = Aux(key, enc)[k]
  /\ \A k \in 1..Len(enc) : Aux(key, enc)[k] = enc[k]
  /\ key # NoKey => /\ Aux(key, enc)[Len(enc) + 1] = KeyCell(key) /\ AuthSize(key) >= 2
                    /\ g[off + 2] = Digest(h, Aux(key, enc))
                    /\ g[off + 3] = Signature(KeyCell(key), h, Aux(key, enc))

LEMMA EncodedIsSeq ==
  ASSUME NEW ds, AreOrdinary(ds)
  PROVE  IsSeq(EncodeAll(ds))
<1>1. IsDescs(ds)
  BY DEF AreOrdinary, IsOrdinary, IsDescs
<1>2. PICK o : IsEncoding(EncodeAll(ds), ds, o)
  BY <1>1, EncodeAllIs
<1> QED
  BY <1>2 DEF IsEncoding

LEMMA LayoutIs ==
  ASSUME NEW g, NEW off, NEW key, NEW ds, NEW location, NEW minor,
         IsImage(g, off, key, ds, location, minor)
  PROVE  Layout(g, off, Header(key, EncodeAll(ds), location, minor), key, EncodeAll(ds))
<1> DEFINE enc == EncodeAll(ds)
           h == Header(key, enc, location, minor)
           b == Blob(key, enc, location, minor)
           aux == Aux(key, enc)
           m == AuthSize(key)
           x == AuxSize(key, enc)
<1>1. AreOrdinary(ds) /\ IsSeq(g) /\ off \in Nat /\ off + Len(b) <= Len(g)
      /\ \A i \in 1..Len(b) : g[off + i] = b[i]
  BY DEF IsImage
<1>2. IsSeq(enc)
  BY <1>1, EncodedIsSeq
<1>3. IsAux(aux, key, enc)
  <2> HIDE DEF enc
  <2> QED
    BY <1>2, AuxIs
<1>4. IsBlob(b, h, key, aux)
  <2>1. h = Header(key, enc, location, minor)
    OBVIOUS
  <2> HIDE DEF enc, h
  <2> QED
    BY <1>2, <2>1, BlobIs
<1> HIDE DEF enc, h, b, aux, m, x
<1>5. /\ IsSeq(aux) /\ x \in Nat /\ Len(aux) = x /\ Len(enc) + HashCells(key) <= x
      /\ \A k \in 1..Len(enc) : aux[k] = enc[k]
      /\ key # NoKey => aux[Len(enc) + 1] = KeyCell(key)
  BY <1>3 DEF IsAux, x
<1>6. /\ m \in Nat /\ Len(b) = (1 + m) + x /\ b[1] = h
      /\ key # NoKey => m >= 2 /\ b[2] = Digest(h, aux) /\ b[3] = Signature(KeyCell(key), h, aux)
      /\ \A k \in 1..x : b[(1 + m) + k] = aux[k]
  BY <1>4, <1>5 DEF IsBlob, m
<1>7. off + ((1 + m) + x) <= Len(g)
  BY <1>1, <1>6
<1>8. g[off + 1] = h
  <2>1. 1 \in 1..Len(b)
    BY <1>5, <1>6
  <2> QED
    BY <1>1, <1>6, <2>1
<1>9. ASSUME key # NoKey
      PROVE  m >= 2 /\ g[off + 2] = Digest(h, aux) /\ g[off + 3] = Signature(KeyCell(key), h, aux)
  <2>1. 2 \in 1..Len(b) /\ 3 \in 1..Len(b) /\ m >= 2
    BY <1>5, <1>6, <1>9
  <2> QED
    BY <1>1, <1>6, <1>9, <2>1
<1>10. ASSUME NEW k \in 1..x
       PROVE  g[(off + (1 + m)) + k] = aux[k]
  <2> DEFINE i == (1 + m) + k
  <2>1. i \in 1..Len(b) /\ (off + (1 + m)) + k = off + i
    BY <1>1, <1>5, <1>6
  <2>2. b[i] = aux[k]
    BY <1>6
  <2> HIDE DEF i
  <2> QED
    BY <1>1, <2>1, <2>2
<1>11. Layout(g, off, h, key, enc)
  BY <1>1, <1>2, <1>5, <1>6, <1>7, <1>8, <1>9, <1>10 DEF Layout, m, x, aux
<1> QED
  BY <1>11 DEF h, enc

(* Of a file that lost cells of it, a header that is still there is the    *)
(* one that was there.                                                     *)
LEMMA HeaderStays ==
  ASSUME NEW f, NEW g, NEW off, NEW key, NEW ds, NEW location, NEW minor,
         IsImage(g, off, key, ds, location, minor), Derived(f, g), HasHeader(f)
  PROVE  VbmetaOffset(f) = off /\ f[off + 1] = Header(key, EncodeAll(ds), location, minor)
<1> DEFINE h == Header(key, EncodeAll(ds), location, minor)
<1>1. Layout(g, off, h, key, EncodeAll(ds))
  BY LayoutIs
<1> HIDE DEF h
<1>2. /\ IsSeq(f) /\ IsSeq(g) /\ Len(f) = Len(g) /\ off \in Nat /\ g[off + 1] = h /\ Len(g) \in Nat
      /\ off + 1 <= Len(g)
  <2>1. off + ((1 + AuthSize(key)) + AuxSize(key, EncodeAll(ds))) <= Len(g)
        /\ AuthSize(key) \in Nat /\ AuxSize(key, EncodeAll(ds)) \in Nat /\ off \in Nat
    BY <1>1 DEF Layout
  <2> DEFINE a == AuthSize(key)
             x == AuxSize(key, EncodeAll(ds))
  <2>2. off + ((1 + a) + x) <= Len(g) /\ a \in Nat /\ x \in Nat
    BY <2>1
  <2> HIDE DEF a, x
  <2>3. Len(g) \in Nat
    BY DEF Derived, IsSeq
  <2>4. off + 1 <= Len(g)
    BY <2>1, <2>2, <2>3
  <2> QED
    BY <1>1, <2>1, <2>3, <2>4 DEF Layout, Derived
<1>3. \A x \in 1..Len(g) : ~Ordinary(f[x]) => f[x] = g[x]
  BY LostIsOrdinary DEF Derived
<1>4. ASSUME HasFooter(f)
      PROVE  VbmetaOffset(f) = off
  <2>1. f[Len(f)][1] = "AVBf"
    BY <1>4 DEF HasFooter
  <2>2. ~Ordinary(f[Len(f)]) /\ Len(f) \in 1..Len(g)
    BY <1>2, <2>1 DEF Ordinary
  <2>3. f[Len(f)] = g[Len(g)]
    BY <1>2, <1>3, <2>2
  <2>4. f[Len(f)][2].vbmeta_offset = off
    BY <2>1, <2>3 DEF IsImage
  <2> QED
    BY <1>4, <2>4 DEF VbmetaOffset
<1>5. VbmetaOffset(f) \in Nat
  BY <1>2, <1>4 DEF VbmetaOffset
<1>6. VbmetaOffset(f) + 1 \in 1..Len(g) /\ f[VbmetaOffset(f) + 1][1] = "AVB0"
  BY <1>2, <1>5 DEF HasHeader
<1> DEFINE v == VbmetaOffset(f)
<1>7. f[v + 1] = g[v + 1]
  <2>1. ~Ordinary(f[v + 1])
    BY <1>6 DEF Ordinary
  <2> QED
    BY <1>3, <1>6, <2>1
<1>8. v = off
  <2>1. g[v + 1][1] = "AVB0" /\ v + 1 \in 1..Len(g) /\ v \in Nat
    BY <1>5, <1>6, <1>7
  <2> HIDE DEF v
  <2>2. v + 1 = off + 1
    BY <2>1 DEF IsImage
  <2> QED
    BY <1>2, <2>1, <2>2
<1> HIDE DEF v
<1>9. v = off /\ f[off + 1] = h
  BY <1>2, <1>7, <1>8
<1> QED
  BY <1>9 DEF v, h

-----------------------------------------------------------------------------
(* What verify_image reads of a file.                                      *)

LEMMA PartOfPart ==
  ASSUME NEW p, NEW q, NEW f, NEW a, NEW b, NEW m, NEW n, a \in Nat, b \in Nat, m \in Nat, n \in Nat,
         b + m <= n, IsPart(p, f, a, a + n), IsPart(q, p, b, b + m)
  PROVE  IsPart(q, f, a + b, (a + b) + m)
<1>1. IsSeq(q) /\ Len(q) = m /\ \A k \in 1..m : q[k] = p[b + k]
  BY DEF IsPart
<1>2. \A k \in 1..n : p[k] = f[a + k]
  BY DEF IsPart
<1>3. ASSUME NEW k \in 1..m
      PROVE  q[k] = f[(a + b) + k]
  <2>1. b + k \in 1..n /\ a + (b + k) = (a + b) + k
    OBVIOUS
  <2> QED
    BY <1>1, <1>2, <2>1
<1>4. ((a + b) + m) - (a + b) = m
  OBVIOUS
<1> QED
  BY <1>1, <1>3, <1>4 DEF IsPart

LEMMA CellOfPart ==
  ASSUME NEW p, NEW f, NEW a, NEW b, a \in Nat, IsPart(p, f, a, b), b = a + 1
  PROVE  p = << f[b] >>
<1>1. b - a = 1 /\ a + 1 = b /\ 1 \in 1..1
  OBVIOUS
<1>2. IsSeq(p) /\ Len(p) = 1 /\ p[1] = f[b]
  BY <1>1 DEF IsPart
<1> QED
  BY <1>2, SingleIs

(* The blob of a file whose header is h, and the parts it says it has.     *)
Reads(f, off, h, key, enc) ==
  LET blob == BlobOf(f)
      base == off + (1 + AuthSize(key))
  IN  /\ HeaderOf(f) = h[2] /\ blob[1] = h
      /\ IsPart(AuxBlob(h[2], blob), f, base, base + AuxSize(key, enc))
      /\ IsPart(DescriptorsOf(h[2], f), f, base, base + Len(enc))
      /\ h[2].algorithm = "NONE" <=> key = NoKey
      /\ key # NoKey =>
           /\ Slice(blob, 1 + h[2].hash_offset, h[2].hash_size) = << f[off + 2] >>
           /\ Slice(blob, 1 + h[2].signature_offset, h[2].signature_size) = << f[off + 3] >>
           /\ KeyBlob(h[2], blob) = << f[base + (Len(enc) + 1)] >>

LEMMA ReadsAre ==
  ASSUME NEW f, NEW off, NEW key, NEW enc, NEW location, NEW minor, NEW h, NEW g,
         h = Header(key, enc, location, minor), Layout(g, off, h, key, enc), IsSeq(f), Len(f) = Len(g),
         VbmetaOffset(f) = off, f[off + 1] = h
  PROVE  Reads(f, off, h, key, enc)
<1> DEFINE m == AuthSize(key)
           x == AuxSize(key, enc)
           n == Len(enc)
           hc == HashCells(key)
           r == h[2]
           blob == BlobOf(f)
           total == (1 + m) + x
           base == off + (1 + m)
<1>1. /\ m \in Nat /\ x \in Nat /\ n \in Nat /\ n + hc <= x /\ off \in Nat /\ off + total <= Len(f)
      /\ hc \in {0, 1} /\ (key # NoKey => hc = 1 /\ m >= 2)
  BY DEF Layout, IsSeq, HashCells
<1>2. /\ r.hash_offset = 0 /\ r.hash_size = hc /\ r.signature_offset = hc /\ r.signature_size = hc
      /\ r.descriptors_offset = 0 /\ r.descriptors_size = n /\ r.public_key_offset = n
      /\ r.public_key_size = hc /\ r.authentication_data_block_size = m
      /\ r.auxiliary_data_block_size = x /\ r.algorithm = (IF key = NoKey THEN "NONE" ELSE "RSA")
  BY HeaderIs
<1>3. HeaderOf(f) = r /\ AuxOffset(r) = 1 + m
  BY <1>2 DEF HeaderOf, AuxOffset
<1>4. IsPart(blob, f, off, off + total)
  <2>1. blob = Upto(f, off, total)
    BY <1>2, <1>3 DEF BlobOf, Slice
  <2>2. total \in Nat
    BY <1>1
  <2> HIDE DEF total, blob
  <2> QED
    BY <1>1, <2>1, <2>2, UptoIs
<1>5. IsSeq(blob) /\ Len(blob) = total /\ \A k \in 1..total : blob[k] = f[off + k]
  <2>1. (off + total) - off = total
    BY <1>1
  <2> QED
    BY <1>4, <2>1 DEF IsPart
<1>6. blob[1] = h
  <2>1. 1 \in 1..total
    BY <1>1
  <2> HIDE DEF total, blob
  <2> QED
    BY <1>5, <2>1
<1>7. IsPart(AuxBlob(r, blob), f, base, base + x)
  <2> DEFINE a == 1 + m
  <2>1. a \in Nat /\ a + x <= Len(blob) /\ a + x <= total /\ total \in Nat
    BY <1>1, <1>5
  <2>2. AuxBlob(r, blob) = Upto(blob, a, x)
    BY <1>2, <1>3 DEF AuxBlob, Slice
  <2> HIDE DEF a, blob, total, x
  <2>3. IsPart(Upto(blob, a, x), blob, a, a + x)
    BY <1>1, <1>5, <2>1, UptoIs
  <2>4. IsPart(Upto(blob, a, x), f, off + a, (off + a) + x)
    BY <1>1, <1>4, <2>1, <2>3, PartOfPart
  <2> QED
    BY <2>2, <2>4 DEF a
<1>8. IsPart(DescriptorsOf(r, f), f, base, base + n)
  <2>1. base \in Nat /\ base + n <= Len(f)
    BY <1>1
  <2>2. DescriptorsOf(r, f) = Upto(f, base, n)
    <3>1. off + (1 + m) + 0 = base
      BY <1>1
    <3> QED
      BY <1>2, <1>3, <3>1 DEF DescriptorsOf, Slice
  <2> HIDE DEF base, n
  <2> QED
    BY <1>1, <2>1, <2>2, UptoIs
<1>9. r.algorithm = "NONE" <=> key = NoKey
  BY <1>2
<1>10. ASSUME key # NoKey
       PROVE  /\ Slice(blob, 1 + r.hash_offset, r.hash_size) = << f[off + 2] >>
              /\ Slice(blob, 1 + r.signature_offset, r.signature_size) = << f[off + 3] >>
              /\ KeyBlob(r, blob) = << f[base + (n + 1)] >>
  <2>1. hc = 1 /\ m >= 2
    BY <1>1, <1>10
  <2>2. ASSUME NEW a \in Nat, a + 1 <= total
        PROVE  Upto(blob, a, 1) = << f[off + (a + 1)] >>
    <3> DEFINE b == a + 1
    <3>1. IsPart(Upto(blob, a, 1), blob, a, b)
      <4>1. a + 1 <= Len(blob)
        BY <1>5, <2>2
      <4> HIDE DEF blob
      <4> QED
        BY <1>5, <4>1, UptoIs
    <3>2. Upto(blob, a, 1) = << blob[b] >>
      <4>1. b = a + 1
        OBVIOUS
      <4> HIDE DEF blob, b
      <4> QED
        BY <3>1, <4>1, CellOfPart
    <3>3. b \in 1..total
      BY <1>1, <2>2
    <3>4. blob[b] = f[off + b]
      BY <1>5, <3>3
    <3> QED
      BY <3>2, <3>4
  <2>3. 1 \in Nat /\ 1 + 1 <= total /\ 2 \in Nat /\ 2 + 1 <= total /\ (1 + m) + n \in Nat
        /\ ((1 + m) + n) + 1 <= total
    BY <1>1, <2>1
  <2>4. Upto(blob, 1, 1) = << f[off + 2] >> /\ Upto(blob, 2, 1) = << f[off + 3] >>
    <3> HIDE DEF blob, total
    <3> QED
      BY <2>2, <2>3
  <2>5. Upto(blob, (1 + m) + n, 1) = << f[base + (n + 1)] >>
    <3> DEFINE a == (1 + m) + n
    <3>1. a \in Nat /\ a + 1 <= total
      BY <2>3
    <3>2. off + (a + 1) = base + (n + 1)
      <4>1. off \in Nat /\ m \in Nat /\ n \in Nat
        BY <1>1
      <4> HIDE DEF m, n
      <4> QED
        BY <4>1
    <3> HIDE DEF a, blob, total, base
    <3>3. Upto(blob, a, 1) = << f[off + (a + 1)] >>
      BY <2>2, <3>1
    <3>4. Upto(blob, a, 1) = << f[base + (n + 1)] >>
      BY <3>2, <3>3
    <3> QED
      BY <3>4 DEF a
  <2>6. Slice(blob, 1 + r.hash_offset, r.hash_size) = Upto(blob, 1, 1)
    BY <1>2, <2>1 DEF Slice
  <2>7. Slice(blob, 1 + r.signature_offset, r.signature_size) = Upto(blob, 2, 1)
    BY <1>2, <2>1 DEF Slice
  <2>8. KeyBlob(r, blob) = Upto(blob, (1 + m) + n, 1)
    BY <1>2, <1>3, <2>1 DEF KeyBlob, Slice
  <2> QED
    BY <2>4, <2>5, <2>6, <2>7, <2>8
<1> QED
  BY <1>3, <1>6, <1>7, <1>8, <1>9, <1>10 DEF Reads

(* The descriptors of a file that lost cells of an image are like those of *)
(* the image, and they are those when the signature is still verified.     *)
Keeps(f, g, off, h, key, enc, ds) ==
  /\ HeaderOf(f) = h[2] /\ VbmetaOffset(f) = off
  /\ Parses(f) => AreLike(Descs(f), ds)
  /\ f = g => Parses(f) /\ Descs(f) = ds
  /\ f = g => SignatureVerifies(h[2], BlobOf(f))
  /\ key # NoKey /\ Parses(f) /\ SignatureVerifies(h[2], BlobOf(f)) => Descs(f) = ds
  /\ h[2].algorithm = "NONE" <=> key = NoKey

LEMMA PartDerived ==
  ASSUME NEW p, NEW f, NEW g, NEW e, NEW a, NEW b, Derived(f, g), IsSeq(e), a \in Nat, b = a + Len(e),
         IsPart(p, f, a, b), b <= Len(g), \A k \in 1..Len(e) : g[a + k] = e[k]
  PROVE  Derived(p, e)
<1>1. Len(e) \in Nat /\ Len(g) \in Nat
  BY DEF IsSeq, Derived
<1>2. b - a = Len(e)
  BY <1>1
<1>3. IsSeq(p) /\ Len(p) = Len(e) /\ \A k \in 1..Len(e) : p[k] = f[a + k]
  BY <1>2 DEF IsPart
<1>4. ASSUME NEW k \in 1..Len(e)
      PROVE  p[k] = e[k] \/ Lost(p[k])
  <2>1. a + k \in 1..Len(g)
    BY <1>1
  <2>2. f[a + k] = g[a + k] \/ Lost(f[a + k])
    BY <2>1 DEF Derived
  <2> QED
    BY <1>3, <2>2
<1> QED
  BY <1>3, <1>4 DEF Derived

LEMMA PartSame ==
  ASSUME NEW p, NEW f, NEW e, NEW a, NEW b, IsSeq(e), a \in Nat, b = a + Len(e),
         IsPart(p, f, a, b), \A k \in 1..Len(e) : f[a + k] = e[k]
  PROVE  p = e
<1>1. b - a = Len(e)
  BY DEF IsSeq
<1>2. IsSeq(p) /\ Len(p) = Len(e) /\ \A k \in 1..Len(p) : p[k] = e[k]
  BY <1>1 DEF IsPart
<1> QED
  BY <1>2, IsSeqEqual

LEMMA ImageKeeps ==
  ASSUME NEW f, NEW g, NEW off, NEW key, NEW ds, NEW location, NEW minor,
         IsImage(g, off, key, ds, location, minor), Derived(f, g), HasHeader(f)
  PROVE  Keeps(f, g, off, Header(key, EncodeAll(ds), location, minor), key, EncodeAll(ds), ds)
<1> DEFINE enc == EncodeAll(ds)
           h == Header(key, enc, location, minor)
           aux == Aux(key, enc)
           base == off + (1 + AuthSize(key))
           n == Len(enc)
           x == AuxSize(key, enc)
           data == DescriptorsOf(h[2], f)
<1>1. Layout(g, off, h, key, enc)
  BY LayoutIs
<1>2. VbmetaOffset(f) = off /\ f[off + 1] = h
  BY HeaderStays
<1>3. Reads(f, off, h, key, enc)
  <2>1. h = Header(key, enc, location, minor) /\ IsSeq(f) /\ Len(f) = Len(g)
    BY DEF Derived
  <2> HIDE DEF h, enc
  <2> QED
    BY <1>1, <1>2, <2>1, ReadsAre
<1>4. AreOrdinary(ds)
  BY DEF IsImage
<1>5. /\ off \in Nat /\ base \in Nat /\ n \in Nat /\ x \in Nat /\ n <= x /\ base + n <= Len(g)
      /\ base + x <= Len(g) /\ IsSeq(enc) /\ IsSeq(aux) /\ Len(aux) = x
      /\ (key # NoKey => n + 1 <= x)
      /\ \A k \in 1..x : g[base + k] = aux[k]
      /\ \A k \in 1..n : aux[k] = enc[k]
  <2> DEFINE a == AuthSize(key)
             hc == HashCells(key)
             l == Len(g)
  <2>1. /\ off \in Nat /\ a \in Nat /\ x \in Nat /\ n + hc <= x /\ off + ((1 + a) + x) <= l
        /\ IsSeq(enc) /\ IsSeq(aux) /\ Len(aux) = x
        /\ \A k \in 1..x : g[(off + (1 + a)) + k] = aux[k]
        /\ \A k \in 1..n : aux[k] = enc[k]
    <3> HIDE DEF h, enc
    <3> QED
      BY <1>1 DEF Layout
  <2>2. n \in Nat /\ l \in Nat /\ hc \in {0, 1} /\ (key # NoKey => hc = 1)
    BY <2>1 DEF IsSeq, Derived, HashCells
  <2>3. base = off + (1 + a)
    OBVIOUS
  <2> HIDE DEF n, l, a, x, hc, base, aux, enc
  <2>4. base \in Nat /\ n <= x /\ base + n <= l /\ base + x <= l /\ (key # NoKey => n + 1 <= x)
    BY <2>1, <2>2, <2>3
  <2>5. base \in Nat /\ n <= x /\ base + n <= Len(g) /\ base + x <= Len(g) /\ (key # NoKey => n + 1 <= x)
    BY <2>4 DEF l
  <2> QED
    BY <2>1, <2>2, <2>3, <2>5
<1>6. \A k \in 1..n : g[base + k] = enc[k]
  <2>1. \A k \in 1..n : k \in 1..x
    BY <1>5
  <2> QED
    BY <1>5, <2>1
<1>7. /\ HeaderOf(f) = h[2] /\ BlobOf(f)[1] = h
      /\ IsPart(AuxBlob(h[2], BlobOf(f)), f, base, base + x)
      /\ IsPart(data, f, base, base + n)
      /\ h[2].algorithm = "NONE" <=> key = NoKey
      /\ key # NoKey =>
           /\ Slice(BlobOf(f), 1 + h[2].hash_offset, h[2].hash_size) = << f[off + 2] >>
           /\ Slice(BlobOf(f), 1 + h[2].signature_offset, h[2].signature_size) = << f[off + 3] >>
           /\ KeyBlob(h[2], BlobOf(f)) = << f[base + (n + 1)] >>
  <2> HIDE DEF h, enc
  <2> QED
    BY <1>3 DEF Reads
<1>8. key # NoKey => /\ aux[n + 1] = KeyCell(key) /\ AuthSize(key) >= 2
                     /\ g[off + 2] = Digest(h, aux) /\ g[off + 3] = Signature(KeyCell(key), h, aux)
  <2> HIDE DEF h, enc
  <2> QED
    BY <1>1 DEF Layout
<1>9. Parses(f) <=> Accepted(data)
  BY <1>7 DEF Parses
<1>10. Parses(f) => Descs(f) = ParseDescriptors(data)
  BY <1>7 DEF Descs
<1>11. Derived(data, enc)
  <2> HIDE DEF enc, data, base, h
  <2> QED
    BY <1>5, <1>6, <1>7, PartDerived DEF n
<1>12. /\ Accepted(data) => AreLike(ParseDescriptors(data), ds)
       /\ data = enc => Accepted(data) /\ ParseDescriptors(data) = ds
  <2> HIDE DEF data
  <2> QED
    BY <1>4, <1>11, ReadBack
<1> HIDE DEF enc, data, base, h, aux, x
<1>13. ASSUME f = g
       PROVE  data = enc
  <2>1. \A k \in 1..Len(enc) : f[base + k] = enc[k]
    BY <1>6, <1>13 DEF n
  <2>2. IsPart(data, f, base, base + Len(enc)) /\ IsSeq(enc) /\ base \in Nat
    BY <1>5, <1>7 DEF n
  <2> QED
    BY <2>1, <2>2, PartSame
<1>14. ASSUME f = g
       PROVE  SignatureVerifies(h[2], BlobOf(f))
  <2>1. CASE key = NoKey
    BY <1>7, <2>1 DEF SignatureVerifies
  <2>2. CASE key # NoKey
    <3>1. AuxBlob(h[2], BlobOf(f)) = aux
      <4>1. \A k \in 1..Len(aux) : f[base + k] = aux[k]
        BY <1>5, <1>14
      <4> DEFINE p == AuxBlob(h[2], BlobOf(f))
      <4>2. IsPart(p, f, base, base + Len(aux)) /\ IsSeq(aux) /\ base \in Nat
        BY <1>5, <1>7
      <4> HIDE DEF p
      <4>3. p = aux
        BY <4>1, <4>2, PartSame
      <4> QED
        BY <4>3 DEF p
    <3>2. f[base + (n + 1)] = KeyCell(key)
      <4>1. n + 1 \in 1..x
        BY <1>5, <2>2
      <4> QED
        BY <1>5, <1>8, <1>14, <2>2, <4>1
    <3>3. KeyBlob(h[2], BlobOf(f))[1] = KeyCell(key)
      BY <1>7, <2>2, <3>2
    <3> QED
      BY <1>7, <1>8, <1>14, <2>2, <3>1, <3>3 DEF SignatureVerifies
  <2> QED
    BY <2>1, <2>2
<1>15. ASSUME key # NoKey, Parses(f), SignatureVerifies(h[2], BlobOf(f))
       PROVE  Descs(f) = ds
  <2> DEFINE a == AuxBlob(h[2], BlobOf(f))
             c == f[off + 3]
             y == KeyBlob(h[2], BlobOf(f))[1]
  <2>1. c = Signature(y, h, a)
    <3>1. << c >> = << Signature(y, h, a) >>
      BY <1>7, <1>15 DEF SignatureVerifies
    <3> HIDE DEF c, a, y
    <3>2. << c >>[1] = << Signature(y, h, a) >>[1]
      BY <3>1
    <3> QED
      BY <3>2
  <2>2. ~Lost(c)
    <3>1. c[1] = "signature"
      BY <2>1 DEF Signature
    <3>2. ~Ordinary(c)
      BY <3>1 DEF Ordinary
    <3> QED
      BY <3>2, LostIsOrdinary
  <2>3. off + 3 \in 1..Len(g)
    <3> DEFINE l == Len(g)
               u == AuthSize(key)
    <3>1. off + ((1 + u) + x) <= l /\ u >= 2 /\ u \in Nat /\ x \in Nat /\ off \in Nat
      BY <1>1, <1>8, <1>15 DEF Layout, x
    <3>2. l \in Nat
      BY DEF IsSeq, Derived
    <3> HIDE DEF l, u
    <3>3. off + 3 \in 1..l
      BY <3>1, <3>2
    <3> QED
      BY <3>3 DEF l
  <2>4. c = g[off + 3]
    BY <2>2, <2>3 DEF Derived
  <2>5. a = aux
    <3>1. Signature(y, h, a) = Signature(KeyCell(key), h, aux)
      BY <1>8, <1>15, <2>1, <2>4
    <3> HIDE DEF a, y
    <3> QED
      BY <3>1 DEF Signature
  <2>6. \A k \in 1..Len(enc) : f[base + k] = enc[k]
    <3>1. (base + x) - base = x
      BY <1>5
    <3>2. \A k \in 1..x : a[k] = f[base + k]
      BY <1>7, <3>1 DEF IsPart
    <3>3. \A k \in 1..Len(enc) : k \in 1..x
      BY <1>5
    <3> HIDE DEF a
    <3> QED
      BY <1>5, <2>5, <3>2, <3>3
  <2>7. data = enc
    <3>1. IsPart(data, f, base, base + Len(enc)) /\ IsSeq(enc) /\ base \in Nat
      BY <1>5, <1>7 DEF n
    <3> QED
      BY <2>6, <3>1, PartSame
  <2> QED
    BY <1>10, <1>12, <1>15, <2>7
<1>16. Keeps(f, g, off, h, key, enc, ds)
  BY <1>2, <1>7, <1>9, <1>10, <1>12, <1>13, <1>14, <1>15 DEF Keeps
<1> QED
  BY <1>16 DEF h, enc

(* The image itself has its header.                                        *)
LEMMA ImageHasHeader ==
  ASSUME NEW g, NEW off, NEW key, NEW ds, NEW location, NEW minor,
         IsImage(g, off, key, ds, location, minor)
  PROVE  HasHeader(g) /\ Derived(g, g)
<1> DEFINE h == Header(key, EncodeAll(ds), location, minor)
<1>1. Layout(g, off, h, key, EncodeAll(ds))
  BY LayoutIs
<1>2. h[1] = "AVB0"
  BY HeaderIs
<1> HIDE DEF h
<1>3. IsSeq(g) /\ off \in Nat /\ off < Len(g) /\ g[off + 1][1] = "AVB0"
  <2> DEFINE a == AuthSize(key)
             x == AuxSize(key, EncodeAll(ds))
             l == Len(g)
  <2>1. IsSeq(g) /\ off \in Nat /\ a \in Nat /\ x \in Nat /\ off + ((1 + a) + x) <= l /\ g[off + 1] = h
    BY <1>1 DEF Layout
  <2>2. l \in Nat
    BY <2>1 DEF IsSeq
  <2> HIDE DEF a, x, l
  <2>3. off < l
    BY <2>1, <2>2
  <2> QED
    BY <1>2, <2>1, <2>3 DEF l
<1>4. VbmetaOffset(g) = off
  <2>1. g # << >>
    <3>1. Len(g) # 0
      BY <1>3
    <3> QED
      BY <3>1
  <2> QED
    BY <2>1 DEF VbmetaOffset, HasFooter, IsImage
<1> QED
  BY <1>3, <1>4 DEF HasHeader, Derived

-----------------------------------------------------------------------------
(* The images that the commands build.                                     *)

LEMMA EncodeOne ==
  ASSUME NEW d, IsFields(d.var)
  PROVE  EncodeAll(<< d >>) = Encode(d)
<1> DEFINE e == Encode(d)
           w == [i \in DOMAIN << d >> |-> Encode(<< d >>[i])]
<1>1. Len(w) = 1 /\ w[1] = e
  OBVIOUS
<1>2. EncodeAll(<< d >>) = FlattenSeq(w)
  BY DEF EncodeAll
<1> HIDE DEF w, e
<1>3. PICK f : Flats(f, w, 1) /\ FlattenSeq(w) = f[1]
  <2>1. Len(w) \in Nat /\ Len(w) # 0
    BY <1>1
  <2> QED
    BY <1>1, <2>1, FlattenDef
<1>4. f[1] = w[1]
  BY <1>3 DEF Flats
<1> QED
  BY <1>1, <1>2, <1>3, <1>4 DEF e

(* No cell of the encoding is a header, a footer or a signature.           *)
Plain(c) == c[1] \notin {"AVB0", "AVBf", "signature"}

LEMMA OrdinaryIsPlain ==
  ASSUME NEW c, Ordinary(c)
  PROVE  Plain(c)
  BY DEF Ordinary, Plain

LEMMA EncodedIsPlain ==
  ASSUME NEW ds, NEW k, AreOrdinary(ds), k \in 1..Len(EncodeAll(ds))
  PROVE  Plain(EncodeAll(ds)[k])
<1> DEFINE e == EncodeAll(ds)
<1>1. IsDescs(ds)
  BY DEF AreOrdinary, IsOrdinary, IsDescs
<1>2. PICK o : IsEncoding(e, ds, o)
  BY <1>1, EncodeAllIs
<1>3. k \in 1..Len(e)
  OBVIOUS
<1> SUFFICES Plain(e[k])
  OBVIOUS
<1> HIDE DEF e
<1>4. CASE \E i \in 1..Len(ds) : k = o[i - 1] + 1
  <2>1. PICK i \in 1..Len(ds) : k = o[i - 1] + 1
    BY <1>4
  <2>2. e[k] = Fixed(ds[i])
    BY <1>2, <2>1 DEF IsEncoding
  <2>3. e[k][1] = "descriptor"
    BY <2>2 DEF Fixed, FixedCell
  <2> QED
    BY <2>3 DEF Plain
<1>5. CASE e[k] = Zero
  BY <1>5, LostIsOrdinary, OrdinaryIsPlain DEF Lost
<1>6. CASE \E i \in 1..Len(ds) : \E j \in 1..Len(ds[i].var) : \E m \in 1..Len(ds[i].var[j]) :
             e[k] = ds[i].var[j][m]
  <2>1. Ordinary(e[k])
    BY <1>6 DEF AreOrdinary, IsOrdinary
  <2> QED
    BY <2>1, OrdinaryIsPlain
<1> QED
  BY <1>2, <1>3, <1>4, <1>5, <1>6 DEF IsEncoding

LEMMA KeyIsOrdinary ==
  ASSUME NEW key
  PROVE  Ordinary(KeyCell(key))
<1>1. KeyCell(key)[1] = "key"
  BY DEF KeyCell
<1> QED
  BY <1>1 DEF Ordinary

(* Of a blob, the first cell is the header and the third one the signature *)
(* if there is one.                                                        *)
BlobCell(c, x, key) ==
  /\ c[1] = "AVB0" => x = 1
  /\ c[1] = "signature" => x = 3 /\ key # NoKey
  /\ c[1] # "AVBf"

LEMMA PlainCell ==
  ASSUME NEW c, NEW x, NEW key, Plain(c)
  PROVE  BlobCell(c, x, key)
  BY DEF Plain, BlobCell

LEMMA BlobCells ==
  ASSUME NEW ds, NEW key, NEW location, NEW minor, NEW x, AreOrdinary(ds),
         x \in 1..Len(Blob(key, EncodeAll(ds), location, minor))
  PROVE  BlobCell(Blob(key, EncodeAll(ds), location, minor)[x], x, key)
<1> DEFINE enc == EncodeAll(ds)
           h == Header(key, enc, location, minor)
           b == Blob(key, enc, location, minor)
           aux == Aux(key, enc)
           m == AuthSize(key)
<1>1. IsSeq(enc)
  BY EncodedIsSeq
<1>2. IsAux(aux, key, enc)
  <2> HIDE DEF enc
  <2> QED
    BY <1>1, AuxIs
<1>3. IsBlob(b, h, key, aux)
  <2>1. h = Header(key, enc, location, minor)
    OBVIOUS
  <2> HIDE DEF enc, h
  <2> QED
    BY <1>1, <2>1, BlobIs
<1>4. \A k \in 1..Len(enc) : Plain(enc[k])
  BY EncodedIsPlain
<1>5. h[1] = "AVB0"
  BY HeaderIs
<1>6. x \in 1..Len(b)
  OBVIOUS
<1> SUFFICES BlobCell(b[x], x, key)
  OBVIOUS
<1> HIDE DEF enc, h, b, aux, m
<1>7. Plain(Zero)
  BY LostIsOrdinary, OrdinaryIsPlain DEF Lost
<1>8. Plain(KeyCell(key))
  BY KeyIsOrdinary, OrdinaryIsPlain
<1>9. \A k \in 1..Len(aux) : Plain(aux[k])
  <2> SUFFICES ASSUME NEW k \in 1..Len(aux) PROVE Plain(aux[k])
    OBVIOUS
  <2>1. Len(enc) \in Nat
    BY <1>1 DEF IsSeq
  <2>2. CASE k <= Len(enc)
    <3>1. aux[k] = enc[k] /\ k \in 1..Len(enc)
      BY <1>2, <2>1, <2>2 DEF IsAux
    <3> QED
      BY <1>4, <3>1
  <2>3. CASE k > Len(enc)
    BY <1>2, <1>7, <1>8, <2>3 DEF IsAux
  <2> QED
    BY <2>1, <2>2, <2>3
<1>10. m \in Nat /\ Len(aux) \in Nat /\ Len(b) = (1 + m) + Len(aux) /\ b[1] = h
  BY <1>2, <1>3 DEF IsBlob, IsAux, IsSeq, m
<1>11. CASE x = 1
  BY <1>5, <1>10, <1>11 DEF BlobCell
<1>12. CASE x \in 2..(1 + m)
  <2>1. CASE b[x] = Zero
    BY <1>7, <2>1, PlainCell
  <2>2. CASE key # NoKey /\ x = 2
    <3>1. b[x] = Digest(h, aux)
      BY <1>3, <2>2 DEF IsBlob
    <3>2. b[x][1] = "digest"
      BY <3>1 DEF Digest
    <3> QED
      BY <3>2 DEF BlobCell
  <2>3. CASE key # NoKey /\ x = 3
    <3>1. b[x] = Signature(KeyCell(key), h, aux)
      BY <1>3, <2>3 DEF IsBlob
    <3>2. b[x][1] = "signature"
      BY <3>1 DEF Signature
    <3> QED
      BY <2>3, <3>2 DEF BlobCell
  <2> QED
    BY <1>3, <1>12, <2>1, <2>2, <2>3 DEF IsBlob, m
<1>13. CASE x > 1 + m
  <2> DEFINE k == x - (1 + m)
  <2>1. k \in 1..Len(aux) /\ x = (1 + m) + k
    BY <1>6, <1>10, <1>13
  <2> HIDE DEF k
  <2>2. b[x] = aux[k]
    BY <1>3, <2>1 DEF IsBlob, m
  <2> QED
    BY <1>9, <2>1, <2>2, PlainCell
<1> QED
  BY <1>6, <1>10, <1>11, <1>12, <1>13

LEMMA BlobIsSeq ==
  ASSUME NEW ds, NEW key, NEW location, NEW minor, AreOrdinary(ds)
  PROVE  /\ IsSeq(Blob(key, EncodeAll(ds), location, minor))
         /\ Len(Blob(key, EncodeAll(ds), location, minor)) >= 1
<1> DEFINE enc == EncodeAll(ds)
           h == Header(key, enc, location, minor)
           b == Blob(key, enc, location, minor)
           aux == Aux(key, enc)
           m == AuthSize(key)
<1>1. IsSeq(enc)
  BY EncodedIsSeq
<1>2. IsBlob(b, h, key, aux)
  <2>1. h = Header(key, enc, location, minor)
    OBVIOUS
  <2> HIDE DEF enc, h
  <2> QED
    BY <1>1, <2>1, BlobIs
<1>3. IsSeq(aux)
  <2> HIDE DEF enc
  <2> QED
    BY <1>1, AuxIs DEF IsAux
<1> HIDE DEF enc, h, b, aux
<1>4. IsSeq(b) /\ m \in Nat /\ Len(b) = (1 + m) + Len(aux) /\ Len(aux) \in Nat
  BY <1>2, <1>3 DEF IsBlob, IsSeq
<1> HIDE DEF m
<1>5. IsSeq(b) /\ Len(b) >= 1
  BY <1>4
<1> QED
  BY <1>5 DEF b, enc

(* The output of make_vbmeta_image is a blob and nothing else.             *)
LEMMA BlobIsImage ==
  ASSUME NEW ds, NEW key, NEW location, NEW minor, AreOrdinary(ds)
  PROVE  IsImage(Blob(key, EncodeAll(ds), location, minor), 0, key, ds, location, minor)
<1> DEFINE b == Blob(key, EncodeAll(ds), location, minor)
<1>1. IsSeq(b) /\ Len(b) >= 1 /\ Len(b) \in Nat
  BY BlobIsSeq DEF IsSeq
<1>2. \A x \in 1..Len(b) : BlobCell(b[x], x, key)
  BY BlobCells
<1>3. b = Blob(key, EncodeAll(ds), location, minor)
  OBVIOUS
<1> HIDE DEF b
<1>4. 0 \in Nat /\ 0 + Len(b) <= Len(b) /\ \A x \in 1..Len(b) : b[0 + x] = b[x]
  BY <1>1
<1>5. \A x \in 1..Len(b) : /\ b[x][1] = "AVB0" => x = 0 + 1
                           /\ b[x][1] = "signature" => x = 0 + 3 /\ key # NoKey
  BY <1>2 DEF BlobCell
<1>6. b[Len(b)][1] # "AVBf"
  <2>1. Len(b) \in 1..Len(b)
    BY <1>1
  <2> QED
    BY <1>2, <2>1 DEF BlobCell
<1>7. IsImage(b, 0, key, ds, location, minor)
  BY <1>1, <1>3, <1>4, <1>5, <1>6, Zenon DEF IsImage
<1> QED
  BY <1>3, <1>7

(* The footer of a partition, and what is before it.                       *)
FooterOf(data, rest, blob) ==
  << "AVBf", [original_image_size |-> Len(data), vbmeta_offset |-> Len(data) + Len(rest),
              vbmeta_size |-> Len(blob)] >>

IsFootered(g, data, rest, blob) ==
  /\ IsSeq(g) /\ Len(g) = ((Len(data) + Len(rest)) + Len(blob)) + 1
  /\ \A k \in 1..Len(data) : g[k] = data[k]
  /\ \A k \in 1..Len(rest) : g[Len(data) + k] = rest[k]
  /\ \A k \in 1..Len(blob) : g[(Len(data) + Len(rest)) + k] = blob[k]
  /\ g[Len(g)] = FooterOf(data, rest, blob)

LEMMA FooterIs ==
  ASSUME NEW data, NEW rest, NEW blob, IsSeq(data), IsSeq(rest), IsSeq(blob)
  PROVE  IsFootered(WithFooter(data, rest, blob), data, rest, blob)
<1> DEFINE c == FooterOf(data, rest, blob)
           t == << c >>
           p == data \o rest
           q == p \o blob
           g == q \o t
<1>1. g = WithFooter(data, rest, blob)
  BY DEF WithFooter, FooterOf
<1>2. IsSeq(t) /\ Len(t) = 1 /\ t[1] = c
  <2> HIDE DEF c
  <2> QED
    BY OneIs
<1>3. IsBehind(p, data, rest)
  BY ConcatIs
<1>4. IsSeq(p) /\ Len(p) = Len(data) + Len(rest)
  BY <1>3 DEF IsBehind
<1>5. IsBehind(q, p, blob)
  <2> HIDE DEF p
  <2> QED
    BY <1>4, ConcatIs
<1>6. IsSeq(q) /\ Len(q) = (Len(data) + Len(rest)) + Len(blob)
  BY <1>4, <1>5 DEF IsBehind
<1>7. IsBehind(g, q, t)
  <2> HIDE DEF q, t
  <2> QED
    BY <1>2, <1>6, ConcatIs
<1>8. Len(data) \in Nat /\ Len(rest) \in Nat /\ Len(blob) \in Nat
  BY DEF IsSeq
<1> HIDE DEF c, t, p, q, g
<1>9. IsSeq(g) /\ Len(g) = ((Len(data) + Len(rest)) + Len(blob)) + 1
  BY <1>2, <1>6, <1>7 DEF IsBehind
<1>10. ASSUME NEW k \in 1..Len(data)
       PROVE  g[k] = data[k]
  <2>1. k \in 1..Len(p) /\ k \in 1..Len(q)
    BY <1>4, <1>6, <1>8
  <2> QED
    BY <1>3, <1>5, <1>7, <2>1 DEF IsBehind
<1>11. ASSUME NEW k \in 1..Len(rest)
       PROVE  g[Len(data) + k] = rest[k]
  <2> DEFINE i == Len(data) + k
  <2>1. i \in 1..Len(p) /\ i \in 1..Len(q) /\ p[i] = rest[k]
    BY <1>3, <1>4, <1>6, <1>8 DEF IsBehind
  <2> HIDE DEF i
  <2>2. g[i] = rest[k]
    BY <1>5, <1>7, <2>1 DEF IsBehind
  <2> QED
    BY <2>2 DEF i
<1>12. ASSUME NEW k \in 1..Len(blob)
       PROVE  g[(Len(data) + Len(rest)) + k] = blob[k]
  <2> DEFINE i == (Len(data) + Len(rest)) + k
  <2>1. i = Len(p) + k /\ i \in 1..Len(q)
    BY <1>4, <1>6, <1>8
  <2> HIDE DEF i
  <2>2. g[i] = q[i] /\ q[Len(p) + k] = blob[k]
    BY <1>5, <1>7, <2>1 DEF IsBehind
  <2>3. g[i] = blob[k]
    BY <2>1, <2>2
  <2> QED
    BY <2>3 DEF i
<1>13. g[Len(g)] = c
  <2>1. Len(g) = Len(q) + 1 /\ 1 \in 1..Len(t)
    BY <1>2, <1>6, <1>9
  <2>2. g[Len(q) + 1] = t[1]
    BY <1>7, <2>1 DEF IsBehind
  <2> QED
    BY <1>2, <2>1, <2>2
<1>14. IsFootered(g, data, rest, blob)
  BY <1>9, <1>10, <1>11, <1>12, <1>13 DEF IsFootered, c
<1> QED
  BY <1>1, <1>14

(* Blocks of data or of a tree.                                            *)
AreCells(s) == IsSeq(s) /\ \A k \in 1..Len(s) : Ordinary(s[k])

LEMMA FooterIsImage ==
  ASSUME NEW data, NEW rest, NEW ds, NEW key, NEW location, NEW minor, AreCells(data), AreCells(rest),
         AreOrdinary(ds)
  PROVE  IsImage(WithFooter(data, rest, Blob(key, EncodeAll(ds), location, minor)),
                 Len(data) + Len(rest), key, ds, location, minor)
<1> DEFINE b == Blob(key, EncodeAll(ds), location, minor)
           g == WithFooter(data, rest, b)
           off == Len(data) + Len(rest)
           m == Len(data)
           l == Len(rest)
<1>1. IsSeq(b) /\ Len(b) >= 1 /\ Len(b) \in Nat
  BY BlobIsSeq DEF IsSeq
<1>2. \A x \in 1..Len(b) : BlobCell(b[x], x, key)
  BY BlobCells
<1>3. b = Blob(key, EncodeAll(ds), location, minor)
  OBVIOUS
<1> HIDE DEF b
<1>4. IsFootered(g, data, rest, b)
  BY <1>1, FooterIs DEF AreCells
<1>5. m \in Nat /\ l \in Nat
  BY DEF AreCells, IsSeq
<1>6. g = WithFooter(data, rest, b)
  OBVIOUS
<1> HIDE DEF g
<1>7. /\ IsSeq(g) /\ Len(g) = ((m + l) + Len(b)) + 1
      /\ \A k \in 1..m : g[k] = data[k]
      /\ \A k \in 1..l : g[m + k] = rest[k]
      /\ \A k \in 1..Len(b) : g[off + k] = b[k]
      /\ g[Len(g)] = FooterOf(data, rest, b)
  BY <1>4 DEF IsFootered
<1>8. off \in Nat /\ off = m + l /\ off + Len(b) <= Len(g)
  <2> HIDE DEF m, l
  <2>1. off \in Nat /\ off = m + l
    BY <1>5 DEF m, l
  <2> HIDE DEF off
  <2> QED
    BY <1>1, <1>5, <1>7, <2>1
<1>9. ASSUME NEW x \in 1..Len(g)
      PROVE  /\ g[x][1] = "AVB0" => x = off + 1
             /\ g[x][1] = "signature" => x = off + 3 /\ key # NoKey
  <2>1. CASE x <= m
    <3>1. x \in 1..m
      BY <1>5, <2>1
    <3>2. g[x] = data[x] /\ Ordinary(data[x])
      BY <1>7, <3>1 DEF AreCells
    <3> QED
      BY <3>2 DEF Ordinary
  <2>2. CASE x > m /\ x <= off
    <3> DEFINE k == x - m
    <3>1. k \in 1..l /\ x = m + k
      BY <1>5, <1>8, <2>2
    <3> HIDE DEF k
    <3>2. g[x] = rest[k] /\ Ordinary(rest[k])
      BY <1>7, <3>1 DEF AreCells
    <3> QED
      BY <3>2 DEF Ordinary
  <2>3. CASE x > off /\ x < Len(g)
    <3> DEFINE k == x - off
    <3>1. k \in 1..Len(b) /\ x = off + k
      <4> HIDE DEF off, m, l
      <4> QED
        BY <1>1, <1>5, <1>7, <1>8, <2>3
    <3> HIDE DEF k
    <3>2. g[x] = b[k] /\ BlobCell(b[k], k, key)
      BY <1>2, <1>7, <3>1
    <3> HIDE DEF off
    <3> QED
      BY <3>1, <3>2 DEF BlobCell
  <2>4. CASE x = Len(g)
    <3>1. g[x][1] = "AVBf"
      BY <1>7, <2>4 DEF FooterOf
    <3> QED
      BY <3>1
  <2> HIDE DEF off, m, l
  <2> QED
    BY <1>5, <1>7, <1>8, <2>1, <2>2, <2>3, <2>4
<1>10. g[Len(g)][1] = "AVBf" /\ g[Len(g)][2].vbmeta_offset = off
  BY <1>7 DEF FooterOf
<1> HIDE DEF off
<1>11. IsImage(g, off, key, ds, location, minor)
  BY <1>3, <1>7, <1>8, <1>9, <1>10, Zenon DEF IsImage
<1> QED
  BY <1>3, <1>6, <1>11 DEF off

(* The start of a file is the data of the partition, and then comes what   *)
(* is between it and the blob.                                             *)
LEMMA FooterReads ==
  ASSUME NEW data, NEW rest, NEW blob, IsSeq(data), IsSeq(rest), IsSeq(blob)
  PROVE  /\ Upto(WithFooter(data, rest, blob), 0, Len(data)) = data
         /\ Upto(WithFooter(data, rest, blob), Len(data), Len(rest)) = rest
<1> DEFINE g == WithFooter(data, rest, blob)
           m == Len(data)
           l == Len(rest)
           n == Len(blob)
<1>1. IsFootered(g, data, rest, blob)
  BY FooterIs
<1> HIDE DEF g
<1>2. m \in Nat /\ l \in Nat /\ n \in Nat
  BY DEF IsSeq
<1>3. /\ IsSeq(g) /\ Len(g) = ((m + l) + n) + 1
      /\ \A k \in 1..m : g[k] = data[k]
      /\ \A k \in 1..l : g[m + k] = rest[k]
  BY <1>1 DEF IsFootered
<1>4. 0 + m <= Len(g) /\ m + l <= Len(g)
  <2> HIDE DEF m, l, n
  <2> QED
    BY <1>2, <1>3
<1>5. IsPart(Upto(g, 0, m), g, 0, 0 + m) /\ IsPart(Upto(g, m, l), g, m, m + l)
  <2> HIDE DEF m, l, n
  <2> QED
    BY <1>2, <1>3, <1>4, UptoIs
<1>6. Upto(g, 0, m) = data
  <2> DEFINE p == Upto(g, 0, m)
  <2>1. IsPart(p, g, 0, 0 + m)
    BY <1>5
  <2> HIDE DEF p
  <2>2. IsSeq(p) /\ Len(p) = m /\ \A k \in 1..m : p[k] = g[k]
    BY <1>2, <2>1 DEF IsPart
  <2>3. p = data
    BY <1>3, <2>2, IsSeqEqual
  <2> QED
    BY <2>3 DEF p
<1>7. Upto(g, m, l) = rest
  <2>1. IsPart(Upto(g, m, l), g, m, m + Len(rest)) /\ \A k \in 1..Len(rest) : g[m + k] = rest[k]
    BY <1>3, <1>5
  <2> DEFINE p == Upto(g, m, l)
  <2>2. IsPart(p, g, m, m + Len(rest)) /\ m \in Nat
    BY <1>2, <2>1
  <2> HIDE DEF p, m
  <2>3. p = rest
    BY <2>1, <2>2, PartSame
  <2> QED
    BY <2>3 DEF p
<1> QED
  BY <1>6, <1>7 DEF g

-----------------------------------------------------------------------------
(* The hash tree of a partition.                                           *)

IsData(data) == IsSeq(data) /\ \A k \in 1..Len(data) : Ordinary(data[k]) /\ data[k] # << >>

IsTreeBlock(c) == c[1] = "tree" /\ Ordinary(c) /\ c # << >>

LEMMA BlockOfLevel ==
  ASSUME NEW data, NEW ls, NEW s, NEW t, NEW i, NEW b, Tower(data, ls, s, t), i \in 1..Len(s),
         b \in 1..Len(ls[i + 1])
  PROVE  IsTreeBlock(ls[i + 1][b])
<1> DEFINE hs == Hashes(ls[i])
           x == ls[i + 1]
<1>1. x = Group(hs) /\ Len(s) \in Nat /\ Len(ls) = Len(s) + 1 /\ IsSeq(ls[i])
  <2>1. Len(s) \in Nat /\ Len(ls) = Len(s) + 1
    BY DEF Tower, IsSeq
  <2>2. i \in 1..Len(ls)
    BY <2>1
  <2> QED
    BY <2>1, <2>2 DEF Tower
<1>2. Len(hs) \in Nat
  BY <1>1, HashesAre DEF IsSeq
<1> HIDE DEF hs
<1> DEFINE block(c) == TreeBlock([j \in 1..Fan |-> IF (c - 1) * Fan + j <= Len(hs)
                                                   THEN hs[(c - 1) * Fan + j] ELSE NoHash])
<1>3. x = [c \in 1..BlocksFor(Len(hs)) |-> block(c)]
  BY <1>1 DEF Group
<1> HIDE DEF block
<1>4. Len(x) = BlocksFor(Len(hs))
  BY <1>1, <1>2, GroupIs
<1>5. x[b] = block(b)
  BY <1>3, <1>4
<1>6. x[b][1] = "tree" /\ x[b] # << >>
  BY <1>5 DEF block, TreeBlock
<1> QED
  BY <1>6 DEF Ordinary, IsTreeBlock

(* The cells of the tree, and its root: a hash of what is not empty.       *)
HashOfSome(root) == \E block : root = Hash(block) /\ block # << >>

HasNoGap(ls, i) == \A b \in 1..Len(ls[i + 1]) : ls[i + 1][b] # << >>

LEMMA NoGapAbove ==
  ASSUME NEW data, NEW ls, NEW s, NEW t, NEW i, Tower(data, ls, s, t), i \in 1..Len(s)
  PROVE  HasNoGap(ls, i)
<1> SUFFICES ASSUME NEW b \in 1..Len(ls[i + 1])
             PROVE  ls[i + 1][b] # << >>
  BY DEF HasNoGap
<1>1. IsTreeBlock(ls[i + 1][b])
  BY BlockOfLevel
<1> QED
  BY <1>1 DEF IsTreeBlock


LEMMA TreeCellsOf ==
  ASSUME NEW data, NEW ls, NEW s, NEW t, IsData(data), Tower(data, ls, s, t)
  PROVE  /\ AreCells(VerityTree(data)) /\ Len(VerityTree(data)) = TreeSize(Len(data))
         /\ HashOfSome(VerityRoot(data))
<1> DEFINE tree == VerityTree(data)
<1>3. Tower(data, ls, s, t)
  OBVIOUS
<1>4. /\ IsSeq(tree) /\ Len(tree) = t[Len(s)] /\ VerityRoot(data) = Hash(ls[Len(ls)][1])
      /\ \A i \in 1..Len(s) : \A b \in 1..s[i] : tree[(t[Len(s)] - t[i]) + b] = ls[i + 1][b]
  BY <1>3, VerityTreeIs
<1>5. TreeSize(Len(data)) = t[Len(s)]
  BY <1>3, OffsetsAre
<1>6. Len(s) \in Nat /\ Len(ls) = Len(s) + 1 /\ ls[1] = data /\ Len(ls[Len(ls)]) = 1
      /\ \A i \in 1..Len(s) : Len(ls[i + 1]) = s[i]
  BY <1>3 DEF Tower, IsSeq
<1>7. ASSUME NEW k \in 1..t[Len(s)]
      PROVE  Ordinary(tree[k])
  <2>2. PICK i \in 1..Len(s) : \E b \in 1..s[i] : k = (t[Len(s)] - t[i]) + b
    <3>1. InLevel(s, t, k)
      BY LevelOfCell
    <3> QED
      BY <3>1 DEF InLevel
  <2>3. PICK b \in 1..s[i] : k = (t[Len(s)] - t[i]) + b
    BY <2>2
  <2>4. tree[k] = ls[i + 1][b]
    BY <1>4, <2>3
  <2>5. b \in 1..Len(ls[i + 1])
    BY <1>6
  <2> HIDE DEF tree
  <2>6. Ordinary(ls[i + 1][b])
    BY <1>3, <2>2, <2>5, BlockOfLevel DEF IsTreeBlock
  <2> QED
    BY <2>4, <2>6
<1>8. ls[Len(ls)][1] # << >>
  <2>1. CASE Len(s) = 0
    <3>1. ls[Len(ls)] = data /\ 1 \in 1..Len(data)
      BY <1>6, <2>1
    <3> QED
      BY <3>1 DEF IsData
  <2>2. CASE Len(s) # 0
    <3>1. Len(s) \in 1..Len(s) /\ 1 \in 1..Len(ls[Len(s) + 1]) /\ Len(ls) = Len(s) + 1
      BY <1>6, <2>2
    <3>2. HasNoGap(ls, Len(s))
      BY <1>3, <3>1, NoGapAbove
    <3> QED
      BY <3>1, <3>2 DEF HasNoGap
  <2> QED
    BY <2>1, <2>2
<1> HIDE DEF tree
<1>9. AreCells(tree)
  BY <1>4, <1>7 DEF AreCells
<1>10. Len(tree) = TreeSize(Len(data))
  BY <1>4, <1>5
<1> QED
  BY <1>4, <1>8, <1>9, <1>10 DEF tree, HashOfSome

LEMMA TreeCells ==
  ASSUME NEW data, IsData(data), Len(data) >= 1
  PROVE  /\ AreCells(VerityTree(data)) /\ Len(VerityTree(data)) = TreeSize(Len(data))
         /\ HashOfSome(VerityRoot(data))
<1>1. IsSeq(data)
  BY DEF IsData
<1>2. PICK t : Tower(data, Levels(data), LevelSizes(Len(data)), t)
  BY <1>1, TowerIs
<1> QED
  BY <1>2, TreeCellsOf

-----------------------------------------------------------------------------
(* The descriptors that the commands write.                                *)

GoodDesc(d) ==
  /\ IsOrdinary(d)
  /\ HasPartitionName(d) => \E n \in Part \cup {Top} : Names(d, n) /\ (d.tag # ChainTag => n \in Part)
  /\ d.tag = HashtreeTag =>
       /\ d.fixed.image_size \in Nat \ {0} /\ d.fixed.tree_offset \in Nat /\ d.fixed.tree_size \in Nat
       /\ Len(d.var) = 3 /\ Len(d.var[3]) = 1 /\ HashOfSome(d.var[3][1])
  /\ d.tag = HashTag => d.fixed.image_size \in Nat /\ Len(d.var) = 3
GoodDescs(ds) == IsSeq(ds) /\ \A i \in 1..Len(ds) : GoodDesc(ds[i])
NoChains(ds) == \A i \in 1..Len(ds) : ds[i].tag # ChainTag

LEMMA DescriptorIs ==
  ASSUME NEW tag, NEW fixed, NEW var, NEW d, IsSeq(var), \A j \in 1..Len(var) : AreCells(var[j]),
         d = Descriptor(tag, fixed, var)
  PROVE  IsOrdinary(d) /\ d.tag = tag /\ d.fixed = fixed /\ d.var = var
<1>1. d.tag = tag /\ d.fixed = fixed /\ d.var = var
  BY DEF Descriptor
<1>2. d = Descriptor(d.tag, d.fixed, d.var)
  BY <1>1, Zenon
<1>3. IsFields(d.var) /\ \A j \in 1..Len(d.var) : \A k \in 1..Len(d.var[j]) : Ordinary(d.var[j][k])
  BY <1>1 DEF IsFields, AreCells
<1> QED
  BY <1>1, <1>2, <1>3 DEF IsOrdinary

LEMMA CellIs ==
  ASSUME NEW c, Ordinary(c)
  PROVE  AreCells(<< c >>) /\ Len(<< c >>) = 1 /\ << c >>[1] = c
<1>1. IsSeq(<< c >>) /\ Len(<< c >>) = 1 /\ << c >>[1] = c
  BY OneIs
<1>2. \A k \in 1..Len(<< c >>) : << c >>[k] = c
  BY <1>1
<1> QED
  BY <1>1, <1>2 DEF AreCells

LEMMA NoCells == AreCells(<< >>)
  BY NoneIs DEF AreCells

Triple(s, a, b, c) == s = << a, b, c >>

LEMMA TripleIs ==
  ASSUME NEW s, NEW a, NEW b, NEW c, Triple(s, a, b, c)
  PROVE  IsSeq(s) /\ Len(s) = 3 /\ s[1] = a /\ s[2] = b /\ s[3] = c
<1>1. << a, b, c >> \in Seq({a, b, c})
  OBVIOUS
<1>2. s \in Seq({a, b, c})
  BY <1>1 DEF Triple
<1>3. IsSeq(s)
  BY <1>2, SeqIsSeq
<1> QED
  BY <1>3 DEF Triple

LEMMA NameIsOrdinary ==
  ASSUME NEW name
  PROVE  Ordinary(NameCell(name))
<1>1. NameCell(name)[1] = "name"
  BY DEF NameCell
<1> QED
  BY <1>1 DEF Ordinary

(* Descriptors of a partition have its name and two more fields.           *)
LEMMA NamedIs ==
  ASSUME NEW name, NEW tag, NEW fixed, NEW salt, NEW sum, NEW d, AreCells(salt), AreCells(sum),
         d = Descriptor(tag, fixed, << << NameCell(name) >>, salt, sum >>)
  PROVE  /\ IsOrdinary(d) /\ d.tag = tag /\ d.fixed = fixed /\ Len(d.var) = 3
         /\ Names(d, name) /\ d.var[2] = salt /\ d.var[3] = sum
<1> DEFINE n == << NameCell(name) >>
           var == << n, salt, sum >>
<1>1. AreCells(n)
  BY NameIsOrdinary, CellIs
<1>2. d = Descriptor(tag, fixed, var)
  OBVIOUS
<1>3. Triple(var, n, salt, sum)
  BY DEF Triple
<1> HIDE DEF var
<1>4. IsSeq(var) /\ Len(var) = 3 /\ var[1] = n /\ var[2] = salt /\ var[3] = sum
  <2> HIDE DEF n
  <2> QED
    BY <1>3, TripleIs
<1> HIDE DEF n
<1>5. \A j \in 1..Len(var) : AreCells(var[j])
  BY <1>1, <1>4
<1>6. IsOrdinary(d) /\ d.tag = tag /\ d.fixed = fixed /\ d.var = var
  BY <1>2, <1>4, <1>5, DescriptorIs
<1>7. Names(d, name)
  BY <1>4, <1>6 DEF Names, n
<1> QED
  BY <1>4, <1>6, <1>7

LEMMA HashDescriptorIs ==
  ASSUME NEW name, NEW size, NEW salt, NEW sum, NEW d, name \in Part, size \in Nat, AreCells(salt),
         AreCells(sum), d = HashDescriptor(name, size, salt, sum)
  PROVE  /\ GoodDesc(d) /\ d.tag = HashTag /\ d.fixed.image_size = size /\ Names(d, name)
         /\ d.var[2] = salt /\ d.var[3] = sum
<1> DEFINE fixed == [image_size |-> size]
<1>1. d = Descriptor(HashTag, fixed, << << NameCell(name) >>, salt, sum >>)
  BY DEF HashDescriptor
<1>2. fixed.image_size = size
  OBVIOUS
<1> HIDE DEF fixed
<1>3. /\ IsOrdinary(d) /\ d.tag = HashTag /\ d.fixed = fixed /\ Len(d.var) = 3
      /\ Names(d, name) /\ d.var[2] = salt /\ d.var[3] = sum
  BY <1>1, NamedIs
<1>4. GoodDesc(d)
  BY <1>2, <1>3 DEF GoodDesc, HashTag, HashtreeTag, ChainTag
<1> QED
  BY <1>2, <1>3, <1>4

LEMMA HashtreeDescriptorIs ==
  ASSUME NEW name, NEW size, NEW offset, NEW treeSize, NEW salt, NEW root, NEW d, name \in Part,
         size \in Nat \ {0}, offset \in Nat, treeSize \in Nat, AreCells(salt), HashOfSome(root),
         d = HashtreeDescriptor(name, size, offset, treeSize, salt, << root >>)
  PROVE  /\ GoodDesc(d) /\ d.tag = HashtreeTag /\ d.fixed.image_size = size
         /\ d.fixed.tree_offset = offset /\ d.fixed.tree_size = treeSize /\ Names(d, name)
         /\ d.var[3] = << root >>
<1> DEFINE fixed == [image_size |-> size, tree_offset |-> offset, tree_size |-> treeSize]
           sum == << root >>
<1>1. d = Descriptor(HashtreeTag, fixed, << << NameCell(name) >>, salt, sum >>)
  BY DEF HashtreeDescriptor
<1>2. fixed.image_size = size /\ fixed.tree_offset = offset /\ fixed.tree_size = treeSize
  OBVIOUS
<1>3. Ordinary(root)
  <2>1. PICK block : root = Hash(block)
    BY DEF HashOfSome
  <2>2. root[1] = "hash"
    BY <2>1 DEF Hash
  <2> QED
    BY <2>2 DEF Ordinary
<1>4. AreCells(sum) /\ Len(sum) = 1 /\ sum[1] = root
  BY <1>3, CellIs
<1>5. sum = << root >>
  OBVIOUS
<1> HIDE DEF fixed, sum
<1>6. /\ IsOrdinary(d) /\ d.tag = HashtreeTag /\ d.fixed = fixed /\ Len(d.var) = 3
      /\ Names(d, name) /\ d.var[3] = sum
  BY <1>1, <1>4, NamedIs
<1>7. GoodDesc(d)
  BY <1>2, <1>4, <1>6 DEF GoodDesc, HashTag, HashtreeTag, ChainTag
<1> QED
  BY <1>2, <1>5, <1>6, <1>7

LEMMA OneField ==
  ASSUME NEW tag, NEW fixed, NEW c, NEW d, Ordinary(c), d = Descriptor(tag, fixed, << << c >> >>)
  PROVE  IsOrdinary(d) /\ d.tag = tag
<1> DEFINE f == << c >>
           var == << f >>
<1>1. AreCells(f)
  BY CellIs
<1>2. d = Descriptor(tag, fixed, var)
  OBVIOUS
<1> HIDE DEF f
<1>3. IsSeq(var) /\ Len(var) = 1 /\ var[1] = f
  BY OneIs
<1> HIDE DEF var
<1>4. \A j \in 1..Len(var) : AreCells(var[j])
  BY <1>1, <1>3
<1> QED
  BY <1>2, <1>3, <1>4, DescriptorIs

LEMMA CmdlineIs ==
  ASSUME NEW flags, NEW c, NEW d, Ordinary(c), d = CmdlineDescriptor(flags, c)
  PROVE  GoodDesc(d) /\ d.tag = CmdlineTag /\ ~HasPartitionName(d)
<1> DEFINE fixed == [flags |-> flags]
<1>1. d = Descriptor(CmdlineTag, fixed, << << c >> >>)
  BY DEF CmdlineDescriptor
<1> HIDE DEF fixed
<1>2. IsOrdinary(d) /\ d.tag = CmdlineTag
  BY <1>1, OneField
<1> QED
  BY <1>2 DEF GoodDesc, HasPartitionName, CmdlineTag, HashTag, HashtreeTag, ChainTag

LEMMA PairIs ==
  ASSUME NEW a, NEW b
  PROVE  IsSeq(<< a, b >>) /\ Len(<< a, b >>) = 2 /\ << a, b >>[1] = a /\ << a, b >>[2] = b
<1>1. << a, b >> \in Seq({a, b})
  OBVIOUS
<1>2. IsSeq(<< a, b >>)
  BY <1>1, SeqIsSeq
<1> QED
  BY <1>2

LEMMA ChainIs ==
  ASSUME NEW name, NEW location, NEW key, NEW d, name \in Part \cup {Top},
         d = ChainDescriptor(name, location, key)
  PROVE  GoodDesc(d) /\ d.tag = ChainTag /\ Names(d, name)
<1> DEFINE fixed == [rollback_index_location |-> location]
           n == << NameCell(name) >>
           k == << KeyCell(key) >>
           var == << n, k >>
<1>1. d = Descriptor(ChainTag, fixed, var)
  BY DEF ChainDescriptor
<1>2. AreCells(n) /\ AreCells(k)
  BY NameIsOrdinary, KeyIsOrdinary, CellIs
<1> HIDE DEF fixed, k
<1>3. IsSeq(var) /\ Len(var) = 2 /\ var[1] = n /\ var[2] = k
  <2> HIDE DEF n
  <2> QED
    BY PairIs
<1> HIDE DEF var
<1>4. \A j \in 1..Len(var) : AreCells(var[j])
  <2> HIDE DEF n
  <2> QED
    BY <1>2, <1>3
<1>5. IsOrdinary(d) /\ d.tag = ChainTag /\ d.var = var
  BY <1>1, <1>3, <1>4, DescriptorIs
<1>6. Names(d, name)
  BY <1>3, <1>5 DEF Names
<1> QED
  BY <1>5, <1>6 DEF GoodDesc, HasPartitionName, HashTag, HashtreeTag, ChainTag

LEMMA PropertyIs ==
  ASSUME NEW key, NEW value, NEW d, d = PropertyDescriptor(key, value)
  PROVE  GoodDesc(d) /\ d.tag = PropertyTag /\ ~HasPartitionName(d)
<1> DEFINE fixed == [none |-> 0]
           a == << << "text", key >> >>
           b == << << "text", value >> >>
           z == << Zero >>
           var == << a, z, b, z >>
<1>1. d = Descriptor(PropertyTag, fixed, var)
  BY DEF PropertyDescriptor
<1>2. AreCells(a) /\ AreCells(b) /\ AreCells(z)
  <2>1. << "text", key >>[1] = "text" /\ << "text", value >>[1] = "text"
    OBVIOUS
  <2>2. Ordinary(<< "text", key >>) /\ Ordinary(<< "text", value >>)
    BY <2>1 DEF Ordinary
  <2>3. Ordinary(Zero)
    BY LostIsOrdinary DEF Lost
  <2> QED
    BY <2>2, <2>3, CellIs
<1> HIDE DEF fixed, a, b, z
<1>3. IsSeq(var) /\ Len(var) = 4 /\ var[1] = a /\ var[2] = z /\ var[3] = b /\ var[4] = z
  <2>1. var \in Seq({a, b, z})
    OBVIOUS
  <2>2. IsSeq(var)
    <3> HIDE DEF var
    <3> QED
      BY <2>1, SeqIsSeq
  <2> QED
    BY <2>2
<1> HIDE DEF var
<1>4. \A j \in 1..Len(var) : AreCells(var[j])
  BY <1>2, <1>3
<1>5. IsOrdinary(d) /\ d.tag = PropertyTag
  BY <1>1, <1>3, <1>4, DescriptorIs
<1> QED
  BY <1>5 DEF GoodDesc, HasPartitionName, PropertyTag, HashTag, HashtreeTag, ChainTag

-----------------------------------------------------------------------------
(* A partition as add_hash_footer or add_hashtree_footer leave it.         *)

IsBuilt(f) ==
  \E name \in Part : \E key \in Key \cup {NoKey} : \E data :
    /\ IsData(data)
    /\ \/ \E persistent \in BOOLEAN : f = HashFooterImage(name, data, key, persistent)
       \/ /\ Len(data) >= 1
          /\ \E keepTree \in BOOLEAN : \E setup \in BOOLEAN : \E location \in Nat :
               f = HashtreeFooterImage(name, data, key, keepTree, setup, location)

(* Its own descriptors describe it.                                        *)
SelfMatch(d, f) ==
  /\ d.tag = HashTag => HashMatches(d, f)
  /\ d.tag = HashtreeTag =>
       LET data == Upto(f, 0, d.fixed.image_size) IN
       /\ Len(data) = d.fixed.image_size /\ d.var[3] = << VerityRoot(data) >>
       /\ OnDisk(d, f) = VerityTree(data) \/ (d.fixed.tree_size = 0 /\ OnDisk(d, f) = << >>)

PartIs(f, off, key, ds, location, minor) ==
  /\ IsImage(f, off, key, ds, location, minor) /\ minor \in {0, 1, 2}
  /\ GoodDescs(ds) /\ NoChains(ds) /\ \A i \in 1..Len(ds) : SelfMatch(ds[i], f)

HasParts(f) == \E off : \E key : \E ds : \E location : \E minor : PartIs(f, off, key, ds, location, minor)

LEMMA GoodIsOrdinary ==
  ASSUME NEW ds, GoodDescs(ds)
  PROVE  AreOrdinary(ds)
  BY DEF GoodDescs, AreOrdinary, GoodDesc

LEMMA DataIsCells ==
  ASSUME NEW data, IsData(data)
  PROVE  AreCells(data) /\ IsSeq(data)
  BY DEF IsData, AreCells

LEMMA SaltIs == AreCells(<< << "salt" >> >>)
<1> DEFINE c == << "salt" >>
<1>1. c[1] = "salt"
  OBVIOUS
<1>2. Ordinary(c)
  BY <1>1 DEF Ordinary
<1> HIDE DEF c
<1>3. AreCells(<< c >>)
  BY <1>2, CellIs
<1> QED
  BY <1>3 DEF c

LEMMA HashDigestIs ==
  ASSUME NEW salt, NEW data
  PROVE  AreCells(HashDigest(salt, data))
<1> DEFINE c == << "sha256", salt, data >>
<1>1. c[1] = "sha256"
  OBVIOUS
<1>2. Ordinary(c)
  BY <1>1 DEF Ordinary
<1>3. HashDigest(salt, data) = << c >>
  BY DEF HashDigest
<1> HIDE DEF c
<1> QED
  BY <1>2, <1>3, CellIs

LEMMA HashPartIs ==
  ASSUME NEW name, NEW key, NEW data, NEW persistent, name \in Part, IsData(data), persistent \in BOOLEAN
  PROVE  HasParts(HashFooterImage(name, data, key, persistent))
<1> DEFINE f == HashFooterImage(name, data, key, persistent)
           salt == IF persistent THEN << >> ELSE << << "salt" >> >>
           sum == IF persistent THEN << >> ELSE HashDigest(salt, data)
           d == HashDescriptor(name, Len(data), salt, sum)
           ds == << d >>
           minor == IF persistent THEN 1 ELSE 0
           blob == Blob(key, EncodeAll(ds), 0, minor)
<1>1. AreCells(data) /\ IsSeq(data) /\ Len(data) \in Nat
  BY DataIsCells DEF IsSeq
<1>2. AreCells(salt)
  BY NoCells, SaltIs
<1>3. AreCells(sum)
  BY NoCells, HashDigestIs
<1>4. /\ GoodDesc(d) /\ d.tag = HashTag /\ d.fixed.image_size = Len(data) /\ Names(d, name)
      /\ d.var[2] = salt /\ d.var[3] = sum
  <2> HIDE DEF salt, sum
  <2> QED
    BY <1>1, <1>2, <1>3, HashDescriptorIs
<1>5. f = WithFooter(data, << >>, Blob(key, Encode(d), 0, minor))
  BY DEF HashFooterImage
<1>6. sum = << >> \/ sum = HashDigest(salt, data)
  OBVIOUS
<1>7. minor \in {0, 1, 2}
  OBVIOUS
<1> HIDE DEF f, salt, sum, d, minor
<1>8. IsSeq(ds) /\ Len(ds) = 1 /\ ds[1] = d
  BY OneIs
<1>9. EncodeAll(ds) = Encode(d)
  <2>1. IsFields(d.var)
    BY <1>4 DEF GoodDesc, IsOrdinary
  <2> QED
    BY <2>1, EncodeOne
<1> HIDE DEF ds
<1>10. GoodDescs(ds) /\ NoChains(ds)
  BY <1>4, <1>8 DEF GoodDescs, NoChains, HashTag, ChainTag
<1>11. AreOrdinary(ds)
  BY <1>10, GoodIsOrdinary
<1>12. IsImage(f, Len(data) + Len(<< >>), key, ds, 0, minor)
  <2>1. AreCells(<< >>)
    BY NoCells
  <2>2. f = WithFooter(data, << >>, Blob(key, EncodeAll(ds), 0, minor))
    BY <1>5, <1>9
  <2>3. IsImage(WithFooter(data, << >>, Blob(key, EncodeAll(ds), 0, minor)), Len(data) + Len(<< >>), key, ds,
                0, minor)
    <3> DEFINE none == << >>
    <3>1. AreCells(none)
      BY <2>1
    <3> HIDE DEF none
    <3>2. IsImage(WithFooter(data, none, Blob(key, EncodeAll(ds), 0, minor)), Len(data) + Len(none), key, ds,
                  0, minor)
      BY <1>1, <1>11, <3>1, FooterIsImage
    <3> QED
      BY <3>2 DEF none
  <2> QED
    BY <2>2, <2>3
<1>13. Upto(f, 0, Len(data)) = data
  <2>1. IsSeq(blob)
    BY <1>11, BlobIsSeq
  <2>2. f = WithFooter(data, << >>, blob)
    BY <1>5, <1>9
  <2>3. IsSeq(<< >>)
    BY NoneIs
  <2> HIDE DEF blob
  <2> QED
    BY <1>1, <2>1, <2>2, <2>3, FooterReads
<1>14. SelfMatch(d, f)
  BY <1>4, <1>6, <1>13 DEF SelfMatch, HashMatches, HashTag, HashtreeTag
<1>15. PartIs(f, Len(data) + Len(<< >>), key, ds, 0, minor)
  BY <1>7, <1>8, <1>10, <1>12, <1>14 DEF PartIs
<1> QED
  BY <1>15 DEF HasParts, f

(* A descriptor, and with it the command lines of a root file system.      *)
SetupOf(ds, d, setup) == ds = << d >> \o (IF setup THEN RootfsCmdlines(d) ELSE << >>)

LEMMA RootfsAre ==
  ASSUME NEW d
  PROVE  /\ IsSeq(RootfsCmdlines(d)) /\ Len(RootfsCmdlines(d)) = 2
         /\ \A i \in 1..2 : /\ GoodDesc(RootfsCmdlines(d)[i]) /\ RootfsCmdlines(d)[i].tag = CmdlineTag
                            /\ ~HasPartitionName(RootfsCmdlines(d)[i])
<1> DEFINE c1 == << "verity", d.fixed.image_size, d.var[3] >>
           c2 == << "plain" >>
           a == CmdlineDescriptor("unless_disabled", c1)
           b == CmdlineDescriptor("if_disabled", c2)
<1>1. Ordinary(c1) /\ Ordinary(c2)
  <2>1. c1[1] = "verity" /\ c2[1] = "plain"
    OBVIOUS
  <2> QED
    BY <2>1 DEF Ordinary
<1>2. RootfsCmdlines(d) = << a, b >>
  BY DEF RootfsCmdlines
<1> HIDE DEF c1, c2
<1>3. /\ GoodDesc(a) /\ a.tag = CmdlineTag /\ ~HasPartitionName(a)
      /\ GoodDesc(b) /\ b.tag = CmdlineTag /\ ~HasPartitionName(b)
  BY <1>1, CmdlineIs
<1> HIDE DEF a, b
<1>4. IsSeq(<< a, b >>) /\ Len(<< a, b >>) = 2 /\ << a, b >>[1] = a /\ << a, b >>[2] = b
  BY PairIs
<1> QED
  BY <1>2, <1>3, <1>4

LEMMA SetupIs ==
  ASSUME NEW ds, NEW d, NEW setup, SetupOf(ds, d, setup), GoodDesc(d), d.tag = HashtreeTag
  PROVE  /\ GoodDescs(ds) /\ NoChains(ds)
         /\ \A i \in 1..Len(ds) : ds[i] = d \/ (ds[i].tag = CmdlineTag /\ i > 1)
         /\ Len(ds) >= 1 /\ ds[1] = d
<1> DEFINE o == << d >>
           r == RootfsCmdlines(d)
           t == IF setup THEN r ELSE << >>
<1>1. IsSeq(o) /\ Len(o) = 1 /\ o[1] = d
  BY OneIs
<1>2. /\ IsSeq(r) /\ Len(r) = 2
      /\ \A i \in 1..2 : GoodDesc(r[i]) /\ r[i].tag = CmdlineTag
  BY RootfsAre
<1>3. ds = o \o t
  BY DEF SetupOf
<1> HIDE DEF o, r
<1>4. /\ IsSeq(t) /\ Len(t) \in {0, 2}
      /\ \A i \in 1..Len(t) : GoodDesc(t[i]) /\ t[i].tag = CmdlineTag
  <2>1. CASE setup
    BY <1>2, <2>1
  <2>2. CASE ~setup
    <3>1. t = << >>
      BY <2>2
    <3> QED
      BY <3>1, NoneIs
  <2> QED
    BY <2>1, <2>2
<1> HIDE DEF t
<1>5. IsBehind(o \o t, o, t)
  BY <1>1, <1>4, ConcatIs
<1>6. /\ IsSeq(ds) /\ Len(ds) = 1 + Len(t) /\ ds[1] = d
      /\ \A k \in 1..Len(t) : ds[1 + k] = t[k]
  BY <1>1, <1>3, <1>5 DEF IsBehind
<1>7. ASSUME NEW i \in 1..Len(ds), i # 1
      PROVE  GoodDesc(ds[i]) /\ ds[i].tag = CmdlineTag /\ i > 1
  <2> DEFINE k == i - 1
  <2>1. k \in 1..Len(t) /\ i = 1 + k /\ i > 1
    BY <1>4, <1>6, <1>7
  <2> HIDE DEF k
  <2> QED
    BY <1>4, <1>6, <2>1
<1>8. Len(ds) >= 1
  BY <1>4, <1>6
<1> QED
  BY <1>6, <1>7, <1>8 DEF GoodDescs, NoChains, CmdlineTag, ChainTag, HashtreeTag

LEMMA TreePartIs ==
  ASSUME NEW name, NEW key, NEW data, NEW keepTree, NEW setup, NEW location, name \in Part, IsData(data),
         Len(data) >= 1, keepTree \in BOOLEAN, setup \in BOOLEAN, location \in Nat
  PROVE  HasParts(HashtreeFooterImage(name, data, key, keepTree, setup, location))
<1> DEFINE f == HashtreeFooterImage(name, data, key, keepTree, setup, location)
           tree == IF keepTree THEN VerityTree(data) ELSE << >>
           root == VerityRoot(data)
           d == HashtreeDescriptor(name, Len(data), Len(data), Len(tree), << << "salt" >> >>, << root >>)
           ds == << d >> \o (IF setup THEN RootfsCmdlines(d) ELSE << >>)
           minor == IF location > 0 THEN 2 ELSE 0
           blob == Blob(key, EncodeAll(ds), location, minor)
<1>1. AreCells(data) /\ IsSeq(data) /\ Len(data) \in Nat /\ Len(data) \in Nat \ {0}
  BY DataIsCells DEF IsSeq
<1>2. AreCells(VerityTree(data)) /\ HashOfSome(VerityRoot(data))
  BY TreeCells
<1>3. AreCells(tree) /\ (keepTree => tree = VerityTree(data)) /\ (~keepTree => tree = << >>)
  BY <1>2, NoCells
<1>4. f = WithFooter(data, tree, blob)
  BY DEF HashtreeFooterImage
<1>5. SetupOf(ds, d, setup)
  BY DEF SetupOf
<1>6. minor \in {0, 1, 2}
  OBVIOUS
<1>7. d = HashtreeDescriptor(name, Len(data), Len(data), Len(tree), << << "salt" >> >>, << root >>)
  OBVIOUS
<1>8. HashOfSome(root) /\ root = VerityRoot(data)
  BY <1>2
<1> HIDE DEF f, tree, root, d, ds, minor
<1>9. Len(tree) \in Nat /\ IsSeq(tree)
  BY <1>3 DEF AreCells, IsSeq
<1>10. /\ GoodDesc(d) /\ d.tag = HashtreeTag /\ d.fixed.image_size = Len(data)
       /\ d.fixed.tree_offset = Len(data) /\ d.fixed.tree_size = Len(tree) /\ d.var[3] = << root >>
  <2> DEFINE salt == << << "salt" >> >>
  <2>1. AreCells(salt) /\ d = HashtreeDescriptor(name, Len(data), Len(data), Len(tree), salt, << root >>)
    BY <1>7, SaltIs
  <2> HIDE DEF salt
  <2> QED
    BY <1>1, <1>8, <1>9, <2>1, HashtreeDescriptorIs
<1>11. /\ GoodDescs(ds) /\ NoChains(ds)
       /\ \A i \in 1..Len(ds) : ds[i] = d \/ ds[i].tag = CmdlineTag
  BY <1>5, <1>10, SetupIs
<1>12. AreOrdinary(ds)
  BY <1>11, GoodIsOrdinary
<1>13. IsImage(f, Len(data) + Len(tree), key, ds, location, minor)
  BY <1>1, <1>3, <1>4, <1>12, FooterIsImage
<1>14. Upto(f, 0, Len(data)) = data /\ Upto(f, Len(data), Len(tree)) = tree
  <2>1. IsSeq(blob)
    BY <1>12, BlobIsSeq
  <2> HIDE DEF blob
  <2> QED
    BY <1>1, <1>4, <1>9, <2>1, FooterReads
<1>15. SelfMatch(d, f)
  <2>1. OnDisk(d, f) = tree
    BY <1>10, <1>14 DEF OnDisk
  <2>2. OnDisk(d, f) = VerityTree(data) \/ (d.fixed.tree_size = 0 /\ OnDisk(d, f) = << >>)
    <3>1. CASE keepTree
      BY <1>3, <2>1, <3>1
    <3>2. CASE ~keepTree
      BY <1>3, <1>10, <2>1, <3>2
    <3> QED
      BY <3>1, <3>2
  <2>3. Upto(f, 0, d.fixed.image_size) = data
    BY <1>10, <1>14
  <2> QED
    BY <1>8, <1>10, <2>2, <2>3 DEF SelfMatch, HashTag, HashtreeTag
<1>16. \A i \in 1..Len(ds) : SelfMatch(ds[i], f)
  <2> SUFFICES ASSUME NEW i \in 1..Len(ds) PROVE SelfMatch(ds[i], f)
    OBVIOUS
  <2>1. CASE ds[i] = d
    BY <1>15, <2>1
  <2>2. CASE ds[i].tag = CmdlineTag
    BY <2>2 DEF SelfMatch, CmdlineTag, HashTag, HashtreeTag
  <2> QED
    BY <1>11, <2>1, <2>2
<1>17. PartIs(f, Len(data) + Len(tree), key, ds, location, minor)
  BY <1>6, <1>11, <1>13, <1>16 DEF PartIs
<1> QED
  BY <1>17 DEF HasParts, f

LEMMA BuiltIs ==
  ASSUME NEW f, IsBuilt(f)
  PROVE  HasParts(f)
<1>1. PICK name \in Part : \E key \in Key \cup {NoKey} : \E data :
        /\ IsData(data)
        /\ \/ \E persistent \in BOOLEAN : f = HashFooterImage(name, data, key, persistent)
           \/ /\ Len(data) >= 1
              /\ \E keepTree \in BOOLEAN : \E setup \in BOOLEAN : \E location \in Nat :
                   f = HashtreeFooterImage(name, data, key, keepTree, setup, location)
  BY DEF IsBuilt
<1>2. PICK key \in Key \cup {NoKey} : \E data :
        /\ IsData(data)
        /\ \/ \E persistent \in BOOLEAN : f = HashFooterImage(name, data, key, persistent)
           \/ /\ Len(data) >= 1
              /\ \E keepTree \in BOOLEAN : \E setup \in BOOLEAN : \E location \in Nat :
                   f = HashtreeFooterImage(name, data, key, keepTree, setup, location)
  BY <1>1
<1>3. PICK data :
        /\ IsData(data)
        /\ \/ \E persistent \in BOOLEAN : f = HashFooterImage(name, data, key, persistent)
           \/ /\ Len(data) >= 1
              /\ \E keepTree \in BOOLEAN : \E setup \in BOOLEAN : \E location \in Nat :
                   f = HashtreeFooterImage(name, data, key, keepTree, setup, location)
  BY <1>2
<1>4. CASE \E persistent \in BOOLEAN : f = HashFooterImage(name, data, key, persistent)
  BY <1>3, <1>4, HashPartIs
<1>5. CASE /\ Len(data) >= 1
           /\ \E keepTree \in BOOLEAN : \E setup \in BOOLEAN : \E location \in Nat :
                f = HashtreeFooterImage(name, data, key, keepTree, setup, location)
  BY <1>3, <1>5, TreePartIs
<1> QED
  BY <1>3, <1>4, <1>5

-----------------------------------------------------------------------------
(* Sequences of descriptors that are put together.                         *)

(* Each element of the set once.                                           *)
Enumerates(q, S) ==
  /\ IsSeq(q) /\ \A k \in 1..Len(q) : q[k] \in S
  /\ \A x \in S : \E k \in 1..Len(q) : q[k] = x
  /\ \A j \in 1..Len(q) : \A k \in 1..Len(q) : q[j] = q[k] => j = k

LEMMA SetToSeqIs ==
  ASSUME NEW S, IsFiniteSet(S)
  PROVE  Enumerates(SetToSeq(S), S)
<1> DEFINE n == Cardinality(S)
           q == SetToSeq(S)
           I == 1..n
<1>1. n \in Nat /\ ExistsBijection(I, S)
  BY FS_CardinalityType
<1>2. PICK f : f \in Bijection(I, S)
  BY <1>1 DEF ExistsBijection
<1>3. f \in [I -> S] /\ IsInjective(f)
  BY <1>2 DEF Bijection, Injection
<1>4. q \in [I -> S] /\ IsInjective(q)
  <2>1. q = CHOOSE g \in [I -> S] : IsInjective(g)
    BY DEF SetToSeq
  <2> HIDE DEF q, I
  <2> QED
    BY <1>3, <2>1
<1>5. q \in Injection(I, S)
  BY <1>4 DEF Injection
<1>6. IsFiniteSet(I) /\ Cardinality(I) = n
  <2>1. 1 \in Int /\ n \in Int
    BY <1>1
  <2> HIDE DEF n
  <2>2. IsFiniteSet(1..n) /\ Cardinality(1..n) = IF 1 > n THEN 0 ELSE n - 1 + 1
    BY <2>1, FS_Interval
  <2> QED
    BY <1>1, <2>1, <2>2
<1>7. q \in Surjection(I, S)
  <2> HIDE DEF q, I
  <2> QED
    BY <1>5, <1>6, FS_Injection
<1> HIDE DEF q, n
<1>8. IsSeq(q) /\ Len(q) = n
  <2>1. q \in Seq(S) /\ Len(q) = n
    BY <1>1, <1>4
  <2> QED
    BY <2>1, SeqIsSeq
<1>9. \A x \in S : \E k \in 1..n : q[k] = x
  BY <1>7 DEF Surjection
<1>10. \A j \in 1..n : \A k \in 1..n : q[j] = q[k] => j = k
  BY <1>4 DEF IsInjective
<1>11. \A k \in 1..n : q[k] \in S
  BY <1>4
<1>12. Enumerates(q, S)
  BY <1>8, <1>9, <1>10, <1>11 DEF Enumerates
<1> QED
  BY <1>12 DEF q

LEMMA PickedAreFinite ==
  ASSUME NEW ds, NEW T, Len(ds) \in Nat, T \subseteq 1..Len(ds)
  PROVE  IsFiniteSet({ds[i] : i \in T})
<1> DEFINE S == {ds[i] : i \in T}
           f == [i \in T |-> ds[i]]
<1>1. IsFiniteSet(T)
  <2>1. IsFiniteSet(1..Len(ds))
    BY FS_Interval
  <2>2. T \in SUBSET (1..Len(ds))
    OBVIOUS
  <2> QED
    BY <2>1, <2>2, FS_Subset
<1>2. f \in Surjection(T, S)
  BY DEF Surjection
<1> HIDE DEF f, S
<1>3. IsFiniteSet(S)
  BY <1>1, <1>2, FS_Surjection
<1> QED
  BY <1>3 DEF S

(* Where a cell of sequences behind each other comes from.                 *)
IsFlat(f, w, r) ==
  /\ IsSeq(f) /\ Offsets(r, w, Len(w)) /\ Len(f) = r[Len(w)]
  /\ \A i \in 1..Len(w) : \A j \in 1..Len(w[i]) : f[r[i - 1] + j] = w[i][j]
  /\ \A k \in 1..Len(f) : HasPlace(r, w, Len(w), k)

LEMMA FlatHas ==
  ASSUME NEW w, IsSeq(w), \A i \in 1..Len(w) : IsSeq(w[i])
  PROVE  \E r : IsFlat(FlattenSeq(w), w, r)
<1>1. Len(w) \in Nat
  BY DEF IsSeq
<1>2. PICK r : Offsets(r, w, Len(w))
  BY <1>1, OffsetsExist
<1>3. FlatIs(FlattenSeq(w), w, r, Len(w))
  BY <1>2, FlattenIs
<1>4. \A k \in 1..r[Len(w)] : HasPlace(r, w, Len(w), k)
  BY <1>1, <1>2, PlaceOf
<1>5. IsFlat(FlattenSeq(w), w, r)
  BY <1>2, <1>3, <1>4 DEF IsFlat, FlatIs
<1> QED
  BY <1>5

(* Each cell of it is a cell of one of them, and each of theirs is in it.  *)
FlatOf(f, w) ==
  /\ IsSeq(f)
  /\ \A k \in 1..Len(f) : \E i \in 1..Len(w) : \E j \in 1..Len(w[i]) : f[k] = w[i][j]
  /\ \A i \in 1..Len(w) : \A j \in 1..Len(w[i]) : \E k \in 1..Len(f) : f[k] = w[i][j]

LEMMA FlatIsOf ==
  ASSUME NEW w, IsSeq(w), \A i \in 1..Len(w) : IsSeq(w[i])
  PROVE  FlatOf(FlattenSeq(w), w)
<1> DEFINE f == FlattenSeq(w)
<1>1. PICK r : IsFlat(f, w, r)
  BY FlatHas
<1> HIDE DEF f
<1>2. Len(w) \in Nat
  BY DEF IsSeq
<1>3. ASSUME NEW k \in 1..Len(f)
      PROVE  \E i \in 1..Len(w) : \E j \in 1..Len(w[i]) : f[k] = w[i][j]
  <2>1. HasPlace(r, w, Len(w), k)
    BY <1>1 DEF IsFlat
  <2>2. PICK i \in 1..Len(w) : \E j \in 1..Len(w[i]) : k = r[i - 1] + j
    BY <2>1 DEF HasPlace
  <2>3. PICK j \in 1..Len(w[i]) : k = r[i - 1] + j
    BY <2>2
  <2>4. f[k] = w[i][j]
    BY <1>1, <2>3 DEF IsFlat
  <2> QED
    BY <2>4
<1>4. ASSUME NEW i \in 1..Len(w), NEW j \in 1..Len(w[i])
      PROVE  \E k \in 1..Len(f) : f[k] = w[i][j]
  <2> DEFINE k == r[i - 1] + j
             n == Len(w)
             a == r[i - 1]
             b == r[i]
             z == r[n]
             l == Len(w[i])
  <2>1. f[k] = w[i][j] /\ Offsets(r, w, n) /\ Len(f) = z
    BY <1>1 DEF IsFlat
  <2>2. a \in Nat /\ b \in Nat /\ z \in Nat /\ b = a + l /\ l \in Nat
    <3>1. i - 1 \in 0..n /\ i \in 0..n /\ n \in 0..n
      BY <1>2
    <3> QED
      BY <2>1, <3>1 DEF Offsets, IsSeq
  <2>3. b <= z
    <3>1. n \in Nat /\ i \in 0..n /\ n \in i..n
      BY <1>2
    <3> HIDE DEF n
    <3> QED
      BY <2>1, <3>1, OffsetsGrow
  <2>4. k = a + j /\ j \in 1..l
    OBVIOUS
  <2> HIDE DEF a, b, z, l, n, k
  <2>5. k \in 1..z
    BY <2>2, <2>3, <2>4
  <2> QED
    BY <2>1, <2>5
<1>5. IsSeq(f)
  BY <1>1 DEF IsFlat
<1>6. FlatOf(f, w)
  BY <1>3, <1>4, <1>5 DEF FlatOf
<1> QED
  BY <1>6 DEF f

LEMMA GoodFlat ==
  ASSUME NEW w, IsSeq(w), \A i \in 1..Len(w) : GoodDescs(w[i])
  PROVE  GoodDescs(FlattenSeq(w))
<1>1. \A i \in 1..Len(w) : IsSeq(w[i])
  BY DEF GoodDescs
<1>2. FlatOf(FlattenSeq(w), w)
  BY <1>1, FlatIsOf
<1> QED
  BY <1>2 DEF FlatOf, GoodDescs

LEMMA GoodBehind ==
  ASSUME NEW s, NEW t, GoodDescs(s), GoodDescs(t)
  PROVE  GoodDescs(s \o t)
<1>1. IsSeq(s) /\ IsSeq(t) /\ Len(s) \in Nat /\ Len(t) \in Nat
  BY DEF GoodDescs, IsSeq
<1> DEFINE c == s \o t
<1>2. IsBehind(c, s, t)
  BY <1>1, ConcatIs
<1> HIDE DEF c
<1>3. IsSeq(c) /\ Len(c) = Len(s) + Len(t)
  BY <1>2 DEF IsBehind
<1>4. ASSUME NEW k \in 1..Len(c)
      PROVE  GoodDesc(c[k])
  <2>1. CASE k <= Len(s)
    <3>1. k \in 1..Len(s)
      BY <1>1, <2>1
    <3> QED
      BY <1>2, <3>1 DEF IsBehind, GoodDescs
  <2>2. CASE k > Len(s)
    <3> DEFINE i == k - Len(s)
    <3>1. i \in 1..Len(t) /\ k = Len(s) + i
      BY <1>1, <1>3, <2>2
    <3> HIDE DEF i
    <3> QED
      BY <1>2, <3>1 DEF IsBehind, GoodDescs
  <2> QED
    BY <1>1, <2>1, <2>2
<1>5. GoodDescs(c)
  BY <1>3, <1>4 DEF GoodDescs
<1> QED
  BY <1>5 DEF c

-----------------------------------------------------------------------------
(* What the images of the partitions and of make_vbmeta_image hold.        *)

(* f is an image of these descriptors, some of its cells lost.             *)
From(f, ds) ==
  \E g : \E off : \E key : \E location : \E minor :
    IsImage(g, off, key, ds, location, minor) /\ Derived(f, g)

(* An image as a command left it.                                          *)
Whole(f) ==
  /\ Parses(f) /\ GoodDescs(Descs(f)) /\ From(f, Descs(f))
  /\ SignatureVerifies(HeaderOf(f), BlobOf(f))

LEMMA WholeIs ==
  ASSUME NEW f, NEW off, NEW key, NEW ds, NEW location, NEW minor,
         IsImage(f, off, key, ds, location, minor), GoodDescs(ds)
  PROVE  Whole(f) /\ Descs(f) = ds /\ HeaderOf(f).minor = minor
<1> DEFINE enc == EncodeAll(ds)
           h == Header(key, enc, location, minor)
<1>1. HasHeader(f) /\ Derived(f, f)
  BY ImageHasHeader
<1>2. Keeps(f, f, off, h, key, enc, ds)
  BY <1>1, ImageKeeps
<1>3. h[2].minor = minor
  BY HeaderIs
<1> HIDE DEF h, enc
<1>4. HeaderOf(f) = h[2] /\ Parses(f) /\ Descs(f) = ds /\ SignatureVerifies(h[2], BlobOf(f))
  BY <1>2 DEF Keeps
<1>5. From(f, ds)
  BY <1>1 DEF From
<1> QED
  BY <1>3, <1>4, <1>5 DEF Whole

IsPartition(f) ==
  /\ Whole(f) /\ NoChains(Descs(f)) /\ HeaderOf(f).minor \in {0, 1, 2}
  /\ \A i \in 1..Len(Descs(f)) : SelfMatch(Descs(f)[i], f)

LEMMA PartitionIs ==
  ASSUME NEW f, HasParts(f)
  PROVE  IsPartition(f)
<1>1. PICK off : \E key : \E ds : \E location : \E minor : PartIs(f, off, key, ds, location, minor)
  BY DEF HasParts
<1>2. PICK key : \E ds : \E location : \E minor : PartIs(f, off, key, ds, location, minor)
  BY <1>1
<1>3. PICK ds : \E location : \E minor : PartIs(f, off, key, ds, location, minor)
  BY <1>2
<1>4. PICK location : \E minor : PartIs(f, off, key, ds, location, minor)
  BY <1>3
<1>5. PICK minor : PartIs(f, off, key, ds, location, minor)
  BY <1>4
<1>6. Whole(f) /\ Descs(f) = ds /\ HeaderOf(f).minor = minor
  BY <1>5, WholeIs DEF PartIs
<1> QED
  BY <1>5, <1>6 DEF PartIs, IsPartition

LEMMA DomainIs ==
  ASSUME NEW s, IsSeq(s)
  PROVE  DOMAIN s = 1..Len(s) /\ Len(s) \in Nat
  BY DEF IsSeq

(* A sequence made from another, place by place.                           *)
LEMMA FunctionIs ==
  ASSUME NEW s, NEW t, NEW n, IsSeq(s), n = Len(s), DOMAIN t = DOMAIN s, t = [i \in DOMAIN t |-> t[i]]
  PROVE  IsSeq(t) /\ Len(t) = n
<1>1. DOMAIN t = 1..n /\ n \in Nat
  BY DomainIs
<1>2. t = [i \in 1..n |-> t[i]]
  BY <1>1
<1>3. IsMap(t, n, t)
  BY <1>2 DEF IsMap
<1> QED
  BY <1>1, <1>3, MapIs

(* The command lines of make_vbmeta_image.                                 *)
IsCommand(c) ==
  /\ IsSeq(c.include) /\ \A i \in 1..Len(c.include) : c.include[i] \in Part
  /\ IsSeq(c.setup) /\ \A i \in 1..Len(c.setup) : c.setup[i] \in Part
  /\ IsSeq(c.chain) /\ \A i \in 1..Len(c.chain) : c.chain[i].name \in Part \cup {Top}

ArePartitions(files) == \A p \in Part : IsPartition(files[p])

(* The descriptors of the images, one image behind the other.              *)
IncludedOf(c, files) == [i \in DOMAIN c.include |-> Descs(files[c.include[i]])]

LEMMA IncludedOfIs ==
  ASSUME NEW c, NEW files, IsCommand(c), ArePartitions(files)
  PROVE  /\ IsSeq(IncludedOf(c, files)) /\ Len(IncludedOf(c, files)) = Len(c.include)
         /\ Len(c.include) \in Nat
         /\ \A i \in 1..Len(c.include) : /\ IncludedOf(c, files)[i] = Descs(files[c.include[i]])
                                         /\ GoodDescs(IncludedOf(c, files)[i])
                                         /\ NoChains(IncludedOf(c, files)[i])
<1> DEFINE w == IncludedOf(c, files)
           s == c.include
           n == Len(s)
<1>1. IsSeq(s) /\ DOMAIN s = 1..n /\ n \in Nat /\ \A i \in 1..n : s[i] \in Part
  BY DomainIs DEF IsCommand
<1>2. IsSeq(w) /\ Len(w) = n
  <2>1. DOMAIN w = DOMAIN s /\ w = [i \in DOMAIN w |-> w[i]]
    BY DEF IncludedOf
  <2> HIDE DEF w, s
  <2> QED
    BY <1>1, <2>1, FunctionIs
<1>3. ASSUME NEW i \in 1..n
      PROVE  w[i] = Descs(files[s[i]]) /\ GoodDescs(w[i]) /\ NoChains(w[i])
  <2>1. w[i] = Descs(files[s[i]])
    BY <1>1 DEF IncludedOf
  <2>2. IsPartition(files[s[i]])
    BY <1>1 DEF ArePartitions
  <2> QED
    BY <2>1, <2>2 DEF IsPartition, Whole
<1> QED
  BY <1>1, <1>2, <1>3

LEMMA FoundIs ==
  ASSUME NEW c, NEW files, IsCommand(c), ArePartitions(files)
  PROVE  /\ GoodDescs(Found(c, files)) /\ NoChains(Found(c, files))
         /\ FlatOf(Found(c, files), IncludedOf(c, files))
<1> DEFINE w == IncludedOf(c, files)
           f == Found(c, files)
<1>1. f = FlattenSeq(w)
  BY DEF Found, IncludedOf
<1>2. IsSeq(w) /\ \A i \in 1..Len(w) : GoodDescs(w[i]) /\ NoChains(w[i])
  BY IncludedOfIs
<1> HIDE DEF w, f
<1>3. GoodDescs(f)
  BY <1>1, <1>2, GoodFlat
<1>4. \A i \in 1..Len(w) : IsSeq(w[i])
  BY <1>2 DEF GoodDescs
<1>5. FlatOf(f, w)
  BY <1>1, <1>2, <1>4, FlatIsOf
<1>6. NoChains(f)
  BY <1>2, <1>5 DEF NoChains, FlatOf
<1> QED
  BY <1>3, <1>5, <1>6 DEF w, f

(* Those that name no partition, and those that were seen last.            *)
Unnamed(ds) == [i \in DOMAIN ds |-> IF HasPartitionName(ds[i]) THEN << >> ELSE << ds[i] >>]
Kept(ds) == {ds[i] : i \in LastSeen(ds)}

LEMMA UnnamedIs ==
  ASSUME NEW ds, GoodDescs(ds)
  PROVE  /\ GoodDescs(FlattenSeq(Unnamed(ds)))
         /\ \A k \in 1..Len(FlattenSeq(Unnamed(ds))) : ~HasPartitionName(FlattenSeq(Unnamed(ds))[k])
<1> DEFINE w == Unnamed(ds)
           n == Len(ds)
           f == FlattenSeq(w)
<1>1. IsSeq(ds) /\ DOMAIN ds = 1..n /\ n \in Nat
  BY DomainIs DEF GoodDescs
<1>2. IsSeq(w) /\ Len(w) = n
  <2>1. DOMAIN w = DOMAIN ds /\ w = [i \in DOMAIN w |-> w[i]]
    BY DEF Unnamed
  <2> HIDE DEF w
  <2> QED
    BY <1>1, <2>1, FunctionIs
<1>3. ASSUME NEW i \in 1..n
      PROVE  GoodDescs(w[i]) /\ \A k \in 1..Len(w[i]) : ~HasPartitionName(w[i][k])
  <2>1. w[i] = IF HasPartitionName(ds[i]) THEN << >> ELSE << ds[i] >>
    BY <1>1 DEF Unnamed
  <2>2. CASE HasPartitionName(ds[i])
    <3>1. w[i] = << >>
      BY <2>1, <2>2
    <3> QED
      BY <3>1, NoneIs DEF GoodDescs
  <2>3. CASE ~HasPartitionName(ds[i])
    <3> DEFINE d == ds[i]
    <3>1. w[i] = << d >> /\ GoodDesc(d) /\ ~HasPartitionName(d)
      BY <2>1, <2>3 DEF GoodDescs
    <3> HIDE DEF d
    <3>2. IsSeq(<< d >>) /\ Len(<< d >>) = 1 /\ << d >>[1] = d
      BY OneIs
    <3>3. \A k \in 1..Len(w[i]) : w[i][k] = d
      BY <3>1, <3>2
    <3> QED
      BY <3>1, <3>2, <3>3 DEF GoodDescs
  <2> QED
    BY <2>2, <2>3
<1> HIDE DEF w, f
<1>4. GoodDescs(f)
  BY <1>2, <1>3, GoodFlat DEF f
<1>5. FlatOf(f, w)
  <2>1. \A i \in 1..Len(w) : IsSeq(w[i])
    BY <1>2, <1>3 DEF GoodDescs
  <2> QED
    BY <1>2, <2>1, FlatIsOf DEF f
<1>6. \A k \in 1..Len(f) : ~HasPartitionName(f[k])
  BY <1>2, <1>3, <1>5 DEF FlatOf
<1> QED
  BY <1>4, <1>6 DEF f, w

LEMMA KeptIs ==
  ASSUME NEW ds, GoodDescs(ds)
  PROVE  Enumerates(SetToSeq(Kept(ds)), Kept(ds)) /\ GoodDescs(SetToSeq(Kept(ds)))
<1> DEFINE q == SetToSeq(Kept(ds))
<1>1. DOMAIN ds = 1..Len(ds) /\ Len(ds) \in Nat
  BY DomainIs DEF GoodDescs
<1>2. LastSeen(ds) \subseteq 1..Len(ds)
  BY <1>1 DEF LastSeen
<1>3. IsFiniteSet(Kept(ds))
  BY <1>1, <1>2, PickedAreFinite DEF Kept
<1>4. Enumerates(q, Kept(ds))
  BY <1>3, SetToSeqIs
<1> HIDE DEF q
<1>5. \A x \in Kept(ds) : GoodDesc(x)
  BY <1>2 DEF Kept, GoodDescs
<1>6. GoodDescs(q)
  BY <1>4, <1>5 DEF Enumerates, GoodDescs
<1> QED
  BY <1>4, <1>6 DEF q

-----------------------------------------------------------------------------
(* The output of make_vbmeta_image.                                        *)

LEMMA ChainsAre ==
  ASSUME NEW c, IsCommand(c)
  PROVE  /\ GoodDescs(ChainDescriptors(c))
         /\ \A k \in 1..Len(ChainDescriptors(c)) : ChainDescriptors(c)[k].tag = ChainTag
<1> DEFINE w == ChainDescriptors(c)
           s == c.chain
           n == Len(s)
<1>1. IsSeq(s) /\ DOMAIN s = 1..n /\ n \in Nat /\ \A i \in 1..n : s[i].name \in Part \cup {Top}
  BY DomainIs DEF IsCommand
<1>2. IsSeq(w) /\ Len(w) = n
  <2>1. DOMAIN w = DOMAIN s /\ w = [i \in DOMAIN w |-> w[i]]
    BY DEF ChainDescriptors
  <2> HIDE DEF w, s
  <2> QED
    BY <1>1, <2>1, FunctionIs
<1>3. ASSUME NEW i \in 1..n
      PROVE  GoodDesc(w[i]) /\ w[i].tag = ChainTag
  <2>1. w[i] = ChainDescriptor(s[i].name, s[i].location, s[i].key)
    BY <1>1 DEF ChainDescriptors
  <2> HIDE DEF w
  <2> QED
    BY <1>1, <2>1, ChainIs
<1> HIDE DEF w
<1> QED
  BY <1>2, <1>3 DEF GoodDescs, w

LEMMA SetupsAre ==
  ASSUME NEW c, NEW files, IsCommand(c)
  PROVE  /\ GoodDescs(SetupDescriptors(c, files))
         /\ \A k \in 1..Len(SetupDescriptors(c, files)) :
              ~HasPartitionName(SetupDescriptors(c, files)[k])
<1> DEFINE s == c.setup
           w == [i \in DOMAIN s |-> RootfsCmdlines(FirstHashtree(Descs(files[s[i]])))]
           n == Len(s)
           f == SetupDescriptors(c, files)
<1>1. IsSeq(s) /\ DOMAIN s = 1..n /\ n \in Nat
  BY DomainIs DEF IsCommand
<1>2. IsSeq(w) /\ Len(w) = n
  <2>1. DOMAIN w = DOMAIN s /\ w = [i \in DOMAIN w |-> w[i]]
    OBVIOUS
  <2> HIDE DEF w, s
  <2> QED
    BY <1>1, <2>1, FunctionIs
<1>3. ASSUME NEW i \in 1..n
      PROVE  GoodDescs(w[i]) /\ \A k \in 1..Len(w[i]) : ~HasPartitionName(w[i][k])
  <2> DEFINE d == FirstHashtree(Descs(files[s[i]]))
  <2>1. w[i] = RootfsCmdlines(d)
    BY <1>1
  <2> HIDE DEF d, w
  <2>2. /\ IsSeq(RootfsCmdlines(d)) /\ Len(RootfsCmdlines(d)) = 2
        /\ \A k \in 1..2 : GoodDesc(RootfsCmdlines(d)[k]) /\ ~HasPartitionName(RootfsCmdlines(d)[k])
    BY RootfsAre
  <2> QED
    BY <2>1, <2>2 DEF GoodDescs
<1>4. f = FlattenSeq(w)
  BY DEF SetupDescriptors
<1> HIDE DEF w, f
<1>5. GoodDescs(f)
  BY <1>2, <1>3, <1>4, GoodFlat
<1>6. FlatOf(f, w)
  <2>1. \A i \in 1..Len(w) : IsSeq(w[i])
    BY <1>2, <1>3 DEF GoodDescs
  <2> QED
    BY <1>2, <1>4, <2>1, FlatIsOf
<1>7. \A k \in 1..Len(f) : ~HasPartitionName(f[k])
  BY <1>2, <1>3, <1>6 DEF FlatOf
<1> QED
  BY <1>5, <1>7 DEF f

MadeDescs(c, files) ==
  ChainDescriptors(c) \o << PropertyDescriptor("fingerprint", "build") >>
  \o SetupDescriptors(c, files) \o IncludedDescriptors(c, files)

LEMMA MadeImage ==
  ASSUME NEW c, NEW files
  PROVE  VbmetaImage(c, files)
         = Blob(c.key, EncodeAll(MadeDescs(c, files)), c.location, RequiredMinor(c, files))
  BY DEF VbmetaImage, MadeDescs

(* No hash or hash tree is described in these.                             *)
NoSums(ds) == \A k \in 1..Len(ds) : ~HasPartitionName(ds[k]) \/ ds[k].tag = ChainTag

LEMMA NoSumsBehind ==
  ASSUME NEW s, NEW t, GoodDescs(s), GoodDescs(t), NoSums(s), NoSums(t)
  PROVE  NoSums(s \o t)
<1> DEFINE c == s \o t
<1>1. IsSeq(s) /\ IsSeq(t) /\ IsBehind(c, s, t) /\ Len(s) \in Nat /\ Len(t) \in Nat
  BY ConcatIs DEF GoodDescs, IsSeq
<1> HIDE DEF c
<1>2. ASSUME NEW k \in 1..Len(c)
      PROVE  ~HasPartitionName(c[k]) \/ c[k].tag = ChainTag
  <2>1. CASE k <= Len(s)
    <3>1. k \in 1..Len(s)
      BY <1>1, <1>2, <2>1 DEF IsBehind
    <3>2. c[k] = s[k]
      BY <1>1, <3>1 DEF IsBehind
    <3> QED
      BY <3>1, <3>2 DEF NoSums
  <2>2. CASE k > Len(s)
    <3>1. k - Len(s) \in 1..Len(t) /\ k = Len(s) + (k - Len(s))
      BY <1>1, <1>2, <2>2 DEF IsBehind
    <3>2. c[k] = t[k - Len(s)]
      BY <1>1, <3>1 DEF IsBehind
    <3> QED
      BY <3>1, <3>2 DEF NoSums
  <2> QED
    BY <1>1, <1>2, <2>1, <2>2
<1> QED
  BY <1>2 DEF NoSums, c

(* Chains, properties and command lines, and then what is kept of what was *)
(* found.                                                                  *)
LedBy(ds, q, k) == ds = q \o k /\ GoodDescs(ds) /\ GoodDescs(q) /\ GoodDescs(k) /\ NoSums(q)

LEMMA Reassociate ==
  ASSUME NEW a, NEW b, NEW c, IsSeq(a), IsSeq(b), IsSeq(c)
  PROVE  a \o (b \o c) = (a \o b) \o c
<1>1. PICK A : a \in Seq(A)
  BY IsSeqOf
<1>2. PICK B : b \in Seq(B)
  BY IsSeqOf
<1>3. PICK C : c \in Seq(C)
  BY IsSeqOf
<1> DEFINE U == (A \cup B) \cup C
<1>4. a \in Seq(U) /\ b \in Seq(U) /\ c \in Seq(U)
  BY <1>1, <1>2, <1>3
<1> HIDE DEF U
<1> QED
  BY <1>4

LEMMA MadeIs ==
  ASSUME NEW c, NEW files, IsCommand(c), ArePartitions(files)
  PROVE  \E q : LedBy(MadeDescs(c, files), q, SetToSeq(Kept(Found(c, files))))
<1> DEFINE p == PropertyDescriptor("fingerprint", "build")
           a == ChainDescriptors(c)
           b == << p >>
           s == SetupDescriptors(c, files)
           u == FlattenSeq(Unnamed(Found(c, files)))
           k == SetToSeq(Kept(Found(c, files)))
           ds == MadeDescs(c, files)
<1>1. ds = ((a \o b) \o s) \o (u \o k)
  BY DEF MadeDescs, IncludedDescriptors, Unnamed, Kept
<1>2. GoodDescs(a) /\ NoSums(a)
  BY ChainsAre DEF NoSums
<1>3. GoodDesc(p) /\ ~HasPartitionName(p)
  BY PropertyIs
<1>4. GoodDescs(s) /\ NoSums(s)
  BY SetupsAre DEF NoSums
<1>5. GoodDescs(u) /\ NoSums(u) /\ GoodDescs(k)
  BY FoundIs, UnnamedIs, KeptIs DEF NoSums
<1> HIDE DEF a, s, u, k, ds, p
<1>6. GoodDescs(b) /\ NoSums(b)
  <2>1. IsSeq(<< p >>) /\ Len(<< p >>) = 1 /\ << p >>[1] = p
    BY OneIs
  <2> QED
    BY <1>3, <2>1 DEF GoodDescs, NoSums
<1> HIDE DEF b
<1>7. GoodDescs(a \o b) /\ NoSums(a \o b)
  BY <1>2, <1>6, GoodBehind, NoSumsBehind
<1>8. GoodDescs((a \o b) \o s) /\ NoSums((a \o b) \o s)
  BY <1>4, <1>7, GoodBehind, NoSumsBehind
<1> DEFINE l == (a \o b) \o s
<1>9. GoodDescs(l) /\ NoSums(l)
  BY <1>8
<1>10. ds = l \o (u \o k)
  BY <1>1
<1> HIDE DEF l
<1>11. GoodDescs(l \o u) /\ NoSums(l \o u)
  BY <1>5, <1>9, GoodBehind, NoSumsBehind
<1>12. l \o (u \o k) = (l \o u) \o k
  BY <1>5, <1>9, Reassociate DEF GoodDescs
<1> DEFINE q == l \o u
<1>13. GoodDescs(q) /\ NoSums(q) /\ ds = q \o k
  BY <1>10, <1>11, <1>12
<1> HIDE DEF q
<1>14. GoodDescs(ds)
  BY <1>5, <1>13, GoodBehind
<1>15. LedBy(ds, q, k)
  BY <1>5, <1>13, <1>14 DEF LedBy
<1>16. \E x : LedBy(ds, x, k)
  BY <1>15
<1> QED
  BY <1>16 DEF ds, k

(* The output is an image of these descriptors.                            *)
LEMMA MadeIsWhole ==
  ASSUME NEW c, NEW files, IsCommand(c), ArePartitions(files)
  PROVE  /\ Whole(VbmetaImage(c, files)) /\ Descs(VbmetaImage(c, files)) = MadeDescs(c, files)
         /\ HeaderOf(VbmetaImage(c, files)).minor = RequiredMinor(c, files)
<1> DEFINE ds == MadeDescs(c, files)
           f == VbmetaImage(c, files)
           minor == RequiredMinor(c, files)
           key == c.key
           location == c.location
<1>1. GoodDescs(ds)
  BY MadeIs DEF LedBy
<1>2. f = Blob(key, EncodeAll(ds), location, minor)
  BY MadeImage
<1> HIDE DEF ds, f, minor, key, location
<1>3. IsImage(f, 0, key, ds, location, minor)
  BY <1>1, <1>2, GoodIsOrdinary, BlobIsImage
<1>4. Whole(f) /\ Descs(f) = ds /\ HeaderOf(f).minor = minor
  BY <1>1, <1>3, WholeIs
<1> QED
  BY <1>4 DEF f, ds, minor

(* Only the partitions are read.                                           *)
LEMMA OnlyPartitions ==
  ASSUME NEW c, NEW files, NEW others, IsCommand(c), \A p \in Part : files[p] = others[p]
  PROVE  /\ VbmetaImage(c, files) = VbmetaImage(c, others)
         /\ MakeAccepted(c, files) <=> MakeAccepted(c, others)
         /\ Found(c, files) = Found(c, others)
<1>1. /\ DOMAIN c.include = 1..Len(c.include) /\ \A i \in 1..Len(c.include) : c.include[i] \in Part
      /\ DOMAIN c.setup = 1..Len(c.setup) /\ \A i \in 1..Len(c.setup) : c.setup[i] \in Part
  BY DomainIs DEF IsCommand
<1>2. /\ \A i \in DOMAIN c.include : files[c.include[i]] = others[c.include[i]]
      /\ \A i \in DOMAIN c.setup : files[c.setup[i]] = others[c.setup[i]]
  BY <1>1
<1>3. Found(c, files) = Found(c, others)
  <2>1. [i \in DOMAIN c.include |-> Descs(files[c.include[i]])]
        = [i \in DOMAIN c.include |-> Descs(others[c.include[i]])]
    BY <1>2
  <2> QED
    BY <2>1 DEF Found
<1>4. SetupDescriptors(c, files) = SetupDescriptors(c, others)
  <2>1. [i \in DOMAIN c.setup |-> RootfsCmdlines(FirstHashtree(Descs(files[c.setup[i]])))]
        = [i \in DOMAIN c.setup |-> RootfsCmdlines(FirstHashtree(Descs(others[c.setup[i]])))]
    BY <1>2
  <2> QED
    BY <2>1 DEF SetupDescriptors
<1>5. RequiredMinor(c, files) = RequiredMinor(c, others)
  <2>1. {HeaderOf(files[c.include[i]]).minor : i \in DOMAIN c.include}
        = {HeaderOf(others[c.include[i]]).minor : i \in DOMAIN c.include}
    BY <1>2
  <2> QED
    BY <2>1 DEF RequiredMinor
<1>6. IncludedDescriptors(c, files) = IncludedDescriptors(c, others)
  BY <1>3 DEF IncludedDescriptors
<1>7. VbmetaImage(c, files) = VbmetaImage(c, others)
  BY <1>4, <1>5, <1>6 DEF VbmetaImage
<1>8. MakeAccepted(c, files) <=> MakeAccepted(c, others)
  BY <1>2 DEF MakeAccepted, SetupAccepted
<1> QED
  BY <1>3, <1>7, <1>8

-----------------------------------------------------------------------------
(* Files that were built, signed and damaged.                              *)

LEMMA LostStays ==
  ASSUME NEW f, NEW g, NEW h, Derived(f, g), Derived(g, h)
  PROVE  Derived(f, h)
  BY DEF Derived

(* A file is cells of data, or an image of descriptors of D that may have  *)
(* lost cells.                                                             *)
Sound(f, D, n) ==
  \/ AreCells(f)
  \/ \E ds \in D : GoodDescs(ds) /\ (n \in Part => NoChains(ds)) /\ From(f, ds)

LEMMA FromLost ==
  ASSUME NEW f, NEW g, NEW ds, From(g, ds), Derived(f, g)
  PROVE  From(f, ds)
<1>1. PICK e : \E off : \E key : \E location : \E minor :
                 IsImage(e, off, key, ds, location, minor) /\ Derived(g, e)
  BY DEF From
<1>2. Derived(f, e)
  BY <1>1, LostStays
<1> QED
  BY <1>1, <1>2 DEF From

LEMMA SoundLost ==
  ASSUME NEW f, NEW g, NEW D, NEW n, Sound(g, D, n), Derived(f, g)
  PROVE  Sound(f, D, n)
<1>1. CASE AreCells(g)
  <2>1. \A x \in 1..Len(g) : Ordinary(f[x])
    BY <1>1, LostIsOrdinary DEF AreCells, Derived
  <2> QED
    BY <2>1 DEF AreCells, Derived, Sound
<1>2. CASE \E ds \in D : GoodDescs(ds) /\ (n \in Part => NoChains(ds)) /\ From(g, ds)
  BY <1>2, FromLost DEF Sound
<1> QED
  BY <1>1, <1>2 DEF Sound

LEMMA DamagedIsLost ==
  ASSUME NEW f, NEW g, NEW i, IsSeq(f), i \in DOMAIN f, g = [f EXCEPT ![i] = << "damaged" >>]
  PROVE  Derived(g, f)
<1>1. DOMAIN f = 1..Len(f) /\ Len(f) \in Nat
  BY DomainIs
<1>2. DOMAIN g = DOMAIN f /\ g = [k \in DOMAIN g |-> g[k]]
  OBVIOUS
<1>3. \A x \in 1..Len(f) : g[x] = f[x] \/ Lost(g[x])
  BY <1>1 DEF Lost
<1>4. IsSeq(g) /\ Len(g) = Len(f)
  BY <1>2, FunctionIs
<1> QED
  BY <1>3, <1>4 DEF Derived

LEMMA ZeroedIsLost ==
  ASSUME NEW f, NEW d, IsSeq(f)
  PROVE  Derived(Zeroed(f, d), f)
<1> DEFINE g == Zeroed(f, d)
<1>1. DOMAIN f = 1..Len(f) /\ Len(f) \in Nat
  BY DomainIs
<1>2. DOMAIN g = DOMAIN f /\ g = [k \in DOMAIN g |-> g[k]]
  BY DEF Zeroed
<1>3. \A x \in 1..Len(f) : g[x] = f[x] \/ Lost(g[x])
  BY <1>1 DEF Lost, Zeroed
<1> HIDE DEF g
<1>4. IsSeq(g) /\ Len(g) = Len(f)
  BY <1>1, <1>2, FunctionIs
<1> QED
  BY <1>3, <1>4 DEF Derived, g

LEMMA PartitionIsSound ==
  ASSUME NEW f, NEW D, NEW n, IsPartition(f), Descs(f) \in D
  PROVE  Sound(f, D, n)
  BY DEF IsPartition, Whole, Sound

LEMMA DataIsSound ==
  ASSUME NEW f, NEW D, NEW n, IsData(f)
  PROVE  Sound(f, D, n)
  BY DataIsCells DEF Sound

(* Descriptors that are like those the commands write.                     *)
LikeGood(ps, n) == \E ds : GoodDescs(ds) /\ (n \in Part => NoChains(ds)) /\ AreLike(ps, ds)

LEMMA NothingIsGood ==
  ASSUME NEW n
  PROVE  LikeGood(<< >>, n)
<1>1. GoodDescs(<< >>) /\ NoChains(<< >>) /\ AreLike(<< >>, << >>)
  BY NoneIs DEF GoodDescs, NoChains, AreLike
<1> QED
  BY <1>1 DEF LikeGood

LEMMA NoHeader ==
  ASSUME NEW f, AreCells(f)
  PROVE  ~HasHeader(f) /\ ~Parses(f) /\ Descs(f) = << >>
<1>1. IsSeq(f) /\ Len(f) \in Nat /\ DOMAIN f = 1..Len(f)
  BY DomainIs DEF AreCells
<1>2. ASSUME HasHeader(f)
      PROVE  FALSE
  <2>1. f # << >>
    BY <1>1, <1>2, NoneIs DEF HasHeader, VbmetaOffset, HasFooter
  <2>2. Len(f) # 0
    BY <1>1, <2>1, EmptyIs
  <2>3. Len(f) \in 1..Len(f)
    BY <1>1, <2>2
  <2>4. f[Len(f)][1] # "AVBf"
    BY <2>3 DEF AreCells, Ordinary
  <2>5. VbmetaOffset(f) = 0
    BY <2>4 DEF VbmetaOffset, HasFooter
  <2>6. f[1][1] = "AVB0"
    BY <1>2, <2>5 DEF HasHeader
  <2>7. 1 \in 1..Len(f)
    BY <1>1, <2>2
  <2> QED
    BY <2>6, <2>7 DEF AreCells, Ordinary
<1> QED
  BY <1>2 DEF Parses, Descs

(* What an image keeps of the descriptors of which it is.                  *)
FromKeeps(f, ds) ==
  /\ IsSeq(f) /\ Parses(f) => AreLike(Descs(f), ds)
  /\ Parses(f) /\ SignatureVerifies(HeaderOf(f), BlobOf(f)) /\ HeaderOf(f).algorithm # "NONE"
       => Descs(f) = ds

LEMMA FromIs ==
  ASSUME NEW f, NEW ds, From(f, ds)
  PROVE  IsSeq(f) /\ FromKeeps(f, ds)
<1>1. PICK g : \E off : \E key : \E location : \E minor :
                 IsImage(g, off, key, ds, location, minor) /\ Derived(f, g)
  BY DEF From
<1>2. PICK off : \E key : \E location : \E minor :
                   IsImage(g, off, key, ds, location, minor) /\ Derived(f, g)
  BY <1>1
<1>3. PICK key : \E location : \E minor : IsImage(g, off, key, ds, location, minor) /\ Derived(f, g)
  BY <1>2
<1>4. PICK location : \E minor : IsImage(g, off, key, ds, location, minor) /\ Derived(f, g)
  BY <1>3
<1>5. PICK minor : IsImage(g, off, key, ds, location, minor) /\ Derived(f, g)
  BY <1>4
<1>6. IsSeq(f)
  BY <1>5 DEF Derived
<1>7. CASE ~HasHeader(f)
  BY <1>6, <1>7 DEF FromKeeps, Parses
<1>8. CASE HasHeader(f)
  <2> DEFINE enc == EncodeAll(ds)
             h == Header(key, enc, location, minor)
  <2>1. Keeps(f, g, off, h, key, enc, ds)
    BY <1>5, <1>8, ImageKeeps
  <2> HIDE DEF h, enc
  <2>2. HeaderOf(f) = h[2] /\ (Parses(f) => AreLike(Descs(f), ds))
    BY <2>1 DEF Keeps
  <2>3. (h[2].algorithm = "NONE") <=> (key = NoKey)
    BY <2>1 DEF Keeps
  <2>4. key # NoKey /\ Parses(f) /\ SignatureVerifies(h[2], BlobOf(f)) => Descs(f) = ds
    BY <2>1 DEF Keeps
  <2> QED
    BY <1>6, <2>2, <2>3, <2>4 DEF FromKeeps
<1> QED
  BY <1>7, <1>8

(* What is read of a file.                                                 *)
LEMMA SoundReads ==
  ASSUME NEW f, NEW D, NEW n, Sound(f, D, n)
  PROVE  /\ IsSeq(f) /\ LikeGood(Descs(f), n)
         /\ Parses(f) /\ SignatureVerifies(HeaderOf(f), BlobOf(f)) /\ HeaderOf(f).algorithm # "NONE"
              => Descs(f) \in D
<1>1. CASE AreCells(f)
  BY <1>1, NoHeader, NothingIsGood DEF AreCells
<1>2. CASE \E ds \in D : GoodDescs(ds) /\ (n \in Part => NoChains(ds)) /\ From(f, ds)
  <2>1. PICK ds \in D : GoodDescs(ds) /\ (n \in Part => NoChains(ds)) /\ From(f, ds)
    BY <1>2
  <2>2. IsSeq(f) /\ FromKeeps(f, ds)
    BY <2>1, FromIs
  <2>3. LikeGood(Descs(f), n)
    <3>1. CASE Parses(f)
      BY <2>1, <2>2, <3>1 DEF FromKeeps, LikeGood
    <3>2. CASE ~Parses(f)
      BY <3>2, NothingIsGood DEF Descs
    <3> QED
      BY <3>1, <3>2
  <2> QED
    BY <2>1, <2>2, <2>3 DEF FromKeeps
<1> QED
  BY <1>1, <1>2 DEF Sound

(* What is known of a descriptor of a hash tree, damaged or not.           *)
IsTreeDesc(d) ==
  /\ d.fixed.image_size \in Nat \ {0} /\ d.fixed.tree_offset \in Nat /\ d.fixed.tree_size \in Nat
  /\ d.var[3] = << d.var[3][1] >> /\ d.var[3][1] # Hash(<< >>)

LEMMA LostIsNoHash ==
  ASSUME NEW c, NEW block, Lost(c)
  PROVE  c # Hash(block)
<1>1. Hash(block)[1] = "hash"
  BY DEF Hash
<1>2. << "damaged" >>[1] # "hash" /\ ZeroMark[1] # "hash" /\ Zero[1] # "hash"
  BY VerifyAssumption DEF ZeroMark
<1> QED
  BY <1>1, <1>2 DEF Lost

LEMMA RootStays ==
  ASSUME NEW p, NEW d, Like(p, d), GoodDesc(d), d.tag = HashtreeTag
  PROVE  IsTreeDesc(p)
<1>1. /\ p.fixed = d.fixed /\ Len(d.var) = 3 /\ Derived(p.var[3], d.var[3])
  <2>1. p.fixed = d.fixed
    BY DEF Like, Descriptor
  <2>2. Len(d.var) = 3
    BY DEF GoodDesc
  <2>3. 3 \in 1..Len(d.var)
    BY <2>2
  <2> QED
    BY <2>1, <2>2, <2>3 DEF Like
<1> DEFINE q == p.var[3]
           r == d.var[3]
<1>2. Len(r) = 1 /\ HashOfSome(r[1]) /\ Derived(q, r)
  BY <1>1 DEF GoodDesc
<1>3. /\ p.fixed.image_size \in Nat \ {0} /\ p.fixed.tree_offset \in Nat /\ p.fixed.tree_size \in Nat
  BY <1>1 DEF GoodDesc
<1> HIDE DEF q, r
<1>4. IsSeq(q) /\ Len(q) = 1 /\ (q[1] = r[1] \/ Lost(q[1]))
  BY <1>2 DEF Derived
<1>5. q = << q[1] >>
  BY <1>4, SingleIs
<1>6. q[1] # Hash(<< >>)
  <2>1. CASE Lost(q[1])
    BY <2>1, LostIsNoHash
  <2>2. CASE q[1] = r[1]
    <3>1. PICK block : r[1] = Hash(block) /\ block # << >>
      BY <1>2 DEF HashOfSome
    <3>2. Hash(block)[2] = block /\ Hash(<< >>)[2] = << >>
      BY DEF Hash
    <3> QED
      BY <2>2, <3>1, <3>2
  <2> QED
    BY <1>4, <2>1, <2>2
<1> QED
  BY <1>3, <1>5, <1>6 DEF IsTreeDesc, q

LEMMA LikeGoodHas ==
  ASSUME NEW ps, NEW n, NEW i, LikeGood(ps, n), i \in 1..Len(ps)
  PROVE  /\ ps[i].tag = HashtreeTag => IsTreeDesc(ps[i])
         /\ n \in Part => ps[i].tag # ChainTag
<1>1. PICK ds : GoodDescs(ds) /\ (n \in Part => NoChains(ds)) /\ AreLike(ps, ds)
  BY DEF LikeGood
<1>2. i \in 1..Len(ds) /\ Like(ps[i], ds[i])
  BY <1>1 DEF AreLike
<1>3. GoodDesc(ds[i]) /\ (n \in Part => ds[i].tag # ChainTag)
  BY <1>1, <1>2 DEF GoodDescs, NoChains
<1>4. ps[i].tag = ds[i].tag
  BY <1>2 DEF Like, Descriptor
<1> QED
  BY <1>2, <1>3, <1>4, RootStays

LEMMA LikeGoodIsSeq ==
  ASSUME NEW ps, NEW n, LikeGood(ps, n)
  PROVE  IsSeq(ps)
  BY DEF LikeGood, AreLike

(* A descriptor names one file at most.                                    *)
LEMMA NamesOne ==
  ASSUME NEW d, NEW m, NEW n, Names(d, m), Names(d, n)
  PROVE  m = n
<1>1. << NameCell(m) >> = << NameCell(n) >>
  BY DEF Names
<1>2. NameCell(m) = NameCell(n)
  <2>1. << NameCell(m) >>[1] = << NameCell(n) >>[1]
    BY <1>1
  <2> HIDE <1>1
  <2> QED
    BY <2>1
<1>3. NameCell(m)[2] = m /\ NameCell(n)[2] = n
  BY DEF NameCell
<1> QED
  BY <1>2, <1>3

-----------------------------------------------------------------------------
(* The blocks that are hashed are those of a file that does not change.    *)

(* The file is shorter than the image: not all of its blocks are read, or  *)
(* it is empty where there is one block to read.                           *)
Short(g, f) ==
  /\ IsGen(g) /\ Len(f) < g.size
  /\ \/ /\ g.level = 0 /\ g.src = g.size /\ g.root = NoHash
        /\ g.remaining \in 1..g.size /\ g.size - g.remaining <= Len(f)
     \/ g.size = 1 /\ g.root = Hash(<< >>)

Hashed(g, f) ==
  /\ g.size \in Nat \ {0}
  /\ Len(Upto(f, 0, g.size)) = g.size => Running(g, Upto(f, 0, g.size))
  /\ Len(Upto(f, 0, g.size)) # g.size => Short(g, f)

LEMMA FromStart ==
  ASSUME NEW f, NEW size, IsSeq(f), size \in Nat
  PROVE  /\ IsSeq(Upto(f, 0, size))
         /\ Len(Upto(f, 0, size)) = size <=> size <= Len(f)
         /\ size <= Len(f) => \A k \in 1..size : Upto(f, 0, size)[k] = f[k]
<1> DEFINE a == 0
           p == Upto(f, a, size)
<1>1. a \in Nat /\ Len(f) \in Nat /\ a + size = size
  BY DEF IsSeq
<1>2. CASE size <= Len(f)
  <2> HIDE DEF p, a
  <2>1. IsPart(p, f, a, a + size)
    BY <1>1, <1>2, UptoIs DEF p
  <2>2. IsPart(p, f, 0, size)
    BY <1>1, <2>1 DEF a
  <2> QED
    BY <1>2, <2>2 DEF IsPart, p, a
<1>3. CASE size > Len(f)
  <2> HIDE DEF p, a
  <2>1. IsSeq(p) /\ (size # 0 => Len(p) < size)
    BY <1>1, <1>3, UptoShort DEF p
  <2> QED
    BY <1>1, <1>3, <2>1 DEF p, a
<1> QED
  BY <1>1, <1>2, <1>3

(* One block of a file, if it has so many.                                 *)
LEMMA OneBlock ==
  ASSUME NEW f, NEW k, IsSeq(f), k \in Nat
  PROVE  /\ k < Len(f) => Upto(f, k, 1) # << >> /\ Upto(f, k, 1)[1] = f[k + 1]
         /\ k >= Len(f) => Upto(f, k, 1) = << >>
<1> DEFINE p == Upto(f, k, 1)
<1>1. Len(f) \in Nat
  BY DEF IsSeq
<1>2. CASE k < Len(f)
  <2>1. IsPart(p, f, k, k + 1)
    BY <1>1, <1>2, UptoIs
  <2> HIDE DEF p
  <2>2. p = << f[k + 1] >>
    BY <2>1, CellOfPart
  <2>3. Len(p) = 1 /\ p[1] = f[k + 1]
    BY <2>2, OneIs
  <2> QED
    BY <1>1, <1>2, <2>3, NoneIs DEF p
<1>3. CASE k >= Len(f)
  BY <1>1, <1>3, UptoShort
<1> QED
  BY <1>1, <1>2, <1>3

LEMMA StartIs ==
  ASSUME NEW n
  PROVE  /\ IsGen(StartTree(n)) /\ StartTree(n).size = n /\ StartTree(n).level = 0
         /\ StartTree(n).src = n /\ StartTree(n).remaining = n /\ StartTree(n).root = NoHash
  BY DEF StartTree, IsGen

LEMMA HashedStart ==
  ASSUME NEW f, NEW n, IsSeq(f), n \in Nat \ {0}
  PROVE  Hashed(StartTree(n), f)
<1> DEFINE g == StartTree(n)
           data == Upto(f, 0, n)
<1>1. IsSeq(data) /\ (Len(data) = n <=> n <= Len(f)) /\ Len(f) \in Nat
  BY FromStart DEF IsSeq
<1>2. /\ IsGen(g) /\ g.size = n /\ g.level = 0 /\ g.src = n /\ g.remaining = n /\ g.root = NoHash
  BY StartIs
<1>3. ASSUME Len(data) = n
      PROVE  Running(g, data)
  <2> HIDE DEF data
  <2>1. Running(StartTree(Len(data)), data)
    BY <1>1, <1>3, StartRuns
  <2> QED
    BY <1>3, <2>1
<1> HIDE DEF g
<1>4. ASSUME Len(data) # n
      PROVE  Short(g, f)
  BY <1>1, <1>2, <1>4 DEF Short
<1> QED
  BY <1>2, <1>3, <1>4 DEF Hashed, g

(* In the loop, what is read at level 0 is a block of the image.           *)
LEMMA LoopIs ==
  ASSUME NEW g, NEW data, Running(g, data), g.root = NoHash, IsSeq(data), g.size = Len(data), Len(data) >= 1
  PROVE  /\ IsGen(g)
         /\ g.level = 0 => g.src = Len(data) /\ g.remaining \in 1..g.src
         /\ g.size = 1 => g.level = 0
<1>1. ~Complete(g, data)
  BY NotZeros DEF Complete, VerityRoot
<1> DEFINE ls == Levels(data)
           s == LevelSizes(Len(data))
<1>2. PICK t : Tower(data, ls, s, t) /\ InLoop(g, ls, s, t)
  BY <1>1 DEF Running
<1> HIDE DEF ls, s
<1>3. /\ IsGen(g) /\ g.level \in 0..Len(s) /\ g.src = Len(ls[g.level + 1])
      /\ g.remaining \in 1..g.src /\ ls[1] = data /\ Len(s) \in Nat
  BY <1>2 DEF InLoop, Tower, IsSeq
<1>4. g.size = 1 => g.level = 0
  <2>1. SUFFICES ASSUME g.size = 1, g.level # 0
                 PROVE  FALSE
    OBVIOUS
  <2>2. 1 \in 1..Len(s)
    BY <1>3, <2>1
  <2>3. Len(ls[1]) > 1
    BY <1>2, <2>2 DEF Tower
  <2> QED
    BY <1>3, <2>1, <2>3
<1>5. g.level = 0 => g.src = Len(data)
  BY <1>3
<1> QED
  BY <1>3, <1>4, <1>5

LEMMA BlockFields ==
  ASSUME NEW g, NEW block, IsGen(g)
  PROVE  /\ IsGen(HashBlock(g, block)) /\ HashBlock(g, block).size = g.size
         /\ g.remaining > 1 => /\ HashBlock(g, block).level = g.level /\ HashBlock(g, block).src = g.src
                               /\ HashBlock(g, block).root = g.root
                               /\ HashBlock(g, block).remaining = g.remaining - 1
<1> DEFINE h == HashBlock(g, block)
           out == Append(g.out, Hash(block))
           blocks == Group(out)
           offset == LevelOffsets(g.size)[g.level + 1]
           written == [i \in DOMAIN g.tree |->
                         IF i - offset \in DOMAIN blocks THEN blocks[i - offset] ELSE g.tree[i]]
           root == IF Len(blocks) = 1 THEN Hash(blocks[1]) ELSE NoHash
           left == g.remaining - 1
           up == g.level + 1
           src == Len(blocks)
           none == << >>
<1>1. CASE g.remaining > 1
  <2>1. SetOut(h, g, out, left)
    BY <1>1 DEF HashBlock, SetOut
  <2> HIDE DEF h, out, left
  <2>2. /\ IsGen(h) /\ h.size = g.size /\ h.level = g.level /\ h.src = g.src /\ h.root = g.root
        /\ h.remaining = left
    BY <2>1, GenMore
  <2> QED
    BY <2>2 DEF h, left
<1>2. CASE ~(g.remaining > 1)
  <2>1. SetAll(h, g, written, up, src, none, root)
    BY <1>2 DEF HashBlock, SetAll
  <2> HIDE DEF h, written, up, src, none, root
  <2>2. IsGen(h) /\ h.size = g.size
    BY <2>1, GenLast
  <2> QED
    BY <1>2, <2>2 DEF h
<1> QED
  BY <1>1, <1>2

LEMMA OnlyFields ==
  ASSUME NEW g, NEW block, IsGen(g)
  PROVE  /\ IsGen(HashOnlyBlock(g, block)) /\ HashOnlyBlock(g, block).size = g.size
         /\ HashOnlyBlock(g, block).root = Hash(block)
<1> DEFINE h == HashOnlyBlock(g, block)
           root == Hash(block)
           left == 0
<1>1. SetRoot(h, g, root, left)
  BY DEF HashOnlyBlock, SetRoot
<1> HIDE DEF h, root, left
<1>2. IsGen(h) /\ h.size = g.size /\ h.root = root
  BY <1>1, GenOnly
<1> QED
  BY <1>2 DEF h, root

(* A block of the image.                                                   *)
LEMMA HashedImage ==
  ASSUME NEW g, NEW f, NEW r, Hashed(g, f), IsSeq(f), g.root = NoHash, g.level = 0,
         r = Upto(f, g.src - g.remaining, 1), r # << >>
  PROVE  /\ g.size = 1 => Hashed(HashOnlyBlock(g, r[1]), f)
         /\ g.size # 1 => Hashed(HashBlock(g, r[1]), f)
<1> DEFINE n == g.size
           data == Upto(f, 0, n)
           k == g.src - g.remaining
           b == r[1]
<1>1. n \in Nat \ {0} /\ Len(f) \in Nat
  BY DEF Hashed, IsSeq
<1>2. IsSeq(data) /\ (Len(data) = n <=> n <= Len(f)) /\ (n <= Len(f) => \A i \in 1..n : data[i] = f[i])
  BY <1>1, FromStart
<1>3. CASE Len(data) = n
  <2>1. Running(g, data)
    BY <1>3 DEF Hashed
  <2> HIDE DEF data
  <2>2. IsGen(g) /\ g.src = n /\ g.remaining \in 1..n
    BY <1>1, <1>2, <1>3, <2>1, LoopIs
  <2>3. k \in Nat /\ k < n /\ k + 1 \in 1..n /\ k < Len(f)
    BY <1>1, <1>2, <1>3, <2>2
  <2> HIDE DEF k
  <2>4. b = f[k + 1]
    BY <2>3, OneBlock DEF k
  <2>5. b = data[k + 1]
    BY <1>2, <1>3, <2>3, <2>4
  <2> HIDE DEF b
  <2>6. CASE n = 1
    <3>1. k + 1 = 1
      BY <2>3, <2>6
    <3>2. b = data[1]
      BY <2>5, <3>1
    <3>3. Len(data) = 1
      BY <1>3, <2>6
    <3>4. Running(HashOnlyBlock(g, data[1]), data)
      BY <1>2, <2>1, <3>3, OnlyBlockRuns
    <3>5. Running(HashOnlyBlock(g, b), data) /\ HashOnlyBlock(g, b).size = n
      BY <2>2, <3>2, <3>4, OnlyFields
    <3>6. Hashed(HashOnlyBlock(g, b), f)
      BY <1>1, <1>3, <3>5 DEF Hashed, data
    <3> QED
      BY <2>6, <3>6 DEF b
  <2>7. CASE n # 1
    <3>1. Len(data) > 1
      BY <1>1, <1>3, <2>7
    <3>2. Running(HashBlock(g, b), data)
      BY <1>2, <2>1, <2>5, <3>1, BlockRuns DEF k
    <3>3. HashBlock(g, b).size = n
      BY <2>2, BlockFields
    <3>4. Hashed(HashBlock(g, b), f)
      BY <1>1, <1>3, <3>2, <3>3 DEF Hashed, data
    <3> QED
      BY <2>7, <3>4 DEF b
  <2> QED
    BY <2>6, <2>7
<1>4. CASE Len(data) # n
  <2>1. Short(g, f)
    BY <1>4 DEF Hashed
  <2>2. g.root # Hash(<< >>)
    BY NotZeros
  <2>3. IsGen(g) /\ g.src = n /\ g.remaining \in 1..n /\ n - g.remaining <= Len(f) /\ Len(f) < n
    BY <2>1, <2>2 DEF Short
  <2>4. k \in Nat /\ k = n - g.remaining
    BY <1>1, <2>3
  <2> HIDE DEF k
  <2>5. k < Len(f)
    BY <1>1, <2>4, OneBlock DEF k
  <2>6. g.remaining > 1 /\ n # 1
    BY <1>1, <2>3, <2>4, <2>5
  <2> DEFINE h == HashBlock(g, b)
  <2>7. /\ IsGen(h) /\ h.size = n /\ h.level = 0 /\ h.src = n /\ h.root = NoHash
        /\ h.remaining = g.remaining - 1
    BY <2>3, <2>6, BlockFields
  <2> HIDE DEF h, b
  <2>8. h.remaining \in 1..n /\ n - h.remaining <= Len(f)
    BY <1>1, <2>3, <2>4, <2>5, <2>6, <2>7
  <2>9. Short(h, f)
    BY <2>3, <2>7, <2>8 DEF Short
  <2>10. Hashed(h, f)
    BY <1>1, <1>4, <2>7, <2>9 DEF Hashed
  <2> QED
    BY <2>6, <2>10 DEF h, b
<1> QED
  BY <1>3, <1>4

(* A block of the array.                                                   *)
LEMMA HashedArray ==
  ASSUME NEW g, NEW f, Hashed(g, f), IsSeq(f), g.root = NoHash, g.level # 0
  PROVE  Hashed(HashBlock(g, ArrayBlock(g)), f)
<1> DEFINE n == g.size
           data == Upto(f, 0, n)
           b == ArrayBlock(g)
<1>1. n \in Nat \ {0} /\ Len(f) \in Nat
  BY DEF Hashed, IsSeq
<1>2. IsSeq(data) /\ (Len(data) = n <=> n <= Len(f))
  BY <1>1, FromStart
<1>3. CASE Len(data) = n
  <2>1. Running(g, data)
    BY <1>3 DEF Hashed
  <2> HIDE DEF data
  <2>2. IsGen(g) /\ n # 1
    BY <1>1, <1>2, <1>3, <2>1, LoopIs
  <2>3. Len(data) > 1
    BY <1>1, <1>3, <2>2
  <2>4. Running(HashBlock(g, b), data)
    BY <1>2, <2>1, <2>3, BlockRuns
  <2>5. HashBlock(g, b).size = n
    BY <2>2, BlockFields
  <2> QED
    BY <1>1, <1>3, <2>4, <2>5 DEF Hashed, data
<1>4. CASE Len(data) # n
  <2>1. Short(g, f)
    BY <1>4 DEF Hashed
  <2> QED
    BY <2>1, NotZeros DEF Short
<1> QED
  BY <1>3, <1>4

(* No block at all.                                                        *)
LEMMA HashedNone ==
  ASSUME NEW g, NEW f, Hashed(g, f), IsSeq(f), g.root = NoHash, g.size = 1,
         Upto(f, g.src - g.remaining, 1) = << >>
  PROVE  Hashed(HashOnlyBlock(g, << >>), f)
<1> DEFINE n == g.size
           data == Upto(f, 0, n)
           k == g.src - g.remaining
<1>1. n \in Nat \ {0} /\ Len(f) \in Nat
  BY DEF Hashed, IsSeq
<1>2. IsSeq(data) /\ (Len(data) = n <=> n <= Len(f))
  BY <1>1, FromStart
<1>3. CASE Len(data) = n
  <2>1. Running(g, data)
    BY <1>3 DEF Hashed
  <2> HIDE DEF data
  <2>6. g.size = Len(data) /\ Len(data) >= 1 /\ Len(data) = 1
    BY <1>1, <1>3
  <2>7. IsGen(g) /\ (g.size = 1 => g.level = 0)
    BY <1>2, <2>1, <2>6, LoopIs
  <2>8. g.level = 0 => g.src = Len(data) /\ g.remaining \in 1..g.src
    BY <1>2, <2>1, <2>6, LoopIs
  <2>2. g.level = 0
    BY <2>7
  <2>3. g.src = n /\ g.remaining \in 1..n
    BY <2>2, <2>6, <2>8
  <2>4. k = 0 /\ k \in Nat /\ k < Len(f)
    BY <1>1, <1>2, <1>3, <2>3
  <2> HIDE DEF k
  <2>5. Upto(f, k, 1) # << >>
    BY <2>4, OneBlock
  <2> QED
    BY <2>5 DEF k
<1>4. CASE Len(data) # n
  <2>1. Short(g, f)
    BY <1>4 DEF Hashed
  <2>2. IsGen(g) /\ Len(f) < n
    BY <2>1 DEF Short
  <2> DEFINE h == HashOnlyBlock(g, << >>)
  <2>3. IsGen(h) /\ h.size = n /\ h.root = Hash(<< >>)
    BY <2>2, OnlyFields
  <2> HIDE DEF h
  <2>4. Short(h, f)
    BY <2>2, <2>3 DEF Short
  <2>5. Hashed(h, f)
    BY <1>1, <1>4, <2>3, <2>4 DEF Hashed
  <2> QED
    BY <2>5 DEF h
<1> QED
  BY <1>3, <1>4

(* The root and the tree when it is done.                                  *)
LEMMA HashedDone ==
  ASSUME NEW g, NEW f, Hashed(g, f), TreeDone(g)
  PROVE  LET data == Upto(f, 0, g.size) IN
         /\ Len(data) = g.size => g.root = VerityRoot(data) /\ g.tree = VerityTree(data)
         /\ Len(data) # g.size => g.root = Hash(<< >>)
<1> DEFINE data == Upto(f, 0, g.size)
<1>1. g.root # NoHash
  BY DEF TreeDone
<1>2. ASSUME Len(data) = g.size
      PROVE  g.root = VerityRoot(data) /\ g.tree = VerityTree(data)
  <2>1. Running(g, data)
    BY <1>2 DEF Hashed
  <2> HIDE DEF data
  <2>2. Complete(g, data)
    BY <1>1, <2>1 DEF Running, InLoop
  <2> QED
    BY <2>2 DEF Complete
<1>3. ASSUME Len(data) # g.size
      PROVE  g.root = Hash(<< >>)
  BY <1>1, <1>3 DEF Hashed, Short
<1> QED
  BY <1>2, <1>3

-----------------------------------------------------------------------------
(* What the commands are given: files as add_hash_footer or                *)
(* add_hashtree_footer build them, or a bare file system; images that are  *)
(* there.                                                                  *)

Inputs ==
  /\ \A fs \in StartFiles : \A p \in Part : IsBuilt(fs[p])
  /\ \A p \in Part : \A f \in NewFiles[p] : IsBuilt(f) \/ IsData(f)
  /\ \A c \in MakeCommand : IsCommand(c)
  /\ \A v \in VerifyCommand : v.image \in Part \cup {Top}

-----------------------------------------------------------------------------
(* The files: what make_vbmeta_image wrote, until they change, and what    *)
(* was signed or what is left of it.                                       *)

OnNames(f) == f = [n \in Part \cup {Top} |-> f[n]]

AsMade ==
  /\ made.cmd \in MakeCommand /\ MakeAccepted(made.cmd, file)
  /\ file[Top] = VbmetaImage(made.cmd, file) /\ ArePartitions(file)

AllSound == \A n \in Part \cup {Top} : Sound(file[n], Issued(n), n)

InFiles ==
  /\ OnNames(file) /\ changes \in Nat /\ (changes = 0 => touched = {})
  /\ pc = "make" => changes = 0 /\ ArePartitions(file)
  /\ pc # "make" => AllSound
  /\ pc # "make" /\ changes = 0 => AsMade

LEMMA TopIsNoPart == Top \notin Part
  BY VerifyAssumption

LEMMA FilesStart ==
  ASSUME Inputs, Init
  PROVE  InFiles
<1>1. PICK fs \in StartFiles : file = [n \in Part \cup {Top} |-> IF n = Top THEN << >> ELSE fs[n]]
  BY DEF Init
<1>2. OnNames(file)
  BY <1>1 DEF OnNames
<1>3. ASSUME NEW p \in Part
      PROVE  IsPartition(file[p])
  <2>1. file[p] = fs[p]
    BY <1>1, TopIsNoPart
  <2>2. IsBuilt(fs[p])
    BY DEF Inputs
  <2> QED
    BY <2>1, <2>2, BuiltIs, PartitionIs
<1>4. ArePartitions(file)
  BY <1>3 DEF ArePartitions
<1>5. changes = 0 /\ touched = {} /\ pc = "make"
  BY DEF Init
<1> QED
  BY <1>2, <1>4, <1>5 DEF InFiles

(* Another file in place of one.                                           *)
IsSet(g, f, n, x) == OnNames(g) /\ g[n] = x /\ \A m \in (Part \cup {Top}) \ {n} : g[m] = f[m]

LEMMA SetIs ==
  ASSUME NEW f, NEW n, NEW x, NEW g, OnNames(f), n \in Part \cup {Top}, g = [f EXCEPT ![n] = x]
  PROVE  IsSet(g, f, n, x)
<1> DEFINE N == Part \cup {Top}
<1>1. n \in N /\ f = [m \in N |-> f[m]]
  BY DEF OnNames
<1> HIDE DEF N
<1>2. g[n] = x /\ \A m \in N \ {n} : g[m] = f[m]
  BY <1>1
<1>3. g = [m \in N |-> g[m]]
  <2>1. DOMAIN f = N
    BY <1>1
  <2>2. g = [m \in DOMAIN f |-> IF m = n THEN x ELSE f[m]]
    OBVIOUS
  <2> QED
    BY <2>1, <2>2
<1> QED
  BY <1>2, <1>3 DEF IsSet, OnNames, N

LEMMA FilesMake ==
  ASSUME Inputs, InFiles, MakeVbmeta
  PROVE  InFiles'
<1>1. PICK c \in MakeCommand :
             /\ MakeAccepted(c, file) /\ file' = [file EXCEPT ![Top] = VbmetaImage(c, file)]
             /\ made' = [cmd |-> c, descs |-> [n \in DOMAIN file |-> Descs(file'[n])]]
  BY DEF MakeVbmeta
<1> DEFINE v == VbmetaImage(c, file)
<1>2. IsCommand(c)
  BY DEF Inputs
<1>3. pc = "make" /\ OnNames(file) /\ changes = 0 /\ touched = {} /\ ArePartitions(file)
  BY DEF MakeVbmeta, InFiles
<1>4. changes' = 0 /\ touched' = {} /\ pc' = "idle"
  BY <1>3 DEF MakeVbmeta
<1>5. IsSet(file', file, Top, v)
  BY <1>1, <1>3, SetIs
<1>6. /\ OnNames(file') /\ file'[Top] = v /\ \A p \in Part : file'[p] = file[p]
  BY <1>5, TopIsNoPart DEF IsSet
<1>7. ArePartitions(file')
  BY <1>3, <1>6 DEF ArePartitions
<1>8. v = VbmetaImage(c, file') /\ MakeAccepted(c, file')
  <2>1. \A p \in Part : file[p] = file'[p]
    BY <1>6
  <2> QED
    BY <1>1, <1>2, <2>1, OnlyPartitions
<1>9. made'.cmd = c
  BY <1>1
<1>10. \A n \in Part \cup {Top} : Descs(file'[n]) \in Issued(n)'
  <2>1. DOMAIN file = Part \cup {Top}
    BY <1>3 DEF OnNames
  <2>2. \A n \in Part \cup {Top} : made'.descs[n] = Descs(file'[n])
    BY <1>1, <2>1
  <2> QED
    BY <2>2 DEF Issued
<1>11. ASSUME NEW n \in Part \cup {Top}
       PROVE  Sound(file[n], Issued(n), n)'
  <2>1. CASE n \in Part
    <3>1. IsPartition(file'[n])
      BY <1>7, <2>1 DEF ArePartitions
    <3> QED
      BY <1>10, <3>1, PartitionIsSound
  <2>2. CASE n = Top
    <3>1. Whole(v)
      BY <1>2, <1>3, MadeIsWhole
    <3>2. GoodDescs(Descs(file'[n])) /\ From(file'[n], Descs(file'[n]))
      BY <1>6, <2>2, <3>1 DEF Whole
    <3>3. n \notin Part
      BY <2>2, TopIsNoPart
    <3> QED
      BY <1>10, <3>2, <3>3 DEF Sound
  <2> QED
    BY <2>1, <2>2
<1>12. AllSound'
  BY <1>11 DEF AllSound
<1>13. AsMade'
  BY <1>1, <1>6, <1>7, <1>8, <1>9 DEF AsMade
<1> QED
  BY <1>4, <1>6, <1>12, <1>13 DEF InFiles

(* A file that is changed.                                                 *)
LEMMA FilesBecome ==
  ASSUME NEW n \in Part \cup {Top}, NEW f, InFiles, pc # "make", Become(n, f), Sound(f, Issued(n), n)
  PROVE  InFiles'
<1>1. OnNames(file) /\ changes \in Nat /\ AllSound
  BY DEF InFiles
<1>2. file' = [file EXCEPT ![n] = f] /\ changes' = changes + 1 /\ pc' = pc /\ made' = made
  BY DEF Become
<1>3. IsSet(file', file, n, f)
  BY <1>1, <1>2, SetIs
<1>4. changes' \in Nat /\ changes' # 0
  BY <1>1, <1>2
<1>5. ASSUME NEW m \in Part \cup {Top}
      PROVE  Sound(file[m], Issued(m), m)'
  <2>1. Issued(m)' = Issued(m)
    BY <1>2 DEF Issued
  <2>2. file'[m] = IF m = n THEN f ELSE file[m]
    BY <1>3 DEF IsSet
  <2>3. Sound(file[m], Issued(m), m)
    BY <1>1 DEF AllSound
  <2> QED
    BY <2>1, <2>2, <2>3
<1>6. AllSound'
  BY <1>5 DEF AllSound
<1>7. OnNames(file')
  BY <1>3 DEF IsSet
<1> QED
  BY <1>2, <1>4, <1>6, <1>7 DEF InFiles

(* The three ways it may change.                                           *)
IsChange(n, f) == n \in Part \cup {Top} /\ Become(n, f) /\ pc # "make" /\ Sound(f, Issued(n), n)

LEMMA ChangeIs ==
  ASSUME Inputs, InFiles, BuildAnew \/ ZeroHashtree \/ Damage
  PROVE  \E n : \E f : IsChange(n, f) /\ (n \in Part \/ pc = "idle") /\ pc \notin {"ok", "failed"}
<1>1. pc # "make" /\ pc \notin {"ok", "failed"}
  BY DEF BuildAnew, ZeroHashtree, Damage, MayChange
<1>2. AllSound
  BY <1>1 DEF InFiles
<1>3. CASE BuildAnew
  <2>1. PICK p \in Part : \E f \in NewFiles[p] : Become(p, f)
    BY <1>3 DEF BuildAnew
  <2>2. PICK f \in NewFiles[p] : Become(p, f)
    BY <2>1
  <2>3. Descs(f) \in Issued(p)
    BY DEF Issued
  <2>4. CASE IsBuilt(f)
    <3>1. Sound(f, Issued(p), p)
      BY <2>3, <2>4, BuiltIs, PartitionIs, PartitionIsSound
    <3> QED
      BY <1>1, <2>2, <3>1 DEF IsChange
  <2>5. CASE IsData(f)
    <3>1. Sound(f, Issued(p), p)
      BY <2>5, DataIsSound
    <3> QED
      BY <1>1, <2>2, <3>1 DEF IsChange
  <2> QED
    BY <2>4, <2>5 DEF Inputs
<1>4. CASE ZeroHashtree
  <2>1. PICK p \in Part : \E d \in ToSet(Descs(file[p])) : Become(p, Zeroed(file[p], d))
    BY <1>4 DEF ZeroHashtree
  <2>2. PICK d \in ToSet(Descs(file[p])) : Become(p, Zeroed(file[p], d))
    BY <2>1
  <2>3. Sound(file[p], Issued(p), p)
    BY <1>2 DEF AllSound
  <2>4. Derived(Zeroed(file[p], d), file[p])
    BY <2>3, SoundReads, ZeroedIsLost
  <2>5. Sound(Zeroed(file[p], d), Issued(p), p)
    BY <2>3, <2>4, SoundLost
  <2>6. IsChange(p, Zeroed(file[p], d))
    BY <1>1, <2>2, <2>5 DEF IsChange
  <2> QED
    BY <1>1, <2>6
<1>5. CASE Damage
  <2>1. PICK n \in Part \cup {Top} : \E i \in DOMAIN file[n] :
               Become(n, [file[n] EXCEPT ![i] = << "damaged" >>])
    BY <1>5 DEF Damage
  <2>2. PICK i \in DOMAIN file[n] : Become(n, [file[n] EXCEPT ![i] = << "damaged" >>])
    BY <2>1
  <2> DEFINE f == [file[n] EXCEPT ![i] = << "damaged" >>]
  <2>3. Sound(file[n], Issued(n), n)
    BY <1>2 DEF AllSound
  <2>4. Derived(f, file[n])
    BY <2>3, SoundReads, DamagedIsLost
  <2>5. Sound(f, Issued(n), n)
    BY <2>3, <2>4, SoundLost
  <2>6. IsChange(n, f)
    BY <1>1, <2>2, <2>5 DEF IsChange
  <2>7. pc = "idle"
    BY <1>5 DEF Damage
  <2> QED
    BY <1>1, <2>6, <2>7
<1> QED
  BY <1>3, <1>4, <1>5

(* No step of verify_image changes a file.                                 *)
LEMMA FilesStay ==
  ASSUME InFiles, UNCHANGED << file, made, changes >>, touched' \in {touched, {}},
         pc = "make" <=> pc' = "make"
  PROVE  InFiles'
<1>1. \A n : Issued(n)' = Issued(n)
  BY DEF Issued
<1>2. AllSound => AllSound'
  BY <1>1 DEF AllSound
<1>3. AsMade => AsMade'
  BY DEF AsMade
<1> QED
  BY <1>2, <1>3 DEF InFiles

-----------------------------------------------------------------------------
(* The image that is verified, and the one that chains to it.              *)

FrameOf(name, follow, expected, descs, at) ==
  [name |-> name, follow |-> follow, expected |-> expected, descs |-> descs, at |-> at]

IsFrame(r) ==
  /\ r = FrameOf(r.name, r.follow, r.expected, r.descs, r.at)
  /\ r.name \in Part \cup {Top} /\ r.at \in Nat /\ LikeGood(r.descs, r.name)

LEMMA FrameFields ==
  ASSUME NEW q, NEW name, NEW follow, NEW expected, NEW descs, NEW at,
         q = FrameOf(name, follow, expected, descs, at), name \in Part \cup {Top}, at \in Nat,
         LikeGood(descs, name)
  PROVE  /\ q.name = name /\ q.follow = follow /\ q.expected = expected /\ q.descs = descs /\ q.at = at
         /\ IsFrame(q)
<1>1. q.name = name /\ q.follow = follow /\ q.expected = expected /\ q.descs = descs /\ q.at = at
  BY DEF FrameOf
<1>2. q = FrameOf(q.name, q.follow, q.expected, q.descs, q.at)
  BY <1>1
<1> QED
  BY <1>1, <1>2 DEF IsFrame

LEMMA FrameIs ==
  ASSUME NEW n, NEW follow, NEW expected, NEW r, n \in Part \cup {Top}, r = Frame(n, follow, expected)
  PROVE  /\ IsFrame(r) /\ r.name = n /\ r.follow = follow /\ r.expected = expected
         /\ r.descs = << >> /\ r.at = 0
<1> DEFINE none == << >>
           zero == 0
<1>1. r = FrameOf(n, follow, expected, none, zero)
  BY DEF Frame, FrameOf
<1>2. LikeGood(none, n) /\ zero \in Nat
  BY NothingIsGood
<1> HIDE DEF none, zero
<1>3. /\ IsFrame(r) /\ r.name = n /\ r.follow = follow /\ r.expected = expected
      /\ r.descs = none /\ r.at = zero
  BY <1>1, <1>2, FrameFields
<1> QED
  BY <1>3 DEF none, zero

(* On to the next descriptor.                                              *)
Advanced(q, r) ==
  /\ IsFrame(q) /\ q.name = r.name /\ q.follow = r.follow /\ q.expected = r.expected
  /\ q.descs = r.descs /\ q.at = r.at + 1

SetAt(q, r) == q = [r EXCEPT !.at = @ + 1]

LEMMA AdvancedIs ==
  ASSUME NEW q, NEW r, IsFrame(r), SetAt(q, r)
  PROVE  Advanced(q, r)
<1> DEFINE name == r.name
           follow == r.follow
           expected == r.expected
           descs == r.descs
           at == r.at
<1>1. r = FrameOf(name, follow, expected, descs, at) /\ at \in Nat
  BY DEF IsFrame
<1>2. q = [r EXCEPT !.at = at + 1]
  BY DEF SetAt
<1>3. name \in Part \cup {Top} /\ LikeGood(descs, name)
  BY DEF IsFrame
<1> HIDE DEF name, follow, expected, descs, at
<1>4. q = FrameOf(name, follow, expected, descs, at + 1) /\ at + 1 \in Nat
  BY <1>1, <1>2 DEF FrameOf
<1> DEFINE next == at + 1
<1>5. next = at + 1 /\ next \in Nat /\ q = FrameOf(name, follow, expected, descs, next)
  BY <1>4
<1> HIDE DEF next
<1>6. /\ IsFrame(q) /\ q.name = name /\ q.follow = follow /\ q.expected = expected
      /\ q.descs = descs /\ q.at = next
  BY <1>3, <1>5, FrameFields
<1> QED
  BY <1>5, <1>6 DEF Advanced, name, follow, expected, descs, at

(* The descriptors that were parsed.                                       *)
Opened(q, r, ds) ==
  /\ IsFrame(q) /\ q.name = r.name /\ q.follow = r.follow /\ q.expected = r.expected
  /\ q.descs = ds /\ q.at = 1

SetDescs(q, r, ds) == q = [r EXCEPT !.descs = ds, !.at = 1]

LEMMA OpenedIs ==
  ASSUME NEW q, NEW r, NEW ds, IsFrame(r), LikeGood(ds, r.name), SetDescs(q, r, ds)
  PROVE  Opened(q, r, ds)
<1> DEFINE name == r.name
           follow == r.follow
           expected == r.expected
           descs == r.descs
           at == r.at
<1>1. r = FrameOf(name, follow, expected, descs, at) /\ name \in Part \cup {Top} /\ LikeGood(ds, name)
  BY DEF IsFrame
<1>2. q = [[r EXCEPT !.descs = ds] EXCEPT !.at = 1]
  BY DEF SetDescs
<1> HIDE DEF name, follow, expected, descs, at
<1>3. [r EXCEPT !.descs = ds] = FrameOf(name, follow, expected, ds, at)
  BY <1>1 DEF FrameOf
<1>4. q = FrameOf(name, follow, expected, ds, 1)
  BY <1>2, <1>3 DEF FrameOf
<1> DEFINE one == 1
<1>5. one = 1 /\ one \in Nat /\ q = FrameOf(name, follow, expected, ds, one)
  BY <1>4
<1> HIDE DEF one
<1>6. /\ IsFrame(q) /\ q.name = name /\ q.follow = follow /\ q.expected = expected
      /\ q.descs = ds /\ q.at = one
  BY <1>1, <1>5, FrameFields
<1> QED
  BY <1>5, <1>6 DEF Opened, name, follow, expected

States == {"make", "idle", "open", "descriptors", "tree", "ok", "failed"}

InFrames ==
  /\ pc \in States /\ IsFrame(frame)
  /\ outer = << >> \/ (outer = << outer[1] >> /\ IsFrame(outer[1]))
  /\ pc \notin {"make", "idle"} => args \in VerifyCommand /\ Top \notin touched
  /\ pc \in {"descriptors", "tree"} => frame.at \in Nat \ {0}
  /\ outer # << >> => outer[1].at \in Nat \ {0}

(* The tree that is generated is that of the image the descriptor names.   *)
InTree ==
  pc = "tree" =>
    /\ frame.at \in 1..Len(frame.descs) /\ Desc.tag = HashtreeTag
    /\ IsGen(gen) /\ gen.size = Desc.fixed.image_size /\ Named(Desc) # {}
    /\ \A n \in Named(Desc) : n \notin touched => Hashed(gen, file[n])

LEMMA MoreIs ==
  ASSUME IsFrame(frame), frame.at \in Nat \ {0}
  PROVE  /\ IsSeq(frame.descs) /\ Len(frame.descs) \in Nat
         /\ More <=> frame.at \in 1..Len(frame.descs)
<1>1. IsSeq(frame.descs)
  BY LikeGoodIsSeq DEF IsFrame
<1> QED
  BY <1>1 DEF IsSeq, More

LEMMA FilesAreSeqs ==
  ASSUME NEW n, InFiles, pc # "make", n \in Part \cup {Top}
  PROVE  IsSeq(file[n])
<1>1. Sound(file[n], Issued(n), n)
  BY DEF InFiles, AllSound
<1> QED
  BY <1>1, SoundReads

LEMMA NamedOne ==
  ASSUME NEW d, NEW n \in Named(d)
  PROVE  n \in Part \cup {Top} /\ Named(d) = {n} /\ (CHOOSE m \in Named(d) : TRUE) = n
<1>1. n \in Part \cup {Top} /\ Names(d, n)
  BY DEF Named
<1>2. \A m \in Named(d) : m = n
  BY <1>1, NamesOne DEF Named
<1> QED
  BY <1>1, <1>2

Decided ==
  \/ Advanced(frame', frame) /\ pc' = "descriptors"
  \/ frame' = frame /\ pc' = "failed"

LEMMA VerdictIs ==
  ASSUME NEW ok, ok \in BOOLEAN, IsFrame(frame), Verdict(ok)
  PROVE  /\ ok => Advanced(frame', frame) /\ pc' = "descriptors"
         /\ ~ok => frame' = frame /\ pc' = "failed"
         /\ Decided
<1>1. ASSUME ok
      PROVE  Advanced(frame', frame) /\ pc' = "descriptors"
  <2>1. frame' = [frame EXCEPT !.at = @ + 1] /\ pc' = "descriptors"
    BY <1>1 DEF Verdict
  <2>2. SetAt(frame', frame)
    BY <2>1 DEF SetAt
  <2> QED
    BY <2>1, <2>2, AdvancedIs
<1>2. ASSUME ~ok
      PROVE  frame' = frame /\ pc' = "failed"
  BY <1>2 DEF Verdict
<1> QED
  BY <1>1, <1>2 DEF Decided

LEMMA FramesDecided ==
  ASSUME InFrames, pc \in {"descriptors", "tree"}, UNCHANGED << args, outer, touched >>, Decided
  PROVE  InFrames' /\ InTree'
<1>1. /\ IsFrame(frame) /\ frame.at \in Nat \ {0} /\ args \in VerifyCommand /\ Top \notin touched
      /\ outer = << >> \/ (outer = << outer[1] >> /\ IsFrame(outer[1]))
      /\ outer # << >> => outer[1].at \in Nat \ {0}
  BY DEF InFrames
<1>2. pc' # "tree" /\ pc' \in States /\ IsFrame(frame') /\ frame'.at \in Nat \ {0}
  BY <1>1 DEF Decided, Advanced, States
<1> QED
  BY <1>1, <1>2 DEF InFrames, InTree

LEMMA FramesStart ==
  ASSUME Inputs, Init
  PROVE  InFrames /\ InTree
<1>1. frame = Frame(Top, FALSE, {}) /\ outer = << >> /\ pc = "make"
  BY DEF Init
<1>2. IsFrame(frame)
  BY <1>1, FrameIs
<1> QED
  BY <1>1, <1>2 DEF InFrames, InTree, States

LEMMA FramesMake ==
  ASSUME InFrames, MakeVbmeta
  PROVE  InFrames' /\ InTree'
<1>1. pc' = "idle" /\ UNCHANGED << frame, outer >>
  BY DEF MakeVbmeta
<1> QED
  BY <1>1 DEF InFrames, InTree, States

LEMMA FramesChange ==
  ASSUME NEW n, NEW f, InFiles, InFrames, InTree, IsChange(n, f), n \in Part \/ pc = "idle"
  PROVE  InFrames' /\ InTree'
<1>1. /\ UNCHANGED << args, frame, outer, gen, pc >> /\ touched' = touched \cup {n}
      /\ file' = [file EXCEPT ![n] = f] /\ n \in Part \cup {Top}
  BY DEF IsChange, Become
<1>2. pc \notin {"make", "idle"} => n # Top
  BY TopIsNoPart
<1>3. InFrames'
  BY <1>1, <1>2 DEF InFrames
<1>4. ASSUME NEW m \in Part \cup {Top}, m \notin touched'
      PROVE  m \notin touched /\ file'[m] = file[m]
  <2>1. IsSet(file', file, n, f)
    BY <1>1, SetIs DEF InFiles
  <2> QED
    BY <1>1, <1>4, <2>1 DEF IsSet
<1>5. ASSUME pc' = "tree"
      PROVE  /\ frame'.at \in 1..Len(frame'.descs) /\ Desc'.tag = HashtreeTag
             /\ IsGen(gen') /\ gen'.size = Desc'.fixed.image_size /\ Named(Desc') # {}
             /\ \A m \in Named(Desc') : m \notin touched' => Hashed(gen', file'[m])
  <2>1. Desc' = Desc /\ pc = "tree"
    BY <1>1, <1>5 DEF Desc
  <2>2. \A m \in Named(Desc) : m \in Part \cup {Top}
    BY DEF Named
  <2> QED
    BY <1>1, <1>4, <2>1, <2>2 DEF InTree
<1>6. InTree'
  BY <1>5 DEF InTree
<1> QED
  BY <1>3, <1>6

LEMMA FramesCommand ==
  ASSUME Inputs, InFrames, Start
  PROVE  InFrames' /\ InTree'
<1>1. /\ args' \in VerifyCommand /\ frame' = Frame(args'.image, args'.follow, args'.expected)
      /\ outer' = << >> /\ touched' = {} /\ pc' = "open"
  BY DEF Start
<1>2. args'.image \in Part \cup {Top}
  BY <1>1 DEF Inputs
<1>3. IsFrame(frame')
  BY <1>1, <1>2, FrameIs
<1> QED
  BY <1>1, <1>3 DEF InFrames, InTree, States

LEMMA OpenIs ==
  ASSUME InFiles, InFrames, Open
  PROVE  /\ frame.name \in Part \cup {Top} /\ Opened(frame', frame, Descs(file[frame.name]))
         /\ Sound(file[frame.name], Issued(frame.name), frame.name)
<1>1. IsFrame(frame) /\ frame.name \in Part \cup {Top} /\ pc = "open"
  BY DEF InFrames, IsFrame, Open
<1>2. Sound(file[frame.name], Issued(frame.name), frame.name)
  BY <1>1 DEF InFiles, AllSound
<1>3. LikeGood(Descs(file[frame.name]), frame.name)
  BY <1>2, SoundReads
<1>4. SetDescs(frame', frame, Descs(file[frame.name]))
  BY DEF Open, SetDescs
<1> QED
  BY <1>1, <1>2, <1>3, <1>4, OpenedIs

LEMMA FramesOpen ==
  ASSUME InFiles, InFrames, Open
  PROVE  InFrames' /\ InTree'
<1>1. /\ UNCHANGED << args, outer, touched >> /\ pc = "open" /\ pc' \in {"descriptors", "failed"}
  BY DEF Open
<1>2. IsFrame(frame') /\ frame'.at \in Nat \ {0}
  BY OpenIs DEF Opened
<1> QED
  BY <1>1, <1>2 DEF InFrames, InTree, States

LEMMA FramesDescriptor ==
  ASSUME InFrames, PassOver \/ VerifyHash \/ CompareTree
  PROVE  InFrames' /\ InTree' /\ Decided
<1>1. pc \in {"descriptors", "tree"} /\ UNCHANGED << args, outer, touched >>
  BY DEF PassOver, VerifyHash, CompareTree
<1>2. IsFrame(frame)
  BY DEF InFrames
<1>3. Decided
  <2>1. CASE PassOver
    BY <1>2, <2>1, VerdictIs DEF PassOver
  <2>2. CASE VerifyHash
    <3> DEFINE ok == \E n \in Named(Desc) : HashMatches(Desc, file[n])
    <3>1. Verdict(ok) /\ ok \in BOOLEAN
      BY <2>2 DEF VerifyHash
    <3> HIDE DEF ok
    <3> QED
      BY <1>2, <3>1, VerdictIs
  <2>3. CASE CompareTree
    <3> DEFINE ok == \E n \in Named(Desc) : TreeMatches(Desc, file[n])
    <3>1. Verdict(ok) /\ ok \in BOOLEAN
      BY <2>3 DEF CompareTree
    <3> HIDE DEF ok
    <3> QED
      BY <1>2, <3>1, VerdictIs
  <2> QED
    BY <2>1, <2>2, <2>3
<1> QED
  BY <1>1, <1>3, FramesDecided

LEMMA FramesHashtree ==
  ASSUME InFiles, InFrames, VerifyHashtree
  PROVE  InFrames' /\ InTree'
<1>1. /\ UNCHANGED << file, args, frame, outer, touched >> /\ pc = "descriptors" /\ More
      /\ Desc.tag = HashtreeTag /\ IsFrame(frame) /\ frame.at \in Nat \ {0}
  BY DEF VerifyHashtree, InFrames
<1>2. frame.at \in 1..Len(frame.descs)
  BY <1>1, MoreIs
<1>3. IsTreeDesc(Desc)
  BY <1>1, <1>2, LikeGoodHas DEF IsFrame, Desc
<1>4. CASE Named(Desc) = {}
  <2>1. pc' = "failed"
    BY <1>4 DEF VerifyHashtree
  <2> QED
    BY <1>1, <2>1 DEF InFrames, InTree, States
<1>5. CASE Named(Desc) # {}
  <2>1. pc' = "tree" /\ gen' = StartTree(Desc.fixed.image_size)
    BY <1>5 DEF VerifyHashtree
  <2>2. InFrames'
    BY <1>1, <2>1 DEF InFrames, States
  <2> DEFINE size == Desc.fixed.image_size
  <2>3. size \in Nat \ {0}
    BY <1>3 DEF IsTreeDesc
  <2>4. Desc' = Desc
    BY <1>1 DEF Desc
  <2>5. ASSUME NEW n \in Named(Desc)
        PROVE  Hashed(gen', file'[n])
    <3>1. IsSeq(file[n])
      BY <1>1, FilesAreSeqs DEF Named
    <3> HIDE DEF size
    <3>2. Hashed(StartTree(size), file[n])
      BY <2>3, <3>1, HashedStart
    <3> QED
      BY <1>1, <2>1, <3>2 DEF size
  <2>6. gen'.size = size /\ IsGen(gen')
    BY <2>1, StartIs
  <2>7. InTree'
    BY <1>1, <1>2, <1>5, <2>4, <2>5, <2>6 DEF InTree
  <2> QED
    BY <2>2, <2>7
<1> QED
  BY <1>4, <1>5

(* A block is hashed.                                                      *)
LEMMA TreeStep ==
  ASSUME InFrames, InTree, pc = "tree", IsGen(gen'), gen'.size = gen.size,
         UNCHANGED << file, args, frame, outer, touched, pc >>,
         \A n \in Named(Desc) : n \notin touched => Hashed(gen', file[n])
  PROVE  InFrames' /\ InTree'
<1>1. Desc' = Desc
  BY DEF Desc
<1>2. InFrames'
  BY DEF InFrames
<1>3. InTree'
  BY <1>1 DEF InTree
<1> QED
  BY <1>2, <1>3

LEMMA ReadIs ==
  ASSUME NEW n \in Named(Desc)
  PROVE  ImageRead = Upto(file[n], gen.src - gen.remaining, 1)
<1>1. (CHOOSE m \in Named(Desc) : TRUE) = n
  BY NamedOne
<1> QED
  BY <1>1 DEF ImageRead, ImageBlock

LEMMA FramesBlock ==
  ASSUME InFiles, InFrames, InTree, HashNextBlock \/ HashEmptyImage
  PROVE  InFrames' /\ InTree'
<1>1. /\ UNCHANGED << file, args, frame, outer, touched, pc >> /\ pc = "tree" /\ gen.root = NoHash
  BY DEF HashNextBlock, HashEmptyImage, TreeDone
<1>2. IsGen(gen)
  BY <1>1 DEF InTree
<1>3. ASSUME NEW n \in Named(Desc), n \notin touched
      PROVE  Hashed(gen, file[n]) /\ IsSeq(file[n])
  <2>1. Hashed(gen, file[n])
    BY <1>1, <1>3 DEF InTree
  <2> QED
    BY <1>1, <2>1, FilesAreSeqs DEF Named
<1>4. CASE HashNextBlock
  <2>1. CASE ReadsImage(gen) /\ ImageRead # << >> /\ gen.size = 1 /\ gen' = HashOnlyBlock(gen, ImageRead[1])
    <3>1. IsGen(gen') /\ gen'.size = gen.size
      BY <1>2, <2>1, OnlyFields
    <3>2. ASSUME NEW n \in Named(Desc), n \notin touched
          PROVE  Hashed(gen', file[n])
      <4> DEFINE f == file[n]
                 r == ImageRead
      <4>1. Hashed(gen, f) /\ IsSeq(f) /\ r = Upto(f, gen.src - gen.remaining, 1)
        BY <1>3, <3>2, ReadIs
      <4>2. gen.level = 0 /\ r # << >> /\ gen' = HashOnlyBlock(gen, r[1])
        BY <2>1 DEF ReadsImage
      <4> HIDE DEF f, r
      <4>3. Hashed(gen', f)
        BY <1>1, <2>1, <4>1, <4>2, HashedImage
      <4> QED
        BY <4>3 DEF f
    <3> QED
      BY <1>1, <3>1, <3>2, TreeStep
  <2>2. CASE ReadsImage(gen) /\ ImageRead # << >> /\ gen.size # 1 /\ gen' = HashBlock(gen, ImageRead[1])
    <3>1. IsGen(gen') /\ gen'.size = gen.size
      BY <1>2, <2>2, BlockFields
    <3>2. ASSUME NEW n \in Named(Desc), n \notin touched
          PROVE  Hashed(gen', file[n])
      <4> DEFINE f == file[n]
                 r == ImageRead
      <4>1. Hashed(gen, f) /\ IsSeq(f) /\ r = Upto(f, gen.src - gen.remaining, 1)
        BY <1>3, <3>2, ReadIs
      <4>2. gen.level = 0 /\ r # << >> /\ gen' = HashBlock(gen, r[1])
        BY <2>2 DEF ReadsImage
      <4> HIDE DEF f, r
      <4>3. Hashed(gen', f)
        BY <1>1, <2>2, <4>1, <4>2, HashedImage
      <4> QED
        BY <4>3 DEF f
    <3> QED
      BY <1>1, <3>1, <3>2, TreeStep
  <2>3. CASE ~ReadsImage(gen) /\ gen' = HashBlock(gen, ArrayBlock(gen))
    <3>1. IsGen(gen') /\ gen'.size = gen.size
      BY <1>2, <2>3, BlockFields
    <3>2. ASSUME NEW n \in Named(Desc), n \notin touched
          PROVE  Hashed(gen', file[n])
      <4>1. Hashed(gen, file[n]) /\ IsSeq(file[n]) /\ gen.level # 0
        BY <1>3, <2>3, <3>2 DEF ReadsImage
      <4> QED
        BY <1>1, <2>3, <4>1, HashedArray
    <3> QED
      BY <1>1, <3>1, <3>2, TreeStep
  <2> QED
    BY <1>4, <2>1, <2>2, <2>3 DEF HashNextBlock
<1>5. CASE HashEmptyImage
  <2> DEFINE none == << >>
  <2>1. gen.size = 1 /\ ImageRead = none /\ gen' = HashOnlyBlock(gen, none)
    BY <1>5 DEF HashEmptyImage
  <2>2. IsGen(gen') /\ gen'.size = gen.size
    BY <1>2, <2>1, OnlyFields
  <2>3. ASSUME NEW n \in Named(Desc), n \notin touched
        PROVE  Hashed(gen', file[n])
    <3>1. Hashed(gen, file[n]) /\ IsSeq(file[n]) /\ ImageRead = Upto(file[n], gen.src - gen.remaining, 1)
      BY <1>3, <2>3, ReadIs
    <3> QED
      BY <1>1, <2>1, <3>1, HashedNone
  <2> QED
    BY <1>1, <2>2, <2>3, TreeStep
<1> QED
  BY <1>4, <1>5

(* On to a chained partition, and back.                                    *)
LEMMA Outer ==
  ASSUME NEW r, outer' = << r >>
  PROVE  outer' # << >> /\ outer'[1] = r
  BY OneIs, NoneIs

Followed1(q) ==
  /\ outer' = << q >> /\ Advanced(q, frame) /\ pc' = "open"
  /\ \E n \in Named(Desc) : frame' = Frame(n, FALSE, {})

LEMMA ChainStep ==
  ASSUME InFrames, VerifyChain
  PROVE  /\ pc = "descriptors" /\ More /\ Desc.tag = ChainTag
         /\ UNCHANGED << file, made, changes, args, gen, touched >>
         /\ frame.follow => \E q : Followed1(q)
         /\ ~frame.follow => outer' = outer /\ Advanced(frame', frame) /\ pc' = "descriptors"
<1>1. IsFrame(frame) /\ pc = "descriptors"
  BY DEF InFrames, VerifyChain
<1>2. ASSUME frame.follow
      PROVE  \E q : Followed1(q)
  <2> DEFINE q == [frame EXCEPT !.at = @ + 1]
  <2>1. outer' = << q >> /\ pc' = "open" /\ \E n \in Named(Desc) : frame' = Frame(n, FALSE, {})
    BY <1>2 DEF VerifyChain, Follow
  <2>2. SetAt(q, frame)
    BY DEF SetAt
  <2> HIDE DEF q
  <2>3. Advanced(q, frame)
    BY <1>1, <2>2, AdvancedIs
  <2> QED
    BY <2>1, <2>3 DEF Followed1
<1>3. ASSUME ~frame.follow
      PROVE  outer' = outer /\ Advanced(frame', frame) /\ pc' = "descriptors"
  <2>1. outer' = outer /\ Verdict(TRUE)
    BY <1>3 DEF VerifyChain
  <2> QED
    BY <1>1, <2>1, VerdictIs
<1> QED
  BY <1>1, <1>2, <1>3 DEF VerifyChain

LEMMA FramesChain ==
  ASSUME InFrames, VerifyChain
  PROVE  InFrames' /\ InTree'
<1>1. /\ pc = "descriptors" /\ UNCHANGED << file, args, gen, touched >>
  BY ChainStep
<1>2. CASE ~frame.follow
  <2>1. outer' = outer /\ Decided
    BY <1>2, ChainStep DEF Decided
  <2> QED
    BY <1>1, <2>1, FramesDecided
<1>3. CASE frame.follow
  <2>1. PICK q : Followed1(q)
    BY <1>3, ChainStep
  <2>2. PICK n \in Named(Desc) : frame' = Frame(n, FALSE, {})
    BY <2>1 DEF Followed1
  <2>3. IsFrame(frame')
    BY <2>2, FrameIs DEF Named
  <2>4. outer' # << >> /\ outer'[1] = q /\ outer' = << q >> /\ Advanced(q, frame) /\ pc' = "open"
    BY <2>1, Outer DEF Followed1
  <2>5. frame.at \in Nat \ {0}
    BY <1>1 DEF InFrames
  <2>6. IsFrame(outer'[1]) /\ outer'[1].at \in Nat \ {0}
    BY <2>4, <2>5 DEF Advanced
  <2> QED
    BY <1>1, <2>3, <2>4, <2>6 DEF InFrames, InTree, States
<1> QED
  BY <1>2, <1>3

LEMMA FramesEnd ==
  ASSUME InFrames, RefuseChain \/ Return
  PROVE  InFrames' /\ InTree'
<1>1. pc = "descriptors" /\ UNCHANGED << args, touched >>
  BY DEF RefuseChain, Return
<1>2. CASE RefuseChain
  BY <1>1, <1>2 DEF RefuseChain, InFrames, InTree, States
<1>3. CASE Return
  <2>1. CASE outer = << >>
    BY <1>1, <1>3, <2>1 DEF Return, InFrames, InTree, States
  <2>2. CASE outer # << >>
    <3>1. frame' = outer[1] /\ outer' = << >> /\ pc' = pc
      BY <1>3, <2>2 DEF Return
    <3>2. IsFrame(frame') /\ frame'.at \in Nat \ {0}
      BY <2>2, <3>1 DEF InFrames
    <3> QED
      BY <1>1, <3>1, <3>2 DEF InFrames, InTree, States
  <2> QED
    BY <2>1, <2>2
<1> QED
  BY <1>2, <1>3

Base == InFiles /\ InFrames /\ InTree

LEMMA BaseStart ==
  ASSUME Inputs, Init
  PROVE  Base
  BY FilesStart, FramesStart DEF Base

LEMMA BaseVerify ==
  ASSUME Base, Verify
  PROVE  Base'
<1>1. InFiles /\ InFrames /\ InTree
  BY DEF Base
<1>2. /\ UNCHANGED << file, made, changes, touched >> /\ pc # "make" /\ pc' # "make"
  BY <1>1, ChainStep DEF Verify, Open, PassOver, VerifyHash, VerifyHashtree, HashNextBlock, HashEmptyImage, CompareTree,
              RefuseChain, Return, Verdict, Followed1
<1>3. InFiles'
  BY <1>1, <1>2, FilesStay
<1>4. InFrames' /\ InTree'
  <2>1. CASE Open
    BY <1>1, <2>1, FramesOpen
  <2>2. CASE PassOver \/ VerifyHash \/ CompareTree
    BY <1>1, <2>2, FramesDescriptor
  <2>3. CASE VerifyHashtree
    BY <1>1, <2>3, FramesHashtree
  <2>4. CASE HashNextBlock \/ HashEmptyImage
    BY <1>1, <2>4, FramesBlock
  <2>5. CASE VerifyChain
    BY <1>1, <2>5, FramesChain
  <2>6. CASE RefuseChain \/ Return
    BY <1>1, <2>6, FramesEnd
  <2> QED
    BY <2>1, <2>2, <2>3, <2>4, <2>5, <2>6 DEF Verify
<1> QED
  BY <1>3, <1>4 DEF Base

LEMMA BaseStep ==
  ASSUME Inputs, Base, [Next]_vars
  PROVE  Base'
<1>1. InFiles /\ InFrames /\ InTree
  BY DEF Base
<1>2. CASE MakeVbmeta
  BY <1>1, <1>2, FilesMake, FramesMake DEF Base
<1>3. CASE BuildAnew \/ ZeroHashtree \/ Damage
  <2>1. PICK n : \E f : IsChange(n, f) /\ (n \in Part \/ pc = "idle")
    BY <1>1, <1>3, ChangeIs
  <2>2. PICK f : IsChange(n, f) /\ (n \in Part \/ pc = "idle")
    BY <2>1
  <2>3. InFiles'
    BY <1>1, <2>2, FilesBecome DEF IsChange
  <2>4. InFrames' /\ InTree'
    BY <1>1, <2>2, FramesChange
  <2> QED
    BY <2>3, <2>4 DEF Base
<1>4. CASE Start
  <2>1. InFiles'
    BY <1>1, <1>4, FilesStay DEF Start
  <2> QED
    BY <1>1, <1>4, <2>1, FramesCommand DEF Base
<1>5. CASE Verify
  BY <1>5, BaseVerify
<1>6. CASE UNCHANGED vars
  <2>1. UNCHANGED << file, made, changes, args, frame, outer, gen, touched, pc >>
    BY <1>6 DEF vars
  <2>2. InFiles'
    BY <1>1, <2>1, FilesStay
  <2>3. InFrames'
    BY <1>1, <2>1 DEF InFrames
  <2>4. Desc' = Desc
    BY <2>1 DEF Desc
  <2>5. InTree'
    BY <1>1, <2>1, <2>4 DEF InTree
  <2> QED
    BY <2>2, <2>3, <2>5 DEF Base
<1> QED
  BY <1>2, <1>3, <1>4, <1>5, <1>6 DEF Next

LEMMA BaseHolds ==
  ASSUME Inputs
  PROVE  Spec => []Base
<1>1. Init => Base
  BY BaseStart
<1>2. Base /\ [Next]_vars => Base'
  BY BaseStep
<1> QED
  BY <1>1, <1>2, PTL DEF Spec

(* The tree and the root that verify_image compares with those of an image *)
(* are what dm-verity expects of its blocks: generate_hash_tree, run a     *)
(* block at a time while other files change, is the hash tree of the       *)
(* kernel, for images of any length and files damaged in any way before.   *)
THEOREM GeneratedTreeIsMerkle ==
  ASSUME Inputs
  PROVE  Spec => []TreeIsMerkle
<1>1. Base => TreeIsMerkle
  <2>1. SUFFICES ASSUME Base, pc = "tree", TreeDone(gen), Named(Desc) \cap touched = {},
                        NEW n \in Named(Desc), Len(Upto(file[n], 0, gen.size)) = gen.size
                 PROVE  /\ gen.root = VerityRoot(Upto(file[n], 0, gen.size))
                        /\ gen.tree = VerityTree(Upto(file[n], 0, gen.size))
    BY DEF TreeIsMerkle
  <2>2. n \notin touched
    BY <2>1
  <2>3. Hashed(gen, file[n])
    BY <2>1, <2>2 DEF Base, InTree
  <2> QED
    BY <2>1, <2>3, HashedDone
<1>2. Spec => []Base
  BY BaseHolds
<1> QED
  BY <1>1, <1>2, PTL

-----------------------------------------------------------------------------
(* What make_vbmeta_image keeps of what the images hold.                   *)

LEMMA SameIs ==
  ASSUME NEW d, NEW e, SameDescriptor(d, e)
  PROVE  /\ HasPartitionName(d) /\ HasPartitionName(e) /\ d.tag = e.tag /\ SameDescriptor(e, d)
         /\ \A x : SameDescriptor(e, x) <=> SameDescriptor(d, x)
  BY DEF SameDescriptor, HasPartitionName

LEMMA SameAsItself ==
  ASSUME NEW d, HasPartitionName(d)
  PROVE  SameDescriptor(d, d)
  BY DEF SameDescriptor

(* The last one that is the same as d.                                     *)
IsLast(f, d, b) == b \in LastSeen(f) /\ b \in 1..Len(f) /\ SameDescriptor(d, f[b])

LEMMA LastExists ==
  ASSUME NEW f, NEW a, IsSeq(f), a \in 1..Len(f), HasPartitionName(f[a])
  PROVE  \E b : IsLast(f, f[a], b)
<1> DEFINE n == Len(f)
           d == f[a]
           T == {x \in 0..n : n - x \in 1..n /\ SameDescriptor(d, f[n - x])}
<1>1. n \in Nat /\ DOMAIN f = 1..n
  BY DomainIs
<1>2. n - a \in T
  <2>1. n - a \in 0..n /\ n - (n - a) = a
    BY <1>1
  <2> QED
    BY <2>1, SameAsItself
<1>3. PICK x \in T : \A y \in T : x <= y
  <2>1. T \subseteq Nat
    BY <1>1
  <2> HIDE DEF T
  <2>2. T # {}
    BY <1>2
  <2> QED
    BY <2>1, <2>2, NatLeast
<1> DEFINE b == n - x
<1>4. b \in 1..n /\ SameDescriptor(d, f[b]) /\ x \in 0..n
  BY <1>3
<1>5. ASSUME NEW j \in (b + 1)..n, SameDescriptor(f[b], f[j])
      PROVE  FALSE
  <2>1. SameDescriptor(d, f[j])
    BY <1>4, <1>5, SameIs
  <2>2. n - j \in 0..n /\ n - (n - j) = j /\ j \in 1..n /\ n - j < x
    BY <1>1, <1>4
  <2>3. n - j \in T
    BY <2>1, <2>2
  <2> HIDE DEF T
  <2> QED
    BY <1>1, <1>3, <1>4, <2>2, <2>3
<1>6. HasPartitionName(f[b])
  BY <1>4, SameIs
<1>7. b \in LastSeen(f)
  BY <1>1, <1>4, <1>5, <1>6 DEF LastSeen
<1> QED
  BY <1>4, <1>7 DEF IsLast

LEMMA LastIsOne ==
  ASSUME NEW f, NEW d, NEW a, NEW b, IsSeq(f), IsLast(f, d, a), IsLast(f, d, b)
  PROVE  a = b
<1>1. a \in 1..Len(f) /\ b \in 1..Len(f) /\ Len(f) \in Nat
  BY DEF IsLast, IsSeq
<1>2. SameDescriptor(f[a], f[b]) /\ SameDescriptor(f[b], f[a])
  BY SameIs DEF IsLast
<1>3. ~(a < b)
  <2>1. a < b => b \in (a + 1)..Len(f)
    BY <1>1
  <2> QED
    BY <1>2, <2>1 DEF IsLast, LastSeen
<1>4. ~(b < a)
  <2>1. b < a => a \in (b + 1)..Len(f)
    BY <1>1
  <2> QED
    BY <1>2, <2>1 DEF IsLast, LastSeen
<1> QED
  BY <1>1, <1>3, <1>4

(* One descriptor of the output is the same as d, which was found: the     *)
(* last of them.                                                           *)
LEMMA OneIsKept ==
  ASSUME NEW ds, NEW q, NEW f, NEW d, LedBy(ds, q, SetToSeq(Kept(f))), GoodDescs(f),
         NEW b, IsLast(f, d, b), d.tag # ChainTag
  PROVE  /\ Cardinality({i \in DOMAIN ds : SameDescriptor(d, ds[i])}) = 1
         /\ f[b] \in ToSet(ds)
<1> DEFINE k == SetToSeq(Kept(f))
           m == Len(q)
           S == {i \in DOMAIN ds : SameDescriptor(d, ds[i])}
<1>1. ds = q \o k /\ IsSeq(ds) /\ IsSeq(q) /\ IsSeq(k) /\ NoSums(q)
  BY DEF LedBy, GoodDescs
<1>2. Enumerates(k, Kept(f)) /\ IsSeq(f)
  BY KeptIs DEF GoodDescs
<1> HIDE DEF k
<1>3. IsBehind(ds, q, k) /\ DOMAIN ds = 1..Len(ds) /\ m \in Nat /\ Len(k) \in Nat /\ Len(ds) = m + Len(k)
  BY <1>1, ConcatIs, DomainIs DEF IsBehind, IsSeq
<1>4. f[b] \in Kept(f)
  BY DEF Kept, IsLast
<1>5. PICK j \in 1..Len(k) : k[j] = f[b]
  BY <1>2, <1>4 DEF Enumerates
<1>6. m + j \in DOMAIN ds /\ ds[m + j] = f[b]
  BY <1>3, <1>5 DEF IsBehind
<1>7. m + j \in S
  BY <1>6 DEF IsLast
<1>8. ASSUME NEW i \in S
      PROVE  i = m + j
  <2>1. i \in 1..(m + Len(k)) /\ SameDescriptor(d, ds[i])
    BY <1>3
  <2>2. HasPartitionName(ds[i]) /\ ds[i].tag # ChainTag
    BY <2>1, SameIs
  <2>3. ~(i <= m)
    <3>1. i <= m => i \in 1..m /\ ds[i] = q[i]
      BY <1>3, <2>1 DEF IsBehind
    <3> QED
      BY <1>1, <2>2, <3>1 DEF NoSums
  <2> DEFINE l == i - m
  <2>4. l \in 1..Len(k) /\ i = m + l
    BY <1>3, <2>1, <2>3
  <2>5. ds[i] = k[l]
    BY <1>3, <2>4 DEF IsBehind
  <2> HIDE DEF l
  <2>6. k[l] \in Kept(f)
    BY <1>2, <2>4 DEF Enumerates
  <2>7. PICK a \in LastSeen(f) : k[l] = f[a]
    BY <2>6 DEF Kept
  <2>8. a \in 1..Len(f)
    BY <1>2, DomainIs DEF LastSeen
  <2>9. IsLast(f, d, a)
    BY <2>1, <2>5, <2>7, <2>8 DEF IsLast
  <2>10. a = b
    BY <1>2, <2>9, LastIsOne
  <2>11. l = j
    BY <1>2, <1>5, <2>4, <2>7, <2>10 DEF Enumerates
  <2> QED
    BY <2>4, <2>11
<1>9. S = {m + j}
  BY <1>7, <1>8
<1>10. Cardinality(S) = 1
  BY <1>9, FS_Singleton
<1>11. f[b] \in ToSet(ds)
  BY <1>6 DEF ToSet
<1> QED
  BY <1>10, <1>11

(* It is in the last image with one.                                       *)
LEMMA LastImage ==
  ASSUME NEW c, NEW files, IsCommand(c), ArePartitions(files), NEW d, NEW b,
         IsLast(Found(c, files), d, b)
  PROVE  IsFromLastImage(Found(c, files)[b], c, files)
<1> DEFINE f == Found(c, files)
           w == IncludedOf(c, files)
           n == Len(c.include)
           e == f[b]
<1>1. /\ IsSeq(w) /\ Len(w) = n /\ n \in Nat
      /\ \A i \in 1..n : w[i] = Descs(files[c.include[i]]) /\ IsSeq(w[i])
  BY IncludedOfIs DEF GoodDescs
<1>2. DOMAIN c.include = 1..n
  BY DomainIs DEF IsCommand
<1>3. f = FlattenSeq(w)
  BY DEF Found, IncludedOf
<1>4. b \in LastSeen(f) /\ b \in 1..Len(f)
  BY DEF IsLast
<1> HIDE DEF f, w
<1>5. PICK r : IsFlat(f, w, r)
  BY <1>1, <1>3, FlatHas
<1>6. HasPlace(r, w, n, b) /\ Offsets(r, w, n) /\ Len(f) = r[n]
  BY <1>1, <1>4, <1>5 DEF IsFlat
<1>7. PICK i \in 1..n : \E j \in 1..Len(w[i]) : b = r[i - 1] + j
  BY <1>6 DEF HasPlace
<1>8. PICK j \in 1..Len(w[i]) : b = r[i - 1] + j
  BY <1>7
<1>9. e = w[i][j]
  BY <1>1, <1>5, <1>8 DEF IsFlat
<1>10. e \in ToSet(w[i])
  <2>1. j \in DOMAIN w[i]
    BY <1>1, DomainIs
  <2> QED
    BY <1>9, <2>1 DEF ToSet
<1>11. /\ r[i - 1] \in Nat /\ r[i] \in Nat /\ r[i] = r[i - 1] + Len(w[i]) /\ Len(w[i]) \in Nat
       /\ b <= r[i]
  <2>1. i - 1 \in 0..n /\ i \in 0..n
    BY <1>1
  <2>2. r[i - 1] \in Nat /\ r[i] \in Nat /\ r[i] = r[i - 1] + Len(w[i])
    BY <1>6, <2>1 DEF Offsets
  <2>3. Len(w[i]) \in Nat
    BY <1>1 DEF IsSeq
  <2> QED
    BY <1>8, <2>2, <2>3
<1>12. ASSUME NEW x \in (i + 1)..n, NEW u \in ToSet(w[x]), SameDescriptor(e, u)
       PROVE  FALSE
  <2>1. x \in 1..n /\ x - 1 \in i..n /\ x - 1 \in 0..n /\ i \in 0..n
    BY <1>1
  <2>2. IsSeq(w[x])
    BY <1>1, <2>1
  <2>3. PICK y \in 1..Len(w[x]) : u = w[x][y]
    BY <2>2, DomainIs DEF ToSet
  <2>4. f[r[x - 1] + y] = u
    BY <1>1, <1>5, <2>1, <2>3 DEF IsFlat
  <2>5. r[i] <= r[x - 1]
    BY <1>1, <1>6, <2>1, OffsetsGrow
  <2>6. r[x - 1] \in Nat /\ r[x] \in Nat /\ r[x] = r[x - 1] + Len(w[x])
    BY <1>6, <2>1 DEF Offsets
  <2>7. r[x] <= r[n]
    <3>1. x \in 0..n /\ n \in x..n
      BY <1>1, <2>1
    <3> QED
      BY <1>1, <1>6, <3>1, OffsetsGrow
  <2>8. r[n] \in Nat /\ Len(w[x]) \in Nat
    <3>1. n \in 0..n
      BY <1>1
    <3> QED
      BY <1>6, <2>2, <3>1 DEF Offsets, IsSeq
  <2> DEFINE z == r[x - 1] + y
  <2>9. z \in (b + 1)..Len(f)
    <3> DEFINE from == r[x - 1]
               low == r[i]
               size == Len(w[x])
               whole == Len(f)
    <3>1. /\ from \in Nat /\ low \in Nat /\ size \in Nat /\ whole \in Nat /\ y \in 1..size /\ b \in 1..whole
          /\ b <= low /\ low <= from /\ from + size <= whole
      BY <1>4, <1>6, <1>11, <2>3, <2>5, <2>6, <2>7, <2>8
    <3> HIDE DEF from, low, size, whole
    <3>2. from + y \in (b + 1)..whole
      BY <3>1
    <3> QED
      BY <3>2 DEF from, whole
  <2>10. ~SameDescriptor(f[b], f[z])
    <3> HIDE DEF z
    <3> QED
      BY <1>4, <2>9 DEF LastSeen
  <2> QED
    BY <1>12, <2>4, <2>10
<1>13. i \in DOMAIN c.include /\ e \in ToSet(Descs(files[c.include[i]]))
  BY <1>1, <1>2, <1>10
<1>14. ASSUME NEW x \in (i + 1)..n
       PROVE  \A u \in ToSet(Descs(files[c.include[x]])) : ~SameDescriptor(e, u)
  <2>1. w[x] = Descs(files[c.include[x]])
    BY <1>1
  <2> QED
    BY <1>12, <2>1
<1>15. IsFromLastImage(e, c, files)
  BY <1>13, <1>14 DEF IsFromLastImage
<1> QED
  BY <1>15 DEF f

(* The version is that of the image that needs the highest.                *)
LEMMA HighestIs ==
  ASSUME NEW s, s \subseteq {0, 1, 2}, s # {}
  PROVE  \A k \in s : Highest(s) >= k
<1>1. \E n \in s : \A k \in s : k <= n
  <2>1. CASE 2 \in s
    <3>1. \A k \in s : k <= 2
      OBVIOUS
    <3> QED
      BY <2>1, <3>1
  <2>2. CASE 2 \notin s /\ 1 \in s
    <3>1. \A k \in s : k <= 1
      BY <2>2
    <3> QED
      BY <2>2, <3>1
  <2>3. CASE 2 \notin s /\ 1 \notin s
    <3>1. \A k \in s : k = 0
      BY <2>3
    <3>2. PICK k : k \in s
      OBVIOUS
    <3>3. k = 0
      BY <3>1, <3>2
    <3>4. \A j \in s : j <= k
      BY <3>1, <3>3
    <3> QED
      BY <3>2, <3>4
  <2> QED
    BY <2>1, <2>2, <2>3
<1>2. Highest(s) \in s /\ \A k \in s : k <= Highest(s)
  BY <1>1 DEF Highest
<1> QED
  BY <1>2

LEMMA MinorIs ==
  ASSUME NEW c, NEW files, IsCommand(c), ArePartitions(files), NEW i \in DOMAIN c.include
  PROVE  RequiredMinor(c, files) >= HeaderOf(files[c.include[i]]).minor
<1> DEFINE own == IF c.location > 0 THEN 2 ELSE 0
           minors == {HeaderOf(files[c.include[j]]).minor : j \in DOMAIN c.include}
<1>1. \A j \in DOMAIN c.include : HeaderOf(files[c.include[j]]).minor \in {0, 1, 2}
  <2>1. \A j \in DOMAIN c.include : c.include[j] \in Part
    BY DomainIs DEF IsCommand
  <2> QED
    BY <2>1 DEF ArePartitions, IsPartition
<1>2. minors \subseteq {0, 1, 2} /\ HeaderOf(files[c.include[i]]).minor \in minors
  BY <1>1
<1>3. own \in {0, 1, 2}
  OBVIOUS
<1>4. RequiredMinor(c, files) = Highest({own} \cup minors)
  BY DEF RequiredMinor
<1> HIDE DEF own, minors
<1> QED
  BY <1>2, <1>3, <1>4, HighestIs

(* What make_vbmeta_image took from the images is read back from its       *)
(* output: one descriptor for each class and partition, that of the last   *)
(* image with one, and a version no lower than any of the images'          *)
(* (avbtool.v1.2.py:3131-3155), for any number of images.                  *)
THEOREM LastDescriptorsAreIncluded ==
  ASSUME Inputs
  PROVE  Spec => []LastIsIncluded
<1>1. Base => LastIsIncluded
  <2> SUFFICES ASSUME Base, pc = "idle", changes = 0
               PROVE  LastIsIncluded
    BY DEF LastIsIncluded
  <2> DEFINE c == made.cmd
             f == Found(c, file)
             ds == Descs(file[Top])
  <2>1. c \in MakeCommand /\ file[Top] = VbmetaImage(c, file) /\ ArePartitions(file)
    BY DEF Base, InFiles, AsMade
  <2>2. IsCommand(c)
    BY <2>1 DEF Inputs
  <2>3. /\ Parses(file[Top]) /\ ds = MadeDescs(c, file)
        /\ HeaderOf(file[Top]).minor = RequiredMinor(c, file)
    BY <2>1, <2>2, MadeIsWhole DEF Whole
  <2>4. GoodDescs(f) /\ NoChains(f)
    BY <2>1, <2>2, FoundIs
  <2>5. PICK q : LedBy(ds, q, SetToSeq(Kept(f)))
    BY <2>1, <2>2, <2>3, MadeIs
  <2>6. \A b : \A d : IsLast(f, d, b) => IsFromLastImage(f[b], c, file)
    BY <2>1, <2>2, LastImage
  <2>7. \A i \in DOMAIN c.include : HeaderOf(file[Top]).minor >= HeaderOf(file[c.include[i]]).minor
    BY <2>1, <2>2, <2>3, MinorIs
  <2>8. ASSUME NEW d \in ToSet(f), HasPartitionName(d)
        PROVE  /\ Cardinality({i \in DOMAIN ds : SameDescriptor(d, ds[i])}) = 1
               /\ \E e \in ToSet(ds) : SameDescriptor(d, e) /\ IsFromLastImage(e, c, file)
    <3> HIDE DEF f, ds, c
    <3>1. IsSeq(f) /\ DOMAIN f = 1..Len(f)
      BY <2>4, DomainIs DEF GoodDescs
    <3>2. PICK a \in 1..Len(f) : d = f[a]
      BY <2>8, <3>1 DEF ToSet
    <3>3. PICK b : IsLast(f, d, b)
      BY <2>8, <3>1, <3>2, LastExists
    <3>4. d.tag # ChainTag
      BY <2>4, <3>2 DEF NoChains
    <3>5. Cardinality({i \in DOMAIN ds : SameDescriptor(d, ds[i])}) = 1 /\ f[b] \in ToSet(ds)
      BY <2>4, <2>5, <3>3, <3>4, OneIsKept
    <3> QED
      BY <2>6, <3>3, <3>5 DEF IsLast
  <2> QED
    BY <2>3, <2>7, <2>8 DEF LastIsIncluded
<1>2. Spec => []Base
  BY BaseHolds
<1> QED
  BY <1>1, <1>2, PTL

-----------------------------------------------------------------------------
(* How the frames come about.                                              *)

Active == pc \in {"open", "descriptors", "tree"}

(* The descriptors are those of the file, unless it has changed.           *)
Fresh(r) == r.name \notin touched => r.descs = Descs(file[r.name])

IsCommanded(r) == r.name = args.image /\ r.follow = args.follow /\ r.expected = args.expected

(* The image in the frame is one that r chains to.                         *)
IsFollowed(r) ==
  /\ args.follow /\ frame.follow = FALSE /\ frame.expected = {}
  /\ r.at - 1 \in 1..Len(r.descs) /\ r.descs[r.at - 1].tag = ChainTag
  /\ frame.name \in Named(r.descs[r.at - 1])

InChain ==
  /\ Active /\ outer = << >> => IsCommanded(frame)
  /\ Active /\ outer # << >> => IsCommanded(outer[1]) /\ IsFollowed(outer[1]) /\ Fresh(outer[1])
  /\ pc \in {"descriptors", "tree"} => Fresh(frame)

LEMMA ChainChange ==
  ASSUME NEW n, NEW f, InFiles, InFrames, InChain, IsChange(n, f)
  PROVE  InChain'
<1>1. /\ UNCHANGED << args, frame, outer, pc >> /\ touched' = touched \cup {n}
      /\ file' = [file EXCEPT ![n] = f] /\ n \in Part \cup {Top}
  BY DEF IsChange, Become
<1>2. IsSet(file', file, n, f)
  BY <1>1, SetIs DEF InFiles
<1>3. \A m \in Part \cup {Top} : m \notin touched' => m \notin touched /\ file'[m] = file[m]
  BY <1>1, <1>2 DEF IsSet
<1>4. frame.name \in Part \cup {Top} /\ (outer # << >> => outer[1].name \in Part \cup {Top})
  BY DEF InFrames, IsFrame
<1>5. Fresh(frame) => Fresh(frame)'
  BY <1>1, <1>3, <1>4 DEF Fresh
<1>6. outer # << >> /\ Fresh(outer[1]) => Fresh(outer[1])'
  BY <1>1, <1>3, <1>4 DEF Fresh
<1>7. IsCommanded(frame)' <=> IsCommanded(frame)
  BY <1>1 DEF IsCommanded
<1>8. (IsCommanded(outer[1]) /\ IsFollowed(outer[1]))' <=> IsCommanded(outer[1]) /\ IsFollowed(outer[1])
  BY <1>1 DEF IsCommanded, IsFollowed
<1> QED
  BY <1>1, <1>5, <1>6, <1>7, <1>8 DEF InChain, Active

LEMMA ChainCommand ==
  ASSUME Inputs, Start
  PROVE  InChain'
<1>1. /\ args' \in VerifyCommand /\ frame' = Frame(args'.image, args'.follow, args'.expected)
      /\ outer' = << >> /\ pc' = "open"
  BY DEF Start
<1>2. args'.image \in Part \cup {Top}
  BY <1>1 DEF Inputs
<1>3. /\ frame'.name = args'.image /\ frame'.follow = args'.follow /\ frame'.expected = args'.expected
  BY <1>1, <1>2, FrameIs
<1> QED
  BY <1>1, <1>3 DEF InChain, IsCommanded

(* The frame keeps its name, and its descriptors when it had any.          *)
KeepsFrame ==
  /\ frame'.name = frame.name /\ frame'.follow = frame.follow /\ frame'.expected = frame.expected
  /\ UNCHANGED << args, outer, touched, file >>

LEMMA ChainKeeps ==
  ASSUME InChain, Active, KeepsFrame, pc' \in {"descriptors", "tree"} => Fresh(frame)'
  PROVE  InChain'
<1>1. IsCommanded(frame) => IsCommanded(frame)'
  BY DEF KeepsFrame, IsCommanded
<1>2. IsCommanded(outer[1]) => IsCommanded(outer[1])'
  BY DEF KeepsFrame, IsCommanded
<1>3. IsFollowed(outer[1]) => IsFollowed(outer[1])'
  BY DEF KeepsFrame, IsFollowed
<1>4. Fresh(outer[1]) => Fresh(outer[1])'
  BY DEF KeepsFrame, Fresh
<1> QED
  BY <1>1, <1>2, <1>3, <1>4 DEF InChain, KeepsFrame

LEMMA ChainVerify ==
  ASSUME InFiles, InFrames, InChain, Verify
  PROVE  InChain'
<1>1. CASE Open
  <2>1. Opened(frame', frame, Descs(file[frame.name])) /\ UNCHANGED << args, outer, touched, file >>
    BY <1>1, OpenIs DEF Open
  <2>2. KeepsFrame /\ Fresh(frame)'
    BY <2>1 DEF Opened, KeepsFrame, Fresh
  <2> QED
    BY <1>1, <2>2, ChainKeeps DEF Open, Active
<1>2. CASE PassOver \/ VerifyHash \/ CompareTree
  <2>1. /\ pc \in {"descriptors", "tree"} /\ UNCHANGED << args, outer, touched, file >>
    BY <1>2 DEF PassOver, VerifyHash, CompareTree
  <2>2. Decided
    BY <1>2, FramesDescriptor
  <2>3. KeepsFrame /\ frame'.descs = frame.descs
    BY <2>1, <2>2 DEF Decided, Advanced, KeepsFrame
  <2>4. Fresh(frame)'
    BY <2>1, <2>3 DEF InChain, Fresh, KeepsFrame
  <2> QED
    BY <2>1, <2>3, <2>4, ChainKeeps DEF Active
<1>3. CASE VerifyHashtree \/ HashNextBlock \/ HashEmptyImage \/ RefuseChain
  <2>1. /\ pc \in {"descriptors", "tree"} /\ UNCHANGED << args, outer, touched, file, frame >>
    BY <1>3 DEF VerifyHashtree, HashNextBlock, HashEmptyImage, RefuseChain
  <2>2. KeepsFrame
    BY <2>1 DEF KeepsFrame
  <2>3. Fresh(frame)'
    BY <2>1 DEF InChain, Fresh
  <2> QED
    BY <2>1, <2>2, <2>3, ChainKeeps DEF Active
<1>4. CASE VerifyChain
  <2>1. pc = "descriptors" /\ More /\ Desc.tag = ChainTag /\ UNCHANGED << file, args, touched >>
    BY <1>4, ChainStep
  <2>2. CASE ~frame.follow
    <3>1. outer' = outer /\ Advanced(frame', frame) /\ pc' = "descriptors"
      BY <1>4, <2>2, ChainStep
    <3>2. KeepsFrame /\ frame'.descs = frame.descs
      BY <2>1, <3>1 DEF Advanced, KeepsFrame
    <3>3. Fresh(frame)'
      BY <2>1, <3>2 DEF InChain, Fresh, KeepsFrame
    <3> QED
      BY <2>1, <3>2, <3>3, ChainKeeps DEF Active
  <2>3. CASE frame.follow
    <3>1. PICK q : Followed1(q)
      BY <1>4, <2>3, ChainStep
    <3>2. PICK n \in Named(Desc) : frame' = Frame(n, FALSE, {})
      BY <3>1 DEF Followed1
    <3>3. frame'.name = n /\ frame'.follow = FALSE /\ frame'.expected = {}
      BY <3>2 DEF Frame
    <3>4. outer' # << >> /\ outer'[1] = q /\ Advanced(q, frame) /\ pc' = "open"
      BY <3>1, Outer DEF Followed1
    <3>5. outer = << >>
      <4>1. outer # << >> => IsFollowed(outer[1])
        BY <2>1 DEF InChain, Active
      <4> QED
        BY <2>3, <4>1 DEF IsFollowed
    <3>6. IsCommanded(frame) /\ Fresh(frame)
      BY <2>1, <3>5 DEF InChain, Active
    <3>7. frame.at \in 1..Len(frame.descs) /\ frame.at \in Nat \ {0}
      BY <2>1, MoreIs DEF InFrames
    <3>8. q.at - 1 = frame.at /\ q.descs = frame.descs /\ q.name = frame.name
      BY <3>4, <3>7 DEF Advanced
    <3>9. IsCommanded(outer[1])'
      BY <2>1, <3>4, <3>6 DEF IsCommanded, Advanced
    <3>10. IsFollowed(outer[1])'
      <4>1. args'.follow
        BY <2>1, <2>3, <3>6 DEF IsCommanded
      <4>2. q.descs[q.at - 1] = Desc
        BY <3>8 DEF Desc
      <4> QED
        BY <2>1, <3>2, <3>3, <3>4, <3>7, <3>8, <4>1, <4>2 DEF IsFollowed
    <3>11. Fresh(outer[1])'
      BY <2>1, <3>4, <3>6, <3>8 DEF Fresh
    <3> QED
      BY <3>4, <3>9, <3>10, <3>11 DEF InChain
  <2> QED
    BY <2>2, <2>3
<1>5. CASE Return
  <2>1. pc = "descriptors" /\ UNCHANGED << file, args, touched >>
    BY <1>5 DEF Return
  <2>2. CASE outer = << >>
    <3>1. pc' = "ok"
      BY <1>5, <2>2 DEF Return
    <3> QED
      BY <3>1 DEF InChain, Active
  <2>3. CASE outer # << >>
    <3>1. frame' = outer[1] /\ outer' = << >>
      BY <1>5, <2>3 DEF Return
    <3>2. IsCommanded(outer[1]) /\ Fresh(outer[1])
      BY <2>1, <2>3 DEF InChain, Active
    <3>3. IsCommanded(frame)' /\ Fresh(frame)'
      BY <2>1, <3>1, <3>2 DEF IsCommanded, Fresh
    <3> QED
      BY <3>1, <3>3 DEF InChain
  <2> QED
    BY <2>2, <2>3
<1> QED
  BY <1>1, <1>2, <1>3, <1>4, <1>5 DEF Verify

LEMMA ChainStart ==
  ASSUME Init
  PROVE  InChain
  BY DEF Init, InChain, Active

LEMMA InChainStep ==
  ASSUME Inputs, Base, InChain, [Next]_vars
  PROVE  InChain'
<1>1. InFiles /\ InFrames
  BY DEF Base
<1>2. CASE MakeVbmeta
  BY <1>2 DEF MakeVbmeta, InChain, Active
<1>3. CASE BuildAnew \/ ZeroHashtree \/ Damage
  BY <1>1, <1>3, ChangeIs, ChainChange
<1>4. CASE Start
  BY <1>4, ChainCommand
<1>5. CASE Verify
  BY <1>1, <1>5, ChainVerify
<1>6. CASE UNCHANGED vars
  <2>1. UNCHANGED << file, args, frame, outer, touched, pc >>
    BY <1>6 DEF vars
  <2> QED
    BY <2>1 DEF InChain, Active, IsCommanded, IsFollowed, Fresh
<1> QED
  BY <1>2, <1>3, <1>4, <1>5, <1>6 DEF Next

-----------------------------------------------------------------------------
(* What is refused when nothing has changed.                               *)

(* The files are as the commands left them.                                *)
LEMMA FilesAtFirst ==
  ASSUME NEW n, Inputs, Base, Active, changes = 0, n \in Part \cup {Top}
  PROVE  /\ Whole(file[n]) /\ touched = {} /\ (n \in Part => IsPartition(file[n]))
<1>1. touched = {} /\ AsMade
  BY DEF Base, InFiles, Active
<1>2. ArePartitions(file) /\ IsCommand(made.cmd) /\ file[Top] = VbmetaImage(made.cmd, file)
  BY <1>1 DEF AsMade, Inputs
<1>3. CASE n \in Part
  BY <1>1, <1>2, <1>3 DEF ArePartitions, IsPartition
<1>4. CASE n = Top
  BY <1>1, <1>2, <1>4, MadeIsWhole, TopIsNoPart
<1> QED
  BY <1>3, <1>4

FrameListed(r) ==
  r \in Frames /\ r.name = frame.name /\ r.follow = frame.follow /\ r.expected = frame.expected

LEMMA InList ==
  ASSUME NEW ds, NEW n, NEW i, LikeGood(ds, n), i \in 1..Len(ds)
  PROVE  ds[i] \in ToSet(ds)
<1>1. i \in DOMAIN ds
  BY LikeGoodIsSeq, DomainIs
<1> QED
  BY <1>1 DEF ToSet

(* What is chained to, in an image that has not changed.                   *)
LEMMA ChainIsThere ==
  ASSUME NEW r, IsFrame(r), IsCommanded(r), IsFollowed(r), Fresh(r), r.name \notin touched
  PROVE  frame.name \in Followed
<1> DEFINE d == r.descs[r.at - 1]
<1>1. /\ args.follow /\ r.at - 1 \in 1..Len(r.descs) /\ d.tag = ChainTag /\ frame.name \in Named(d)
  BY DEF IsFollowed
<1>2. r.descs = Descs(file[args.image])
  BY DEF IsCommanded, Fresh
<1>3. d \in ToSet(r.descs)
  BY <1>1, InList DEF IsFrame
<1>4. d \in ChainsOf(args.image)
  BY <1>1, <1>2, <1>3 DEF ChainsOf
<1> HIDE DEF d
<1> QED
  BY <1>1, <1>4 DEF Followed

LEMMA FrameIsListed ==
  ASSUME Inputs, Base, InChain, Active, changes = 0
  PROVE  \E r : FrameListed(r)
<1>1. touched = {} /\ IsFrame(frame)
  BY DEF Base, InFiles, InFrames
<1>2. CASE outer = << >>
  <2> DEFINE r == Frame(args.image, args.follow, args.expected)
  <2>1. r \in Frames
    BY DEF Frames
  <2>2. r.name = args.image /\ r.follow = args.follow /\ r.expected = args.expected
    BY DEF Frame
  <2>3. IsCommanded(frame)
    BY <1>2 DEF InChain
  <2> HIDE DEF r
  <2> QED
    BY <2>1, <2>2, <2>3 DEF FrameListed, IsCommanded
<1>3. CASE outer # << >>
  <2> DEFINE o == outer[1]
  <2>1. IsFrame(o) /\ IsCommanded(o) /\ IsFollowed(o) /\ Fresh(o)
    BY <1>3 DEF InChain, Base, InFrames
  <2>2. frame.name \in Followed
    BY <1>1, <2>1, ChainIsThere
  <2> DEFINE r == Frame(frame.name, FALSE, {})
  <2>3. r \in Frames
    BY <2>2 DEF Frames
  <2>4. r.name = frame.name /\ r.follow = FALSE /\ r.expected = {}
    BY DEF Frame
  <2>5. frame.follow = FALSE /\ frame.expected = {}
    BY <2>1 DEF IsFollowed
  <2> HIDE DEF r
  <2> QED
    BY <2>3, <2>4, <2>5 DEF FrameListed
<1> QED
  BY <1>2, <1>3

(* The descriptor that is verified is one of the image's, as it was        *)
(* written.                                                                *)
LEMMA DescIs ==
  ASSUME Inputs, Base, InChain, pc \in {"descriptors", "tree"}, More, changes = 0
  PROVE  /\ Desc \in ToSet(Descs(file[frame.name])) /\ GoodDesc(Desc)
         /\ HasPartitionName(Desc) => \E n \in Named(Desc) : Desc.tag # ChainTag => n \in Part
<1>1. touched = {} /\ IsFrame(frame) /\ frame.name \in Part \cup {Top} /\ frame.at \in Nat \ {0} /\ Active
  BY DEF Base, InFiles, InFrames, IsFrame, Active
<1>2. frame.descs = Descs(file[frame.name])
  BY <1>1 DEF InChain, Fresh
<1>3. frame.at \in 1..Len(frame.descs)
  BY <1>1, MoreIs
<1>4. Desc \in ToSet(frame.descs)
  BY <1>1, <1>3, InList DEF IsFrame, Desc
<1>5. GoodDescs(frame.descs)
  BY <1>1, <1>2, FilesAtFirst DEF Whole
<1>6. GoodDesc(Desc)
  BY <1>3, <1>5 DEF GoodDescs, Desc
<1>7. HasPartitionName(Desc) => \E n \in Named(Desc) : Desc.tag # ChainTag => n \in Part
  BY <1>6 DEF GoodDesc, Named
<1> QED
  BY <1>2, <1>4, <1>6, <1>7

(* A partition that its own descriptor describes.                          *)
LEMMA SelfIs ==
  ASSUME NEW n \in Part, NEW d, IsPartition(file[n]), d \in ToSet(Descs(file[n]))
  PROVE  SelfMatch(d, file[n])
<1>1. IsSeq(Descs(file[n]))
  BY DEF IsPartition, Whole, GoodDescs
<1>2. PICK i \in 1..Len(Descs(file[n])) : d = Descs(file[n])[i]
  BY <1>1, DomainIs DEF ToSet
<1> QED
  BY <1>2 DEF IsPartition

(* A descriptor that is not from the image it describes.                   *)
LEMMA Stranger ==
  ASSUME NEW r, FrameListed(r), Desc \in ToSet(Descs(file[frame.name])), Desc.tag \in {HashTag, HashtreeTag},
         NEW m \in Named(Desc), Desc \notin ToSet(Descs(file[m]))
  PROVE  Objection(r)
  BY DEF Objection, FrameListed

LEMMA RefusedKey ==
  ASSUME NEW r, Inputs, Base, Active, changes = 0, FrameListed(r), Open, pc' = "failed"
  PROVE  Objection(r)
<1>1. frame.name \in Part \cup {Top}
  BY DEF Base, InFrames, IsFrame
<1>2. Whole(file[frame.name])
  BY <1>1, FilesAtFirst
<1>3. ~Checked(file[frame.name])
  BY DEF Open
<1>4. args.key # NoKey /\ ~SignedBy(frame.name, args.key)
  BY <1>2, <1>3 DEF Checked, Whole, SignedBy
<1> QED
  BY <1>4 DEF Objection, FrameListed

LEMMA RefusedHash ==
  ASSUME NEW r, Inputs, Base, InChain, changes = 0, FrameListed(r), VerifyHash, pc' = "failed"
  PROVE  Objection(r)
<1>1. pc = "descriptors" /\ More /\ Desc.tag = HashTag /\ Active /\ HasPartitionName(Desc) /\ Desc.tag # ChainTag
  BY DEF VerifyHash, Active, HasPartitionName, HashTag, ChainTag
<1>2. PICK n \in Named(Desc) : n \in Part
  BY <1>1, DescIs
<1>3. Desc \in ToSet(Descs(file[frame.name]))
  BY <1>1, DescIs
<1>4. ~HashMatches(Desc, file[n])
  <2> DEFINE ok == \E m \in Named(Desc) : HashMatches(Desc, file[m])
  <2>1. Verdict(ok)
    BY DEF VerifyHash
  <2>2. ~ok
    BY <2>1 DEF Verdict
  <2> QED
    BY <2>2
<1>5. CASE Desc \notin ToSet(Descs(file[n]))
  BY <1>1, <1>3, <1>5, Stranger
<1>6. CASE Desc \in ToSet(Descs(file[n]))
  <2>1. IsPartition(file[n])
    BY <1>1, <1>2, FilesAtFirst
  <2>2. SelfMatch(Desc, file[n])
    BY <1>2, <1>6, <2>1, SelfIs
  <2> QED
    BY <1>1, <1>4, <2>2 DEF SelfMatch
<1> QED
  BY <1>5, <1>6

LEMMA TreeSizeIs ==
  ASSUME NEW data, IsSeq(data), Len(data) >= 1
  PROVE  IsSeq(VerityTree(data)) /\ Len(VerityTree(data)) = TreeSize(Len(data))
<1>1. PICK t : Tower(data, Levels(data), LevelSizes(Len(data)), t)
  BY TowerIs
<1> QED
  BY <1>1, VerityTreeIs, OffsetsAre

LEMMA RefusedTree ==
  ASSUME NEW r, Inputs, Base, InChain, changes = 0, FrameListed(r), CompareTree, pc' = "failed"
  PROVE  Objection(r)
<1>1. pc = "tree" /\ TreeDone(gen) /\ Active
  BY DEF CompareTree, Active
<1>2. /\ frame.at \in 1..Len(frame.descs) /\ Desc.tag = HashtreeTag /\ gen.size = Desc.fixed.image_size
      /\ HasPartitionName(Desc) /\ Desc.tag # ChainTag
  BY <1>1 DEF Base, InTree, HasPartitionName, HashtreeTag, ChainTag
<1>3. More
  BY <1>1, <1>2, MoreIs DEF Base, InFrames
<1>4. PICK n \in Named(Desc) : n \in Part
  BY <1>1, <1>2, <1>3, DescIs
<1>5. Desc \in ToSet(Descs(file[frame.name])) /\ GoodDesc(Desc)
  BY <1>1, <1>3, DescIs
<1>6. ~TreeMatches(Desc, file[n])
  <2> DEFINE ok == \E m \in Named(Desc) : TreeMatches(Desc, file[m])
  <2>1. Verdict(ok)
    BY DEF CompareTree
  <2>2. ~ok
    BY <2>1 DEF Verdict
  <2> QED
    BY <2>2
<1>7. CASE Desc \notin ToSet(Descs(file[n]))
  BY <1>2, <1>5, <1>7, Stranger
<1>8. CASE Desc \in ToSet(Descs(file[n]))
  <2> DEFINE f == file[n]
             d == Desc
             size == d.fixed.image_size
             data == Upto(f, 0, size)
  <2>1. IsPartition(f) /\ touched = {}
    BY <1>1, <1>4, FilesAtFirst
  <2>2. SelfMatch(d, f)
    BY <1>4, <1>8, <2>1, SelfIs
  <2>3. /\ Len(data) = size /\ d.var[3] = << VerityRoot(data) >>
        /\ OnDisk(d, f) = VerityTree(data) \/ (d.fixed.tree_size = 0 /\ OnDisk(d, f) = << >>)
    BY <1>2, <2>2 DEF SelfMatch
  <2>4. Hashed(gen, f)
    BY <1>1, <2>1 DEF Base, InTree
  <2>5. gen.root = VerityRoot(data) /\ gen.tree = VerityTree(data)
    BY <1>1, <1>2, <2>3, <2>4, HashedDone
  <2>6. IsSeq(f) /\ size \in Nat \ {0}
    <3>1. pc # "make" /\ n \in Part \cup {Top} /\ InFiles
      BY <1>1, <1>4 DEF Base
    <3>2. IsSeq(f)
      BY <3>1, FilesAreSeqs
    <3>3. size \in Nat \ {0}
      BY <1>2, <1>5 DEF GoodDesc
    <3> QED
      BY <3>2, <3>3
  <2>7. IsSeq(data) /\ Len(data) >= 1
    BY <2>3, <2>6, FromStart
  <2> DEFINE root == VerityRoot(data)
             tree == VerityTree(data)
  <2>8. IsSeq(tree) /\ Len(tree) = TreeSize(size)
    BY <2>3, <2>7, TreeSizeIs
  <2>9. gen.root = root /\ gen.tree = tree /\ d.var[3] = << root >>
        /\ (OnDisk(d, f) = tree \/ (d.fixed.tree_size = 0 /\ OnDisk(d, f) = << >>))
    BY <2>3, <2>5
  <2>10. ~TreeMatches(d, f)
    BY <1>6
  <2> HIDE DEF root, tree, data, d, f
  <2>11. d.var[3][1] = root
    BY <2>9, OneIs
  <2>12. OnDisk(d, f) # tree /\ d.fixed.tree_size = 0 /\ OnDisk(d, f) = << >> /\ ~args.accept_zeroed
    BY <2>9, <2>10, <2>11 DEF TreeMatches, IsZeroed
  <2>13. TreeSize(size) # 0
    BY <2>8, <2>12, EmptyIs
  <2>14. d.fixed.tree_size # TreeSize(d.fixed.image_size)
    BY <2>12, <2>13
  <2>15. d \in ToSet(Descs(file[frame.name])) /\ d.tag = HashtreeTag
    BY <1>2, <1>5 DEF d
  <2> QED
    BY <2>12, <2>14, <2>15 DEF Objection, FrameListed
<1> QED
  BY <1>7, <1>8

LEMMA RefusedChain ==
  ASSUME NEW r, Inputs, Base, InChain, changes = 0, FrameListed(r), RefuseChain
  PROVE  Objection(r)
<1>1. pc = "descriptors" /\ More /\ Desc.tag = ChainTag /\ HasPartitionName(Desc)
  BY DEF RefuseChain, HasPartitionName
<1>2. Desc \in ToSet(Descs(file[frame.name])) /\ Named(Desc) # {}
  BY <1>1, DescIs
<1>3. Desc \in ChainsOf(r.name)
  BY <1>1, <1>2 DEF ChainsOf, FrameListed
<1>4. ~ChainMatches(Desc) /\ ~(frame.follow /\ Expected(Desc) = {})
  BY <1>2 DEF RefuseChain
<1> DEFINE known == {e \in r.expected : Names(Desc, e.name)}
<1>5. known = Expected(Desc)
  BY DEF Expected, FrameListed
<1>6. CASE known = {}
  <2>1. ~r.follow
    BY <1>4, <1>5, <1>6 DEF FrameListed
  <2> QED
    BY <1>3, <1>6, <2>1 DEF Objection
<1>7. CASE known # {}
  <2>1. Desc \notin {ChainDescriptor(e.name, e.location, e.key) : e \in known}
    BY <1>4, <1>5 DEF ChainMatches
  <2> QED
    BY <1>3, <1>7, <2>1 DEF Objection
<1> QED
  BY <1>6, <1>7

InRefused == pc = "failed" /\ changes = 0 => \E r \in Frames : Objection(r)

LEMMA RefusedStep ==
  ASSUME Inputs, Base, InChain, InRefused, [Next]_vars
  PROVE  InRefused'
<1> SUFFICES ASSUME pc' = "failed", changes' = 0
             PROVE  \E r \in Frames' : Objection(r)'
  BY DEF InRefused
<1>1. CASE MakeVbmeta \/ Start
  BY <1>1 DEF MakeVbmeta, Start
<1>2. CASE BuildAnew \/ ZeroHashtree \/ Damage
  <2>1. \E n : \E f : IsChange(n, f)
    BY <1>2, ChangeIs DEF Base
  <2>2. changes' = changes + 1 /\ changes \in Nat
    BY <2>1 DEF IsChange, Become, Base, InFiles
  <2> QED
    BY <2>2
<1>3. CASE Verify
  <2>1. UNCHANGED << file, args, changes >> /\ Active
    <3>1. InFrames
      BY DEF Base
    <3> QED
      BY <1>3, <3>1, ChainStep DEF Verify, Open, PassOver, VerifyHash, VerifyHashtree, HashNextBlock, HashEmptyImage,
                  CompareTree, RefuseChain, Return, Active
  <2>2. changes = 0
    BY <2>1
  <2>3. PICK r : FrameListed(r)
    BY <2>1, <2>2, FrameIsListed
  <2>4. Objection(r)
    <3>1. CASE Open
      BY <2>1, <2>2, <2>3, <3>1, RefusedKey
    <3>2. CASE VerifyHash
      BY <2>2, <2>3, <3>2, RefusedHash
    <3>3. CASE CompareTree
      BY <2>2, <2>3, <3>3, RefusedTree
    <3>4. CASE RefuseChain
      BY <2>2, <2>3, <3>4, RefusedChain
    <3>5. CASE VerifyHashtree
      <4>1. pc = "descriptors" /\ More /\ HasPartitionName(Desc)
        BY <3>5 DEF VerifyHashtree, HasPartitionName
      <4>2. Named(Desc) # {}
        BY <2>2, <4>1, DescIs
      <4> QED
        BY <3>5, <4>2 DEF VerifyHashtree
    <3>6. CASE PassOver \/ HashNextBlock \/ HashEmptyImage \/ Return
      BY <3>6 DEF PassOver, Verdict, HashNextBlock, HashEmptyImage, Return
    <3>7. CASE VerifyChain
      <4>1. InFrames
        BY DEF Base
      <4> QED
        BY <3>7, <4>1, ChainStep DEF Followed1
    <3> QED
      BY <1>3, <3>1, <3>2, <3>3, <3>4, <3>5, <3>6, <3>7 DEF Verify
  <2>5. Frames' = Frames
    BY <2>1 DEF Frames, Followed, ChainsOf
  <2>6. Objection(r)' <=> Objection(r)
    BY <2>1 DEF Objection, ChainsOf, SignedBy
  <2> QED
    BY <2>3, <2>4, <2>5, <2>6 DEF FrameListed
<1>4. CASE UNCHANGED vars
  <2>1. UNCHANGED << file, args, changes, pc >>
    BY <1>4 DEF vars
  <2>2. PICK r \in Frames : Objection(r)
    BY <2>1 DEF InRefused
  <2>5. Frames' = Frames
    BY <2>1 DEF Frames, Followed, ChainsOf
  <2>6. Objection(r)' <=> Objection(r)
    BY <2>1 DEF Objection, ChainsOf, SignedBy
  <2> QED
    BY <2>2, <2>5, <2>6
<1> QED
  BY <1>1, <1>2, <1>3, <1>4 DEF Next

(* Images as the commands left them are only refused for a reason: the key *)
(* is another, a chain is not as expected, a tree was not kept, or a       *)
(* descriptor is not from the partition's own image                        *)
(* (avbtool.v1.2.py:2494-2590), whatever the partitions hold.              *)
THEOREM IntactImagesAreAccepted ==
  ASSUME Inputs
  PROVE  Spec => []RefusedForAReason
<1>1. Init => InChain /\ InRefused
  BY ChainStart DEF Init, InRefused
<1>2. Base /\ InChain /\ [Next]_vars => InChain'
  BY InChainStep
<1>3. Base /\ InChain /\ InRefused /\ [Next]_vars => InRefused'
  BY RefusedStep
<1>4. InRefused => RefusedForAReason
  BY DEF InRefused, RefusedForAReason
<1>5. Spec => []Base
  BY BaseHolds
<1> QED
  BY <1>1, <1>2, <1>3, <1>4, <1>5, PTL DEF Spec

-----------------------------------------------------------------------------
(* What has been seen of the files by the time the verdict is reached.     *)

MatchesWith(a, d, f) ==
  LET data == Upto(f, 0, d.fixed.image_size) IN
  IF d.tag = HashTag THEN d.var[3] \in {<< >>, HashDigest(d.var[2], data)}
  ELSE /\ d.var[3] = << VerityRoot(data) >>
       /\ \/ OnDisk(d, f) = VerityTree(data)
          \/ a.accept_zeroed /\ (OnDisk(d, f) = << >> \/ OnDisk(d, f)[1] = ZeroMark)

CheckedWith(a, f) ==
  /\ Parses(f)
  /\ SignatureVerifies(HeaderOf(f), BlobOf(f))
  /\ a.key = NoKey \/ KeyBlob(HeaderOf(f), BlobOf(f)) = << KeyCell(a.key) >>

LEMMA WithArgs ==
  /\ \A f : Checked(f) <=> CheckedWith(args, f)
  /\ \A d, f : Matches(d, f) <=> MatchesWith(args, d, f)
  BY DEF Checked, CheckedWith, Matches, MatchesWith

(* With the arguments a, the files f, and those of t changed: what the     *)
(* descriptor d says is true; the first k descriptors of n have been seen; *)
(* the images that its first k descriptors chain to have been, too.        *)
Holds(a, f, t, d) ==
  d.tag \in {HashTag, HashtreeTag} => \A m \in Named(d) : m \notin t => MatchesWith(a, d, f[m])

Seen(a, f, t, n, k) ==
  CheckedWith(a, f[n]) /\ \A i \in 1..k : Holds(a, f, t, Descs(f[n])[i])

AllSeen(a, f, t, n) == Seen(a, f, t, n, Len(Descs(f[n])))

ChainSeen(a, f, t, d) ==
  d.tag = ChainTag => \A m \in Named(d) : m \notin t => AllSeen(a, f, t, m)

FollowedTo(a, f, t, n, k) == \A i \in 1..k : ChainSeen(a, f, t, Descs(f[n])[i])

(* More files change.                                                      *)
SameFor(f, t, g, u) == \A m \in Part \cup {Top} : m \notin u => m \notin t /\ g[m] = f[m]

LEMMA HoldsStays ==
  ASSUME NEW a, NEW f, NEW t, NEW g, NEW u, NEW d, SameFor(f, t, g, u), Holds(a, f, t, d)
  PROVE  Holds(a, g, u, d)
<1>1. \A m \in Named(d) : m \in Part \cup {Top}
  BY NamedOne
<1> QED
  BY <1>1 DEF Holds, SameFor

LEMMA SeenStays ==
  ASSUME NEW a, NEW f, NEW t, NEW g, NEW u, NEW n, NEW k, SameFor(f, t, g, u),
         n \in Part \cup {Top}, n \notin u, Seen(a, f, t, n, k)
  PROVE  Seen(a, g, u, n, k)
<1>1. g[n] = f[n]
  BY DEF SameFor
<1> QED
  BY <1>1, HoldsStays DEF Seen

LEMMA FollowedStays ==
  ASSUME NEW a, NEW f, NEW t, NEW g, NEW u, NEW n, NEW k, SameFor(f, t, g, u),
         n \in Part \cup {Top}, n \notin u, FollowedTo(a, f, t, n, k)
  PROVE  FollowedTo(a, g, u, n, k)
<1>1. g[n] = f[n]
  BY DEF SameFor
<1>2. ASSUME NEW i \in 1..k
      PROVE  ChainSeen(a, g, u, Descs(g[n])[i])
  <2> DEFINE d == Descs(f[n])[i]
  <2>1. ChainSeen(a, f, t, d)
    BY DEF FollowedTo
  <2>2. \A m \in Named(d) : m \notin u => m \notin t /\ m \in Part \cup {Top} /\ g[m] = f[m]
    BY NamedOne DEF SameFor
  <2> HIDE DEF d
  <2>3. d.tag = ChainTag => \A m \in Named(d) : m \notin u => AllSeen(a, g, u, m)
    BY <2>1, <2>2, SeenStays DEF ChainSeen, AllSeen
  <2> QED
    BY <1>1, <2>3 DEF d, ChainSeen
<1> QED
  BY <1>2 DEF FollowedTo

(* One descriptor more.                                                    *)
LEMMA SeenMore ==
  ASSUME NEW a, NEW f, NEW t, NEW n, NEW at, NEW b, at \in Nat \ {0}, b = at + 1,
         Seen(a, f, t, n, at - 1), Holds(a, f, t, Descs(f[n])[at])
  PROVE  Seen(a, f, t, n, b - 1)
<1>1. \A i \in 1..(b - 1) : i \in 1..(at - 1) \/ i = at
  OBVIOUS
<1> QED
  BY <1>1 DEF Seen

LEMMA FollowedMore ==
  ASSUME NEW a, NEW f, NEW t, NEW n, NEW at, NEW b, at \in Nat, b = at + 1,
         FollowedTo(a, f, t, n, at - 1), ChainSeen(a, f, t, Descs(f[n])[at])
  PROVE  FollowedTo(a, f, t, n, b - 1)
<1>1. \A i \in 1..(b - 1) : i \in 1..(at - 1) \/ i = at
  OBVIOUS
<1> QED
  BY <1>1 DEF FollowedTo

LEMMA SeenFewer ==
  ASSUME NEW a, NEW f, NEW t, NEW n, NEW j, NEW k, j \in Nat, k \in Nat, j <= k
  PROVE  /\ Seen(a, f, t, n, k) => Seen(a, f, t, n, j)
         /\ FollowedTo(a, f, t, n, k) => FollowedTo(a, f, t, n, j)
<1>1. \A i \in 1..j : i \in 1..k
  OBVIOUS
<1> QED
  BY <1>1 DEF Seen, FollowedTo

InHistory ==
  /\ pc \in {"descriptors", "tree"} /\ frame.name \notin touched =>
       Seen(args, file, touched, frame.name, frame.at - 1)
  /\ pc \in {"descriptors", "tree"} /\ outer = << >> /\ args.follow /\ args.image \notin touched =>
       FollowedTo(args, file, touched, args.image, frame.at - 1)
  /\ Active /\ outer # << >> /\ args.image \notin touched =>
       /\ Seen(args, file, touched, args.image, outer[1].at - 1)
       /\ FollowedTo(args, file, touched, args.image, outer[1].at - 2)
  /\ pc = "ok" /\ args.image \notin touched =>
       /\ AllSeen(args, file, touched, args.image)
       /\ args.follow => FollowedTo(args, file, touched, args.image, Len(Descs(file[args.image])))

LEMMA HistoryChange ==
  ASSUME NEW n, NEW f, Inputs, InFiles, InFrames, InHistory, IsChange(n, f), pc \notin {"ok", "failed"}
  PROVE  InHistory'
<1>1. /\ UNCHANGED << args, frame, outer, pc >> /\ touched' = touched \cup {n}
      /\ file' = [file EXCEPT ![n] = f] /\ n \in Part \cup {Top}
  BY DEF IsChange, Become
<1>2. IsSet(file', file, n, f)
  BY <1>1, SetIs DEF InFiles
<1>3. SameFor(file, touched, file', touched')
  BY <1>1, <1>2 DEF IsSet, SameFor
<1>4. frame.name \in Part \cup {Top}
  BY DEF InFrames, IsFrame
<1>5. Active => args.image \in Part \cup {Top}
  BY DEF InFrames, Active, Inputs
<1>6. frame.name \notin touched' => frame.name \notin touched
  BY <1>1
<1>7. args.image \notin touched' => args.image \notin touched
  BY <1>1
<1>8. \A k : frame.name \notin touched' /\ Seen(args, file, touched, frame.name, k)
                => Seen(args, file', touched', frame.name, k)
  BY <1>3, <1>4, SeenStays
<1>9. Active => \A k : args.image \notin touched' /\ Seen(args, file, touched, args.image, k)
                          => Seen(args, file', touched', args.image, k)
  BY <1>3, <1>5, SeenStays
<1>10. Active => \A k : args.image \notin touched' /\ FollowedTo(args, file, touched, args.image, k)
                          => FollowedTo(args, file', touched', args.image, k)
  BY <1>3, <1>5, FollowedStays
<1>11. pc' = pc /\ args' = args /\ frame' = frame /\ outer' = outer
  BY <1>1
<1>12. pc' \in {"descriptors", "tree"} /\ frame'.name \notin touched' =>
         Seen(args', file', touched', frame'.name, frame'.at - 1)
  BY <1>6, <1>8, <1>11 DEF InHistory
<1>13. pc' \in {"descriptors", "tree"} /\ outer' = << >> /\ args'.follow /\ args'.image \notin touched' =>
         FollowedTo(args', file', touched', args'.image, frame'.at - 1)
  BY <1>7, <1>10, <1>11 DEF InHistory, Active
<1>14. pc' \in {"open", "descriptors", "tree"} /\ outer' # << >> /\ args'.image \notin touched' =>
         /\ Seen(args', file', touched', args'.image, outer'[1].at - 1)
         /\ FollowedTo(args', file', touched', args'.image, outer'[1].at - 2)
  BY <1>7, <1>9, <1>10, <1>11 DEF InHistory, Active
<1> QED
  BY <1>11, <1>12, <1>13, <1>14 DEF InHistory, Active

(* The descriptor is one of the file's.                                    *)
LEMMA DescOfFile ==
  ASSUME InChain, pc \in {"descriptors", "tree"}, frame.name \notin touched
  PROVE  /\ frame.descs = Descs(file[frame.name]) /\ Desc = Descs(file[frame.name])[frame.at]
  BY DEF InChain, Fresh, Desc

(* On to the next descriptor of an image.                                  *)
LEMMA HistoryAdvances ==
  ASSUME Base, InChain, InHistory, pc \in {"descriptors", "tree"}, UNCHANGED << file, args, outer, touched >>,
         Advanced(frame', frame), pc' = "descriptors",
         frame.name \notin touched => Holds(args, file, touched, Desc),
         Desc.tag # ChainTag \/ ~frame.follow
  PROVE  InHistory'
<1>1. frame'.name = frame.name /\ frame'.at = frame.at + 1 /\ frame.at \in Nat \ {0}
  BY DEF Advanced, Base, InFrames
<1>2. frame.name \notin touched => Seen(args, file, touched, frame.name, frame'.at - 1)
  BY <1>1, DescOfFile, SeenMore DEF InHistory
<1>3. ASSUME outer = << >>, args.follow, args.image \notin touched
      PROVE  FollowedTo(args, file, touched, args.image, frame'.at - 1)
  <2>1. frame.name = args.image /\ frame.follow = args.follow
    BY <1>3 DEF InChain, IsCommanded, Active
  <2>2. Desc = Descs(file[args.image])[frame.at]
    BY <1>3, <2>1, DescOfFile
  <2>3. ChainSeen(args, file, touched, Descs(file[args.image])[frame.at])
    BY <1>3, <2>1, <2>2 DEF ChainSeen
  <2>4. FollowedTo(args, file, touched, args.image, frame.at - 1)
    BY <1>3 DEF InHistory
  <2> QED
    BY <1>1, <2>3, <2>4, FollowedMore
<1>4. outer # << >> /\ args.image \notin touched =>
        /\ Seen(args, file, touched, args.image, outer[1].at - 1)
        /\ FollowedTo(args, file, touched, args.image, outer[1].at - 2)
  BY DEF InHistory, Active
<1>5. file' = file /\ args' = args /\ outer' = outer /\ touched' = touched
  OBVIOUS
<1> QED
  BY <1>1, <1>2, <1>3, <1>4, <1>5 DEF InHistory

(* Nothing is verified in this step, or it is refused.                     *)
LEMMA HistoryStays ==
  ASSUME InHistory, pc \in {"descriptors", "tree"}, UNCHANGED << file, args, outer, touched >>,
         pc' = "failed" \/ (frame' = frame /\ pc' \in {"descriptors", "tree"})
  PROVE  InHistory'
<1>1. CASE pc' = "failed"
  BY <1>1 DEF InHistory, Active
<1>2. CASE frame' = frame /\ pc' \in {"descriptors", "tree"}
  <2>1. pc' # "ok" /\ Active
    BY <1>2 DEF Active
  <2>2. file' = file /\ args' = args /\ outer' = outer /\ touched' = touched /\ frame' = frame
    BY <1>2
  <2> QED
    BY <1>2, <2>1, <2>2 DEF InHistory
<1> QED
  BY <1>1, <1>2

LEMMA HistoryOpens ==
  ASSUME Base, InChain, InHistory, Open
  PROVE  InHistory'
<1>1. UNCHANGED << file, args, outer, touched >> /\ Active /\ pc' \in {"descriptors", "failed"}
  BY DEF Open, Active
<1>2. Opened(frame', frame, Descs(file[frame.name]))
  BY OpenIs DEF Base
<1>3. frame'.name = frame.name /\ frame'.at - 1 = 0
  BY <1>2 DEF Opened
<1>4. pc' = "descriptors" => CheckedWith(args, file[frame.name])
  BY WithArgs DEF Open
<1>5. \A n : CheckedWith(args, file[n]) => Seen(args, file, touched, n, 0)
  BY DEF Seen
<1>6. \A n : FollowedTo(args, file, touched, n, 0)
  BY DEF FollowedTo
<1>7. outer # << >> /\ args.image \notin touched =>
        /\ Seen(args, file, touched, args.image, outer[1].at - 1)
        /\ FollowedTo(args, file, touched, args.image, outer[1].at - 2)
  BY <1>1 DEF InHistory
<1>8. file' = file /\ args' = args /\ outer' = outer /\ touched' = touched
  BY <1>1
<1>9. pc' = "descriptors" => Seen(args, file, touched, frame'.name, frame'.at - 1)
  BY <1>3, <1>4, <1>5
<1>10. FollowedTo(args, file, touched, args.image, frame'.at - 1)
  BY <1>3, <1>6
<1>11. CASE pc' = "failed"
  BY <1>11 DEF InHistory, Active
<1>12. CASE pc' = "descriptors"
  BY <1>7, <1>8, <1>9, <1>10, <1>12 DEF InHistory
<1> QED
  BY <1>1, <1>11, <1>12

(* The digest of a partition is the one that is described.                 *)
LEMMA HashHolds ==
  ASSUME InFrames, VerifyHash, pc' # "failed"
  PROVE  Holds(args, file, touched, Desc) /\ Advanced(frame', frame) /\ pc' = "descriptors"
<1> DEFINE ok == \E n \in Named(Desc) : HashMatches(Desc, file[n])
<1>1. Verdict(ok) /\ IsFrame(frame) /\ ok \in BOOLEAN /\ Desc.tag = HashTag
  BY DEF VerifyHash, InFrames
<1>2. ok
  BY <1>1, VerdictIs
<1>3. Advanced(frame', frame) /\ pc' = "descriptors"
  <2> HIDE DEF ok
  <2> QED
    BY <1>1, <1>2, VerdictIs
<1>4. PICK n \in Named(Desc) : HashMatches(Desc, file[n])
  BY <1>2
<1>5. Named(Desc) = {n}
  BY NamedOne
<1>6. MatchesWith(args, Desc, file[n])
  BY <1>1, <1>4 DEF HashMatches, MatchesWith
<1> QED
  BY <1>3, <1>5, <1>6 DEF Holds

(* The first cell that is read.                                            *)
LEMMA FirstIs ==
  ASSUME NEW disk, NEW x, IsSeq(disk), Upto(disk, 0, 1) = << x >>
  PROVE  disk[1] = x
<1>1. Len(disk) \in Nat
  BY DEF IsSeq
<1>2. Len(Upto(disk, 0, 1)) = 1 /\ Upto(disk, 0, 1)[1] = x /\ Len(<< >>) = 0
  BY OneIs, NoneIs
<1>3. Upto(disk, 0, 1) # << >>
  BY <1>2
<1>4. 0 < Len(disk)
  BY <1>1, <1>3, OneBlock
<1>5. Upto(disk, 0, 1)[1] = disk[0 + 1]
  BY <1>4, OneBlock
<1> QED
  BY <1>2, <1>5

LEMMA UptoIsSeq ==
  ASSUME NEW f, NEW from, NEW size, IsSeq(f), from \in Nat, size \in Nat
  PROVE  IsSeq(Upto(f, from, size))
<1>1. Len(f) \in Nat
  BY DEF IsSeq
<1>2. CASE from + size <= Len(f)
  BY <1>2, UptoIs DEF IsPart
<1>3. CASE from + size > Len(f)
  BY <1>3, UptoShort
<1> QED
  BY <1>1, <1>2, <1>3

(* What is in the file in the tree's place.                                *)
LEMMA ZeroedIs ==
  ASSUME NEW d, NEW f, IsTreeDesc(d), IsSeq(f), IsZeroed(d, OnDisk(d, f))
  PROVE  OnDisk(d, f) = << >> \/ OnDisk(d, f)[1] = ZeroMark
<1>1. d.fixed.tree_offset \in Nat /\ d.fixed.tree_size \in Nat
  BY DEF IsTreeDesc
<1>2. CASE d.fixed.tree_size = 0
  BY <1>1, <1>2, UptoNothing DEF OnDisk
<1>3. CASE Upto(OnDisk(d, f), 0, 1) = << ZeroMark >>
  <2>1. IsSeq(OnDisk(d, f))
    BY <1>1, UptoIsSeq DEF OnDisk
  <2> QED
    BY <1>3, <2>1, FirstIs
<1> QED
  BY <1>2, <1>3 DEF IsZeroed

(* The root and the tree of a partition are those that are described.      *)
LEMMA TreeHolds ==
  ASSUME Base, InChain, CompareTree, pc' # "failed", frame.name \notin touched
  PROVE  Holds(args, file, touched, Desc)
<1> DEFINE ok == \E n \in Named(Desc) : TreeMatches(Desc, file[n])
<1>1. /\ Verdict(ok) /\ IsFrame(frame) /\ ok \in BOOLEAN /\ pc = "tree" /\ TreeDone(gen)
  BY DEF CompareTree, Base, InFrames
<1>2. /\ Desc.tag = HashtreeTag /\ frame.at \in 1..Len(frame.descs) /\ gen.size = Desc.fixed.image_size
      /\ \A n \in Named(Desc) : n \notin touched => Hashed(gen, file[n])
  BY <1>1 DEF Base, InTree
<1>3. ok
  BY <1>1, VerdictIs
<1>4. PICK n \in Named(Desc) : TreeMatches(Desc, file[n])
  BY <1>3
<1>5. Named(Desc) = {n} /\ n \in Part \cup {Top}
  BY NamedOne
<1>6. IsTreeDesc(Desc)
  <2>1. LikeGood(frame.descs, frame.name)
    BY <1>1 DEF IsFrame
  <2> QED
    BY <1>2, <2>1, LikeGoodHas DEF Desc
<1>7. ASSUME n \notin touched
      PROVE  MatchesWith(args, Desc, file[n])
  <2> DEFINE f == file[n]
             d == Desc
             data == Upto(f, 0, d.fixed.image_size)
             root == VerityRoot(data)
             tree == VerityTree(data)
  <2>1. Hashed(gen, f) /\ gen.size = d.fixed.image_size
    BY <1>2, <1>7
  <2>2. /\ Len(data) = gen.size => gen.root = root /\ gen.tree = tree
        /\ Len(data) # gen.size => gen.root = Hash(<< >>)
    BY <1>1, <2>1, HashedDone
  <2>3. IsSeq(f)
    BY <1>1, <1>5, FilesAreSeqs DEF Base
  <2>4. d.tag = HashtreeTag /\ TreeMatches(d, f) /\ IsTreeDesc(d)
    BY <1>2, <1>4, <1>6
  <2> HIDE DEF d, f
  <2>5. d.var[3] = << d.var[3][1] >> /\ d.var[3][1] # Hash(<< >>)
    BY <2>4 DEF IsTreeDesc
  <2>6. d.var[3] # << >>
    BY <2>5, OneIs, NoneIs
  <2>7. gen.root = d.var[3][1]
    BY <2>4, <2>6 DEF TreeMatches
  <2>8. gen.root = root /\ gen.tree = tree
    <3> HIDE DEF root, tree, data
    <3> QED
      BY <2>2, <2>5, <2>7
  <2>9. d.var[3] = << root >>
    <3> HIDE DEF root
    <3> QED
      BY <2>5, <2>7, <2>8
  <2>10. OnDisk(d, f) = tree \/ (args.accept_zeroed /\ (OnDisk(d, f) = << >> \/ OnDisk(d, f)[1] = ZeroMark))
    <3> HIDE DEF tree
    <3> QED
      BY <2>3, <2>4, <2>8, ZeroedIs DEF TreeMatches
  <2>11. d.tag # HashTag
    BY <2>4 DEF HashTag, HashtreeTag
  <2>12. MatchesWith(args, d, f)
    BY <2>9, <2>10, <2>11 DEF MatchesWith
  <2> QED
    BY <2>12 DEF d, f
<1> QED
  BY <1>5, <1>7 DEF Holds

(* On to a chained partition.                                              *)
LEMMA HistoryFollows ==
  ASSUME NEW q, Base, InChain, InHistory, VerifyChain, frame.follow, Followed1(q)
  PROVE  InHistory'
<1>1. /\ pc = "descriptors" /\ Desc.tag = ChainTag /\ UNCHANGED << file, args, touched >> /\ Active
      /\ frame.at \in Nat \ {0}
  BY ChainStep DEF Base, Active, InFrames
<1>2. outer' # << >> /\ outer'[1] = q /\ q.at = frame.at + 1 /\ pc' = "open"
  BY Outer DEF Followed1, Advanced
<1>3. outer = << >>
  <2> SUFFICES ASSUME outer # << >>
               PROVE  FALSE
    OBVIOUS
  <2>1. IsFollowed(outer[1])
    BY <1>1 DEF InChain
  <2> QED
    BY <2>1 DEF IsFollowed
<1>4. frame.name = args.image /\ args.follow
  BY <1>1, <1>3 DEF InChain, IsCommanded
<1>5. ASSUME args.image \notin touched
      PROVE  /\ Seen(args, file, touched, args.image, q.at - 1)
             /\ FollowedTo(args, file, touched, args.image, q.at - 2)
  <2>1. Seen(args, file, touched, args.image, frame.at - 1)
    BY <1>1, <1>4, <1>5 DEF InHistory
  <2>2. FollowedTo(args, file, touched, args.image, frame.at - 1)
    BY <1>1, <1>3, <1>4, <1>5 DEF InHistory
  <2>3. Desc = Descs(file[args.image])[frame.at]
    BY <1>1, <1>4, <1>5, DescOfFile
  <2>4. Holds(args, file, touched, Descs(file[args.image])[frame.at])
    BY <1>1, <2>3 DEF Holds, ChainTag, HashTag, HashtreeTag
  <2>5. q.at - 2 = frame.at - 1
    BY <1>1, <1>2
  <2> QED
    BY <1>1, <1>2, <2>1, <2>2, <2>4, <2>5, SeenMore
<1>6. file' = file /\ args' = args /\ touched' = touched
  BY <1>1
<1> QED
  BY <1>2, <1>5, <1>6 DEF InHistory

(* All of an image has been seen.                                          *)
LEMMA AllOfImage ==
  ASSUME Base, InChain, InHistory, pc = "descriptors", ~More, frame.name \notin touched
  PROVE  /\ AllSeen(args, file, touched, frame.name)
         /\ Len(Descs(file[frame.name])) \in Nat /\ Len(Descs(file[frame.name])) <= frame.at - 1
<1>1. IsFrame(frame) /\ frame.at \in Nat \ {0}
  BY DEF Base, InFrames
<1>2. Len(frame.descs) \in Nat /\ Len(frame.descs) <= frame.at - 1 /\ frame.at - 1 \in Nat
  BY <1>1, MoreIs
<1>3. frame.descs = Descs(file[frame.name])
  BY DescOfFile
<1>4. Seen(args, file, touched, frame.name, frame.at - 1)
  BY DEF InHistory
<1> QED
  BY <1>2, <1>3, <1>4, SeenFewer DEF AllSeen

(* The end of the image that was given.                                    *)
LEMMA HistoryEnds ==
  ASSUME Base, InChain, InHistory, Return, outer = << >>
  PROVE  InHistory'
<1>1. pc = "descriptors" /\ ~More /\ pc' = "ok" /\ UNCHANGED << file, args, touched >> /\ Active
  BY DEF Return, Active
<1>2. frame.name = args.image /\ frame.at \in Nat \ {0}
  BY <1>1 DEF InChain, IsCommanded, Base, InFrames
<1>3. ASSUME args.image \notin touched
      PROVE  /\ AllSeen(args, file, touched, args.image)
             /\ args.follow => FollowedTo(args, file, touched, args.image, Len(Descs(file[args.image])))
  <2>1. /\ AllSeen(args, file, touched, args.image)
        /\ Len(Descs(file[args.image])) \in Nat /\ Len(Descs(file[args.image])) <= frame.at - 1
    BY <1>1, <1>2, <1>3, AllOfImage
  <2>2. args.follow => FollowedTo(args, file, touched, args.image, frame.at - 1)
    BY <1>1, <1>3 DEF InHistory
  <2>3. frame.at - 1 \in Nat
    BY <1>2
  <2> QED
    BY <2>1, <2>2, <2>3, SeenFewer
<1>4. file' = file /\ args' = args /\ touched' = touched
  BY <1>1
<1> QED
  BY <1>1, <1>3, <1>4 DEF InHistory, Active

(* Back from a chained partition.                                          *)
LEMMA HistoryReturns ==
  ASSUME Base, InChain, InHistory, Return, outer # << >>
  PROVE  InHistory'
<1> DEFINE o == outer[1]
<1>1. /\ pc = "descriptors" /\ ~More /\ UNCHANGED << file, args, touched >> /\ Active
      /\ pc' = "descriptors" /\ frame' = o /\ outer' = << >>
  BY DEF Return, Active
<1>2. IsCommanded(o) /\ IsFollowed(o) /\ Fresh(o) /\ o.at \in Nat \ {0}
  BY <1>1 DEF InChain, Base, InFrames
<1>3. o.name = args.image /\ frame.name \in Named(o.descs[o.at - 1])
  BY <1>2 DEF IsCommanded, IsFollowed
<1>4. args.image \notin touched =>
        /\ Seen(args, file, touched, args.image, o.at - 1)
        /\ FollowedTo(args, file, touched, args.image, o.at - 2)
  BY <1>1 DEF InHistory
<1>5. o.at - 1 \in Nat
  BY <1>2
<1> HIDE DEF o
<1>6. ASSUME args.image \notin touched
      PROVE  FollowedTo(args, file, touched, args.image, o.at - 1)
  <2> DEFINE d == o.descs[o.at - 1]
             at == o.at - 1
  <2>1. d = Descs(file[args.image])[at]
    BY <1>2, <1>3, <1>6 DEF Fresh
  <2>2. Named(d) = {frame.name}
    BY <1>3, NamedOne
  <2>3. frame.name \notin touched => AllSeen(args, file, touched, frame.name)
    BY <1>1, AllOfImage
  <2>4. ChainSeen(args, file, touched, d)
    BY <2>2, <2>3 DEF ChainSeen
  <2>5. at \in Nat /\ o.at = at + 1 /\ o.at - 2 = at - 1
    BY <1>2, <1>5
  <2> HIDE DEF d, at
  <2>6. FollowedTo(args, file, touched, args.image, at - 1)
    BY <1>4, <1>6, <2>5
  <2>7. ChainSeen(args, file, touched, Descs(file[args.image])[at])
    BY <2>1, <2>4
  <2> QED
    BY <2>5, <2>6, <2>7, FollowedMore
<1>7. file' = file /\ args' = args /\ touched' = touched
  BY <1>1
<1>8. frame'.name = args.image /\ frame'.at = o.at
  BY <1>1, <1>3
<1> QED
  BY <1>1, <1>4, <1>6, <1>7, <1>8 DEF InHistory

LEMMA HistoryVerify ==
  ASSUME Base, InChain, InHistory, Verify
  PROVE  InHistory'
<1>0. InFrames
  BY DEF Base
<1>1. CASE Open
  BY <1>1, HistoryOpens
<1>2. CASE PassOver
  <2>1. /\ pc = "descriptors" /\ UNCHANGED << args, outer, touched, file >>
        /\ Desc.tag \in {PropertyTag, CmdlineTag} /\ Verdict(TRUE) /\ IsFrame(frame)
    BY <1>0, <1>2 DEF PassOver, InFrames
  <2>2. Advanced(frame', frame) /\ pc' = "descriptors"
    BY <2>1, VerdictIs
  <2>3. Desc.tag # ChainTag /\ Holds(args, file, touched, Desc)
    BY <2>1 DEF Holds, PropertyTag, CmdlineTag, ChainTag, HashTag, HashtreeTag
  <2> QED
    BY <2>1, <2>2, <2>3, HistoryAdvances
<1>3. CASE VerifyHash
  <2>1. pc = "descriptors" /\ UNCHANGED << args, outer, touched, file >> /\ Desc.tag # ChainTag
    BY <1>3 DEF VerifyHash, HashTag, ChainTag
  <2>2. CASE pc' = "failed"
    BY <2>1, <2>2, HistoryStays
  <2>3. CASE pc' # "failed"
    <3>1. Holds(args, file, touched, Desc) /\ Advanced(frame', frame) /\ pc' = "descriptors"
      BY <1>0, <1>3, <2>3, HashHolds
    <3> QED
      BY <2>1, <3>1, HistoryAdvances
  <2> QED
    BY <2>2, <2>3
<1>4. CASE CompareTree
  <2>1. pc = "tree" /\ UNCHANGED << args, outer, touched, file >>
    BY <1>4 DEF CompareTree
  <2>2. Decided
    BY <1>0, <1>4, FramesDescriptor
  <2>3. CASE pc' = "failed"
    BY <2>1, <2>3, HistoryStays
  <2>4. CASE pc' # "failed"
    <3>1. frame.name \notin touched => Holds(args, file, touched, Desc)
      BY <1>4, <2>4, TreeHolds
    <3>2. Advanced(frame', frame) /\ pc' = "descriptors"
      BY <2>2, <2>4 DEF Decided
    <3>3. Desc.tag # ChainTag
      BY <2>1 DEF Base, InTree, HashtreeTag, ChainTag
    <3> QED
      BY <2>1, <3>1, <3>2, <3>3, HistoryAdvances
  <2> QED
    BY <2>3, <2>4
<1>5. CASE VerifyHashtree \/ HashNextBlock \/ HashEmptyImage \/ RefuseChain
  <2>1. /\ pc \in {"descriptors", "tree"} /\ UNCHANGED << args, outer, touched, file, frame >>
        /\ pc' \in {"failed", "tree"}
    BY <1>5 DEF VerifyHashtree, HashNextBlock, HashEmptyImage, RefuseChain
  <2> QED
    BY <2>1, HistoryStays
<1>6. CASE VerifyChain
  <2>1. CASE frame.follow
    <3>1. PICK q : Followed1(q)
      BY <1>0, <1>6, <2>1, ChainStep
    <3> QED
      BY <1>6, <2>1, <3>1, HistoryFollows
  <2>2. CASE ~frame.follow
    <3>1. /\ pc = "descriptors" /\ Desc.tag = ChainTag /\ UNCHANGED << file, args, outer, touched >>
          /\ Advanced(frame', frame) /\ pc' = "descriptors"
      BY <1>0, <1>6, <2>2, ChainStep
    <3>2. Holds(args, file, touched, Desc)
      BY <3>1 DEF Holds, ChainTag, HashTag, HashtreeTag
    <3> QED
      BY <2>2, <3>1, <3>2, HistoryAdvances
  <2> QED
    BY <2>1, <2>2
<1>7. CASE Return
  BY <1>7, HistoryEnds, HistoryReturns
<1> QED
  BY <1>1, <1>2, <1>3, <1>4, <1>5, <1>6, <1>7 DEF Verify

LEMMA InHistoryStep ==
  ASSUME Inputs, Base, InChain, InHistory, [Next]_vars
  PROVE  InHistory'
<1>1. CASE MakeVbmeta
  BY <1>1 DEF MakeVbmeta, InHistory, Active
<1>2. CASE BuildAnew \/ ZeroHashtree \/ Damage
  BY <1>2, ChangeIs, HistoryChange DEF Base
<1>3. CASE Start
  <2>1. pc' = "open" /\ outer' = << >>
    BY <1>3 DEF Start
  <2> QED
    BY <2>1 DEF InHistory
<1>4. CASE Verify
  BY <1>4, HistoryVerify
<1>5. CASE UNCHANGED vars
  <2>1. /\ file' = file /\ args' = args /\ frame' = frame /\ outer' = outer /\ touched' = touched
        /\ pc' = pc
    BY <1>5 DEF vars
  <2> QED
    BY <2>1 DEF InHistory, Active
<1> QED
  BY <1>1, <1>2, <1>3, <1>4, <1>5 DEF Next

(* What has been seen of an image is what is said of it at the end.        *)
LEMMA SeenIsTrue ==
  ASSUME NEW n, InFiles, pc = "ok", n \in Part \cup {Top}, AllSeen(args, file, touched, n)
  PROVE  /\ args.key = NoKey \/ SignedBy(n, args.key)
         /\ IsSigned(n) => Descs(file[n]) \in Issued(n)
         /\ \A d \in ToSet(Descs(file[n])) : \A m \in Named(d) \ touched :
              d.tag \in {HashTag, HashtreeTag} => Matches(d, file[m])
<1>1. Sound(file[n], Issued(n), n)
  BY DEF InFiles, AllSound
<1>2. CheckedWith(args, file[n])
  BY DEF AllSeen, Seen
<1>3. args.key = NoKey \/ SignedBy(n, args.key)
  BY <1>2 DEF CheckedWith, SignedBy
<1>4. IsSigned(n) => Descs(file[n]) \in Issued(n)
  BY <1>1, <1>2, SoundReads DEF CheckedWith, IsSigned
<1>5. IsSeq(Descs(file[n]))
  BY <1>1, SoundReads, LikeGoodIsSeq
<1>6. ASSUME NEW d \in ToSet(Descs(file[n]))
      PROVE  Holds(args, file, touched, d)
  <2>1. PICK i \in 1..Len(Descs(file[n])) : d = Descs(file[n])[i]
    BY <1>5, DomainIs DEF ToSet
  <2> QED
    BY <2>1 DEF AllSeen, Seen
<1>7. \A d \in ToSet(Descs(file[n])) : \A m \in Named(d) \ touched :
        d.tag \in {HashTag, HashtreeTag} => Matches(d, file[m])
  BY <1>6, WithArgs DEF Holds
<1> QED
  BY <1>3, <1>4, <1>7

(* The images that a command followed.                                     *)
LEMMA FollowedSeen ==
  ASSUME NEW n, Inputs, Base, InHistory, pc = "ok", n \in Followed, n \notin touched
  PROVE  n \in Part \cup {Top} /\ AllSeen(args, file, touched, n)
<1> DEFINE ds == Descs(file[args.image])
<1>1. PICK d \in ToSet(ds) : args.follow /\ d.tag = ChainTag /\ n \in Named(d)
  BY DEF Followed, ChainsOf
<1>2. args.image \in Part \cup {Top} /\ Top \notin touched
  BY DEF Base, InFrames, Inputs
<1>3. Sound(file[args.image], Issued(args.image), args.image)
  BY <1>2 DEF Base, InFiles, AllSound
<1>4. LikeGood(ds, args.image) /\ IsSeq(ds)
  BY <1>3, SoundReads, LikeGoodIsSeq
<1>5. PICK i \in 1..Len(ds) : d = ds[i]
  BY <1>1, <1>4, DomainIs DEF ToSet
<1>6. args.image \notin Part
  <2> HIDE DEF ds
  <2> QED
    BY <1>1, <1>4, <1>5, LikeGoodHas
<1>7. FollowedTo(args, file, touched, args.image, Len(ds))
  BY <1>1, <1>2, <1>6 DEF InHistory
<1>8. ChainSeen(args, file, touched, d)
  BY <1>5, <1>7 DEF FollowedTo
<1>9. n \in Part \cup {Top}
  BY <1>1, NamedOne
<1> QED
  BY <1>1, <1>8, <1>9 DEF ChainSeen

LEMMA HistoryIsTrue ==
  ASSUME Inputs, Base, InHistory
  PROVE  VerifiedIsTrue
<1> SUFFICES ASSUME pc = "ok", NEW n \in {r.name : r \in Frames} \ touched
             PROVE  /\ args.key = NoKey \/ SignedBy(n, args.key)
                    /\ IsSigned(n) => Descs(file[n]) \in Issued(n)
                    /\ \A d \in ToSet(Descs(file[n])) : \A m \in Named(d) \ touched :
                         d.tag \in {HashTag, HashtreeTag} => Matches(d, file[m])
  BY DEF VerifiedIsTrue
<1>1. n = args.image \/ n \in Followed
  BY DEF Frames, Frame
<1>2. n \in Part \cup {Top} /\ AllSeen(args, file, touched, n)
  <2>1. CASE n = args.image
    BY <2>1 DEF InHistory, Base, InFrames, Inputs
  <2>2. CASE n \in Followed
    BY <2>2, FollowedSeen
  <2> QED
    BY <1>1, <2>1, <2>2
<1>3. InFiles
  BY DEF Base
<1> QED
  BY <1>2, <1>3, SeenIsTrue

(* A command that succeeds has seen that, of the files nobody changed      *)
(* while it ran, the signed ones hold what was signed, by the key it was   *)
(* given, and the partitions hold what their descriptors describe          *)
(* (verify_image, avbtool.v1.2.py:2494-2590), however files are built and  *)
(* damaged in between.                                                     *)
THEOREM VerifiedImagesAreTrue ==
  ASSUME Inputs
  PROVE  Spec => []VerifiedIsTrue
<1>1. Init => InChain /\ InHistory
  BY ChainStart DEF Init, InHistory, Active
<1>2. Base /\ InChain /\ [Next]_vars => InChain'
  BY InChainStep
<1>3. Base /\ InChain /\ InHistory /\ [Next]_vars => InHistory'
  BY InHistoryStep
<1>4. Base /\ InHistory => VerifiedIsTrue
  BY HistoryIsTrue
<1>5. Spec => []Base
  BY BaseHolds
<1> QED
  BY <1>1, <1>2, <1>3, <1>4, <1>5, PTL DEF Spec
=============================================================================
