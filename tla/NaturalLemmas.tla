----------------------------- MODULE NaturalLemmas -----------------------------
(***************************************************************************)
(* Induction over the natural numbers, stated with sets and functions: the *)
(* theorems of NaturalsInduction take operators, which the provers cannot  *)
(* instantiate.                                                            *)
(***************************************************************************)
EXTENDS Integers, WellFoundedInduction, TLAPS

(* Every set of natural numbers that is not empty has a least element.     *)
LEMMA LeastElement ==
  ASSUME NEW T, T \subseteq Nat, T # {}
  PROVE  \E n \in T : \A m \in T : n <= m
<1>. DEFINE R == OpToRel(<, Nat)
<1>1. IsWellFoundedOn(R, Nat)
  BY NatLessThanWellFounded
<1>2. \E n \in T : \A m \in T : ~(<<m, n>> \in R)
  <2>. HIDE DEF R
  <2>. QED
    BY ONLY <1>1, T \subseteq Nat, T # {}, WFMin
<1>3. \A m, n \in Nat : m < n => <<m, n>> \in R
  BY Zenon DEF OpToRel
<1>4. PICK n \in T : \A m \in T : ~(m < n)
  <2>. HIDE DEF R
  <2>. QED
    BY <1>2, <1>3
<1>. QED
  BY <1>4

(* One that has an upper bound has a greatest element.                     *)
LEMMA GreatestElement ==
  ASSUME NEW T, T \subseteq Nat, T # {},
         NEW b \in Nat, \A m \in T : m <= b
  PROVE  \E n \in T : \A m \in T : m <= n
<1>. DEFINE Bounds == {n \in Nat : \A m \in T : m <= n}
<1>1. PICK n \in Bounds : \A m \in Bounds : n <= m
  <2>1. b \in Bounds
    OBVIOUS
  <2>. QED
    BY <2>1, LeastElement
<1>2. ASSUME n \notin T
      PROVE  FALSE
  <2>1. \A m \in T : m <= n - 1
    BY <1>2
  <2>2. n - 1 \in Nat
    <3>1. PICK m \in T : TRUE
      OBVIOUS
    <3>. QED
      BY <2>1, <3>1
  <2>. QED
    BY <1>1, <2>1, <2>2
<1>. QED
  BY <1>2

(* One that holds, with a number, all those before it is an initial        *)
(* segment.                                                                *)
LEMMA InitialSegment ==
  ASSUME NEW n \in Nat, NEW T \in SUBSET (1..n),
         \A k \in T : \A j \in 1..k : j \in T
  PROVE  \E m \in 0..n : T = 1..m
<1>1. CASE T = {}
  BY <1>1
<1>2. CASE T # {}
  <2>1. PICK m \in T : \A k \in T : k <= m
    <3>1. T \subseteq Nat /\ \A k \in T : k <= n
      OBVIOUS
    <3>. QED
      BY <1>2, <3>1, GreatestElement
  <2>2. m \in 1..n /\ T \subseteq 1..n
    OBVIOUS
  <2>3. T \subseteq 1..m
    BY <2>1, <2>2
  <2>4. 1..m \subseteq T
    OBVIOUS
  <2>5. T = 1..m
    BY <2>3, <2>4, Zenon
  <2>6. m \in 0..n
    BY <2>2
  <2>. QED
    BY <2>5, <2>6
<1>. QED
  BY <1>1, <1>2

(* What holds of 0 and, with a number, of the next one holds of them all.  *)
LEMMA Induction ==
  ASSUME NEW T, 0 \in T, \A n \in Nat : n \in T => n + 1 \in T
  PROVE  Nat \subseteq T
<1>. DEFINE Out == {n \in Nat : n \notin T}
<1>1. SUFFICES ASSUME Out # {} PROVE FALSE
  OBVIOUS
<1>2. PICK n \in Out : \A m \in Out : n <= m
  BY <1>1, LeastElement
<1>3. n # 0 /\ n - 1 \in Nat
  BY <1>2
<1>4. n - 1 \in T
  BY <1>2, <1>3
<1>5. (n - 1) + 1 \in T
  BY <1>3, <1>4
<1>. QED
  BY <1>3, <1>5

(* f has the value a at 0, and each further value is a step away.          *)
Defines(f, domain, S, a, step) ==
  /\ f \in [domain -> S]
  /\ f[0] = a
  /\ \A i \in domain : i # 0 => f[i] = step[<<f[i - 1], i>>]

(* There is such a function on 0..n.                                       *)
LEMMA Recursion ==
  ASSUME NEW S, NEW a \in S, NEW n \in Nat, NEW step \in [S \X (1..n) -> S]
  PROVE  \E f : Defines(f, 0..n, S, a, step)
<1>. DEFINE Up(f, m) == Defines(f, 0..m, S, a, step)
            T == {m \in Nat : m <= n => \E f : Up(f, m)}
<1>1. 0 \in T
  <2>1. Up([i \in 0..0 |-> a], 0)
    BY DEF Defines
  <2>. QED
    BY <2>1
<1>2. ASSUME NEW m \in Nat, m \in T
      PROVE  m + 1 \in T
  <2>. SUFFICES ASSUME m + 1 <= n
                PROVE  \E f : Up(f, m + 1)
    OBVIOUS
  <2>1. PICK f : Up(f, m)
    BY <1>2
  <2>. DEFINE g == [i \in 0..(m + 1) |->
                      IF i <= m THEN f[i] ELSE step[<<f[m], m + 1>>]]
  <2>2. f[m] \in S /\ m + 1 \in 1..n
    BY <2>1 DEF Defines
  <2>3. step[<<f[m], m + 1>>] \in S
    BY <2>2
  <2>4. g \in [0..(m + 1) -> S]
    BY <2>1, <2>3 DEF Defines
  <2>5. g[0] = a
    BY <2>1 DEF Defines
  <2>6. ASSUME NEW i \in 1..(m + 1)
        PROVE  g[i] = step[<<g[i - 1], i>>]
    <3>1. g[i - 1] = f[i - 1]
      OBVIOUS
    <3>2. CASE i <= m
      BY <2>1, <3>1, <3>2 DEF Defines
    <3>3. CASE i = m + 1
      BY <3>1, <3>3
    <3>. QED
      BY <3>2, <3>3
  <2>7. Up(g, m + 1)
    <3>. HIDE DEF g
    <3>. QED
      BY <2>4, <2>5, <2>6 DEF Defines
  <2>. QED
    BY <2>7
<1>3. n \in T
  <2>. HIDE DEF T
  <2>. QED
    BY <1>1, <1>2, Induction
<1>. QED
  BY <1>3

(* There is one on all natural numbers.                                    *)
LEMMA NatRecursion ==
  ASSUME NEW S, NEW a \in S, NEW step \in [S \X (Nat \ {0}) -> S]
  PROVE  \E f : Defines(f, Nat, S, a, step)
<1>. DEFINE Up(f, n) == Defines(f, 0..n, S, a, step)
            F == [n \in Nat |-> CHOOSE f : Up(f, n)]
            g == [n \in Nat |-> F[n][n]]
<1>1. ASSUME NEW n \in Nat
      PROVE  Up(F[n], n)
  <2>. DEFINE s == [x \in S \X (1..n) |-> step[x]]
  <2>1. s \in [S \X (1..n) -> S]
    OBVIOUS
  <2>2. PICK f : Defines(f, 0..n, S, a, s)
    <3>. HIDE DEF s
    <3>. QED
      BY <2>1, Recursion
  <2>3. Up(f, n)
    <3>1. \A i \in 1..n : f[i - 1] \in S
      BY <2>2 DEF Defines
    <3>2. \A i \in 1..n : s[<<f[i - 1], i>>] = step[<<f[i - 1], i>>]
      BY <3>1
    <3>. HIDE DEF s
    <3>. QED
      BY <2>2, <3>2 DEF Defines
  <2>. QED
    BY <2>3
<1>2. ASSUME NEW n \in Nat
      PROVE  F[n + 1][n] = F[n][n]
  <2>. DEFINE T == {i \in Nat : i <= n => F[n + 1][i] = F[n][i]}
  <2>. HIDE DEF F
  <2>1. 0 \in T
    BY <1>1 DEF Defines
  <2>2. ASSUME NEW i \in Nat, i \in T
        PROVE  i + 1 \in T
    <3>. SUFFICES ASSUME i + 1 <= n
                  PROVE  F[n + 1][i + 1] = F[n][i + 1]
      OBVIOUS
    <3>1. F[n + 1][i] = F[n][i]
      BY <2>2
    <3>2. i + 1 \in 1..n /\ i + 1 \in 1..(n + 1) /\ (i + 1) - 1 = i
      OBVIOUS
    <3>3. /\ F[n + 1][i + 1] = step[<<F[n + 1][(i + 1) - 1], i + 1>>]
          /\ F[n][i + 1] = step[<<F[n][(i + 1) - 1], i + 1>>]
      BY <1>1, <3>2 DEF Defines
    <3>. QED
      BY <3>1, <3>2, <3>3
  <2>3. n \in T
    <3>. HIDE DEF T
    <3>. QED
      BY <2>1, <2>2, Induction
  <2>. QED
    BY <2>3
<1>. HIDE DEF F
<1>3. g \in [Nat -> S] /\ g[0] = a
  BY <1>1 DEF Defines
<1>4. ASSUME NEW i \in Nat \ {0}
      PROVE  g[i] = step[<<g[i - 1], i>>]
  <2>1. i - 1 \in Nat /\ (i - 1) + 1 = i /\ i \in 1..i
    OBVIOUS
  <2>2. F[i][i] = step[<<F[i][i - 1], i>>]
    BY <1>1, <2>1 DEF Defines
  <2>3. F[i][i - 1] = F[i - 1][i - 1]
    BY <1>2, <2>1
  <2>. QED
    BY <2>1, <2>2, <2>3
<1>. QED
  BY <1>3, <1>4 DEF Defines
==============================================================================
