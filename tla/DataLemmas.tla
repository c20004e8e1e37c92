----------------------------- MODULE DataLemmas -----------------------------
(***************************************************************************)
(* Lemmas about finite sums, sequences, and functions on an interval or a  *)
(* table that the proofs of several components rest on.  Induction is on   *)
(* the set of numbers (SetInduction) or of cells (CellInduction) that have *)
(* a property, because the induction theorems of the library take an       *)
(* operator that no prover here can instantiate.                           *)
(***************************************************************************)
EXTENDS Integers, Sequences, FiniteSets, FiniteSetTheorems, WellFoundedInduction, TLAPS

(* A set of naturals has a least element: the intervals 0..k of its        *)
(* elements are finite sets, which strict inclusion orders well.           *)
LEMMA LeastElement ==
  ASSUME NEW T \in SUBSET Nat, T # {}
  PROVE  \E m \in T : \A k \in T : m <= k
<1> DEFINE U == {0..k : k \in T}
           R == StrictSubsetOrdering(Nat)
<1>1. \A k \in Nat : 0..k \in FiniteSubsetsOf(Nat)
  BY FS_Interval DEF FiniteSubsetsOf
<1>2. U \subseteq FiniteSubsetsOf(Nat) /\ U # {}
  BY <1>1
<1>3. IsWellFoundedOn(R, FiniteSubsetsOf(Nat))
  BY FS_StrictSubsetOrderingWellFounded
<1>4. \E x \in U : \A y \in U : ~ (<<y, x>> \in R)
  <2> HIDE DEF U, R
  <2> QED BY <1>2, <1>3, WFMin
<1>5. PICK m \in T : \A y \in U : ~ (<<y, 0..m>> \in R)
  BY <1>4
<1>6. ASSUME NEW k \in T PROVE m <= k
  <2>1. CASE k < m
    <3>1. 0..k \subseteq 0..m /\ m \in 0..m /\ m \notin 0..k
      BY <2>1
    <3>2. 0..k \in SUBSET Nat /\ 0..m \in SUBSET Nat /\ 0..k # 0..m
      BY <3>1
    <3>3. <<0..k, 0..m>> \in R
      BY <3>1, <3>2 DEF StrictSubsetOrdering
    <3> QED BY <1>5, <3>3
  <2> QED BY <2>1
<1> QED BY <1>6

(* Induction, on the set of the numbers that have the property.            *)
LEMMA SetInduction ==
  ASSUME NEW S, 0 \in S, \A k \in Nat : k \in S => k + 1 \in S
  PROVE  Nat \subseteq S
<1> SUFFICES ASSUME Nat \ S # {} PROVE FALSE
  OBVIOUS
<1>1. PICK m \in Nat \ S : \A k \in Nat \ S : m <= k
  BY LeastElement
<1>2. m # 0 /\ m - 1 \in Nat
  BY <1>1
<1>3. m - 1 \in S
  BY <1>1, <1>2
<1> QED BY <1>2, <1>3

(* A bounded nonempty set of naturals has a greatest element.              *)
LEMMA GreatestElement ==
  ASSUME NEW T \in SUBSET Nat, T # {}, NEW b \in Nat, \A k \in T : k <= b
  PROVE  \E m \in T : \A k \in T : k <= m
<1> DEFINE D == {j \in Nat : b - j \in T}
<1>1. D \in SUBSET Nat /\ D # {}
  <2>1. PICK k \in T : TRUE
    OBVIOUS
  <2>2. b - k \in D
    BY <2>1
  <2> QED BY <2>2
<1>2. PICK j \in D : \A i \in D : j <= i
  <2> HIDE DEF D
  <2> QED BY <1>1, LeastElement
<1>3. ASSUME NEW k \in T PROVE k <= b - j
  <2>1. b - k \in D
    OBVIOUS
  <2> QED BY <1>2, <2>1
<1> QED BY <1>2, <1>3

(* So has a finite one. *)
LEMMA FiniteGreatest ==
  ASSUME NEW T \in SUBSET Int, T # {}, IsFiniteSet(T)
  PROVE  \E m \in T : \A k \in T : k <= m
<1> DEFINE Above(k) == {x \in T : x > k}
           U == {Above(k) : k \in T}
           R == StrictSubsetOrdering(T)
<1>1. U \subseteq FiniteSubsetsOf(T) /\ U # {}
  <2>1. ASSUME NEW k \in T PROVE Above(k) \in FiniteSubsetsOf(T)
    <3>1. Above(k) \in SUBSET T
      OBVIOUS
    <3> HIDE DEF Above
    <3> QED BY <3>1, FS_Subset DEF FiniteSubsetsOf
  <2> HIDE DEF Above
  <2> QED BY <2>1
<1>2. IsWellFoundedOn(R, FiniteSubsetsOf(T))
  BY FS_StrictSubsetOrderingWellFounded
<1>3. \E x \in U : \A y \in U : ~ (<<y, x>> \in R)
  <2> HIDE DEF U, R
  <2> QED BY <1>1, <1>2, WFMin
<1>4. PICK m \in T : \A y \in U : ~ (<<y, Above(m)>> \in R)
  BY <1>3
<1>5. ASSUME NEW k \in T, k > m PROVE FALSE
  <2>1. Above(k) \subseteq Above(m) /\ k \in Above(m) /\ k \notin Above(k)
    <3>1. \A x \in T : x > k => x > m
      <4>1. k \in Int /\ m \in Int /\ \A x \in T : x \in Int
        OBVIOUS
      <4> QED BY <1>5, <4>1
    <3>2. ~(k > k)
      BY <1>5
    <3> QED BY <1>5, <3>1, <3>2
  <2>2. <<Above(k), Above(m)>> \in R
    <3>1. Above(k) \in SUBSET T /\ Above(m) \in SUBSET T
      OBVIOUS
    <3> HIDE DEF Above
    <3> QED BY <2>1, <3>1 DEF StrictSubsetOrdering
  <2> QED BY <1>4, <2>2
<1> QED BY <1>5

(* The values of a function on a finite set have a greatest one. *)
LEMMA GreatestValue ==
  ASSUME NEW S, S # {}, IsFiniteSet(S), NEW f \in [S -> Int]
  PROVE  \E x \in S : \A y \in S : f[y] <= f[x]
<1> DEFINE T == {f[x] : x \in S}
<1>1. f \in Surjection(S, T)
  BY DEF Surjection
<1>2. IsFiniteSet(T) /\ T \in SUBSET Int /\ T # {}
  <2>1. IsFiniteSet(T)
    <3> HIDE DEF T
    <3> QED BY <1>1, FS_Surjection
  <2> QED BY <2>1
<1>3. PICK m \in T : \A k \in T : k <= m
  <2> HIDE DEF T
  <2> QED BY <1>2, FiniteGreatest
<1> QED BY <1>3

(* A function on 0..N defined by recursion exists: step gives its value at *)
(* k from the value at k - 1.                                              *)
Recursive(f, N, T, first, step) ==
  /\ f \in [0..N -> T]
  /\ f[0] = first /\ \A k \in 1..N : f[k] = step[<<k, f[k-1]>>]

LEMMA RecursionExists ==
  ASSUME NEW N \in Nat, NEW T, NEW first \in T, NEW step \in [(1..N) \X T -> T]
  PROVE  \E f : Recursive(f, N, T, first, step)
<1> DEFINE Good(f, n) == f[0] = first /\ \A k \in 1..n : f[k] = step[<<k, f[k-1]>>]
           S == {n \in Nat : n <= N => \E f \in [0..n -> T] : Good(f, n)}
<1>1. 0 \in S
  <2>1. [k \in 0..0 |-> first] \in [0..0 -> T] /\ Good([k \in 0..0 |-> first], 0)
    OBVIOUS
  <2> QED BY <2>1
<1>2. ASSUME NEW n \in Nat, n \in S PROVE n + 1 \in S
  <2> SUFFICES ASSUME n + 1 <= N PROVE \E f \in [0..n+1 -> T] : Good(f, n+1)
    OBVIOUS
  <2>1. PICK f \in [0..n -> T] : Good(f, n)
    BY <1>2
  <2> DEFINE g == [k \in 0..n+1 |-> IF k = n + 1 THEN step[<<n+1, f[n]>>] ELSE f[k]]
  <2>2. step[<<n+1, f[n]>>] \in T
    BY <2>1
  <2>3. g \in [0..n+1 -> T]
    BY <2>1, <2>2
  <2>4. Good(g, n+1)
    <3>1. g[0] = first
      BY <2>1
    <3>2. ASSUME NEW k \in 1..n+1 PROVE g[k] = step[<<k, g[k-1]>>]
      <4>1. CASE k = n + 1
        <5>1. n \in 0..n+1 /\ n # n + 1 /\ n + 1 \in 0..n+1 /\ k - 1 = n
          BY <4>1
        <5>2. g[n+1] = step[<<n+1, f[n]>>] /\ g[n] = f[n]
          BY <5>1
        <5> QED BY <4>1, <5>1, <5>2
      <4>2. CASE k # n + 1
        <5>1. k \in 1..n /\ k - 1 \in 0..n+1 /\ k - 1 # n + 1 /\ k \in 0..n+1
          BY <4>2
        <5>2. g[k] = f[k] /\ g[k-1] = f[k-1]
          BY <5>1
        <5> QED BY <2>1, <5>1, <5>2
      <4> QED BY <4>1, <4>2
    <3> QED BY <3>1, <3>2
  <2> QED BY <2>3, <2>4
<1>3. N \in S
  <2> HIDE DEF S
  <2> QED BY <1>1, <1>2, SetInduction
<1> QED BY <1>3 DEF Recursive

-----------------------------------------------------------------------------
(* f[1] + ... + f[n], and the partial sums that make it.                   *)
SumTo(f, n) == LET sum[k \in 0..n] == IF k = 0 THEN 0 ELSE sum[k-1] + f[k] IN sum[n]

Terms(f, n) == \A k \in 1..n : f[k] \in Int
Adds(g, f, n) == g[0] = 0 /\ \A k \in 1..n : g[k] = g[k-1] + f[k]
DifferAt(f, h, d, x, n) == \A k \in 1..n : h[k] = IF k = d THEN f[k] + x ELSE f[k]
DifferFrom(g, e, d, x, n) == \A k \in 0..n : e[k] = IF d \in 1..k THEN g[k] + x ELSE g[k]

(* What a recursion defines stays in T if each step of it does.            *)
LEMMA StaysIn ==
  ASSUME NEW N \in Nat, NEW T, NEW f, f[0] \in T,
         \A k \in 1..N : f[k-1] \in T => f[k] \in T
  PROVE  \A k \in 0..N : f[k] \in T
<1> DEFINE S == {k \in Nat : k <= N => f[k] \in T}
<1>1. 0 \in S
  OBVIOUS
<1>2. ASSUME NEW k \in Nat, k \in S PROVE k + 1 \in S
  <2> SUFFICES ASSUME k + 1 <= N PROVE f[k+1] \in T
    OBVIOUS
  <2>1. k + 1 \in 1..N /\ (k + 1) - 1 = k /\ f[k] \in T
    BY <1>2
  <2> QED BY <2>1
<1>3. Nat \subseteq S
  <2> HIDE DEF S
  <2> QED BY <1>1, <1>2, SetInduction
<1> QED BY <1>3

LEMMA PartialSums ==
  ASSUME NEW n \in Nat, NEW f, Terms(f, n)
  PROVE  \E g \in [0..n -> Int] : Adds(g, f, n) /\ SumTo(f, n) = g[n]
<1> DEFINE step == [p \in (1..n) \X Int |-> p[2] + f[p[1]]]
           Rec(g) == [k \in 0..n |-> IF k = 0 THEN 0 ELSE g[k-1] + f[k]]
           sum == CHOOSE g : g = Rec(g)
<1> USE DEF Terms
<1>1. step \in [(1..n) \X Int -> Int] /\ 0 \in Int
  OBVIOUS
<1>2. PICK g : Recursive(g, n, Int, 0, step)
  <2> HIDE DEF step
  <2>1. PICK T : T = Int
    OBVIOUS
  <2>2. step \in [(1..n) \X T -> T] /\ 0 \in T
    BY <1>1, <2>1
  <2>3. \E g : Recursive(g, n, T, 0, step)
    BY <2>2, RecursionExists
  <2> QED BY <2>1, <2>3
<1>3. g \in [0..n -> Int] /\ g[0] = 0 /\ \A k \in 1..n : g[k] = step[<<k, g[k-1]>>]
  BY <1>2 DEF Recursive
<1>4. ASSUME NEW k \in 1..n PROVE g[k] = g[k-1] + f[k]
  <2>1. k - 1 \in 0..n /\ <<k, g[k-1]>> \in (1..n) \X Int
    BY <1>3
  <2> QED BY <1>3, <2>1
<1>5. g = Rec(g)
  BY <1>3, <1>4
<1>6. sum = Rec(sum)
  <2> HIDE DEF Rec
  <2> QED BY <1>5
<1>7. sum[0] = 0 /\ \A k \in 1..n : sum[k] = sum[k-1] + f[k]
  <2>1. \A k \in 0..n : sum[k] = IF k = 0 THEN 0 ELSE sum[k-1] + f[k]
    <3> HIDE DEF sum
    <3> QED BY <1>6
  <2> HIDE DEF sum
  <2> QED BY <2>1
<1>8. \A k \in 0..n : sum[k] \in Int
  <2> DEFINE S == {k \in Nat : k <= n => sum[k] \in Int}
  <2> HIDE DEF sum
  <2>1. 0 \in S /\ \A k \in Nat : k \in S => k + 1 \in S
    <3>1. 0 \in S
      BY <1>7
    <3>2. ASSUME NEW k \in Nat, k \in S, k + 1 <= n PROVE sum[k+1] \in Int
      <4>1. k + 1 \in 1..n /\ sum[k] \in Int /\ (k + 1) - 1 = k
        BY <3>2
      <4> QED BY <1>7, <4>1
    <3> QED BY <3>1, <3>2
  <2>2. Nat \subseteq S
    <3> HIDE DEF S
    <3> QED BY <2>1, SetInduction
  <2> QED BY <2>2
<1>9. sum \in [0..n -> Int]
  <2>1. sum = [k \in 0..n |-> sum[k]]
    <3>1. sum = [k \in 0..n |-> IF k = 0 THEN 0 ELSE sum[k-1] + f[k]]
      BY <1>6
    <3> HIDE DEF sum
    <3> QED BY <3>1
  <2> HIDE DEF sum
  <2> QED BY <1>8, <2>1
<1>10. SumTo(f, n) = sum[n]
  BY DEF SumTo
<1> HIDE DEF sum
<1> QED BY <1>7, <1>9, <1>10 DEF Adds

(* Two sums of the same terms are the same as far as both go, and sums     *)
(* whose terms differ at d only differ by as much from there on.           *)
LEMMA SumsDiffer ==
  ASSUME NEW n \in Nat, NEW m \in Nat, n <= m, NEW f, NEW h, NEW g \in [0..n -> Int],
         NEW e \in [0..m -> Int], Adds(g, f, n), Adds(e, h, m), NEW d, NEW x \in Int,
         Terms(f, n), DifferAt(f, h, d, x, n)
  PROVE  DifferFrom(g, e, d, x, n)
<1> DEFINE Holds(k) == e[k] = IF d \in 1..k THEN g[k] + x ELSE g[k]
           S == {k \in Nat : k <= n => Holds(k)}
<1>1. 0 \in S
  BY DEF Adds
<1>2. ASSUME NEW k \in Nat, k \in S, k + 1 <= n PROVE Holds(k+1)
  <2>1. k + 1 \in 1..n /\ k + 1 \in 1..m /\ (k + 1) - 1 = k /\ k \in 0..n /\ k \in 0..m
    BY <1>2
  <2>2. g[k+1] = g[k] + f[k+1] /\ e[k+1] = e[k] + h[k+1]
    BY <2>1 DEF Adds
  <2>3. g[k] \in Int /\ f[k+1] \in Int /\ e[k] = IF d \in 1..k THEN g[k] + x ELSE g[k]
    BY <1>2, <2>1 DEF Terms
  <2>4. h[k+1] = IF k + 1 = d THEN f[k+1] + x ELSE f[k+1]
    BY <2>1 DEF DifferAt
  <2>5. CASE d = k + 1
    <3>1. d \notin 1..k /\ d \in 1..(k+1)
      BY <2>5
    <3>2. e[k] = g[k] /\ h[k+1] = f[k+1] + x
      BY <2>3, <2>4, <2>5, <3>1
    <3>3. e[k+1] = g[k+1] + x
      BY <2>2, <2>3, <3>2
    <3> QED BY <3>1, <3>3
  <2>6. CASE d # k + 1
    <3>1. d \in 1..k <=> d \in 1..(k+1)
      BY <2>6
    <3>2. h[k+1] = f[k+1] /\ e[k+1] = e[k] + f[k+1]
      BY <2>2, <2>4, <2>6
    <3>3. CASE d \in 1..k
      <4>1. e[k] = g[k] + x
        BY <2>3, <3>3
      <4>2. PICK u \in Int, v \in Int : u = g[k] /\ v = f[k+1]
        BY <2>3
      <4>3. e[k+1] = (u + x) + v /\ g[k+1] = u + v
        BY <2>2, <3>2, <4>1, <4>2
      <4>4. e[k+1] = g[k+1] + x
        BY <4>3
      <4> QED BY <3>1, <3>3, <4>4
    <3>4. CASE d \notin 1..k
      BY <2>2, <2>3, <3>1, <3>2, <3>4
    <3> QED BY <3>3, <3>4
  <2> QED BY <2>5, <2>6
<1>3. Nat \subseteq S
  <2> HIDE DEF Holds
  <2>1. \A k \in Nat : k \in S => k + 1 \in S
    BY <1>2
  <2> HIDE DEF S
  <2> QED BY <1>1, <2>1, SetInduction
<1> QED BY <1>3 DEF DifferFrom

LEMMA SumToType ==
  ASSUME NEW n \in Nat, NEW f, Terms(f, n)
  PROVE  SumTo(f, n) \in Int
<1>1. PICK g \in [0..n -> Int] : SumTo(f, n) = g[n]
  BY PartialSums
<1> QED BY <1>1

LEMMA SumToZero ==
  ASSUME NEW f
  PROVE  SumTo(f, 0) = 0
<1>1. PICK z \in Nat : z = 0
  OBVIOUS
<1>2. Terms(f, z)
  BY <1>1 DEF Terms
<1>3. PICK g \in [0..z -> Int] : Adds(g, f, z) /\ SumTo(f, z) = g[z]
  BY <1>2, PartialSums
<1> QED BY <1>1, <1>3 DEF Adds

LEMMA SumToStep ==
  ASSUME NEW n \in Nat, NEW f, Terms(f, n + 1)
  PROVE  SumTo(f, n + 1) = SumTo(f, n) + f[n + 1]
<1>1. PICK m \in Nat : m = n + 1
  OBVIOUS
<1>2. PICK x \in Int : x = 0
  OBVIOUS
<1>3. Terms(f, m) /\ Terms(f, n) /\ n <= m
  BY <1>1 DEF Terms
<1>4. PICK g \in [0..n -> Int] : Adds(g, f, n) /\ SumTo(f, n) = g[n]
  BY <1>3, PartialSums
<1>5. PICK e \in [0..m -> Int] : Adds(e, f, m) /\ SumTo(f, m) = e[m]
  BY <1>3, PartialSums
<1>6. DifferAt(f, f, x, x, n)
  BY <1>2, <1>3 DEF Terms, DifferAt
<1>7. DifferFrom(g, e, x, x, n)
  BY <1>3, <1>4, <1>5, <1>6, SumsDiffer
<1>8. e[n] = g[n]
  BY <1>2, <1>7 DEF DifferFrom
<1>9. e[m] = e[n] + f[m]
  BY <1>1, <1>5 DEF Adds
<1> QED BY <1>1, <1>4, <1>5, <1>8, <1>9

LEMMA SumToChange ==
  ASSUME NEW n \in Nat, NEW f, NEW h, NEW d \in 1..n, NEW x \in Int, Terms(f, n),
         DifferAt(f, h, d, x, n)
  PROVE  SumTo(h, n) = SumTo(f, n) + x
<1>1. Terms(h, n) /\ n <= n
  BY DEF Terms, DifferAt
<1>2. PICK g \in [0..n -> Int] : Adds(g, f, n) /\ SumTo(f, n) = g[n]
  BY PartialSums
<1>3. PICK e \in [0..n -> Int] : Adds(e, h, n) /\ SumTo(h, n) = e[n]
  BY <1>1, PartialSums
<1>4. DifferFrom(g, e, d, x, n)
  BY <1>1, <1>2, <1>3, SumsDiffer
<1> QED BY <1>2, <1>3, <1>4 DEF DifferFrom

LEMMA SumToSame ==
  ASSUME NEW n \in Nat, NEW f, NEW h, Terms(f, n), \A k \in 1..n : h[k] = f[k]
  PROVE  SumTo(h, n) = SumTo(f, n)
<1>1. PICK x \in Int : x = 0
  OBVIOUS
<1>2. Terms(h, n) /\ n <= n
  BY DEF Terms
<1>3. PICK g \in [0..n -> Int] : Adds(g, f, n) /\ SumTo(f, n) = g[n]
  BY PartialSums
<1>4. PICK e \in [0..n -> Int] : Adds(e, h, n) /\ SumTo(h, n) = e[n]
  BY <1>2, PartialSums
<1>5. DifferAt(f, h, x, x, n)
  BY <1>1 DEF Terms, DifferAt
<1>6. DifferFrom(g, e, x, x, n)
  BY <1>2, <1>3, <1>4, <1>5, SumsDiffer
<1> QED BY <1>1, <1>3, <1>4, <1>6 DEF DifferFrom

LEMMA SumToNat ==
  ASSUME NEW n \in Nat, NEW f, \A k \in 1..n : f[k] \in Nat
  PROVE  SumTo(f, n) \in Nat
<1>1. Terms(f, n)
  BY DEF Terms
<1>2. PICK g \in [0..n -> Int] : Adds(g, f, n) /\ SumTo(f, n) = g[n]
  BY <1>1, PartialSums
<1> DEFINE S == {k \in Nat : k <= n => g[k] \in Nat}
<1>3. 0 \in S /\ \A k \in Nat : k \in S => k + 1 \in S
  <2>1. ASSUME NEW k \in Nat, k \in S, k + 1 <= n PROVE g[k+1] \in Nat
    <3>1. k + 1 \in 1..n /\ (k + 1) - 1 = k /\ g[k] \in Nat
      BY <2>1
    <3> QED BY <1>2, <3>1 DEF Adds
  <2> QED BY <1>2, <2>1 DEF Adds
<1>4. Nat \subseteq S
  <2> HIDE DEF S
  <2> QED BY <1>3, SetInduction
<1> QED BY <1>2, <1>4

LEMMA SumToNothing ==
  ASSUME NEW n \in Nat, NEW f, \A k \in 1..n : f[k] = 0
  PROVE  SumTo(f, n) = 0
<1>1. Terms(f, n)
  BY DEF Terms
<1>2. PICK g \in [0..n -> Int] : Adds(g, f, n) /\ SumTo(f, n) = g[n]
  BY <1>1, PartialSums
<1> DEFINE S == {k \in Nat : k <= n => g[k] = 0}
<1>3. 0 \in S /\ \A k \in Nat : k \in S => k + 1 \in S
  <2>1. ASSUME NEW k \in Nat, k \in S, k + 1 <= n PROVE g[k+1] = 0
    <3>1. k + 1 \in 1..n /\ (k + 1) - 1 = k /\ g[k] = 0
      BY <2>1
    <3> QED BY <1>2, <3>1 DEF Adds
  <2> QED BY <1>2, <2>1 DEF Adds
<1>4. Nat \subseteq S
  <2> HIDE DEF S
  <2> QED BY <1>3, SetInduction
<1> QED BY <1>2, <1>4

-----------------------------------------------------------------------------
LEMMA SeqElement ==
  ASSUME NEW S, NEW s \in Seq(S), NEW k \in 1..Len(s)
  PROVE  k \in DOMAIN s /\ s[k] \in S
OBVIOUS

LEMMA AppendSeq ==
  ASSUME NEW S, NEW s \in Seq(S), NEW e \in S
  PROVE  /\ Append(s, e) \in Seq(S) /\ Len(Append(s, e)) = Len(s) + 1
         /\ DOMAIN Append(s, e) = 1..(Len(s) + 1) /\ DOMAIN s = 1..Len(s) /\ Len(s) \in Nat
         /\ \A i \in DOMAIN s : i \in DOMAIN Append(s, e) /\ Append(s, e)[i] = s[i]
         /\ Append(s, e)[Len(s) + 1] = e
OBVIOUS

LEMMA PrependSeq ==
  ASSUME NEW S, NEW s \in Seq(S), NEW e \in S, NEW t, t = <<e>> \o s
  PROVE  /\ t \in Seq(S) /\ Len(t) = Len(s) + 1 /\ Len(s) \in Nat
         /\ DOMAIN t = 1..(Len(s) + 1) /\ DOMAIN s = 1..Len(s) /\ t[1] = e
         /\ \A i \in DOMAIN s : i + 1 \in DOMAIN t /\ t[i + 1] = s[i]
<1>1. <<e>> \in Seq(S) /\ Len(<<e>>) = 1 /\ <<e>>[1] = e
  OBVIOUS
<1>2. t \in Seq(S) /\ Len(t) = Len(s) + 1 /\ Len(s) \in Nat
  BY <1>1
<1>3. DOMAIN t = 1..(Len(s) + 1) /\ DOMAIN s = 1..Len(s)
  BY <1>2
<1>4. t[1] = e
  BY <1>1
<1>5. \A i \in DOMAIN s : i + 1 \in DOMAIN t /\ t[i + 1] = s[i]
  BY <1>1, <1>2, <1>3
<1> QED BY <1>2, <1>3, <1>4, <1>5

RestOf(t, s, d) ==
  /\ Len(t) = Len(s) - d /\ Len(s) \in Nat
  /\ DOMAIN t = 1..(Len(s) - d) /\ DOMAIN s = 1..Len(s)
  /\ \A i \in DOMAIN t : d + i \in DOMAIN s /\ t[i] = s[d + i]

LEMMA RestOfSeq ==
  ASSUME NEW S, NEW s \in Seq(S), NEW d \in 0..Len(s), NEW c, c = d + 1,
         NEW t, t = SubSeq(s, c, Len(s))
  PROVE  t \in Seq(S) /\ RestOf(t, s, d)
<1>1. Len(s) \in Nat /\ DOMAIN s = 1..Len(s) /\ d \in Nat /\ Len(s) - d \in Nat
  OBVIOUS
<1>2. PICK m \in Nat : m = Len(s) - d
  BY <1>1
<1>3. t = [i \in 1..m |-> s[d + i]]
  BY <1>1, <1>2
<1>4. \A i \in 1..m : d + i \in DOMAIN s /\ s[d + i] \in S
  BY <1>1, <1>2
<1>5. t \in [1..m -> S] /\ DOMAIN t = 1..m
  BY <1>3, <1>4
<1>6. t \in Seq(S) /\ Len(t) = m
  BY <1>2, <1>5
<1> QED BY <1>1, <1>2, <1>3, <1>4, <1>5, <1>6 DEF RestOf

(* How often a value occurs in a sequence.                                 *)
Occurs(s, x) == Cardinality({k \in DOMAIN s : s[k] = x})

LEMMA OccursIsFinite ==
  ASSUME NEW S, NEW s \in Seq(S), NEW x
  PROVE  IsFiniteSet({k \in DOMAIN s : s[k] = x}) /\ Occurs(s, x) \in Nat
<1>1. IsFiniteSet(DOMAIN s)
  BY FS_Interval
<1>2. {k \in DOMAIN s : s[k] = x} \in SUBSET DOMAIN s
  OBVIOUS
<1> HIDE DEF Occurs
<1>3. IsFiniteSet({k \in DOMAIN s : s[k] = x})
  BY <1>1, <1>2, FS_Subset
<1> QED BY <1>3, FS_CardinalityType DEF Occurs

LEMMA OccursInEmpty ==
  ASSUME NEW x
  PROVE  Occurs(<<>>, x) = 0
<1>1. {k \in DOMAIN <<>> : <<>>[k] = x} = {}
  OBVIOUS
<1> QED BY <1>1, FS_EmptySet DEF Occurs

LEMMA OccursInOne ==
  ASSUME NEW x, NEW y
  PROVE  Occurs(<<y>>, x) = IF y = x THEN 1 ELSE 0
<1>1. CASE y = x
  <2>1. {k \in DOMAIN <<y>> : <<y>>[k] = x} = {1}
    BY <1>1
  <2> QED BY <1>1, <2>1, FS_Singleton DEF Occurs
<1>2. CASE y # x
  <2>1. {k \in DOMAIN <<y>> : <<y>>[k] = x} = {}
    BY <1>2
  <2> QED BY <1>2, <2>1, FS_EmptySet DEF Occurs
<1> QED BY <1>1, <1>2

LEMMA OccursInConcat ==
  ASSUME NEW S, NEW s \in Seq(S), NEW t \in Seq(S), NEW x
  PROVE  Occurs(s \o t, x) = Occurs(s, x) + Occurs(t, x)
<1> DEFINE A == {k \in DOMAIN s : s[k] = x}
           B == {k \in DOMAIN t : t[k] = x}
           C == {Len(s) + k : k \in B}
           f == [k \in B |-> Len(s) + k]
<1>1. IsFiniteSet(A) /\ IsFiniteSet(B) /\ Cardinality(A) \in Nat /\ Cardinality(B) \in Nat
  BY OccursIsFinite DEF Occurs
<1>2. IsFiniteSet(C) /\ Cardinality(C) = Cardinality(B)
  <2>1. f \in Bijection(B, C)
    BY DEF Bijection, Injection, Surjection, IsInjective
  <2>2. ExistsBijection(B, C)
    BY <2>1 DEF ExistsBijection
  <2> HIDE DEF B, C, f
  <2> QED BY <1>1, <2>2, FS_Bijection
<1>3. {k \in DOMAIN (s \o t) : (s \o t)[k] = x} = A \cup C
  <2>1. ASSUME NEW k \in DOMAIN (s \o t), (s \o t)[k] = x PROVE k \in A \cup C
    <3>1. CASE k <= Len(s)
      BY <2>1, <3>1
    <3>2. CASE k > Len(s)
      <4>1. k - Len(s) \in B /\ k = Len(s) + (k - Len(s))
        BY <2>1, <3>2
      <4> QED BY <4>1
    <3> QED BY <3>1, <3>2
  <2>2. ASSUME NEW k \in A PROVE k \in DOMAIN (s \o t) /\ (s \o t)[k] = x
    OBVIOUS
  <2>3. ASSUME NEW k \in C PROVE k \in DOMAIN (s \o t) /\ (s \o t)[k] = x
    OBVIOUS
  <2> QED BY <2>1, <2>2, <2>3
<1>4. A \cap C = {}
  OBVIOUS
<1>5. Cardinality(A \cup C) = Cardinality(A) + Cardinality(C)
  <2> HIDE DEF A, B, C
  <2>1. Cardinality(A \cap C) = 0
    BY <1>4, FS_EmptySet
  <2>2. Cardinality(A \cup C) = Cardinality(A) + Cardinality(C) - Cardinality(A \cap C)
    BY <1>1, <1>2, FS_Union
  <2> QED BY <1>1, <1>2, <2>1, <2>2
<1> QED BY <1>2, <1>3, <1>5 DEF Occurs

LEMMA OccursInTail ==
  ASSUME NEW S, NEW s \in Seq(S), s # <<>>, NEW x
  PROVE  Occurs(s, x) = (IF Head(s) = x THEN 1 ELSE 0) + Occurs(Tail(s), x)
<1>1. s = <<Head(s)>> \o Tail(s) /\ <<Head(s)>> \in Seq(S) /\ Tail(s) \in Seq(S)
  OBVIOUS
<1>2. Occurs(<<Head(s)>>, x) = IF Head(s) = x THEN 1 ELSE 0
  BY OccursInOne
<1>3. Occurs(<<Head(s)>> \o Tail(s), x) = Occurs(<<Head(s)>>, x) + Occurs(Tail(s), x)
  BY <1>1, OccursInConcat
<1> QED BY <1>1, <1>2, <1>3

-----------------------------------------------------------------------------
(* Induction over the cells of a table, by their sum. *)
LEMMA CellInduction ==
  ASSUME NEW m \in Nat, NEW n \in Nat, NEW S,
         \A i \in 0..m, j \in 0..n :
           (\A k \in 0..m, l \in 0..n : k + l < i + j => <<k, l>> \in S) => <<i, j>> \in S
  PROVE  \A i \in 0..m, j \in 0..n : <<i, j>> \in S
<1> DEFINE T == {s \in Nat : \E i \in 0..m, j \in 0..n : s = i + j /\ <<i, j>> \notin S}
<1> SUFFICES ASSUME NEW i \in 0..m, NEW j \in 0..n, <<i, j>> \notin S PROVE FALSE
  OBVIOUS
<1>1. T \in SUBSET Nat /\ i + j \in T
  <2>1. i + j \in Nat
    OBVIOUS
  <2> QED BY <2>1
<1>2. PICK s \in T : \A t \in T : s <= t
  <2> HIDE DEF T
  <2> QED BY <1>1, LeastElement
<1>3. PICK a \in 0..m, b \in 0..n : s = a + b /\ <<a, b>> \notin S
  BY <1>2
<1>4. ASSUME NEW k \in 0..m, NEW l \in 0..n, k + l < a + b PROVE <<k, l>> \in S
  <2>1. CASE <<k, l>> \notin S
    <3>0. k + l \in Nat
      OBVIOUS
    <3>1. k + l \in T
      BY <2>1, <3>0
    <3>2. s <= k + l
      BY <1>2, <3>1
    <3> QED BY <1>3, <1>4, <3>2
  <2> QED BY <2>1
<1>5. (\A k \in 0..m, l \in 0..n : k + l < a + b => <<k, l>> \in S) => <<a, b>> \in S
  BY ZenonT(20)
<1> QED BY <1>3, <1>4, <1>5

(* A cell that a table does not have counts as the value at its border. *)
CellAt(t, m, n, edge, i, j) == IF i \in 0..m /\ j \in 0..n THEN t[<<i, j>>] ELSE edge

(* Each cell is what rule makes of the three cells before it. *)
CellFollows(t, m, n, edge, rule, i, j) ==
  t[<<i, j>>] = rule[<<i, j, CellAt(t, m, n, edge, i-1, j-1),
                       CellAt(t, m, n, edge, i-1, j), CellAt(t, m, n, edge, i, j-1)>>]

LEMMA TableExists ==
  ASSUME NEW m \in Nat, NEW n \in Nat, NEW V, NEW edge \in V,
         NEW rule \in [(0..m) \X (0..n) \X V \X V \X V -> V]
  PROVE  \E t \in [(0..m) \X (0..n) -> V] :
           \A i \in 0..m, j \in 0..n : CellFollows(t, m, n, edge, rule, i, j)
<1> DEFINE D == (0..m) \X (0..n)
           Value(t, i, j) == rule[<<i, j, CellAt(t, m, n, edge, i-1, j-1),
                                    CellAt(t, m, n, edge, i-1, j),
                                    CellAt(t, m, n, edge, i, j-1)>>]
           Good(t, s) == \A i \in 0..m, j \in 0..n : i + j < s => t[<<i, j>>] = Value(t, i, j)
           S == {s \in Nat : \E t \in [D -> V] : Good(t, s)}
<1>1. ASSUME NEW t \in [D -> V], NEW i, NEW j PROVE CellAt(t, m, n, edge, i, j) \in V
  BY DEF CellAt
<1>2. ASSUME NEW t \in [D -> V], NEW i \in 0..m, NEW j \in 0..n PROVE Value(t, i, j) \in V
  <2>1. CellAt(t, m, n, edge, i-1, j-1) \in V /\ CellAt(t, m, n, edge, i-1, j) \in V
        /\ CellAt(t, m, n, edge, i, j-1) \in V
    BY <1>1
  <2> QED BY <2>1
<1>3. 0 \in S
  <2>1. [c \in D |-> edge] \in [D -> V]
    OBVIOUS
  <2>2. Good([c \in D |-> edge], 0)
    <3>1. \A i \in 0..m, j \in 0..n : ~(i + j < 0)
      OBVIOUS
    <3> QED BY <3>1
  <2> HIDE DEF Good
  <2> QED BY <2>1, <2>2
<1>4. ASSUME NEW s \in Nat, s \in S PROVE s + 1 \in S
  <2>1. PICK t \in [D -> V] : Good(t, s)
    BY <1>4
  <2> DEFINE u == [c \in D |-> IF c[1] + c[2] = s THEN Value(t, c[1], c[2]) ELSE t[c]]
  <2>2. ASSUME NEW i \in 0..m, NEW j \in 0..n
        PROVE  u[<<i, j>>] = IF i + j = s THEN Value(t, i, j) ELSE t[<<i, j>>]
    <3>1. <<i, j>> \in D /\ <<i, j>>[1] = i /\ <<i, j>>[2] = j
      OBVIOUS
    <3> HIDE DEF Value
    <3> QED BY <3>1
  <2>3. u \in [D -> V]
    <3>1. ASSUME NEW c \in D
          PROVE  (IF c[1] + c[2] = s THEN Value(t, c[1], c[2]) ELSE t[c]) \in V
      <4>1. c[1] \in 0..m /\ c[2] \in 0..n /\ t[c] \in V
        OBVIOUS
      <4> HIDE DEF Value
      <4> QED BY <1>2, <4>1
    <3> HIDE DEF Value
    <3> QED BY <3>1
  <2> HIDE DEF u
  <2>4. ASSUME NEW i \in 0..m, NEW j \in 0..n, i + j < s + 1
        PROVE  Value(u, i, j) = Value(t, i, j)
    <3>1. ASSUME NEW a \in {i - 1, i}, NEW b \in {j - 1, j}, a + b < s
          PROVE  CellAt(u, m, n, edge, a, b) = CellAt(t, m, n, edge, a, b)
      <4>1. CASE a \in 0..m /\ b \in 0..n
        <5>1. a + b # s
          BY <3>1, <4>1
        <5>2. u[<<a, b>>] = t[<<a, b>>]
          BY <2>2, <4>1, <5>1
        <5> QED BY <4>1, <5>2 DEF CellAt
      <4>2. CASE ~(a \in 0..m /\ b \in 0..n)
        BY <4>2 DEF CellAt
      <4> QED BY <4>1, <4>2
    <3>2. (i - 1) + (j - 1) < s /\ (i - 1) + j < s /\ i + (j - 1) < s
      BY <2>4
    <3>3. CellAt(u, m, n, edge, i-1, j-1) = CellAt(t, m, n, edge, i-1, j-1)
      BY <3>1, <3>2
    <3>4. CellAt(u, m, n, edge, i-1, j) = CellAt(t, m, n, edge, i-1, j)
      BY <3>1, <3>2
    <3>5. CellAt(u, m, n, edge, i, j-1) = CellAt(t, m, n, edge, i, j-1)
      BY <3>1, <3>2
    <3> QED BY <3>3, <3>4, <3>5
  <2>5. ASSUME NEW i \in 0..m, NEW j \in 0..n, i + j < s + 1
        PROVE  u[<<i, j>>] = Value(u, i, j)
    <3>1. Value(u, i, j) = Value(t, i, j)
      BY <2>4, <2>5
    <3>2. CASE i + j = s
      <4> HIDE DEF Value
      <4> QED BY <2>2, <3>1, <3>2
    <3>3. CASE i + j # s
      <4>1. i + j < s
        BY <2>5, <3>3
      <4>2. t[<<i, j>>] = Value(t, i, j)
        BY <2>1, <4>1
      <4> HIDE DEF Value
      <4> QED BY <2>2, <3>1, <3>3, <4>2
    <3> QED BY <3>2, <3>3
  <2>6. Good(u, s + 1)
    <3> HIDE DEF Value
    <3> QED BY <2>5
  <2> HIDE DEF Good
  <2> QED BY <2>3, <2>6
<1>5. m + n + 1 \in S
  <2>1. m + n + 1 \in Nat
    OBVIOUS
  <2> HIDE DEF S
  <2> QED BY <1>3, <1>4, <2>1, SetInduction
<1>6. PICK t \in [D -> V] : Good(t, m + n + 1)
  BY <1>5
<1>7. ASSUME NEW i \in 0..m, NEW j \in 0..n PROVE CellFollows(t, m, n, edge, rule, i, j)
  <2>1. i + j < m + n + 1
    OBVIOUS
  <2> QED BY <1>6, <2>1 DEF CellFollows
<1> QED BY <1>7

=============================================================================
