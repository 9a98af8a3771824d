----------------------------- MODULE IndexLemmas -----------------------------
(***************************************************************************)
(* Least and largest elements of sets of indices, and induction along an    *)
(* interval of them: what the proofs about sequences, first matches and     *)
(* bounded loops rest on.  Induction ranges over a set, not an operator.    *)
(***************************************************************************)
EXTENDS FiniteSetsExt, FiniteSetTheorems, WellFoundedInduction, TLAPS

-----------------------------------------------------------------------------
\* The largest index in a non-empty set of indices exists.
LEMMA LastIndex ==
    ASSUME NEW n \in Nat, NEW S \in SUBSET (1..n), S # {}
    PROVE  Max(S) \in S /\ \A k \in S : k <= Max(S)
<1> DEFINE Above(k) == {j \in S : j > k}
           T == {Above(k) : k \in S}
<1>1. IsFiniteSet(S)
  <2>1. IsFiniteSet(1..n)  BY FS_Interval
  <2>  QED  BY <2>1, FS_Subset
<1>2. FiniteSubsetsOf(S) = SUBSET S  BY <1>1, FS_FiniteSubsetsOfFinite
<1>3. PICK A \in T : \A B \in T : ~(<<B, A>> \in StrictSubsetOrdering(S))
  <2>1. IsWellFoundedOn(StrictSubsetOrdering(S), SUBSET S)
    BY <1>2, FS_StrictSubsetOrderingWellFounded
  <2>2. T \subseteq SUBSET S /\ T # {}  BY Zenon
  <2>  QED  BY <2>1, <2>2, WFMin, Zenon
<1>4. PICK x \in S : A = Above(x)  BY Zenon
<1>5. \A k \in S : x >= k
  <2> SUFFICES ASSUME NEW k \in S, k > x PROVE FALSE  OBVIOUS
  <2>0. S \subseteq Int  OBVIOUS
  <2>1. Above(k) \subseteq Above(x) /\ Above(k) # Above(x)
    <3>1. \A j \in S : j > k => j > x  BY <2>0
    <3>2. k \in Above(x) /\ k \notin Above(k)  BY <2>0
    <3>  QED  BY <3>1, <3>2, Zenon
  <2>2. Above(k) \in T /\ Above(k) \in SUBSET S /\ Above(x) \in SUBSET S  BY Zenon
  <2>  QED  BY <2>1, <2>2, <1>3, <1>4 DEF StrictSubsetOrdering
<1>  QED  BY <1>5 DEF Max

\* And the smallest: the mirror image k |-> n + 1 - k of the one above.
LEMMA FirstIndex ==
    ASSUME NEW n \in Nat, NEW S \in SUBSET (1..n), S # {}
    PROVE  Min(S) \in S /\ \A k \in S : Min(S) <= k
<1> DEFINE M == {j \in 1..n : n + 1 - j \in S}
<1>1. M \in SUBSET (1..n) /\ M # {}
  <2>1. PICK k \in S : TRUE  OBVIOUS
  <2>2. n + 1 - k \in 1..n /\ n + 1 - (n + 1 - k) = k  OBVIOUS
  <2>  QED  BY <2>1, <2>2, Zenon
<1>2. Max(M) \in M /\ \A k \in M : k <= Max(M)  BY <1>1, LastIndex
<1> DEFINE x == n + 1 - Max(M)
<1>3. x \in S  BY <1>2
<1>4. \A k \in S : x <= k
  <2> SUFFICES ASSUME NEW k \in S PROVE x <= k  OBVIOUS
  <2>1. n + 1 - k \in 1..n /\ n + 1 - (n + 1 - k) = k /\ k \in 1..n  OBVIOUS
  <2>2. n + 1 - k \in M  BY <2>1, Zenon
  <2>3. n + 1 - k <= Max(M)  BY <2>2, <1>2
  <2>4. Max(M) \in 1..n  BY <1>2
  <2>  QED  BY <2>1, <2>3, <2>4
<1>5. S \subseteq Int  OBVIOUS
<1>6. \A k \in S : x =< k  BY <1>4
<1>  HIDE DEF x
<1>  QED  BY <1>3, <1>6, Zenon DEF Min

\* Every non-empty set of naturals has a least element.
LEMMA SmallestIn ==
    ASSUME NEW T \in SUBSET Nat, T # {}
    PROVE  \E m \in T : \A k \in T : m <= k
<1>1. PICK n \in T : TRUE  OBVIOUS
<1>2. CASE 0 \in T  BY <1>2
<1>3. CASE 0 \notin T
  <2> DEFINE S == T \cap 1..n
  <2>1. n \in S /\ n \in Nat BY <1>1, <1>3
  <2>2. S \in SUBSET (1..n) /\ S # {} BY <2>1
  <2>3. Min(S) \in S /\ \A k \in S : Min(S) <= k
    <3> HIDE DEF S
    <3> QED BY <2>1, <2>2, FirstIndex
  <2>4. \A k \in T : Min(S) <= k
    <3> SUFFICES ASSUME NEW k \in T PROVE Min(S) <= k OBVIOUS
    <3>1. CASE k \in S BY <3>1, <2>3
    <3>2. CASE k \notin S 
      <4>1. k > n BY <3>2, <2>1, <1>3
      <4>2. Min(S) \in 1..n BY <2>3
      <4> HIDE DEF S
      <4> QED BY <4>1, <4>2, <2>1
    <3> QED BY <3>1, <3>2
  <2>5. Min(S) \in T BY <2>3
  <2> HIDE DEF S
  <2> QED BY <2>4, <2>5, Zenon
<1> QED BY <1>2, <1>3

\* Induction along an interval, over the set of its points where a fact holds:
\* were one missing, the least missing one would follow from the one before.
LEMMA IntervalInduction ==
    ASSUME NEW n \in Nat, NEW S, 0 \in S, \A k \in 0..n : k # n /\ k \in S => k + 1 \in S
    PROVE  0..n \subseteq S
<1> DEFINE T == (0..n) \ S
<1> SUFFICES ASSUME T # {} PROVE FALSE OBVIOUS
<1>1. PICK m \in T : \A k \in T : m <= k
  <2>1. T \in SUBSET Nat OBVIOUS
  <2> HIDE DEF T
  <2> QED BY <2>1, SmallestIn
<1>2. m \in 1..n BY <1>1
<1>3. m - 1 \in 0..n /\ m - 1 # n /\ m - 1 \notin T BY <1>1, <1>2
<1>4. m - 1 \in S BY <1>3
<1>5. (m - 1) + 1 \in S BY <1>3, <1>4
<1> QED BY <1>1, <1>2, <1>5

\* A bounded recursion has a solution: the values it goes through, step by step.
Iterates(n, V, base, step) ==
    \E g \in [0..n -> V] : g[0] = base /\ \A k \in 1..n : g[k] = step[k][g[k - 1]]

LEMMA IterationExists ==
    ASSUME NEW n \in Nat, NEW V, NEW base \in V, NEW step \in [1..n -> [V -> V]]
    PROVE  Iterates(n, V, base, step)
<1> DEFINE Goes(g, m) == g[0] = base /\ \A k \in 1..m : g[k] = step[k][g[k - 1]]
           S == {m \in 0..n : \E g \in [0..m -> V] : Goes(g, m)}
<1>1. 0 \in S
  <2> DEFINE g == [k \in 0..0 |-> base]
  <2>1. g \in [0..0 -> V] /\ Goes(g, 0)  OBVIOUS
  <2> HIDE DEF g, Goes
  <2> QED  BY <2>1
<1>2. ASSUME NEW m \in 0..n, m # n, m \in S  PROVE m + 1 \in S
  <2>1. PICK g \in [0..m -> V] : Goes(g, m)  BY <1>2
  <2>0. m + 1 \in 1..n /\ m \in 0..m /\ m \in Nat  BY <1>2
  <2> DEFINE h == [k \in 0..(m + 1) |-> IF k <= m THEN g[k] ELSE step[m + 1][g[m]]]
  <2>2. h \in [0..(m + 1) -> V]
    <3>1. step[m + 1][g[m]] \in V  BY <2>0
    <3>2. \A k \in 0..(m + 1) : k <= m => k \in 0..m  BY <2>0
    <3> QED  BY <3>1, <3>2
  <2>3. h[0] = base  BY <2>0, <2>1
  <2>4. ASSUME NEW k \in 1..(m + 1)  PROVE h[k] = step[k][h[k - 1]]
    <3>0. k \in 0..(m + 1) /\ k - 1 \in 0..(m + 1) /\ k - 1 <= m  BY <2>0
    <3>1. CASE k <= m
      <4>1. h[k] = g[k] /\ h[k - 1] = g[k - 1] /\ k \in 1..m  BY <3>0, <3>1, <2>0
      <4> HIDE DEF h
      <4> QED  BY <4>1, <2>1
    <3>2. CASE k = m + 1
      <4>1. h[k] = step[m + 1][g[m]] /\ h[k - 1] = g[m]  BY <3>0, <3>2, <2>0
      <4> HIDE DEF h
      <4> QED  BY <4>1, <3>2
    <3> QED  BY <3>1, <3>2, <2>0
  <2> HIDE DEF h
  <2>5. Goes(h, m + 1)  BY <2>3, <2>4
  <2>6. m + 1 \in 0..n  BY <2>0
  <2> QED  BY <2>2, <2>5, <2>6
<1>3. 0..n \subseteq S
  <2> HIDE DEF S
  <2> QED  BY <1>1, <1>2, IntervalInduction
<1>4. n \in S
  <2>1. n \in 0..n  OBVIOUS
  <2> QED  BY <1>3, <2>1
<1> QED  BY <1>4 DEF Iterates

-----------------------------------------------------------------------------
\* Least and largest elements where the indices start at 0.
LEMMA LeastOf ==
    ASSUME NEW S \in SUBSET Nat, S # {}
    PROVE  Min(S) \in S /\ \A k \in S : Min(S) <= k
<1>1. PICK m \in S : \A k \in S : m <= k  BY SmallestIn
<1> QED  BY <1>1 DEF Min

LEMMA LargestOf ==
    ASSUME NEW n \in Nat, NEW S \in SUBSET (0..n), S # {}
    PROVE  Max(S) \in S /\ \A k \in S : k <= Max(S)
<1> DEFINE M == {j \in 1..(n + 1) : j - 1 \in S}
<1>1. M \in SUBSET (1..(n + 1)) /\ M # {} /\ n + 1 \in Nat
  <2>1. PICK k \in S : TRUE  OBVIOUS
  <2>2. k + 1 \in 1..(n + 1) /\ (k + 1) - 1 = k  OBVIOUS
  <2>3. k + 1 \in M  BY <2>1, <2>2, Zenon
  <2>4. M \in SUBSET (1..(n + 1))  OBVIOUS
  <2>5. n + 1 \in Nat  OBVIOUS
  <2> HIDE DEF M
  <2> QED  BY <2>3, <2>4, <2>5
<1>2. Max(M) \in M /\ \A k \in M : k <= Max(M)
  <2> HIDE DEF M
  <2> QED  BY <1>1, LastIndex
<1> DEFINE x == Max(M) - 1
<1>3. x \in S  BY <1>2
<1>4. \A k \in S : k <= x
  <2> SUFFICES ASSUME NEW k \in S PROVE k <= x  OBVIOUS
  <2>1. k + 1 \in 1..(n + 1) /\ (k + 1) - 1 = k /\ k \in 0..n  OBVIOUS
  <2>2. k + 1 \in M  BY <2>1, Zenon
  <2>3. k + 1 <= Max(M)  BY <2>2, <1>2
  <2>4. Max(M) \in 1..(n + 1)  BY <1>2
  <2>  QED  BY <2>1, <2>3, <2>4
<1>5. S \subseteq Int /\ x \in Int
  <2>1. S \subseteq Int  OBVIOUS
  <2> HIDE DEF x
  <2> QED  BY <2>1, <1>3
<1>6. \A k \in S : x >= k  BY <1>4, <1>5
<1>  HIDE DEF x
<1>7. \E z \in S : \A k \in S : z >= k  BY <1>3, <1>6
<1>8. Max(S) \in S /\ \A k \in S : Max(S) >= k  BY <1>7 DEF Max
<1>  QED  BY <1>8, <1>5

\* A product grows with both of its factors.
LEMMA ProductGrows ==
    ASSUME NEW a \in Nat, NEW b \in Nat, NEW w \in Nat, NEW m \in Nat, a <= b, w <= m
    PROVE  a * w <= b * m
<1>1. PICK c \in Nat : b = a + c
  <2>1. b - a \in Nat /\ b = a + (b - a)  OBVIOUS
  <2> QED  BY <2>1
<1>2. PICK d \in Nat : m = w + d
  <2>1. m - w \in Nat /\ m = w + (m - w)  OBVIOUS
  <2> QED  BY <2>1
<1>3. (a + c) * (w + d) = a * w + a * d + c * w + c * d  OBVIOUS
<1>4. a * d \in Nat /\ c * w \in Nat /\ c * d \in Nat /\ a * w \in Nat  OBVIOUS
<1> QED  BY <1>1, <1>2, <1>3, <1>4

=============================================================================
