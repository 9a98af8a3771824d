------------------------- MODULE Interpolation_proofs -------------------------
(***************************************************************************)
(* Theorems about Interpolation, for every CLUT its readers can build: on a *)
(* node of the grid every interpolator gives the node's own values, and no  *)
(* evaluation of words leaves the table.                                    *)
(*                                                                          *)
(* The strides multiply up to the size of the table, so the upper ends of   *)
(* the channels' intervals add up to an index inside it; on a node every    *)
(* remainder is zero, the lower ends add up to the node, and linear and     *)
(* tetrahedral interpolation both leave the value of the lower corner.      *)
(***************************************************************************)
EXTENDS Interpolation, SequenceTheorems, IndexLemmas

-----------------------------------------------------------------------------
(* Division, sums and products. *)

LEMMA TimesPositive == ASSUME NEW a \in Nat, NEW b \in Nat, a >= 1  PROVE a * b >= b  OBVIOUS

\* Quotient and remainder are what multiplies back to the number.
LEMMA DivUnique ==
    ASSUME NEW d \in Nat, d > 0, NEW x \in Int, NEW q \in Int, NEW r \in Int,
           x = d * q + r, 0 <= r, r < d
    PROVE  x \div d = q /\ x % d = r
<1> DEFINE p == x \div d
           s == x % d
<1>0. p \in Int /\ s \in Int /\ x = d * p + s /\ 0 <= s /\ s < d
  <2>1. x = (d * (x \div d)) + (x % d)  OBVIOUS
  <2>  QED  BY <2>1
<1>  HIDE DEF p, s
<1>1. d * (q - p) = s - r /\ d * (p - q) = r - s  BY <1>0
<1>2. CASE q > p
  <2>1. q - p \in Nat /\ q - p >= 1  BY <1>0, <1>2
  <2>2. (q - p) * d >= d  BY <2>1, TimesPositive
  <2>  QED  BY <2>1, <2>2, <1>0, <1>1
<1>3. CASE q < p
  <2>1. p - q \in Nat /\ p - q >= 1  BY <1>0, <1>3
  <2>2. (p - q) * d >= d  BY <2>1, TimesPositive
  <2>  QED  BY <2>1, <2>2, <1>0, <1>1
<1>4. q = p  BY <1>2, <1>3, <1>0
<1>5. r = s  BY <1>4, <1>0
<1>  QED  BY <1>4, <1>5 DEF p, s

\* A number and its quotient.
LEMMA DivParts ==
    ASSUME NEW d \in Nat, d > 0, NEW x \in Int
    PROVE  /\ x \div d \in Int /\ x % d \in Int
           /\ x = d * (x \div d) + (x % d) /\ 0 <= x % d /\ x % d < d
           /\ x >= 0 => x \div d >= 0
<1>1. x = (d * (x \div d)) + (x % d)  OBVIOUS
<1>2. x >= 0 => x \div d >= 0
  <2> DEFINE q == x \div d
  <2>1. q \in Int  OBVIOUS
  <2> HIDE DEF q
  <2>2. CASE q < 0
    <3>1. 0 - q \in Nat /\ 0 - q >= 1  BY <2>1, <2>2
    <3>2. (0 - q) * d >= d  BY <3>1, TimesPositive
    <3>3. d * q = 0 - (0 - q) * d  BY <2>1
    <3>  QED  BY <1>1, <3>2, <3>3 DEF q
  <2>  QED  BY <2>1, <2>2 DEF q
<1>  QED  BY <1>1, <1>2

\* What the recursion of a sum goes through.
IsSum(s, n, f) == s \in [0..n -> Int] /\ s[0] = 0 /\ \A k \in 1..n : s[k] = s[k - 1] + f[k]

LEMMA SumSolution ==
    ASSUME NEW n \in Nat, NEW f \in [1..n -> Int]
    PROVE  \E s : IsSum(s, n, f) /\ s[n] = SumUpTo(n, f)
<1> DEFINE out(k, v) == v + f[k]
           step == [k \in 1..n |-> [v \in Int |-> out(k, v)]]
           P(s) == s = [k \in 0..n |-> IF k = 0 THEN 0 ELSE out(k, s[k - 1])]
<1>2. step \in [1..n -> [Int -> Int]]  OBVIOUS
<1>3. \A k \in 1..n, v \in Int : step[k][v] = out(k, v)  OBVIOUS
<1>  HIDE DEF out, step
<1>4. PICK g \in [0..n -> Int] : g[0] = 0 /\ \A k \in 1..n : g[k] = step[k][g[k - 1]]
  <2>  HIDE DEF P
  <2>1. 0 \in Int  OBVIOUS
  <2>2. Iterates(n, Int, 0, step)  BY <1>2, <2>1, IterationExists, Zenon
  <2>  QED  BY <2>2 DEF Iterates
<1>5. P(g)
  <2>1. \A k \in 1..n : g[k] = out(k, g[k - 1])
    <3>1. \A k \in 1..n : g[k - 1] \in Int  OBVIOUS
    <3>  QED  BY <3>1, <1>3, <1>4
  <2>2. \A k \in 0..n : k = 0 \/ k \in 1..n  OBVIOUS
  <2>  QED  BY <2>1, <2>2, <1>4
<1> DEFINE h == CHOOSE s : P(s)
<1>7. P(h)
  <2>  HIDE DEF P
  <2>  QED  BY <1>5
<1>6. SumUpTo(n, f) = h[n]  BY DEF SumUpTo, out
<1>  HIDE DEF h
<1>8. h[0] = 0 /\ \A k \in 1..n : h[k] = h[k - 1] + f[k]
  <2>1. \A k \in 1..n : k \in 0..n /\ k # 0  OBVIOUS
  <2>2. 0 \in 0..n  OBVIOUS
  <2>  QED  BY <1>7, <2>1, <2>2 DEF out
<1>9. \A k \in 0..n : h[k] \in Int
  <2> DEFINE S == {k \in 0..n : h[k] \in Int}
  <2>1. 0 \in S  BY <1>8
  <2>2. \A k \in 0..n : k # n /\ k \in S => k + 1 \in S
    <3> SUFFICES ASSUME NEW k \in 0..n, k # n, k \in S  PROVE k + 1 \in S  OBVIOUS
    <3>1. k + 1 \in 1..n /\ (k + 1) - 1 = k  OBVIOUS
    <3>2. h[k + 1] = h[k] + f[k + 1]  BY <1>8, <3>1
    <3>  QED  BY <3>1, <3>2
  <2>3. 0..n \subseteq S
    <3> HIDE DEF S
    <3> QED  BY <2>1, <2>2, IntervalInduction
  <2>  QED  BY <2>3
<1>10. h \in [0..n -> Int]  BY <1>7, <1>9
<1>  QED  BY <1>6, <1>8, <1>10 DEF IsSum

IsProduct(p, n, f) == p \in [0..n -> Int] /\ p[0] = 1 /\ \A k \in 1..n : p[k] = p[k - 1] * f[k]

LEMMA ProductSolution ==
    ASSUME NEW n \in Nat, NEW f \in [1..n -> Int]
    PROVE  \E p : IsProduct(p, n, f) /\ p[n] = ProductUpTo(n, f)
<1> DEFINE out(k, v) == v * f[k]
           step == [k \in 1..n |-> [v \in Int |-> out(k, v)]]
           P(s) == s = [k \in 0..n |-> IF k = 0 THEN 1 ELSE out(k, s[k - 1])]
<1>2. step \in [1..n -> [Int -> Int]]  OBVIOUS
<1>3. \A k \in 1..n, v \in Int : step[k][v] = out(k, v)  OBVIOUS
<1>  HIDE DEF out, step
<1>4. PICK g \in [0..n -> Int] : g[0] = 1 /\ \A k \in 1..n : g[k] = step[k][g[k - 1]]
  <2>  HIDE DEF P
  <2>1. 1 \in Int  OBVIOUS
  <2>2. Iterates(n, Int, 1, step)  BY <1>2, <2>1, IterationExists, Zenon
  <2>  QED  BY <2>2 DEF Iterates
<1>5. P(g)
  <2>1. \A k \in 1..n : g[k] = out(k, g[k - 1])
    <3>1. \A k \in 1..n : g[k - 1] \in Int  OBVIOUS
    <3>  QED  BY <3>1, <1>3, <1>4
  <2>2. \A k \in 0..n : k = 0 \/ k \in 1..n  OBVIOUS
  <2>  QED  BY <2>1, <2>2, <1>4
<1> DEFINE h == CHOOSE s : P(s)
<1>7. P(h)
  <2>  HIDE DEF P
  <2>  QED  BY <1>5
<1>6. ProductUpTo(n, f) = h[n]  BY DEF ProductUpTo, out
<1>  HIDE DEF h
<1>8. h[0] = 1 /\ \A k \in 1..n : h[k] = h[k - 1] * f[k]
  <2>1. \A k \in 1..n : k \in 0..n /\ k # 0  OBVIOUS
  <2>2. 0 \in 0..n  OBVIOUS
  <2>  QED  BY <1>7, <2>1, <2>2 DEF out
<1>9. \A k \in 0..n : h[k] \in Int
  <2> DEFINE S == {k \in 0..n : h[k] \in Int}
  <2>1. 0 \in S  BY <1>8
  <2>2. \A k \in 0..n : k # n /\ k \in S => k + 1 \in S
    <3> SUFFICES ASSUME NEW k \in 0..n, k # n, k \in S  PROVE k + 1 \in S  OBVIOUS
    <3>1. k + 1 \in 1..n /\ (k + 1) - 1 = k  OBVIOUS
    <3>2. h[k + 1] = h[k] * f[k + 1]  BY <1>8, <3>1
    <3>  QED  BY <3>1, <3>2
  <2>3. 0..n \subseteq S
    <3> HIDE DEF S
    <3> QED  BY <2>1, <2>2, IntervalInduction
  <2>  QED  BY <2>3
<1>10. h \in [0..n -> Int]  BY <1>7, <1>9
<1>  QED  BY <1>6, <1>8, <1>10 DEF IsProduct

-----------------------------------------------------------------------------
(* The geometry of a table. *)

LEMMA LookUpFacts ==
    ASSUME NEW j, IsLookUp(j)
    PROVE  /\ Inputs(j) \in Nat /\ Inputs(j) >= 1
           /\ \A a \in 1..Inputs(j) : j.grid[a] \in Nat /\ j.grid[a] >= 1 /\ j.input[a] \in Int
           /\ Inputs(j) > 1 => \A a \in 1..Inputs(j) : j.grid[a] >= 2
           /\ j.outputs \in Nat /\ j.outputs >= 1
           /\ j.grid \in [1..Inputs(j) -> Int]
<1>1. j.grid \in [1..Inputs(j) -> Nat \ {0}] /\ Inputs(j) \in Nat /\ Inputs(j) >= 1
  BY DEF IsLookUp, Inputs
<1>2. j.input \in [1..Inputs(j) -> Int] /\ j.outputs \in Nat /\ j.outputs >= 1  BY DEF IsLookUp
<1>3. Inputs(j) > 1 => \A a \in 1..Inputs(j) : j.grid[a] >= 2  BY DEF IsLookUp
<1>4. j.grid \in [1..Inputs(j) -> Int]  BY <1>1
<1>  HIDE DEF Inputs
<1>5. \A a \in 1..Inputs(j) : j.grid[a] \in Nat /\ j.grid[a] >= 1 /\ j.input[a] \in Int
  BY <1>1, <1>2
<1>  QED  BY <1>1, <1>2, <1>3, <1>4, <1>5

LEMMA ScaleFacts ==
    /\ One \in Nat /\ One >= 3 /\ Max1 \in Nat /\ Max1 = One - 1 /\ Max1 >= 2
    /\ F \in Nat /\ F >= 2 /\ R \in Nat /\ R >= 1
  BY ScaleAssumption DEF Max1

\* opta: one output apart along the last channel, further along the others.
LEMMA OptaSteps ==
    ASSUME NEW j, IsLookUp(j)
    PROVE  /\ Opta(j, Inputs(j)) = j.outputs
           /\ \A a \in 1..(Inputs(j) - 1) : Opta(j, a) = Opta(j, a + 1) * j.grid[a + 1]
           /\ \A a \in 1..Inputs(j) : Opta(j, a) \in Nat /\ Opta(j, a) >= 1
<1> DEFINE N == Inputs(j)
           m == N - 1
           g == j.grid
           w == j.outputs
           out(k, v) == v * g[N + 1 - k]
           V == Nat \ {0}
           step == [k \in 1..m |-> [v \in V |-> out(k, v)]]
           P(s) == s = [k \in 0..m |-> IF k = 0 THEN w ELSE out(k, s[k - 1])]
<1>0. N \in Nat /\ N >= 1 /\ m \in Nat /\ w \in V /\ \A a \in 1..N : g[a] \in V
  BY LookUpFacts
<1>  HIDE DEF N, g, w
<1>2. step \in [1..m -> [V -> V]]
  <2>1. ASSUME NEW k \in 1..m, NEW v \in V  PROVE out(k, v) \in V
    <3>1. N + 1 - k \in 1..N  BY <1>0
    <3>2. g[N + 1 - k] \in V  BY <1>0, <3>1
    <3>3. v * g[N + 1 - k] >= g[N + 1 - k]  BY <3>2, TimesPositive
    <3>  QED  BY <3>2, <3>3
  <2>  HIDE DEF out, V
  <2>  QED  BY <2>1
<1>3. \A k \in 1..m, v \in V : step[k][v] = out(k, v)
  <2>  HIDE DEF out, V
  <2>  QED  OBVIOUS
<1>  HIDE DEF out, step, V, m
<1>4. PICK s \in [0..m -> V] : s[0] = w /\ \A k \in 1..m : s[k] = step[k][s[k - 1]]
  <2>  HIDE DEF P
  <2>2. Iterates(m, V, w, step)  BY <1>0, <1>2, IterationExists, Zenon
  <2>  QED  BY <2>2 DEF Iterates
<1>5. P(s)
  <2>1. \A k \in 1..m : s[k] = out(k, s[k - 1])
    <3>1. \A k \in 1..m : s[k - 1] \in V  BY <1>0
    <3>  QED  BY <3>1, <1>3, <1>4
  <2>2. \A k \in 0..m : k = 0 \/ k \in 1..m  BY <1>0
  <2>  QED  BY <2>1, <2>2, <1>4
<1> DEFINE h == CHOOSE s_ : P(s_)
<1>7. P(h)
  <2>  HIDE DEF P
  <2>  QED  BY <1>5
<1>6. \A a : Opta(j, a) = h[N - a]  BY DEF Opta, out, m, N, g, w
<1>  HIDE DEF h
<1>8. h[0] = w /\ \A k \in 1..m : h[k] = out(k, h[k - 1])
  <2>1. \A k \in 1..m : k \in 0..m /\ k # 0  BY <1>0
  <2>2. 0 \in 0..m  BY <1>0
  <2>  QED  BY <1>7, <2>1, <2>2
<1>9. \A k \in 0..m : h[k] \in V
  <2> DEFINE S == {k \in 0..m : h[k] \in V}
  <2>1. 0 \in S  BY <1>8, <1>0
  <2>2. \A k \in 0..m : k # m /\ k \in S => k + 1 \in S
    <3> SUFFICES ASSUME NEW k \in 0..m, k # m, k \in S  PROVE k + 1 \in S  OBVIOUS
    <3>1. k + 1 \in 1..m /\ (k + 1) - 1 = k /\ k + 1 \in 0..m  BY <1>0
    <3>2. h[k + 1] = out(k + 1, h[k])  BY <1>8, <3>1
    <3>3. step[k + 1][h[k]] \in V  BY <3>1, <1>2
    <3>  QED  BY <3>1, <3>2, <3>3, <1>3
  <2>3. 0..m \subseteq S
    <3> HIDE DEF S
    <3> QED  BY <1>0, <2>1, <2>2, IntervalInduction
  <2>  QED  BY <2>3
<1>10. Opta(j, N) = w  BY <1>6, <1>8, <1>0
<1>11. ASSUME NEW a \in 1..(N - 1)  PROVE Opta(j, a) = Opta(j, a + 1) * g[a + 1]
  <2>1. N - a \in 1..m /\ (N - a) - 1 = N - (a + 1) /\ N + 1 - (N - a) = a + 1  BY <1>0 DEF m
  <2>2. h[N - a] = out(N - a, h[N - (a + 1)])  BY <2>1, <1>8
  <2>  QED  BY <2>1, <2>2, <1>6 DEF out
<1>12. ASSUME NEW a \in 1..N  PROVE Opta(j, a) \in Nat /\ Opta(j, a) >= 1
  <2>1. N - a \in 0..m  BY <1>0 DEF m
  <2>2. Opta(j, a) \in V  BY <2>1, <1>9, <1>6
  <2>  QED  BY <2>2 DEF V
<1>  QED  BY <1>10, <1>11, <1>12 DEF N, g, w

\* The last node of every channel is the last of the table.
LEMMA StridesFillTable ==
    ASSUME NEW j, IsLookUp(j), NEW s, IsSum(s, Inputs(j), [a \in 1..Inputs(j) |-> Domain(j, a) * Opta(j, a)])
    PROVE  s[Inputs(j)] + j.outputs = Len(j.table)
<1> DEFINE N == Inputs(j)
           g == j.grid
           o(a) == Opta(j, a)
           L == Len(j.table)
<1>0. N \in Nat /\ N >= 1 /\ \A a \in 1..N : g[a] \in Nat  BY LookUpFacts
<1>1. o(N) = j.outputs /\ \A a \in 1..(N - 1) : o(a) = o(a + 1) * g[a + 1]  BY OptaSteps
<1>2. \A a \in 1..N : o(a) \in Nat  BY OptaSteps
<1>3. PICK p : IsProduct(p, N, g) /\ p[N] = ProductUpTo(N, g)
  <2>1. g \in [1..N -> Int]  BY LookUpFacts
  <2>  HIDE DEF N, g
  <2>  QED  BY <2>1, <1>0, ProductSolution
<1>4. L = o(N) * p[N] /\ L \in Nat  BY <1>1, <1>3 DEF IsLookUp
<1>5. s[0] = 0 /\ \A k \in 1..N : s[k] = s[k - 1] + (g[k] - 1) * o(k)
  <2> DEFINE f == [a \in 1..N |-> Domain(j, a) * Opta(j, a)]
  <2>1. IsSum(s, N, f)  OBVIOUS
  <2>2. \A k \in 1..N : f[k] = (g[k] - 1) * o(k)  BY DEF Domain
  <2>  HIDE DEF f
  <2>  QED  BY <2>1, <2>2 DEF IsSum
<1>6. p \in [0..N -> Int] /\ p[0] = 1 /\ \A k \in 1..N : p[k] = p[k - 1] * g[k]  BY <1>3 DEF IsProduct
<1>  HIDE DEF N, g, o, L
<1>7. o(1) * p[1] = L
  <2> DEFINE S == {m \in 0..(N - 1) : o(N - m) * p[N - m] = L}
  <2>1. 0 \in S  BY <1>0, <1>4
  <2>2. ASSUME NEW m \in 0..(N - 1), m # N - 1, m \in S  PROVE m + 1 \in S
    <3> DEFINE a == N - (m + 1)
    <3>1. a \in 1..(N - 1) /\ a + 1 = N - m /\ a + 1 \in 1..N /\ a \in 1..N /\ (a + 1) - 1 = a
      BY <1>0, <2>2
    <3>2. o(a) = o(a + 1) * g[a + 1] /\ p[a + 1] = p[a] * g[a + 1]  BY <3>1, <1>1, <1>6
    <3>3. o(a + 1) \in Nat /\ g[a + 1] \in Nat /\ p[a] \in Int  BY <3>1, <1>0, <1>2, <1>6
    <3>4. o(a + 1) * p[a + 1] = L  BY <2>2, <3>1
    <3>  HIDE DEF a
    <3>5. o(a) * p[a] = o(a + 1) * p[a + 1]  BY <3>2, <3>3
    <3>6. m + 1 \in 0..(N - 1)  BY <2>2, <1>0
    <3>  QED  BY <3>4, <3>5, <3>6 DEF a
  <2>3. 0..(N - 1) \subseteq S
    <3>1. N - 1 \in Nat  BY <1>0
    <3> HIDE DEF S
    <3> QED  BY <3>1, <2>1, <2>2, IntervalInduction
  <2>4. N - 1 \in S /\ N - (N - 1) = 1  BY <2>3, <1>0
  <2>  QED  BY <2>4
<1>8. s[N] = L - o(N)
  <2> DEFINE S == {m \in 0..(N - 1) : s[m + 1] = L - o(m + 1)}
  <2>0. 1 \in 1..N /\ 0 \in 0..N /\ 1 - 1 = 0  BY <1>0
  <2>1. 0 \in S
    <3>1. p[1] = g[1] /\ s[1] = (g[1] - 1) * o(1) /\ o(1) \in Nat /\ g[1] \in Nat
      BY <2>0, <1>0, <1>2, <1>5, <1>6
    <3>2. s[1] = L - o(1)  BY <3>1, <1>7
    <3>  QED  BY <3>2, <1>0
  <2>2. ASSUME NEW m \in 0..(N - 1), m # N - 1, m \in S  PROVE m + 1 \in S
    <3> DEFINE a == m + 1
    <3>1. a \in 1..(N - 1) /\ a + 1 \in 1..N /\ a \in 1..N /\ (a + 1) - 1 = a
      BY <1>0, <2>2
    <3>2. o(a) = o(a + 1) * g[a + 1] /\ s[a + 1] = s[a] + (g[a + 1] - 1) * o(a + 1)
      BY <3>1, <1>1, <1>5
    <3>3. o(a + 1) \in Nat /\ g[a + 1] \in Nat /\ o(a) \in Nat /\ L \in Int
      BY <3>1, <1>0, <1>2, <1>4
    <3>4. s[a] = L - o(a)  BY <2>2
    <3>6. m + 1 \in 0..(N - 1)  BY <2>2, <1>0
    <3>  HIDE DEF a
    <3>7. (g[a + 1] - 1) * o(a + 1) = o(a) - o(a + 1)  BY <3>2, <3>3
    <3>8. s[a + 1] = L - o(a + 1)  BY <3>2, <3>3, <3>4, <3>7
    <3>  QED  BY <3>6, <3>8 DEF a
  <2>3. 0..(N - 1) \subseteq S
    <3>1. N - 1 \in Nat  BY <1>0
    <3> HIDE DEF S
    <3> QED  BY <3>1, <2>1, <2>2, IntervalInduction
  <2>4. N - 1 \in S /\ (N - 1) + 1 = N  BY <2>3, <1>0
  <2>  QED  BY <2>4
<1>9. o(N) \in Nat /\ o(N) = j.outputs  BY <1>0, <1>1, <1>2
<1>  QED  BY <1>4, <1>8, <1>9 DEF N, L

-----------------------------------------------------------------------------
(* The channels of an input. *)

LEMMA Clamped ==
    ASSUME NEW v \in Int, NEW m \in Nat
    PROVE  Clamp(v, m) \in 0..m /\ (v < m => Clamp(v, m) < m \/ m = 0) /\ (v >= m => Clamp(v, m) = m)
  BY DEF Clamp

\* What a channel contributes stays between node and node, and within the grid.
AxisIn(j, a, x) ==
    /\ x.lo \in Nat /\ x.hi \in Nat /\ x.rest \in Int
    /\ x.lo <= x.hi /\ x.hi <= Domain(j, a) * Opta(j, a)
\* On a node it is the node.
AxisOnNode(j, a, x) == x.rest = 0 /\ x.lo = CellOf(j, a) * Opta(j, a)

LEMMA DomainFacts ==
    ASSUME NEW j, IsLookUp(j), NEW a \in 1..Inputs(j)
    PROVE  /\ Domain(j, a) \in Nat /\ Opta(j, a) \in Nat /\ Opta(j, a) >= 1
           /\ Inputs(j) > 1 => Domain(j, a) >= 1
           /\ j.input[a] \in Int
<1>1. j.grid[a] \in Nat /\ j.grid[a] >= 1 /\ j.input[a] \in Int  BY LookUpFacts
<1>2. Inputs(j) > 1 => j.grid[a] >= 2  BY LookUpFacts
<1>3. Opta(j, a) \in Nat /\ Opta(j, a) >= 1  BY OptaSteps
<1>  QED  BY <1>1, <1>2, <1>3 DEF Domain

\* The fixed-point position of a word: a node is a whole number, and below the
\* last value none comes near the last node.
LEMMA FixedPosition ==
    ASSUME NEW v \in 0..Max1, NEW d \in Nat
    PROVE  LET fx == to_fixed_domain(v * d)
           IN  /\ fx \div One \in Nat /\ fx % One \in Nat
               /\ (v * d) % Max1 = 0 => fx \div One = (v * d) \div Max1 /\ fx % One = 0
               /\ v = Max1 => fx \div One = d /\ fx % One = 0
               /\ v < Max1 /\ d >= 1 => fx \div One < d
               /\ d = 0 => fx \div One = 0 /\ fx % One = 0
<1> DEFINE M == Max1
           x == v * d
           half == M \div 2
           t == (x + half) \div M
           fx == x + t
<1>0. M \in Nat /\ M >= 2 /\ One = M + 1 /\ One \in Nat /\ v \in Nat /\ v <= M  BY ScaleFacts
<1>1. half \in Nat /\ half < M  BY <1>0
<1>  HIDE DEF M, half
<1>2. x \in Nat  BY <1>0
<1>  HIDE DEF x
<1>3. t \in Int /\ t >= 0 /\ M * t <= x + half
  <2>1. x + half \in Int /\ x + half >= 0 /\ M > 0  BY <1>0, <1>1, <1>2
  <2>2. x + half = M * t + ((x + half) % M) /\ (x + half) % M >= 0 /\ t \in Int /\ t >= 0
    BY <2>1, <1>0, DivParts
  <2>3. (x + half) % M \in Int  BY <2>1, <1>0, DivParts
  <2>4. M * t \in Int  BY <2>2, <1>0
  <2>  HIDE DEF t
  <2>  QED  BY <2>1, <2>2, <2>3, <2>4
<1>4. to_fixed_domain(v * d) = fx  BY DEF to_fixed_domain, x, t, fx, half, M
<1>5. fx \in Nat  BY <1>2, <1>3
<1>6. fx \div One \in Nat /\ fx % One \in Nat /\ fx = One * (fx \div One) + (fx % One) /\ fx % One < One
  <2>1. One > 0 /\ fx \in Int /\ fx >= 0  BY <1>5, <1>0
  <2>  HIDE DEF fx
  <2>  QED  BY <2>1, <1>0, DivParts
<1>7. ASSUME NEW c \in Nat, x = M * c  PROVE fx \div One = c /\ fx % One = 0
  <2>1. x + half = M * c + half /\ x + half \in Int /\ M > 0  BY <1>0, <1>1, <1>2, <1>7
  <2>2. t = c  BY <2>1, <1>0, <1>1, DivUnique
  <2>3. fx = One * c + 0 /\ fx \in Int  BY <2>2, <1>7, <1>0
  <2>4. One > 0 /\ 0 < One /\ 0 <= 0 /\ 0 \in Int /\ c \in Int  BY <1>0
  <2>  HIDE DEF fx
  <2>  QED  BY <2>3, <2>4, <1>0, DivUnique, Zenon
<1>8. x % M = 0 => fx \div One = x \div M /\ fx % One = 0
  <2>1. x \div M \in Int /\ x \div M >= 0 /\ x = M * (x \div M) + (x % M)  BY <1>0, <1>2, DivParts
  <2>2. x \div M \in Nat  BY <2>1
  <2>3. x % M = 0 => x = M * (x \div M)  BY <2>1, <1>0
  <2>  HIDE DEF fx
  <2>  QED  BY <2>2, <2>3, <1>7
<1>9. v = M => fx \div One = d /\ fx % One = 0
  <2>1. v = M => x = M * d  BY DEF x
  <2>  HIDE DEF fx
  <2>  QED  BY <2>1, <1>7
<1>10. ASSUME v < M, d >= 1  PROVE fx \div One < d
  <2>1. x <= (M - 1) * d
    <3>1. v \in Nat /\ M - 1 \in Nat /\ v <= M - 1 /\ d <= d  BY <1>0, <1>10
    <3>  QED  BY <3>1, ProductGrows DEF x
  <2>2. (M - 1) * d = M * d - d /\ M * d \in Nat  BY <1>0
  <2>3. t <= d
    <3> SUFFICES ASSUME t > d  PROVE FALSE  BY <1>3
    <3>1. d + 1 \in Nat /\ t \in Nat /\ d + 1 <= t /\ M <= M  BY <1>3, <1>0
    <3>2. (d + 1) * M <= t * M
      <4> HIDE DEF t
      <4> QED  BY <3>1, <1>0, ProductGrows
    <3>3. (d + 1) * M = M * d + M /\ t * M = M * t  BY <3>1, <1>0
    <3>4. M * t \in Int  BY <3>1, <1>0
    <3>  HIDE DEF t
    <3>  QED  BY <3>2, <3>3, <3>4, <2>1, <2>2, <1>0, <1>1, <1>2, <1>3, <1>10
  <2>4. fx <= M * d
    <3> HIDE DEF t
    <3> QED  BY <2>1, <2>2, <2>3, <1>2, <1>3
  <2> DEFINE q == fx \div One
  <2> HIDE DEF fx
  <2>5. q \in Nat /\ One * q <= fx  BY <1>6, <1>0, <1>5
  <2> HIDE DEF q
  <2>6. q < d
    <3> SUFFICES ASSUME q >= d  PROVE FALSE  BY <2>5
    <3>1. d * One <= q * One  BY <2>5, <1>0, ProductGrows
    <3>2. d * One = M * d + d /\ q * One = One * q /\ One * q \in Nat  BY <1>0, <2>5
    <3>  QED  BY <3>1, <3>2, <2>2, <2>4, <2>5, <1>5, <1>10
  <2>  QED  BY <2>6 DEF q
<1>11. d = 0 => fx \div One = 0 /\ fx % One = 0
  <2>1. d = 0 => x = M * 0  BY <1>0 DEF x
  <2>2. 0 \in Nat  OBVIOUS
  <2>  HIDE DEF fx
  <2>  QED  BY <2>1, <2>2, <1>7
<1>  HIDE DEF fx
<1>  QED  BY <1>4, <1>6, <1>8, <1>9, <1>10, <1>11 DEF x, M

LEMMA WordAxisFacts ==
    ASSUME NEW j, IsLookUp(j), NEW a \in 1..Inputs(j), ~j.float
    PROVE  LET x == WordAxis(j, a)
           IN  /\ x.lo \in Nat /\ x.rest \in Int /\ x.lo <= Domain(j, a) * Opta(j, a)
               /\ Domain(j, a) >= 1 => AxisIn(j, a, x)
               /\ PartsOf(j, a) = 0 => AxisOnNode(j, a, x)
<1> DEFINE d == Domain(j, a)
           o == Opta(j, a)
           v == Clamp(j.input[a], Max1)
           fx == to_fixed_domain(v * d)
           q == fx \div One
<1>1. d \in Nat /\ o \in Nat /\ o >= 1 /\ j.input[a] \in Int  BY DomainFacts
<1>2. v \in 0..Max1 /\ (j.input[a] < Max1 => v < Max1) /\ (j.input[a] >= Max1 => v = Max1)
  <2>1. Max1 \in Nat /\ Max1 # 0  BY ScaleFacts
  <2>  QED  BY <1>1, <2>1, Clamped DEF v
<1>3. CellOf(j, a) = (v * d) \div Max1 /\ PartsOf(j, a) = (v * d) % Max1
  BY DEF CellOf, PartsOf, Position, Scale
<1>4. WordAxis(j, a) = [lo |-> o * q, rest |-> fx % One,
                        hi |-> o * q + (IF j.input[a] >= Max1 THEN 0 ELSE o)]
  BY DEF WordAxis, WordPosition, WordStep
<1>  HIDE DEF d, o, v
<1>5. /\ q \in Nat /\ fx % One \in Nat
      /\ (v * d) % Max1 = 0 => q = (v * d) \div Max1 /\ fx % One = 0
      /\ v = Max1 => q = d
      /\ v < Max1 /\ d >= 1 => q < d
      /\ d = 0 => q = 0
  BY <1>1, <1>2, FixedPosition
<1> DEFINE rest == fx % One
<1>  HIDE DEF q, rest
<1>6. q <= d  BY <1>1, <1>2, <1>5, ScaleFacts
<1>7. o * q \in Nat /\ o * q <= d * o
  <2>1. q * o <= d * o  BY <1>6, <1>1, <1>5, ProductGrows
  <2>  QED  BY <2>1, <1>1, <1>5
<1>8. v < Max1 /\ d >= 1 => o * q + o <= d * o
  <2> SUFFICES ASSUME v < Max1, d >= 1  PROVE o * q + o <= d * o  OBVIOUS
  <2>1. q + 1 \in Nat /\ q + 1 <= d  BY <1>1, <1>5
  <2>2. (q + 1) * o <= d * o  BY <2>1, <1>1, ProductGrows
  <2>3. (q + 1) * o = o * q + o  BY <1>1, <1>5
  <2>  QED  BY <2>2, <2>3
<1> DEFINE hi == o * q + (IF j.input[a] >= Max1 THEN 0 ELSE o)
<1>9. hi \in Nat /\ o * q <= hi /\ (d >= 1 => hi <= d * o)  BY <1>1, <1>2, <1>5, <1>7, <1>8, ScaleFacts
<1>10. PartsOf(j, a) = 0 => rest = 0 /\ o * q = CellOf(j, a) * o
  <2>1. PartsOf(j, a) = 0 => rest = 0 /\ q = CellOf(j, a)  BY <1>3, <1>5 DEF rest
  <2>  QED  BY <2>1, <1>1, <1>5
<1> DEFINE x == WordAxis(j, a)
<1>11. x.lo = o * q /\ x.hi = hi /\ x.rest = rest  BY <1>4 DEF rest
<1>12. rest \in Int  BY <1>5 DEF rest
<1>  HIDE DEF hi, x
<1>  QED  BY <1>7, <1>9, <1>10, <1>11, <1>12 DEF AxisIn, AxisOnNode, d, o, x

\* A whole number of nodes is floored to itself, however it is rounded first.
LEMMA QuickFloorWhole ==
    ASSUME NEW c \in Nat
    PROVE  quick_floor(F * c) = c
<1>0. F \in Nat /\ F >= 2 /\ R \in Nat /\ R >= 1 /\ 0 < R /\ 0 < F  BY ScaleFacts
<1> DEFINE half == F \div 2
           n == c * R
<1>1. half \in Int /\ 0 <= half /\ half < F  BY <1>0
<1>2. n \in Int  BY <1>0
<1>3. (F * c) * R = F * n  BY <1>0
<1>  HIDE DEF half
<1>4. (F * n + half) \div F = n
  <2>1. F * n + half \in Int  BY <1>0, <1>1, <1>2
  <2>  HIDE DEF n
  <2>  QED  BY <2>1, <1>0, <1>1, <1>2, DivUnique
<1>5. n \div R = c
  <2>1. n = R * c + 0 /\ 0 \in Int /\ 0 <= 0 /\ c \in Int  BY <1>0
  <2>  HIDE DEF n
  <2>  QED  BY <2>1, <1>0, <1>2, DivUnique, Zenon
<1>  HIDE DEF n
<1>  QED  BY <1>3, <1>4, <1>5 DEF quick_floor, half

\* A float on a node, by whichever floor.
LEMMA FloatNode ==
    ASSUME NEW j, IsLookUp(j), NEW a \in 1..Inputs(j), j.float, PartsOf(j, a) = 0
    PROVE  LET x == FloatBetween(j, a, CellOf(j, a))
           IN  /\ CellOf(j, a) = FloatPosition(j, a) \div F
               /\ CellOf(j, a) = quick_floor(FloatPosition(j, a))
               /\ AxisOnNode(j, a, x)
               /\ x.lo \in Nat /\ x.lo <= Domain(j, a) * Opta(j, a) /\ x.hi \in Nat /\ x.lo <= x.hi
               /\ Domain(j, a) >= 1 => AxisIn(j, a, x)
<1> DEFINE d == Domain(j, a)
           o == Opta(j, a)
           v == Clamp(j.input[a], F)
           c == CellOf(j, a)
           x == FloatBetween(j, a, c)
<1>0. F \in Nat /\ F >= 2 /\ F > 0  BY ScaleFacts
<1>1. d \in Nat /\ o \in Nat /\ o >= 1 /\ j.input[a] \in Int  BY DomainFacts
<1>2. v \in Nat /\ v <= F
  <2>1. v \in 0..F  BY <1>0, <1>1, Clamped
  <2>  HIDE DEF v
  <2>  QED  BY <2>1, <1>0
<1>3. FloatPosition(j, a) = v * d /\ c = (v * d) \div F /\ (v * d) % F = 0
  BY DEF FloatPosition, CellOf, PartsOf, Position, Scale
<1>4. x = [lo |-> c * o, rest |-> v * d - c * F, hi |-> IF v < F THEN c * o + o ELSE c * o]
  BY DEF FloatBetween
<1>5. c \in Nat /\ v * d = F * c
  <2> DEFINE n == v * d
  <2>1. n \in Nat  BY <1>1, <1>2
  <2>2. c = n \div F /\ n % F = 0  BY <1>3
  <2>  HIDE DEF n, c
  <2>3. n \div F \in Int /\ n \div F >= 0 /\ n = F * (n \div F) + (n % F)  BY <2>1, <1>0, DivParts
  <2>4. c \in Nat  BY <2>2, <2>3
  <2>5. n = F * c  BY <2>2, <2>3, <2>4, <1>0
  <2>  QED  BY <2>4, <2>5 DEF n
<1>6. c = quick_floor(FloatPosition(j, a))  BY <1>3, <1>5, QuickFloorWhole
<1>  HIDE DEF d, o, v, c
<1>7. c <= d
  <2> SUFFICES ASSUME c >= d + 1  PROVE FALSE  BY <1>1, <1>5
  <2>1. (d + 1) * F <= c * F  BY <1>0, <1>1, <1>5, ProductGrows
  <2>2. v * d <= F * d  BY <1>0, <1>1, <1>2, ProductGrows
  <2>3. (d + 1) * F = F * d + F /\ c * F = F * c /\ F * d \in Nat /\ F * c \in Nat
    BY <1>0, <1>1, <1>5
  <2>4. F * d + F <= F * c  BY <2>1, <2>3
  <2>5. F * c <= F * d  BY <2>2, <1>5
  <2> DEFINE most == F * d
             there == F * c
  <2>6. most \in Nat /\ there \in Nat /\ most + F <= there /\ there <= most  BY <2>3, <2>4, <2>5
  <2>  HIDE DEF most, there
  <2>  QED  BY <2>6, <1>0
<1>8. ASSUME v < F, d >= 1  PROVE c + 1 <= d
  <2> SUFFICES ASSUME c >= d  PROVE FALSE  BY <1>1, <1>5
  <2>1. d * F <= c * F  BY <1>0, <1>1, <1>5, ProductGrows
  <2>2. v * d <= (F - 1) * d
    <3>1. F - 1 \in Nat /\ v <= F - 1  BY <1>0, <1>2, <1>8
    <3>  QED  BY <3>1, <1>1, <1>2, ProductGrows
  <2>3. d * F = F * d /\ c * F = F * c /\ F * d \in Nat /\ (F - 1) * d = F * d - d
          /\ F * c \in Nat
    BY <1>0, <1>1, <1>5
  <2> DEFINE most == F * d
             there == F * c
  <2>4. most <= there  BY <2>1, <2>3
  <2>5. there <= most - d  BY <2>2, <2>3, <1>5
  <2>6. most \in Nat /\ there \in Nat  BY <2>3
  <2>  HIDE DEF most, there
  <2>  QED  BY <2>4, <2>5, <2>6, <1>1, <1>8
<1>9. c * o \in Nat /\ c * o <= d * o  BY <1>1, <1>5, <1>7, ProductGrows
<1>10. v < F /\ d >= 1 => c * o + o <= d * o
  <2> SUFFICES ASSUME v < F, d >= 1  PROVE c * o + o <= d * o  OBVIOUS
  <2>1. c + 1 \in Nat /\ c + 1 <= d  BY <1>5, <1>8
  <2>2. (c + 1) * o <= d * o  BY <2>1, <1>1, ProductGrows
  <2>3. (c + 1) * o = c * o + o  BY <1>1, <1>5
  <2>  QED  BY <2>2, <2>3
<1>11. x.rest = 0
  <2>1. x.rest = v * d - c * F  BY <1>4
  <2>2. c * F = F * c /\ F * c \in Int  BY <1>0, <1>5
  <2>  QED  BY <2>1, <2>2, <1>5
<1>12. x.lo = c * o /\ x.hi = (IF v < F THEN c * o + o ELSE c * o)  BY <1>4
<1>  HIDE DEF x
<1>13. x.hi \in Nat /\ x.lo <= x.hi /\ (d >= 1 => x.hi <= d * o)  BY <1>9, <1>10, <1>12, <1>1
<1>14. x.rest \in Int  BY <1>11
<1>  QED  BY <1>3, <1>6, <1>9, <1>11, <1>12, <1>13, <1>14 DEF AxisIn, AxisOnNode, d, o, c, x

\* Every kind of axis, of words anywhere and of floats on a node.
LEMMA AxisFacts ==
    ASSUME NEW j, IsLookUp(j), NEW a \in 1..Inputs(j), PartsOf(j, a) = 0 \/ ~j.float
    PROVE  /\ AxisIn(j, a, Axes(j)[a])
           /\ PartsOf(j, a) = 0 => AxisOnNode(j, a, Axes(j)[a])
<1> DEFINE N == Inputs(j)
           d == Domain(j, a)
           o == Opta(j, a)
           x == Axes(j)[a]
<1>0. N \in Nat /\ N >= 1 /\ j.float \in BOOLEAN  BY LookUpFacts DEF IsLookUp
<1>1. d \in Nat /\ o \in Nat /\ o >= 1 /\ (N > 1 => d >= 1)  BY DomainFacts
<1>  HIDE DEF d, o
<1>2. CASE N = 1
  <2>1. a = 1 /\ x = OneAxis(j)  BY <1>2 DEF Axes
  <2>2. CASE j.float
    <3> DEFINE y == FloatBetween(j, a, CellOf(j, a))
    <3>1. y = FloatAxis(j, 1) /\ y.rest = 0 /\ y.lo \in Nat /\ y.lo <= d * o /\ AxisOnNode(j, a, y)
      BY <2>1, <2>2, FloatNode DEF FloatAxis, AxisOnNode, d, o
    <3>2. x.lo = y.lo /\ x.rest = y.rest /\ x.hi = y.lo
      <4>1. x = [y EXCEPT !.hi = IF y.rest > 0 THEN @ ELSE y.lo]  BY <2>1, <2>2, <3>1 DEF OneAxis
      <4>2. y = [lo |-> y.lo, rest |-> y.rest, hi |-> y.hi]  BY DEF FloatBetween
      <4>  HIDE DEF y, x
      <4>3. ~(y.rest > 0)  BY <3>1
      <4>  QED  BY <4>1, <4>2, <4>3
    <3>  HIDE DEF x, y
    <3>  QED  BY <3>1, <3>2 DEF AxisIn, AxisOnNode, d, o, x
  <2>3. CASE ~j.float
    <3> DEFINE y == WordAxis(j, 1)
    <3>1. /\ y.lo \in Nat /\ y.rest \in Int /\ y.lo <= d * o
          /\ d >= 1 => AxisIn(j, a, y)
          /\ PartsOf(j, a) = 0 => AxisOnNode(j, a, y)
      BY <2>1, <2>3, WordAxisFacts DEF d, o
    <3>2. x.lo = y.lo /\ x.rest = y.rest /\ x.hi = IF d = 0 THEN y.lo ELSE y.hi
      <4>1. x = [y EXCEPT !.hi = IF d = 0 THEN y.lo ELSE @]  BY <2>1, <2>3 DEF OneAxis, d
      <4>2. y = [lo |-> y.lo, rest |-> y.rest, hi |-> y.hi]  BY DEF WordAxis
      <4>  HIDE DEF y, x
      <4>  QED  BY <4>1, <4>2
    <3>  HIDE DEF x, y
    <3>3. d = 0 \/ d >= 1  BY <1>1
    <3>  QED  BY <3>1, <3>2, <3>3 DEF AxisIn, AxisOnNode, d, o, x
  <2>  QED  BY <2>2, <2>3, <1>0
<1>3. CASE N > 1 /\ ~j.float
  <2>0. N # 1 /\ N > 1 /\ ~j.float  BY <1>3
  <2>1. x = WordAxis(j, a)  BY <2>0, Zenon DEF Axes
  <2>2. d >= 1  BY <1>1, <1>3
  <2>  QED  BY <2>1, <2>2, <1>3, WordAxisFacts DEF d
<1>4. CASE N > 1 /\ j.float
  <2> DEFINE y == FloatBetween(j, a, CellOf(j, a))
  <2>1. d >= 1  BY <1>1, <1>4
  <2>2. AxisOnNode(j, a, y) /\ AxisIn(j, a, y)  BY <2>1, <1>4, FloatNode DEF d
  <2>3. y = FloatAxis(j, a) /\ y = QuickFloorAxis(j, a)
    BY <1>4, FloatNode DEF FloatAxis, QuickFloorAxis
  <2>4. N = 2 => x = BilinearFloatAxis(j, a)
    <3>1. N = 2 => N # 1 /\ ~(N > 1 /\ ~j.float) /\ N = 2 /\ j.float  BY <1>4
    <3>  QED  BY <3>1, Zenon DEF Axes
  <2>5. BilinearFloatAxis(j, a).lo = y.lo /\ BilinearFloatAxis(j, a).hi = y.hi
        /\ BilinearFloatAxis(j, a).rest = y.rest
    <3>1. BilinearFloatAxis(j, a) = [y EXCEPT !.lo = Clamp(@, d * o), !.hi = Clamp(@, d * o)]
      BY <2>3 DEF BilinearFloatAxis, d, o
    <3>2. y = [lo |-> y.lo, rest |-> y.rest, hi |-> y.hi]  BY DEF FloatBetween
    <3>3. d * o \in Nat  BY <1>1
    <3>4. y.lo \in Nat /\ y.hi \in Nat /\ y.lo <= d * o /\ y.hi <= d * o
      BY <2>2, <3>3, <1>1 DEF AxisIn, d, o
    <3>  HIDE DEF y
    <3>5. Clamp(y.lo, d * o) = y.lo /\ Clamp(y.hi, d * o) = y.hi  BY <3>3, <3>4 DEF Clamp
    <3>  QED  BY <3>1, <3>2, <3>5
  <2>6. N # 2 => x = y
    <3>1. N # 2 => N # 1 /\ ~(N > 1 /\ ~j.float) /\ ~(N = 2 /\ j.float)  BY <1>4
    <3>2. N # 2 => x = IF UsesQuickFloor(j, a) THEN QuickFloorAxis(j, a) ELSE FloatAxis(j, a)
      BY <3>1, Zenon DEF Axes
    <3>  QED  BY <3>2, <2>3
  <2>  HIDE DEF x, y
  <2>7. x.lo = y.lo /\ x.hi = y.hi /\ x.rest = y.rest  BY <2>4, <2>5, <2>6
  <2>  QED  BY <2>2, <2>7 DEF AxisIn, AxisOnNode, x
<1>  QED  BY <1>0, <1>2, <1>3, <1>4

-----------------------------------------------------------------------------
(* The kernels. *)

\* Nothing past the table is read: words anywhere, floats on a node.
LEMMA FurthestInTable ==
    ASSUME NEW j, IsLookUp(j), OnNode(j) \/ ~j.float
    PROVE  Furthest(j, Axes(j)) < Len(j.table)
<1> DEFINE N == Inputs(j)
           ends == [a \in 1..N |-> Axes(j)[a].hi]
           lasts == [a \in 1..N |-> Domain(j, a) * Opta(j, a)]
<1>0. N \in Nat /\ j.outputs \in Nat  BY LookUpFacts
<1>1. ASSUME NEW a \in 1..N  PROVE ends[a] \in Nat /\ lasts[a] \in Nat /\ ends[a] <= lasts[a]
  <2>1. AxisIn(j, a, Axes(j)[a])  BY AxisFacts DEF OnNode
  <2>2. Domain(j, a) \in Nat /\ Opta(j, a) \in Nat  BY DomainFacts
  <2>3. Domain(j, a) * Opta(j, a) \in Nat  BY <2>2
  <2>  QED  BY <2>1, <2>3 DEF AxisIn
<1>2. ends \in [1..N -> Int] /\ lasts \in [1..N -> Int]
  <2>1. \A a \in 1..N : Axes(j)[a].hi \in Int /\ Domain(j, a) * Opta(j, a) \in Int  BY <1>1
  <2>  HIDE DEF N
  <2>  QED  BY <2>1
<1>  HIDE DEF ends, N
<1>3. PICK h : IsSum(h, N, ends) /\ h[N] = SumUpTo(N, ends)  BY <1>0, <1>2, SumSolution
<1>4. PICK s : IsSum(s, N, lasts)
  <2>  HIDE DEF lasts
  <2>  QED  BY <1>0, <1>2, SumSolution
<1>5. s[N] + j.outputs = Len(j.table)  BY <1>4, StridesFillTable DEF N
<1>  HIDE DEF lasts
<1>6. h[N] <= s[N] /\ h[N] \in Int /\ s[N] \in Int
  <2> DEFINE S == {k \in 0..N : h[k] <= s[k]}
  <2>0. h \in [0..N -> Int] /\ s \in [0..N -> Int]  BY <1>3, <1>4 DEF IsSum
  <2>1. 0 \in S  BY <1>0, <1>3, <1>4 DEF IsSum
  <2>2. ASSUME NEW k \in 0..N, k # N, k \in S  PROVE k + 1 \in S
    <3>1. k + 1 \in 1..N /\ (k + 1) - 1 = k /\ k + 1 \in 0..N  BY <1>0, <2>2
    <3>2. h[k + 1] = h[k] + ends[k + 1] /\ s[k + 1] = s[k] + lasts[k + 1]
      BY <3>1, <1>3, <1>4 DEF IsSum
    <3>3. h[k] \in Int /\ s[k] \in Int /\ h[k] <= s[k]  BY <2>0, <2>2
    <3>  QED  BY <3>1, <3>2, <3>3, <1>1
  <2>3. 0..N \subseteq S
    <3> HIDE DEF S
    <3> QED  BY <1>0, <2>1, <2>2, IntervalInduction
  <2>4. N \in 0..N  BY <1>0
  <2>  QED  BY <2>0, <2>3, <2>4
<1>7. Furthest(j, Axes(j)) = h[N] + j.outputs - 1  BY <1>3 DEF Furthest, ends, N
<1>  QED  BY <1>0, <1>5, <1>6, <1>7

\* The recursion of the nested interpolations, one level after the other.
NestedRow(V, j, axes, k) ==
    [at \in DOMAIN V[0] |->
       Lerp(j, axes[k].rest, V[k - 1][at + axes[k].lo], V[k - 1][at + axes[k].hi])]

LEMMA NestedSteps ==
    ASSUME NEW j, NEW axes, NEW inner, Len(axes) \in Nat
    PROVE  \E V : /\ V[0] = inner /\ \A k \in 1..Len(axes) : V[k] = NestedRow(V, j, axes, k)
                  /\ Nested(j, axes, inner) = V[Len(axes)]
<1> DEFINE n == Len(axes)
           row(f, k) == [at \in DOMAIN inner |->
                           Lerp(j, axes[k].rest, f[at + axes[k].lo], f[at + axes[k].hi])]
           P(m, V) == V = [k \in 0..m |-> IF k = 0 THEN inner ELSE row(V[k - 1], k)]
           S == {m \in 0..n : \E V : P(m, V)}
<1>0. n \in Nat  OBVIOUS
<1>  HIDE DEF n, row
<1>1. 0 \in S
  <2>1. P(0, [k \in 0..0 |-> inner])  OBVIOUS
  <2>  HIDE DEF P
  <2>  QED  BY <2>1, <1>0
<1>2. ASSUME NEW m \in 0..n, m # n, m \in S  PROVE m + 1 \in S
  <2>1. PICK V : P(m, V)  BY <1>2
  <2>0. m + 1 \in 1..n /\ m \in 0..m /\ m \in Nat /\ (m + 1) - 1 = m  BY <1>0, <1>2
  <2> DEFINE U == [k \in 0..(m + 1) |-> IF k <= m THEN V[k] ELSE row(V[m], k)]
  <2>2. ASSUME NEW k \in 0..(m + 1)  PROVE U[k] = IF k = 0 THEN inner ELSE row(U[k - 1], k)
    <3>1. CASE k = 0
      <4>1. U[k] = V[0] /\ V[0] = inner  BY <3>1, <2>0, <2>1
      <4>  QED  BY <4>1, <3>1
    <3>2. CASE k \in 1..m
      <4>1. U[k] = V[k] /\ U[k - 1] = V[k - 1]  BY <3>2, <2>0
      <4>2. V[k] = row(V[k - 1], k)  BY <3>2, <2>1, <2>0
      <4>3. k # 0  BY <3>2
      <4>  HIDE DEF U
      <4>  QED  BY <4>1, <4>2, <4>3
    <3>3. CASE k = m + 1
      <4>1. U[k] = row(V[m], k) /\ U[k - 1] = V[m] /\ k # 0  BY <3>3, <2>0
      <4>  HIDE DEF U
      <4>  QED  BY <4>1
    <3>4. k = 0 \/ k \in 1..m \/ k = m + 1  BY <2>0
    <3>  QED  BY <3>1, <3>2, <3>3, <3>4
  <2>3. U = [k \in 0..(m + 1) |-> IF k = 0 THEN inner ELSE row(U[k - 1], k)]
    <3>1. U = [k \in 0..(m + 1) |-> U[k]]  OBVIOUS
    <3>  HIDE DEF U
    <3>  QED  BY <3>1, <2>2
  <2>  HIDE DEF U
  <2>4. \E W : P(m + 1, W)  BY <2>3
  <2>5. m + 1 \in 0..n  BY <2>0
  <2>  QED  BY <2>4, <2>5
<1>3. n \in S
  <2>1. 0..n \subseteq S
    <3> HIDE DEF S
    <3> QED  BY <1>0, <1>1, <1>2, IntervalInduction
  <2>2. n \in 0..n  BY <1>0
  <2>  QED  BY <2>1, <2>2
<1> DEFINE h == CHOOSE V : P(n, V)
<1>4. P(n, h)
  <2>1. \E V : P(n, V)  BY <1>3
  <2>  HIDE DEF P
  <2>  QED  BY <2>1
<1>5. Nested(j, axes, inner) = h[n]  BY DEF Nested, n, row
<1>  HIDE DEF h
<1>6. h[0] = inner  BY <1>0, <1>4
<1>7. ASSUME NEW k \in 1..n  PROVE h[k] = NestedRow(h, j, axes, k)
  <2>1. k \in 0..n /\ k # 0  BY <1>0
  <2>2. h[k] = row(h[k - 1], k)  BY <2>1, <1>4
  <2>  QED  BY <2>2, <1>6 DEF NestedRow, row
<1>  QED  BY <1>5, <1>6, <1>7 DEF n

\* Half of a unit is rounded off.
LEMMA HalfRoundsOff ==
    /\ One \div 2 \in Int /\ 0 <= One \div 2 /\ One \div 2 + 1 < One
    /\ (One \div 2) \div One = 0
<1>0. One \in Nat /\ One >= 3  BY ScaleFacts
<1> DEFINE half == One \div 2
<1>1. half \in Int /\ 0 <= half /\ half + 1 < One  BY <1>0
<1>  HIDE DEF half
<1>2. half = One * 0 + half  BY <1>0, <1>1
<1>3. half \div One = 0  BY <1>0, <1>1, <1>2, DivUnique
<1>  QED  BY <1>1, <1>3 DEF half

\* At a node the interpolation gives the value of the node, a float's scaled.
LEMMA LerpOnNode ==
    ASSUME NEW j, NEW x \in Int, NEW y \in Int, ~j.float => 0 <= x /\ x < One
    PROVE  Lerp(j, 0, x, y) = IF j.float THEN x * F ELSE x
<1>0. One \in Nat /\ One >= 3 /\ F \in Nat  BY ScaleFacts
<1>1. (y - x) * 0 = 0  OBVIOUS
<1>2. CASE j.float
  <2>1. Lerp(j, 0, x, y) = x * F + (y - x) * 0  BY <1>2 DEF Lerp
  <2>  QED  BY <1>0, <1>1, <1>2, <2>1
<1>3. CASE ~j.float
  <2> DEFINE half == One \div 2
  <2>1. Lerp(j, 0, x, y) = (x + ((y - x) * 0 + half) \div One) % One
    BY <1>3 DEF Lerp, LerpWord
  <2>2. (y - x) * 0 + half = half /\ half \div One = 0  BY <1>1, HalfRoundsOff
  <2>  HIDE DEF half
  <2>3. Lerp(j, 0, x, y) = (x % One)  BY <2>1, <2>2
  <2>4. (x % One) = x
    <3>1. x = One * 0 + x /\ 0 \in Int /\ 0 <= x /\ x < One  BY <1>0, <1>3
    <3>  QED  BY <3>1, <1>0, DivUnique
  <2>  QED  BY <1>3, <2>3, <2>4
<1>  QED  BY <1>2, <1>3

\* The axes of a node, and the sums of their lower and upper ends.
NodeAxes(n, axes, l, h) ==
    /\ n \in Nat /\ l \in [0..n -> Int] /\ h \in [0..n -> Int] /\ l[0] = 0 /\ h[0] = 0
    /\ \A k \in 1..n : /\ axes[k].rest = 0 /\ axes[k].lo \in Nat /\ axes[k].hi \in Nat
                        /\ axes[k].lo <= axes[k].hi
                        /\ l[k] = l[k - 1] + axes[k].lo /\ h[k] = h[k - 1] + axes[k].hi

LEMMA NodeAxesSums ==
    ASSUME NEW n, NEW axes, NEW l, NEW h, NodeAxes(n, axes, l, h)
    PROVE  \A k \in 0..n : 0 <= l[k] /\ l[k] <= h[k]
<1> DEFINE S == {k \in 0..n : 0 <= l[k] /\ l[k] <= h[k]}
<1>0. n \in Nat  BY DEF NodeAxes
<1>1. 0 \in S  BY DEF NodeAxes
<1>2. ASSUME NEW k \in 0..n, k # n, k \in S  PROVE k + 1 \in S
  <2>1. k + 1 \in 1..n /\ (k + 1) - 1 = k /\ k + 1 \in 0..n  BY <1>0, <1>2
  <2>2. l[k] \in Int /\ h[k] \in Int  BY DEF NodeAxes
  <2>3. /\ axes[k + 1].lo \in Nat /\ axes[k + 1].hi \in Nat /\ axes[k + 1].lo <= axes[k + 1].hi
        /\ l[k + 1] = l[k] + axes[k + 1].lo /\ h[k + 1] = h[k] + axes[k + 1].hi
    BY <2>1 DEF NodeAxes
  <2>4. 0 <= l[k] /\ l[k] <= h[k]  BY <1>2
  <2>5. 0 <= l[k + 1] /\ l[k + 1] <= h[k + 1]  BY <2>2, <2>3, <2>4
  <2>  QED  BY <2>1, <2>5
<1>3. 0..n \subseteq S
  <2> HIDE DEF S
  <2> QED  BY <1>0, <1>1, <1>2, IntervalInduction
<1>  QED  BY <1>3

\* Values up to m, a word's within its range; the powers of a float's scale.
Values(j, inner, m) ==
    /\ m \in Int /\ 0..m \subseteq DOMAIN inner
    /\ \A at \in 0..m : inner[at] \in Int /\ (~j.float => 0 <= inner[at] /\ inner[at] < One)
Powers(w, n) == w[0] = 1 /\ (\A k \in 0..n : w[k] \in Int) /\ (\A k \in 1..n : w[k] = w[k - 1] * F)

\* Nested interpolations on a node read only the lower ends.
LEMMA NestedOnNode ==
    ASSUME NEW j, NEW axes, NEW l, NEW h, NodeAxes(Len(axes), axes, l, h),
           NEW inner, NEW m, Values(j, inner, m), NEW w, Powers(w, Len(axes)),
           NEW base \in Nat, base + h[Len(axes)] <= m
    PROVE  Nested(j, axes, inner)[base]
             = inner[base + l[Len(axes)]] * (IF j.float THEN w[Len(axes)] ELSE 1)
<1> DEFINE n == Len(axes)
           scale(k) == IF j.float THEN w[k] ELSE 1
<1>0. n \in Nat  BY DEF NodeAxes
<1>20. /\ m \in Int /\ 0..m \subseteq DOMAIN inner
       /\ \A at \in 0..m : inner[at] \in Int /\ (~j.float => 0 <= inner[at] /\ inner[at] < One)
  BY DEF Values
<1>21. w[0] = 1 /\ (\A k \in 0..n : w[k] \in Int) /\ (\A k \in 1..n : w[k] = w[k - 1] * F)  BY DEF Powers
<1>1. PICK V : /\ V[0] = inner /\ \A k \in 1..n : V[k] = NestedRow(V, j, axes, k)
               /\ Nested(j, axes, inner) = V[n]
  BY <1>0, NestedSteps
<1>2. \A k \in 0..n : 0 <= l[k] /\ l[k] <= h[k] /\ l[k] \in Int /\ h[k] \in Int
  <2>1. \A k \in 0..n : 0 <= l[k] /\ l[k] <= h[k]  BY NodeAxesSums
  <2>2. \A k \in 0..n : l[k] \in Int /\ h[k] \in Int  BY DEF NodeAxes
  <2>  QED  BY <2>1, <2>2
<1>3. \A k \in 1..n : /\ axes[k].rest = 0 /\ axes[k].lo \in Nat /\ axes[k].hi \in Nat
                      /\ axes[k].lo <= axes[k].hi
                      /\ l[k] = l[k - 1] + axes[k].lo /\ h[k] = h[k - 1] + axes[k].hi
                      /\ w[k] = w[k - 1] * F
  BY <1>21 DEF NodeAxes
<1>4. l[0] = 0 /\ h[0] = 0 /\ \A k \in 0..n : w[k] \in Int  BY <1>21 DEF NodeAxes
<1>5. F \in Nat  BY ScaleFacts
<1>  HIDE DEF n
<1> DEFINE S == {k \in 0..n : \A at \in 0..m : at + h[k] <= m => V[k][at] = inner[at + l[k]] * scale(k)}
<1>6. 0 \in S
  <2>1. ASSUME NEW at \in 0..m  PROVE V[0][at] = inner[at + l[0]] * scale(0)
    <3>1. at + l[0] = at /\ scale(0) = 1  BY <1>4, <1>20, <1>21
    <3>2. inner[at] \in Int  BY <1>20
    <3>  QED  BY <3>1, <3>2, <1>1
  <2>  QED  BY <2>1, <1>0
<1>7. ASSUME NEW k \in 0..n, k # n, k \in S  PROVE k + 1 \in S
  <2>1. k + 1 \in 1..n /\ (k + 1) - 1 = k /\ k + 1 \in 0..n  BY <1>0, <1>7
  <2>2. V[k + 1] = NestedRow(V, j, axes, k + 1)  BY <2>1, <1>1
  <2> SUFFICES ASSUME NEW at \in 0..m, at + h[k + 1] <= m
               PROVE  V[k + 1][at] = inner[at + l[k + 1]] * scale(k + 1)
    BY <2>1
  <2> DEFINE x == axes[k + 1]
             lo == x.lo
             hi == x.hi
  <2>3. /\ x.rest = 0 /\ lo \in Nat /\ hi \in Nat /\ lo <= hi
        /\ l[k + 1] = l[k] + lo /\ h[k + 1] = h[k] + hi /\ w[k + 1] = w[k] * F
    BY <2>1, <1>3
  <2>4. V[k + 1][at] = Lerp(j, 0, V[k][at + lo], V[k][at + hi])
    <3>1. at \in DOMAIN V[0]  BY <1>1, <1>20
    <3>2. NestedRow(V, j, axes, k + 1)[at]
            = Lerp(j, axes[k + 1].rest, V[(k + 1) - 1][at + axes[k + 1].lo],
                   V[(k + 1) - 1][at + axes[k + 1].hi])
      BY <3>1, Zenon DEF NestedRow
    <3>  QED  BY <3>2, <2>1, <2>2, <2>3
  <2>  HIDE DEF x, lo, hi
  <2>5. l[k] \in Int /\ h[k] \in Int /\ 0 <= l[k] /\ l[k] <= h[k] /\ w[k] \in Int /\ w[k + 1] \in Int
    BY <1>2, <1>4, <2>1
  <2>6. at + lo \in 0..m /\ at + hi \in 0..m /\ (at + lo) + h[k] <= m /\ (at + hi) + h[k] <= m
    <3>1. at \in Int /\ 0 <= at /\ at + (h[k] + hi) <= m /\ m \in Int  BY <2>3, <2>5, <1>20
    <3> DEFINE hk == h[k]
    <3>2. hk \in Int /\ 0 <= hk /\ at + (hk + hi) <= m  BY <2>5, <3>1
    <3>3. at + lo \in 0..m /\ at + hi \in 0..m /\ (at + lo) + hk <= m /\ (at + hi) + hk <= m
      <4> HIDE DEF hk
      <4> QED  BY <2>3, <3>1, <3>2
    <3>  QED  BY <3>3
  <2>7. /\ V[k][at + lo] = inner[(at + lo) + l[k]] * scale(k)
        /\ V[k][at + hi] = inner[(at + hi) + l[k]] * scale(k)
    BY <1>7, <2>6
  <2>8. (at + lo) + l[k] = at + l[k + 1]  BY <2>3, <2>5
  <2> DEFINE p == inner[at + l[k + 1]]
             q == inner[(at + hi) + l[k]]
  <2>9. p \in Int /\ q \in Int /\ (~j.float => 0 <= p /\ p < One)
    <3> DEFINE lk == l[k]
               hk == h[k]
    <3>1. lk \in Int /\ hk \in Int /\ 0 <= lk /\ lk <= hk /\ l[k + 1] = lk + lo /\ m \in Int
      BY <2>3, <2>5, <1>20
    <3>2. (at + lo) + hk <= m /\ (at + hi) + hk <= m /\ at \in Int /\ 0 <= at  BY <2>6
    <3>3. at + (lk + lo) \in 0..m /\ (at + hi) + lk \in 0..m
      <4> HIDE DEF hk, lk
      <4> QED  BY <2>3, <3>1, <3>2
    <3>4. at + l[k + 1] \in 0..m /\ (at + hi) + l[k] \in 0..m  BY <3>1, <3>3
    <3>  QED  BY <3>4, <1>20
  <2>10. V[k + 1][at] = Lerp(j, 0, p * scale(k), q * scale(k))  BY <2>4, <2>7, <2>8
  <2>  HIDE DEF p, q
  <2>11. CASE j.float
    <3>1. p * w[k] \in Int /\ q * w[k] \in Int  BY <2>5, <2>9
    <3>2. Lerp(j, 0, p * w[k], q * w[k]) = (p * w[k]) * F  BY <2>11, <3>1, LerpOnNode
    <3>3. (p * w[k]) * F = p * (w[k] * F)  BY <2>5, <2>9, <1>5
    <3>  QED  BY <2>3, <2>10, <2>11, <3>2, <3>3 DEF p
  <2>12. CASE ~j.float
    <3>1. p * 1 = p /\ q * 1 = q  BY <2>9
    <3>2. Lerp(j, 0, p, q) = p  BY <2>9, <2>12, LerpOnNode
    <3>  QED  BY <2>10, <2>12, <3>1, <3>2 DEF p
  <2>  QED  BY <2>11, <2>12
<1>8. 0..n \subseteq S
  <2> HIDE DEF S
  <2> QED  BY <1>0, <1>6, <1>7, IntervalInduction
<1>9. n \in 0..n  BY <1>0
<1>10. base \in 0..m
  <2>1. h[n] \in Int /\ 0 <= h[n]  BY <1>2, <1>9
  <2>2. base + h[n] <= m  BY DEF n
  <2>  QED  BY <2>1, <2>2, <1>20
<1>  QED  BY <1>1, <1>8, <1>9, <1>10 DEF n

\* A sum that no step contributes to leaves nothing but its rounding.
LEMMA SignedHalf == Signed(One \div 2 + 1) = One \div 2 + 1 /\ (One \div 2 + 1) \div One = 0
<1> DEFINE e == One \div 2 + 1
           wide == One * One
<1>0. One \in Nat /\ One >= 3  BY ScaleFacts
<1>1. e \in Int /\ 0 <= e /\ e < One  BY HalfRoundsOff
<1>2. wide \in Nat /\ wide >= 3 * One
  <2>1. 3 * One <= One * One  BY <1>0, ProductGrows
  <2>  QED  BY <1>0, <2>1
<1>3. Signed(e) = LET s == e % wide IN IF s >= wide \div 2 THEN s - wide ELSE s  BY DEF Signed
<1>  HIDE DEF e, wide
<1>4. (e % wide) = e /\ wide > 0
  <2>1. e = wide * 0 + e /\ e < wide /\ wide > 0 /\ 0 \in Int  BY <1>0, <1>1, <1>2
  <2>  QED  BY <2>1, <1>1, <1>2, DivUnique
<1>5. ~(e >= wide \div 2)  BY <1>0, <1>1, <1>2
<1>6. Signed(e) = e  BY <1>3, <1>4, <1>5
<1>7. e \div One = 0
  <2>1. e = One * 0 + e /\ 0 \in Int  BY <1>0, <1>1
  <2>  QED  BY <2>1, <1>0, <1>1, DivUnique
<1>  QED  BY <1>6, <1>7 DEF e

\* Three channels on a node: the first corner is the node, and the rest adds nothing.
LEMMA TetrahedralOnNode ==
    ASSUME NEW j, IsLookUp(j), NEW axes,
           \A a \in 1..3 : /\ axes[a].rest = 0 /\ axes[a].lo \in Nat /\ axes[a].hi \in Nat
                           /\ axes[a].lo <= axes[a].hi,
           NEW base \in Nat, base + (axes[1].hi + axes[2].hi + axes[3].hi) < Len(j.table)
    PROVE  LET value == j.table[1 + (base + (axes[1].lo + axes[2].lo + axes[3].lo))]
           IN  /\ value \in Int /\ (~j.float => 0 <= value /\ value < One)
               /\ Tetrahedral(j, axes, base) = value * (IF j.float THEN F ELSE 1)
<1> DEFINE lo(a) == axes[a].lo
           hi(a) == axes[a].hi
           value == j.table[1 + (base + (lo(1) + lo(2) + lo(3)))]
           corner == Corners(j, axes, base)
           L == Len(j.table)
<1>0. One \in Nat /\ One >= 3 /\ F \in Nat  BY ScaleFacts
<1>1. \A i \in 1..L : j.table[i] \in Int /\ (~j.float => 0 <= j.table[i] /\ j.table[i] < One)
  <2>1. j.table \in Seq(Int)  BY DEF IsLookUp
  <2>2. \A i \in 1..L : ~j.float => 0 <= j.table[i] /\ j.table[i] < One  BY DEF IsLookUp
  <2>  QED  BY <2>1, <2>2
<1>2. L \in Nat
  <2>1. j.table \in Seq(Int)  BY DEF IsLookUp
  <2>  QED  BY <2>1
<1>3. AxisOrder(axes) = <<1, 2, 3>>
  <2>1. axes[1].rest = 0 /\ axes[2].rest = 0 /\ axes[3].rest = 0  OBVIOUS
  <2>2. Order3(0, 0, 0) = <<1, 2, 3>>  BY DEF Order3
  <2>  QED  BY <2>1, <2>2 DEF AxisOrder
<1>4. \A a \in 1..3 : lo(a) \in Nat /\ hi(a) \in Nat /\ lo(a) <= hi(a)  OBVIOUS
<1>5. \A k \in 0..3, a \in 1..3 : Step(axes, k, a) \in {lo(a), hi(a)}  BY DEF Step
<1>6. \A a \in 1..3 : Step(axes, 0, a) = lo(a)
  <2>1. ~\E i \in 1..0 : TRUE  OBVIOUS
  <2>  QED  BY <2>1 DEF Step
<1>7. base + (hi(1) + hi(2) + hi(3)) < L  OBVIOUS
<1>  HIDE DEF lo, hi, L
<1>8. ASSUME NEW x \in {lo(1), hi(1)}, NEW y \in {lo(2), hi(2)}, NEW z \in {lo(3), hi(3)}
      PROVE  1 + base + x + y + z \in 1..L
  <2>1. \A a \in {1, 2, 3} : lo(a) \in Nat /\ hi(a) \in Nat /\ lo(a) <= hi(a)  BY <1>4
  <2>2. x \in Nat /\ y \in Nat /\ z \in Nat /\ x <= hi(1) /\ y <= hi(2) /\ z <= hi(3)  BY <2>1
  <2>  QED  BY <2>1, <2>2, <1>2, <1>7
<1>9. ASSUME NEW k \in 0..3  PROVE corner[k] \in Int
  <2> DEFINE x == Step(axes, k, 1)
             y == Step(axes, k, 2)
             z == Step(axes, k, 3)
  <2>1. corner[k] = j.table[1 + base + x + y + z]  BY DEF Corners
  <2>2. x \in {lo(1), hi(1)} /\ y \in {lo(2), hi(2)} /\ z \in {lo(3), hi(3)}  BY <1>5
  <2>  HIDE DEF x, y, z, corner
  <2>3. 1 + base + x + y + z \in 1..L  BY <2>2, <1>8
  <2>  QED  BY <2>1, <2>3, <1>1
<1>10. corner[0] = value /\ value \in Int /\ (~j.float => 0 <= value /\ value < One)
  <2>1. corner[0] = j.table[1 + base + lo(1) + lo(2) + lo(3)]  BY <1>6 DEF Corners
  <2>2. 1 + base + lo(1) + lo(2) + lo(3) \in 1..L  BY <1>8
  <2>3. 1 + base + lo(1) + lo(2) + lo(3) = 1 + (base + (lo(1) + lo(2) + lo(3)))
    <3>1. lo(1) \in Nat /\ lo(2) \in Nat /\ lo(3) \in Nat  BY <1>4
    <3>  QED  BY <3>1
  <2>  HIDE DEF corner
  <2>  QED  BY <2>1, <2>2, <2>3, <1>1
<1>11. StepsSum(axes, corner) = 0
  <2>1. axes[AxisOrder(axes)[1]].rest = 0 /\ axes[AxisOrder(axes)[2]].rest = 0
        /\ axes[AxisOrder(axes)[3]].rest = 0
    BY <1>3
  <2>2. StepsSum(axes, corner) = (corner[1] - corner[1 - 1]) * 0 + (corner[2] - corner[2 - 1]) * 0
                                 + (corner[3] - corner[3 - 1]) * 0
    BY <2>1 DEF StepsSum
  <2>3. corner[0] \in Int /\ corner[1] \in Int /\ corner[2] \in Int /\ corner[3] \in Int  BY <1>9
  <2>4. 1 - 1 = 0 /\ 2 - 1 = 1 /\ 3 - 1 = 2  OBVIOUS
  <2>  HIDE DEF corner
  <2>  QED  BY <2>2, <2>3, <2>4
<1>12. CASE j.float
  <2>1. Tetrahedral(j, axes, base) = corner[0] * F + StepsSum(axes, corner)
    BY <1>12 DEF Tetrahedral, TetrahedralFloat
  <2>  HIDE DEF corner, value
  <2>2. Tetrahedral(j, axes, base) = value * F  BY <2>1, <1>0, <1>10, <1>11
  <2>  QED  BY <2>2, <1>10, <1>12 DEF value, lo
<1>13. CASE ~j.float
  <2> DEFINE half == One \div 2
  <2>1. Tetrahedral(j, axes, base)
          = (corner[0] + Signed(Signed(StepsSum(axes, corner) + half + 1)
                                + Signed(StepsSum(axes, corner) + half + 1) \div One) \div One) % One
    BY <1>13 DEF Tetrahedral, Tetrahedral16
  <2>2. half \in Int /\ Signed(half + 1) = half + 1 /\ (half + 1) \div One = 0
    BY HalfRoundsOff, SignedHalf
  <2>  HIDE DEF corner, value, half
  <2>3. StepsSum(axes, corner) + half + 1 = half + 1 /\ (half + 1) + 0 = half + 1
    BY <1>11, <2>2
  <2>4. Tetrahedral(j, axes, base) = (value + 0) % One  BY <2>1, <2>2, <2>3, <1>10
  <2>5. value + 0 = value /\ value * 1 = value  BY <1>10
  <2>6. (value % One) = value
    <3>1. value = One * 0 + value /\ 0 \in Int /\ 0 <= value /\ value < One  BY <1>0, <1>10, <1>13
    <3>2. value \in Int /\ One \in Nat /\ One > 0  BY <1>0, <1>10
    <3>  QED  BY <3>1, <3>2, DivUnique, Zenon
  <2>7. Tetrahedral(j, axes, base) = value  BY <2>4, <2>5, <2>6
  <2>  QED  BY <2>5, <2>7, <1>10, <1>13 DEF value, lo
<1>  QED  BY <1>12, <1>13

\* Zero in every channel: the node itself.
Origin(j) == [a \in 1..Inputs(j) |-> 0]

\* On a node the lower ends add up to it, and the upper ones stay in the table.
NodeSums(j, l, h) ==
    /\ NodeAxes(Inputs(j), Axes(j), l, h)
    /\ h[Inputs(j)] + j.outputs <= Len(j.table)
    /\ \A oc \in 1..j.outputs : Corner(j, Origin(j), oc) = j.table[oc + l[Inputs(j)]]

LEMMA NodeGeometry ==
    ASSUME NEW j, IsLookUp(j), OnNode(j)
    PROVE  \E l, h : NodeSums(j, l, h)
<1> DEFINE N == Inputs(j)
           X == Axes(j)
           los == [a \in 1..N |-> X[a].lo]
           his == [a \in 1..N |-> X[a].hi]
<1>0. N \in Nat /\ N >= 1 /\ j.outputs \in Nat  BY LookUpFacts
<1>1. \A a \in 1..N : /\ X[a].rest = 0 /\ X[a].lo = CellOf(j, a) * Opta(j, a)
                      /\ X[a].lo \in Nat /\ X[a].hi \in Nat /\ X[a].lo <= X[a].hi
  <2>1. ASSUME NEW a \in 1..N  PROVE AxisIn(j, a, X[a]) /\ AxisOnNode(j, a, X[a])
    BY AxisFacts DEF OnNode
  <2>  QED  BY <2>1 DEF AxisIn, AxisOnNode
<1>2. los \in [1..N -> Int] /\ his \in [1..N -> Int]
  <2>  HIDE DEF N, X
  <2>  QED  BY <1>1
<1>3. Furthest(j, X) < Len(j.table) /\ Furthest(j, X) = SumUpTo(N, his) + j.outputs - 1
  BY FurthestInTable DEF Furthest
<1>4. \A oc : Corner(j, Origin(j), oc) = j.table[oc + SumUpTo(N, los)]
  <2> DEFINE node == [a \in 1..N |-> CellOf(j, a) + Origin(j)[a]]
  <2>1. ASSUME NEW a \in 1..N  PROVE node[a] * Opta(j, a) = los[a]
    <3>1. node[a] = CellOf(j, a) + 0  BY DEF Origin
    <3>2. CellOf(j, a) \in Int
      <4> DEFINE p == Position(j, a)
                 sc == Scale(j)
      <4>1. sc \in Nat /\ sc > 0  BY ScaleFacts DEF Scale
      <4>2. p \in Int
        <5>1. Domain(j, a) \in Nat /\ j.input[a] \in Int  BY DomainFacts
        <5>2. Clamp(j.input[a], sc) \in Int  BY <5>1, <4>1 DEF Clamp
        <5>  HIDE DEF sc
        <5>  QED  BY <5>1, <5>2 DEF Position, sc
      <4>  HIDE DEF p, sc
      <4>3. p \div sc \in Int  BY <4>1, <4>2, DivParts
      <4>  QED  BY <4>3 DEF CellOf, p, sc
    <3>3. node[a] = CellOf(j, a)  BY <3>1, <3>2
    <3>  QED  BY <3>3, <1>1
  <2>2. [a \in 1..N |-> node[a] * Opta(j, a)] = los
    <3>  HIDE DEF node
    <3>1. \A a \in 1..N : node[a] * Opta(j, a) = X[a].lo  BY <2>1
    <3>  QED  BY <3>1
  <2>3. \A oc : Corner(j, Origin(j), oc) = j.table[oc + SumUpTo(N, [a \in 1..N |-> node[a] * Opta(j, a)])]
    BY Zenon DEF Corner, IndexOf
  <2>  HIDE DEF los, node
  <2>  QED  BY <2>2, <2>3
<1>  HIDE DEF los, his
<1>5. PICK l : IsSum(l, N, los) /\ l[N] = SumUpTo(N, los)  BY <1>0, <1>2, SumSolution
<1>6. PICK h : IsSum(h, N, his) /\ h[N] = SumUpTo(N, his)  BY <1>0, <1>2, SumSolution
<1>7. \A a \in 1..N : los[a] = X[a].lo /\ his[a] = X[a].hi  BY DEF los, his
<1>8. NodeAxes(N, X, l, h)
  <2>1. \A k \in 1..N : l[k] = l[k - 1] + X[k].lo  BY <1>5, <1>7 DEF IsSum
  <2>2. \A k \in 1..N : h[k] = h[k - 1] + X[k].hi  BY <1>6, <1>7 DEF IsSum
  <2>3. l \in [0..N -> Int] /\ h \in [0..N -> Int] /\ l[0] = 0 /\ h[0] = 0  BY <1>5, <1>6 DEF IsSum
  <2>  HIDE DEF N, X
  <2>  QED  BY <1>0, <1>1, <2>1, <2>2, <2>3 DEF NodeAxes
<1>9. h[N] + j.outputs <= Len(j.table)
  <2>1. h[N] \in Int  BY <1>0, <1>6 DEF IsSum
  <2>2. Len(j.table) \in Nat
    <3>1. j.table \in Seq(Int)  BY DEF IsLookUp
    <3>  QED  BY <3>1
  <2>3. h[N] + j.outputs - 1 < Len(j.table)  BY <1>3, <1>6
  <2> DEFINE hN == h[N]
             len == Len(j.table)
             w == j.outputs
  <2>  HIDE DEF hN, len, w
  <2>4. hN \in Int /\ len \in Nat /\ w \in Nat /\ hN + w - 1 < len  BY <2>1, <2>2, <2>3, <1>0 DEF hN, len, w
  <2>5. hN + w <= len  BY <2>4
  <2>  QED  BY <2>5 DEF hN, len, w
<1>10. \A oc \in 1..j.outputs : Corner(j, Origin(j), oc) = j.table[oc + l[N]]  BY <1>4, <1>5
<1>11. NodeSums(j, l, h)  BY <1>8, <1>9, <1>10 DEF NodeSums
<1>  QED  BY <1>11

\* The interpolations inside one another, of every channel, on a node.
LEMMA MultilinearOnNode ==
    ASSUME NEW j, IsLookUp(j), OnNode(j), NEW oc \in 1..j.outputs,
           NEW w, Powers(w, Inputs(j))
    PROVE  Multilinear(j, Axes(j), oc - 1)
             = Corner(j, Origin(j), oc) * (IF j.float THEN w[Inputs(j)] ELSE 1)
<1> DEFINE N == Inputs(j)
           X == Axes(j)
           inner == [at \in Offsets(j) |-> j.table[1 + at]]
           m == Len(j.table) - 1
           base == oc - 1
<1>0. N \in Nat /\ N >= 1 /\ j.outputs \in Nat  BY LookUpFacts
<1>1. PICK l, h : NodeSums(j, l, h)  BY NodeGeometry
<1>2. Len(X) = N  BY <1>0 DEF Axes
<1>3. /\ NodeAxes(N, X, l, h) /\ h[N] + j.outputs <= Len(j.table)
      /\ Corner(j, Origin(j), oc) = j.table[oc + l[N]]
  BY <1>1 DEF NodeSums
<1>4. /\ Len(j.table) \in Nat
      /\ \A i \in 1..Len(j.table) : j.table[i] \in Int /\ (~j.float => 0 <= j.table[i] /\ j.table[i] < One)
  <2>1. j.table \in Seq(Int)  BY DEF IsLookUp
  <2>2. \A i \in 1..Len(j.table) : ~j.float => 0 <= j.table[i] /\ j.table[i] < One  BY DEF IsLookUp
  <2>  QED  BY <2>1, <2>2
<1>5. DOMAIN inner = 0..m /\ \A at \in 0..m : inner[at] = j.table[1 + at]  BY DEF Offsets
<1>6. \A at \in 0..m : inner[at] \in Int /\ (~j.float => 0 <= inner[at] /\ inner[at] < One)
  <2>1. \A at \in 0..m : 1 + at \in 1..Len(j.table)  BY <1>4
  <2>  HIDE DEF inner, m
  <2>  QED  BY <2>1, <1>4, <1>5
<1>8. h[N] \in Int /\ l[N] \in Int /\ 0 <= l[N] /\ l[N] <= h[N]
  <2>1. N \in 0..N  BY <1>0
  <2>2. 0 <= l[N] /\ l[N] <= h[N]  BY <1>3, <2>1, NodeAxesSums
  <2>3. l \in [0..N -> Int] /\ h \in [0..N -> Int]  BY <1>3 DEF NodeAxes
  <2>  QED  BY <2>1, <2>2, <2>3
<1>9. base \in Nat /\ base + h[N] <= m /\ m \in Int /\ base + l[N] \in 0..m
      /\ 1 + (base + l[N]) = oc + l[N]
  <2> DEFINE hN == h[N]
             lN == l[N]
             len == Len(j.table)
             out == j.outputs
  <2>1. /\ hN \in Int /\ lN \in Int /\ 0 <= lN /\ lN <= hN /\ len \in Nat /\ out \in Nat
        /\ hN + out <= len /\ oc \in 1..out
    BY <1>0, <1>3, <1>4, <1>8
  <2>  HIDE DEF hN, lN, len, out
  <2>2. /\ oc - 1 \in Nat /\ (oc - 1) + hN <= len - 1 /\ len - 1 \in Int
        /\ (oc - 1) + lN \in 0..(len - 1) /\ 1 + ((oc - 1) + lN) = oc + lN
    BY <2>1
  <2>  QED  BY <2>2 DEF hN, lN, len
<1>10. Multilinear(j, X, base) = Nested(j, X, inner)[base]  BY DEF Multilinear
<1>  HIDE DEF inner, N, X, m
<1>11. Values(j, inner, m)  BY <1>5, <1>6, <1>9 DEF Values
<1>12. Nested(j, X, inner)[base] = inner[base + l[N]] * (IF j.float THEN w[N] ELSE 1)
  <2>1. NodeAxes(Len(X), X, l, h) /\ Powers(w, Len(X)) /\ base + h[Len(X)] <= m
    BY <1>2, <1>3, <1>9 DEF N
  <2>3. Nested(j, X, inner)[base] = inner[base + l[Len(X)]] * (IF j.float THEN w[Len(X)] ELSE 1)
    <3>  HIDE DEF base
    <3>  QED  BY <2>1, <1>9, <1>11, NestedOnNode
  <2>  QED  BY <2>3, <1>2
<1>13. inner[base + l[N]] = Corner(j, Origin(j), oc)  BY <1>3, <1>5, <1>9
<1>  QED  BY <1>10, <1>12, <1>13 DEF N, X

\* The last three channels' tetrahedron inside the others' interpolations.
LEMMA EvalNOnNode ==
    ASSUME NEW j, IsLookUp(j), OnNode(j), Inputs(j) >= 4, NEW oc \in 1..j.outputs,
           NEW w, Powers(w, Inputs(j) - 3)
    PROVE  EvalN(j, Axes(j), oc - 1)
             = Corner(j, Origin(j), oc) * (IF j.float THEN F * w[Inputs(j) - 3] ELSE 1)
<1> DEFINE N == Inputs(j)
           n == N - 3
           X == Axes(j)
           outer == [k \in 1..n |-> X[n + 1 - k]]
           last3 == [k \in 1..3 |-> X[n + k]]
           inner == [at \in Offsets(j) |-> Tetrahedral(j, last3, at)]
           base == oc - 1
           scale == IF j.float THEN F ELSE 1
<1>0. N \in Nat /\ N >= 4 /\ n \in Nat /\ n >= 1 /\ N = n + 3 /\ j.outputs \in Nat /\ F \in Nat
  BY LookUpFacts, ScaleFacts
<1>1. PICK l, h : NodeSums(j, l, h)  BY NodeGeometry
<1>2. Len(X) = N  BY <1>0 DEF Axes
<1>3. /\ NodeAxes(N, X, l, h) /\ h[N] + j.outputs <= Len(j.table)
      /\ Corner(j, Origin(j), oc) = j.table[oc + l[N]]
  BY <1>1 DEF NodeSums
<1>4. Len(j.table) \in Nat
  <2>1. j.table \in Seq(Int)  BY DEF IsLookUp
  <2>  QED  BY <2>1
<1>5. EvalN(j, X, base) = Nested(j, outer, inner)[base]
  <2>1. Len(X) - 3 = n  BY <1>2
  <2>  QED  BY <2>1, Zenon DEF EvalN
<1>6. DOMAIN inner = 0..(Len(j.table) - 1)
      /\ \A at \in 0..(Len(j.table) - 1) : inner[at] = Tetrahedral(j, last3, at)
  BY DEF Offsets
<1>7. \A k \in 1..n : outer[k] = X[n + 1 - k]  OBVIOUS
<1>8. Len(outer) = n  BY <1>0
<1>9. last3[1] = X[n + 1] /\ last3[2] = X[n + 2] /\ last3[3] = X[n + 3]  OBVIOUS
<1>  HIDE DEF inner, outer, last3, N, X
<1>10. \A k \in 0..N : l[k] \in Int /\ h[k] \in Int /\ 0 <= l[k] /\ l[k] <= h[k]
  <2>1. \A k \in 0..N : 0 <= l[k] /\ l[k] <= h[k]  BY <1>3, NodeAxesSums
  <2>2. \A k \in 0..N : l[k] \in Int /\ h[k] \in Int  BY <1>3 DEF NodeAxes
  <2>  QED  BY <2>1, <2>2
<1>11. l[0] = 0 /\ h[0] = 0 /\ \A k \in 1..N : /\ X[k].rest = 0 /\ X[k].lo \in Nat /\ X[k].hi \in Nat
                                              /\ X[k].lo <= X[k].hi
                                              /\ l[k] = l[k - 1] + X[k].lo /\ h[k] = h[k - 1] + X[k].hi
  BY <1>3 DEF NodeAxes
<1> DEFINE lr == [k \in 0..n |-> l[n] - l[n - k]]
           hr == [k \in 0..n |-> h[n] - h[n - k]]
<1>12. NodeAxes(Len(outer), outer, lr, hr)
  <2>0. \A k \in 0..n : n - k \in 0..N /\ n \in 0..N  BY <1>0
  <2>1. lr \in [0..n -> Int] /\ hr \in [0..n -> Int]  BY <2>0, <1>10
  <2>2. lr[0] = 0 /\ hr[0] = 0
    <3>1. n - 0 = n /\ l[n] \in Int /\ h[n] \in Int /\ 0 \in 0..n  BY <1>0, <1>10, <2>0
    <3>  QED  BY <3>1
  <2>3. ASSUME NEW k \in 1..n
        PROVE  /\ outer[k].rest = 0 /\ outer[k].lo \in Nat /\ outer[k].hi \in Nat
               /\ outer[k].lo <= outer[k].hi
               /\ lr[k] = lr[k - 1] + outer[k].lo /\ hr[k] = hr[k - 1] + outer[k].hi
    <3> DEFINE a == n + 1 - k
    <3>1. a \in 1..N /\ a - 1 = n - k /\ a = n - (k - 1) /\ k - 1 \in 0..n /\ k \in 0..n
          /\ n - k \in 0..N /\ n \in 0..N /\ a \in 0..N
      BY <1>0
    <3>2. outer[k] = X[a]  BY <1>7
    <3>3. /\ X[a].rest = 0 /\ X[a].lo \in Nat /\ X[a].hi \in Nat /\ X[a].lo <= X[a].hi
          /\ l[a] = l[n - k] + X[a].lo /\ h[a] = h[n - k] + X[a].hi
      BY <3>1, <1>11
    <3>4. lr[k] = l[n] - l[n - k] /\ hr[k] = h[n] - h[n - k]  BY <3>1
    <3>5. lr[k - 1] = l[n] - l[a] /\ hr[k - 1] = h[n] - h[a]  BY <3>1
    <3>  HIDE DEF lr, hr, a
    <3>6. l[n] \in Int /\ h[n] \in Int /\ l[n - k] \in Int /\ h[n - k] \in Int  BY <3>1, <1>10
    <3>7. lr[k] = lr[k - 1] + X[a].lo /\ hr[k] = hr[k - 1] + X[a].hi  BY <3>3, <3>4, <3>5, <3>6
    <3>  QED  BY <3>2, <3>3, <3>7
  <2>  HIDE DEF lr, hr, n
  <2>  QED  BY <1>0, <1>8, <2>1, <2>2, <2>3 DEF NodeAxes
<1> DEFINE los == last3[1].lo + last3[2].lo + last3[3].lo
           his == last3[1].hi + last3[2].hi + last3[3].hi
           m == Len(j.table) - 1 - his
<1>13. \A a \in 1..3 : /\ last3[a].rest = 0 /\ last3[a].lo \in Nat /\ last3[a].hi \in Nat
                       /\ last3[a].lo <= last3[a].hi
  <2>1. n + 1 \in 1..N /\ n + 2 \in 1..N /\ n + 3 \in 1..N  BY <1>0
  <2>2. \A a \in 1..3 : a = 1 \/ a = 2 \/ a = 3  OBVIOUS
  <2>3. \A k \in 1..N : X[k].rest = 0 /\ X[k].lo \in Nat /\ X[k].hi \in Nat /\ X[k].lo <= X[k].hi
    BY <1>11
  <2>  HIDE DEF n
  <2>  QED  BY <2>1, <2>2, <2>3, <1>9
<1>14. l[N] = l[n] + los /\ h[N] = h[n] + his /\ l[n] \in Int /\ h[n] \in Int
  <2>1. /\ n + 1 \in 1..N /\ n + 2 \in 1..N /\ n + 3 \in 1..N /\ (n + 1) - 1 = n
        /\ (n + 2) - 1 = n + 1 /\ (n + 3) - 1 = n + 2 /\ n \in 0..N
    BY <1>0
  <2>2. /\ l[n + 1] = l[n] + last3[1].lo /\ l[n + 2] = l[n + 1] + last3[2].lo
        /\ l[N] = l[n + 2] + last3[3].lo
    BY <2>1, <1>0, <1>9, <1>11
  <2>3. /\ h[n + 1] = h[n] + last3[1].hi /\ h[n + 2] = h[n + 1] + last3[2].hi
        /\ h[N] = h[n + 2] + last3[3].hi
    BY <2>1, <1>0, <1>9, <1>11
  <2>4. l[n] \in Int /\ h[n] \in Int  BY <2>1, <1>10
  <2>5. \A a \in {1, 2, 3} : last3[a].lo \in Nat /\ last3[a].hi \in Nat  BY <1>13
  <2>  HIDE DEF n
  <2>  QED  BY <2>2, <2>3, <2>4, <2>5
<1>15. los \in Nat /\ his \in Nat
  <2>5. \A a \in {1, 2, 3} : last3[a].lo \in Nat /\ last3[a].hi \in Nat  BY <1>13
  <2>  QED  BY <2>5
<1>  HIDE DEF los, his
\* Where the tetrahedron stays in the table, it gives its first corner.
<1>16. ASSUME NEW at \in 0..m
       PROVE  /\ j.table[1 + (at + los)] \in Int
              /\ ~j.float => 0 <= j.table[1 + (at + los)] /\ j.table[1 + (at + los)] < One
              /\ inner[at] = j.table[1 + (at + los)] * scale
  <2>1. at \in Nat /\ at + his < Len(j.table) /\ at \in 0..(Len(j.table) - 1)  BY <1>4, <1>15
  <2>2. at + (last3[1].hi + last3[2].hi + last3[3].hi) < Len(j.table)  BY <2>1 DEF his
  <2>3. LET value == j.table[1 + (at + (last3[1].lo + last3[2].lo + last3[3].lo))]
        IN  /\ value \in Int /\ (~j.float => 0 <= value /\ value < One)
            /\ Tetrahedral(j, last3, at) = value * (IF j.float THEN F ELSE 1)
    BY <2>1, <2>2, <1>13, TetrahedralOnNode
  <2>  QED  BY <2>1, <2>3, <1>6 DEF los
<1>17. Values(j, inner, m)
  <2>1. m \in Int /\ 0..m \subseteq 0..(Len(j.table) - 1)  BY <1>4, <1>15
  <2>2. ASSUME NEW at \in 0..m
        PROVE  inner[at] \in Int /\ (~j.float => 0 <= inner[at] /\ inner[at] < One)
    <3> DEFINE value == j.table[1 + (at + los)]
    <3>1. value \in Int /\ (~j.float => 0 <= value /\ value < One) /\ inner[at] = value * scale  BY <1>16
    <3>  HIDE DEF value
    <3>2. CASE j.float
      <4>1. inner[at] = value * F  BY <3>1, <3>2
      <4>  QED  BY <4>1, <3>1, <3>2, <1>0
    <3>3. CASE ~j.float
      <4>1. inner[at] = value * 1  BY <3>1, <3>3
      <4>  QED  BY <4>1, <3>1, <3>3
    <3>  QED  BY <3>2, <3>3
  <2>  HIDE DEF m
  <2>  QED  BY <2>1, <2>2, <1>6 DEF Values
<1>18. lr[n] = l[n] /\ hr[n] = h[n]
  <2>1. n - n = 0 /\ n \in 0..n /\ l[n] - 0 = l[n] /\ h[n] - 0 = h[n]  BY <1>0, <1>14
  <2>  QED  BY <2>1, <1>11
<1>19. base \in Nat /\ base + h[n] <= m /\ base + l[n] \in 0..m /\ 1 + ((base + l[n]) + los) = oc + l[N]
  <2> DEFINE hn == h[n]
             ln == l[n]
             len == Len(j.table)
             out == j.outputs
  <2>1. n \in 0..N  BY <1>0
  <2>2. /\ hn \in Int /\ ln \in Int /\ 0 <= ln /\ ln <= hn /\ len \in Nat /\ out \in Nat
        /\ hn + his + out <= len /\ oc \in 1..out /\ l[N] = ln + los
    BY <2>1, <1>0, <1>3, <1>4, <1>10, <1>14
  <2>  HIDE DEF hn, ln, len, out
  <2>3. /\ oc - 1 \in Nat /\ (oc - 1) + hn <= len - 1 - his /\ (oc - 1) + ln \in 0..(len - 1 - his)
        /\ 1 + (((oc - 1) + ln) + los) = oc + (ln + los)
    BY <2>2, <1>15
  <2>  QED  BY <2>2, <2>3 DEF hn, ln, len
<1>20. Nested(j, outer, inner)[base] = inner[base + l[n]] * (IF j.float THEN w[n] ELSE 1)
  <2>1. base + hr[Len(outer)] <= m /\ Powers(w, Len(outer))
    <3>1. Powers(w, n)  BY DEF n, N
    <3>  QED  BY <3>1, <1>8, <1>18, <1>19
  <2>2. Nested(j, outer, inner)[base] = inner[base + lr[Len(outer)]] * (IF j.float THEN w[Len(outer)] ELSE 1)
    <3>  HIDE DEF base, lr, hr, m
    <3>  QED  BY <2>1, <1>12, <1>17, <1>19, NestedOnNode
  <2>  QED  BY <2>2, <1>8, <1>18
<1>21. inner[base + l[n]] = Corner(j, Origin(j), oc) * scale /\ Corner(j, Origin(j), oc) \in Int
  <2>1. /\ j.table[1 + ((base + l[n]) + los)] \in Int
        /\ inner[base + l[n]] = j.table[1 + ((base + l[n]) + los)] * scale
    BY <1>16, <1>19
  <2>  QED  BY <2>1, <1>3, <1>19
<1>22. w[n] \in Int
  <2>1. n \in 0..n  BY <1>0
  <2>  QED  BY <2>1 DEF Powers, n, N
<1> DEFINE value == Corner(j, Origin(j), oc)
<1>23. EvalN(j, X, base) = (value * scale) * (IF j.float THEN w[n] ELSE 1) /\ value \in Int
  BY <1>5, <1>20, <1>21
<1>  HIDE DEF value
<1>24. EvalN(j, X, base) = value * (IF j.float THEN F * w[n] ELSE 1)
  <2>1. CASE j.float
    <3>1. (value * F) * w[n] = value * (F * w[n])  BY <1>0, <1>22, <1>23
    <3>  QED  BY <2>1, <3>1, <1>23
  <2>2. CASE ~j.float
    <3>1. (value * 1) * 1 = value * 1  BY <1>23
    <3>  QED  BY <2>2, <3>1, <1>23
  <2>  QED  BY <2>1, <2>2
<1>  QED  BY <1>24 DEF value, X, N

LEMMA PowersOf ==
    ASSUME NEW n \in Nat
    PROVE  \E w : Powers(w, n) /\ w[n] = ProductUpTo(n, [k \in 1..n |-> F])
<1> DEFINE f == [k \in 1..n |-> F]
<1>1. F \in Nat  BY ScaleFacts
<1>2. f \in [1..n -> Int] /\ \A k \in 1..n : f[k] = F  BY <1>1
<1>  HIDE DEF f
<1>3. PICK w : IsProduct(w, n, f) /\ w[n] = ProductUpTo(n, f)  BY <1>2, ProductSolution
<1>4. Powers(w, n)  BY <1>2, <1>3 DEF Powers, IsProduct
<1>  QED  BY <1>3, <1>4 DEF f

\* The interpolator of each number of channels, by how it evaluates.
LEMMA KindsOfKernel ==
    ASSUME NEW j, IsLookUp(j), HasInterpolator(j)
    PROVE  LET N == Inputs(j)
               kind == interp_factory(j)
           IN  \/ N <= 3 /\ kind \notin {"Tetrahedral", "Eval4", "EvalN"}
               \/ N = 3 /\ kind = "Tetrahedral"
               \/ N >= 4 /\ kind \in {"Eval4", "EvalN"}
<1> DEFINE N == Inputs(j)
           kind == interp_factory(j)
<1>0. N \in 1..15  BY DEF HasInterpolator, MAX_INPUT_DIMENSIONS
<1>1. N = 1 => kind = IF j.outputs = 1 THEN "Linear" ELSE "Eval1"
  <2>1. N = 1 => N # 2 /\ N # 3 /\ N # 4  OBVIOUS
  <2>  QED  BY <2>1, Zenon DEF interp_factory
<1>2. N = 2 => kind = "Bilinear"
  <2>1. N = 2 => N # 1 /\ N # 3 /\ N # 4  OBVIOUS
  <2>  QED  BY <2>1, Zenon DEF interp_factory
<1>3. N = 3 => kind = IF j.trilinear THEN "Trilinear" ELSE "Tetrahedral"
  <2>1. N = 3 => N # 1 /\ N # 2 /\ N # 4  OBVIOUS
  <2>  QED  BY <2>1, Zenon DEF interp_factory
<1>4. N = 4 => kind = "Eval4"
  <2>1. N = 4 => N # 1 /\ N # 2 /\ N # 3  OBVIOUS
  <2>  QED  BY <2>1, Zenon DEF interp_factory
<1>5. N > 4 => kind = "EvalN"
  <2>1. N > 4 => N # 1 /\ N # 2 /\ N # 3 /\ N # 4  BY <1>0
  <2>  QED  BY <2>1, Zenon DEF interp_factory
<1>  HIDE DEF N, kind
<1>6. N = 1 \/ N = 2 \/ N = 3 \/ N = 4 \/ N > 4  BY <1>0
<1>7. CASE N = 1 \/ N = 2 \/ N = 3
  <2>1. kind \in {"Linear", "Eval1", "Bilinear", "Trilinear"} \/ (N = 3 /\ kind = "Tetrahedral")
    BY <1>1, <1>2, <1>3, <1>7
  <2>2. N <= 3  BY <1>7
  <2>  QED  BY <2>1, <2>2 DEF N, kind
<1>8. CASE N = 4 \/ N > 4
  <2>1. N >= 4 /\ kind \in {"Eval4", "EvalN"}  BY <1>0, <1>4, <1>5, <1>8
  <2>  QED  BY <2>1 DEF N, kind
<1>  QED  BY <1>6, <1>7, <1>8

\* Every interpolator gives a node's values, a float's scaled by its weights.
LEMMA EvaluatedOnNode ==
    ASSUME NEW j, IsLookUp(j), OnNode(j), HasInterpolator(j), NEW oc \in 1..j.outputs
    PROVE  Evaluated(j, interp_factory(j))[oc]
             = Corner(j, Origin(j), oc) * (IF j.float THEN Weights(j, interp_factory(j)) ELSE 1)
<1> DEFINE N == Inputs(j)
           kind == interp_factory(j)
           X == Axes(j)
           value == Corner(j, Origin(j), oc)
           weights(n) == ProductUpTo(n, [k \in 1..n |-> F])
<1>0. N \in Nat /\ N >= 1 /\ j.outputs \in Nat /\ F \in Nat  BY LookUpFacts, ScaleFacts
<1>1. j.float => Scale(j) = F  BY DEF Scale
<1>2. CASE N <= 3 /\ kind \notin {"Tetrahedral", "Eval4", "EvalN"}
  <2>1. Evaluated(j, kind)[oc] = Multilinear(j, X, oc - 1)
    <3>1. kind # "Tetrahedral" /\ ~(kind \in {"Eval4", "EvalN"})  BY <1>2
    <3>  HIDE DEF kind
    <3>  QED  BY <3>1, Zenon DEF Evaluated
  <2>2. j.float => Weights(j, kind) = weights(N)
    <3>1. Alone(j, kind) = N /\ N + 0 = N  BY <1>0, <1>2 DEF Alone
    <3>2. Weights(j, kind) = ProductUpTo(N, [k \in 1..N |-> Scale(j)])
      <4>  HIDE DEF kind
      <4>  QED  BY <3>1 DEF Weights
    <3>  QED  BY <3>2, <1>1
  <2>3. PICK w : Powers(w, N) /\ w[N] = weights(N)
    <3>  HIDE DEF N
    <3>  QED  BY <1>0, PowersOf
  <2>4. Multilinear(j, X, oc - 1) = value * (IF j.float THEN w[N] ELSE 1)
    BY <2>3, MultilinearOnNode
  <2>  HIDE DEF value, weights, kind, X, N
  <2>5. Evaluated(j, kind)[oc] = value * (IF j.float THEN Weights(j, kind) ELSE 1)
    BY <2>1, <2>2, <2>3, <2>4
  <2>  QED  BY <2>5 DEF value, kind
<1>3. CASE N = 3 /\ kind = "Tetrahedral"
  <2>1. Evaluated(j, kind)[oc] = Tetrahedral(j, X, oc - 1)
    <3>1. kind = "Tetrahedral"  BY <1>3
    <3>  HIDE DEF kind
    <3>  QED  BY <3>1, Zenon DEF Evaluated
  <2>2. j.float => Weights(j, kind) = F
    <3>1. Alone(j, kind) = 0 /\ Alone(j, kind) # N  BY <1>3 DEF Alone
    <3>2. Weights(j, kind) = ProductUpTo(1, [k \in 1..1 |-> Scale(j)])
      <4>1. Alone(j, kind) + (IF Alone(j, kind) = N THEN 0 ELSE 1) = 1  BY <3>1
      <4>  HIDE DEF kind
      <4>  QED  BY <4>1 DEF Weights, N
    <3>3. PICK w : Powers(w, 1) /\ w[1] = weights(1)
      <4>1. 1 \in Nat  OBVIOUS
      <4>  QED  BY <4>1, PowersOf
    <3>4. w[1] = F
      <4>1. w[0] = 1 /\ w[1] = w[0] * F
        <5>1. 1 \in 1..1 /\ 1 - 1 = 0  OBVIOUS
        <5>  QED  BY <5>1, <3>3 DEF Powers
      <4>  QED  BY <4>1, <1>0
    <3>  QED  BY <3>2, <3>3, <3>4, <1>1
  <2>3. PICK l, h : NodeSums(j, l, h)  BY NodeGeometry
  <2>4. /\ NodeAxes(3, X, l, h) /\ h[3] + j.outputs <= Len(j.table) /\ value = j.table[oc + l[3]]
    BY <2>3, <1>3 DEF NodeSums
  <2>5. Len(j.table) \in Nat
    <3>1. j.table \in Seq(Int)  BY DEF IsLookUp
    <3>  QED  BY <3>1
  <2>  HIDE DEF value, weights, kind, X, N
  <2>6. \A a \in 1..3 : /\ X[a].rest = 0 /\ X[a].lo \in Nat /\ X[a].hi \in Nat
                        /\ X[a].lo <= X[a].hi
                        /\ l[a] = l[a - 1] + X[a].lo /\ h[a] = h[a - 1] + X[a].hi
    BY <2>4 DEF NodeAxes
  <2>7. l[3] = X[1].lo + X[2].lo + X[3].lo /\ h[3] = X[1].hi + X[2].hi + X[3].hi
        /\ l[3] \in Nat /\ h[3] \in Nat
    <3>1. l[0] = 0 /\ h[0] = 0  BY <2>4 DEF NodeAxes
    <3>2. 1 - 1 = 0 /\ 2 - 1 = 1 /\ 3 - 1 = 2 /\ 1 \in 1..3 /\ 2 \in 1..3 /\ 3 \in 1..3  OBVIOUS
    <3>3. l[1] = X[1].lo /\ l[2] = l[1] + X[2].lo /\ l[3] = l[2] + X[3].lo  BY <2>6, <3>1, <3>2
    <3>4. h[1] = X[1].hi /\ h[2] = h[1] + X[2].hi /\ h[3] = h[2] + X[3].hi  BY <2>6, <3>1, <3>2
    <3>  QED  BY <2>6, <3>3, <3>4
  <2>8. oc - 1 \in Nat /\ (oc - 1) + (X[1].hi + X[2].hi + X[3].hi) < Len(j.table)
        /\ 1 + ((oc - 1) + (X[1].lo + X[2].lo + X[3].lo)) = oc + l[3]
    BY <2>4, <2>5, <2>7, <1>0
  <2>9. Tetrahedral(j, X, oc - 1) = value * (IF j.float THEN F ELSE 1)
    <3> DEFINE b == oc - 1
    <3>1. \A a \in 1..3 : X[a].rest = 0 /\ X[a].lo \in Nat /\ X[a].hi \in Nat /\ X[a].lo <= X[a].hi
      BY <2>6
    <3>2. b \in Nat /\ b + (X[1].hi + X[2].hi + X[3].hi) < Len(j.table)
          /\ 1 + (b + (X[1].lo + X[2].lo + X[3].lo)) = oc + l[3]
      BY <2>8
    <3>  HIDE DEF b
    <3>3. Tetrahedral(j, X, b)
            = j.table[1 + (b + (X[1].lo + X[2].lo + X[3].lo))] * (IF j.float THEN F ELSE 1)
      BY <3>1, <3>2, TetrahedralOnNode
    <3>4. j.table[1 + (b + (X[1].lo + X[2].lo + X[3].lo))] = value  BY <2>4, <3>2
    <3>  QED  BY <3>3, <3>4 DEF b
  <2>10. Evaluated(j, kind)[oc] = value * (IF j.float THEN Weights(j, kind) ELSE 1)
    BY <2>1, <2>2, <2>9
  <2>  QED  BY <2>10 DEF value, kind
<1>4. CASE N >= 4 /\ kind \in {"Eval4", "EvalN"}
  <2> DEFINE n == N - 3
  <2>0. n \in Nat /\ n + 1 \in Nat /\ n + 1 >= 1 /\ n # N  BY <1>0, <1>4
  <2>1. Evaluated(j, kind)[oc] = EvalN(j, X, oc - 1)
    <3>1. kind # "Tetrahedral" /\ kind \in {"Eval4", "EvalN"}  BY <1>4
    <3>  HIDE DEF kind
    <3>  QED  BY <3>1, Zenon DEF Evaluated
  <2>2. j.float => Weights(j, kind) = weights(n + 1)
    <3>1. Alone(j, kind) = n /\ Alone(j, kind) # N  BY <2>0, <1>4 DEF Alone
    <3>2. Weights(j, kind) = ProductUpTo(n + 1, [k \in 1..(n + 1) |-> Scale(j)])
      <4>1. Alone(j, kind) + (IF Alone(j, kind) = N THEN 0 ELSE 1) = n + 1  BY <3>1
      <4>  HIDE DEF kind, n
      <4>  QED  BY <4>1 DEF Weights, N
    <3>  QED  BY <3>2, <1>1
  <2>3. PICK w : Powers(w, n + 1) /\ w[n + 1] = weights(n + 1)
    <3>  HIDE DEF n
    <3>  QED  BY <2>0, PowersOf
  <2>4. Powers(w, n) /\ w[n + 1] = F * w[n]
    <3>1. \A k \in 0..n : k \in 0..(n + 1)  BY <2>0
    <3>2. \A k \in 1..n : k \in 1..(n + 1)  BY <2>0
    <3>3. n + 1 \in 1..(n + 1) /\ (n + 1) - 1 = n /\ n \in 0..(n + 1)  BY <2>0
    <3>  HIDE DEF n
    <3>4. w[n + 1] = w[n] * F /\ w[n] \in Int  BY <2>3, <3>3 DEF Powers
    <3>5. w[n + 1] = F * w[n]  BY <3>4, <1>0
    <3>  QED  BY <2>3, <3>1, <3>2, <3>5 DEF Powers
  <2>5. EvalN(j, X, oc - 1) = value * (IF j.float THEN F * w[n] ELSE 1)
    BY <2>4, <1>4, EvalNOnNode
  <2>  HIDE DEF value, weights, kind, X, N, n
  <2>6. Evaluated(j, kind)[oc] = value * (IF j.float THEN Weights(j, kind) ELSE 1)
    BY <2>1, <2>2, <2>3, <2>4, <2>5
  <2>  QED  BY <2>6 DEF value, kind
<1>  QED  BY <1>2, <1>3, <1>4, KindsOfKernel

-----------------------------------------------------------------------------
(* An evaluation of a CLUT, whatever the look-ups. *)

\* What is known of the look-up, the interpolator and the result in each phase.
InterpInv ==
    /\ lookUp \in LookUps
    /\ phase \in {"built", "selected", "done", "panicked"}
    /\ phase = "selected" => HasInterpolator(lookUp) /\ kernel = interp_factory(lookUp)
    /\ phase = "done" => HasInterpolator(lookUp) /\ kernel = interp_factory(lookUp)
                         /\ result = Evaluated(lookUp, kernel)
    /\ phase = "panicked" => \/ ~HasInterpolator(lookUp)
                             \/ ~(Furthest(lookUp, Axes(lookUp)) < Len(lookUp.table))

\* What an evaluation has done so far: the interpolator is the one its geometry
\* selects, and it panics for want of one or at the end of the table only.
THEOREM InterpInvariant == InterpSpec => []InterpInv
<1>1. InterpInit => InterpInv  BY DEF InterpInit, InterpInv
<1>2. InterpInv /\ [InterpNext]_interpVars => InterpInv'
  <2> SUFFICES ASSUME InterpInv, [InterpNext]_interpVars  PROVE InterpInv'  OBVIOUS
  <2>1. CASE SelectInterpolator  BY <2>1 DEF SelectInterpolator, InterpInv
  <2>2. CASE EvalClut  BY <2>2 DEF EvalClut, InterpInv
  <2>3. CASE UNCHANGED interpVars  BY <2>3 DEF interpVars, InterpInv
  <2>  QED  BY <2>1, <2>2, <2>3 DEF InterpNext
<1>  QED  BY <1>1, <1>2, PTL DEF InterpSpec

\* For every CLUT its readers can build, of up to fifteen channels, and every
\* input on a node of its grid, every interpolator gives the node's own values
\* exactly; no evaluation of words ever leaves the table.
THEOREM NodesAlwaysExact == InterpSpec => []NodesAreExact
<1>1. InterpInv => NodesAreExact
  <2> SUFFICES ASSUME InterpInv, phase \in {"done", "panicked"}, HasInterpolator(lookUp)
               PROVE  /\ OnNode(lookUp) \/ ~lookUp.float => phase = "done"
                      /\ OnNode(lookUp) =>
                           \A oc \in 1..lookUp.outputs :
                              result[oc] = Corner(lookUp, Origin(lookUp), oc)
                                           * (IF lookUp.float THEN Weights(lookUp, kernel) ELSE 1)
    BY DEF NodesAreExact, Origin
  <2>1. IsLookUp(lookUp)  BY LookUpsAssumption DEF InterpInv
  <2>2. OnNode(lookUp) \/ ~lookUp.float => phase = "done"
    BY <2>1, FurthestInTable DEF InterpInv
  <2>3. ASSUME OnNode(lookUp), NEW oc \in 1..lookUp.outputs
        PROVE  result[oc] = Corner(lookUp, Origin(lookUp), oc)
                            * (IF lookUp.float THEN Weights(lookUp, kernel) ELSE 1)
    <3>1. phase = "done"  BY <2>2, <2>3
    <3>2. kernel = interp_factory(lookUp) /\ result = Evaluated(lookUp, kernel)  BY <3>1 DEF InterpInv
    <3>3. Evaluated(lookUp, interp_factory(lookUp))[oc]
            = Corner(lookUp, Origin(lookUp), oc)
              * (IF lookUp.float THEN Weights(lookUp, interp_factory(lookUp)) ELSE 1)
      BY <2>1, <2>3, EvaluatedOnNode
    <3>  QED  BY <3>2, <3>3
  <2>  QED  BY <2>2, <2>3
<1>  QED  BY <1>1, InterpInvariant, PTL

=============================================================================
