-------------------------- MODULE LinkChain_proofs --------------------------
(***************************************************************************)
(* What is proved of LinkChain: for every catalogue of profiles and every   *)
(* chain of them, however long, the encodings of a linked pipeline meet at  *)
(* every junction, the simplification leaves nothing to simplify, and the   *)
(* two walks over the chain agree.                                          *)
(***************************************************************************)
EXTENDS LinkChain, IndexLemmas

\* The strings.  (That a literal is one, the provers have to be told.)
Text == STRING \cup
    {"Identity", "Matrix", "ToneCurves", "NamedColor", "Lab2Xyz", "Xyz2Lab", "LabV4ToV2",
     "LabV2ToV4", "Lab4", "Lab2", "Lab float", "XYZ", "XYZ float", "RGB", "CMYK", "GRAY",
     "index", "gray light", "L", "3 gray"}

\* Stages that are what their operation says: what no removal rule is wrong about.
HonestStage ==
    {s \in [op : Text, from : Text, to : Text, offset : BOOLEAN] :
        /\ s.op \in {"Identity", "IdentityClut"} => s.from = s.to
        /\ s.op = "Lab2Xyz" => s.from = "Lab4" /\ s.to = "XYZ"
        /\ s.op = "Xyz2Lab" => s.from = "XYZ" /\ s.to = "Lab4"
        /\ s.op = "LabV2ToV4" => s.from = "Lab2" /\ s.to = "Lab4"
        /\ s.op = "LabV4ToV2" => s.from = "Lab4" /\ s.to = "Lab2"}

HonestPipeline == [ok : BOOLEAN, stages : Seq(HonestStage), in : Nat, out : Nat]

-----------------------------------------------------------------------------
(* Sequences of stages that lead from one encoding to another.              *)

LEMMA ConnectedEmpty == ASSUME NEW a  PROVE Connected(<<>>, a, a)
  BY DEF Connected

LEMMA ConnectedOne ==
    ASSUME NEW s \in HonestStage
    PROVE  Connected(<<s>>, s.from, s.to) /\ <<s>> \in Seq(HonestStage)
  BY DEF Connected, First, Last

\* One way leads on from where the other ends.
LEMMA ConnectedConcat ==
    ASSUME NEW s \in Seq(HonestStage), NEW t \in Seq(HonestStage),
           NEW a, NEW b, NEW c, Connected(s, a, b), Connected(t, b, c)
    PROVE  Connected(s \o t, a, c) /\ s \o t \in Seq(HonestStage)
<1> DEFINE L == Len(s)
           M == Len(t)
           u == s \o t
<1>0. L \in Nat /\ M \in Nat /\ u \in Seq(HonestStage) /\ Len(u) = L + M
  OBVIOUS
<1>1. CASE s = <<>>
  <2>1. u = t  BY <1>1
  <2>2. a = b  BY <1>1 DEF Connected
  <2>  QED  BY <2>1, <2>2
<1>2. CASE t = <<>>
  <2>1. u = s  BY <1>2
  <2>2. b = c  BY <1>2 DEF Connected
  <2>  QED  BY <2>1, <2>2
<1>3. CASE s # <<>> /\ t # <<>>
  <2>1. L >= 1 /\ M >= 1  BY <1>3
  <2>2. \A k \in 1..L : u[k] = s[k]  OBVIOUS
  <2>3. \A k \in 1..M : u[L + k] = t[k]  OBVIOUS
  <2>4. s[1].from = a /\ s[L].to = b /\ \A k \in 1..(L - 1) : s[k].to = s[k + 1].from
    BY <1>3 DEF Connected, First, Last
  <2>5. t[1].from = b /\ t[M].to = c /\ \A k \in 1..(M - 1) : t[k].to = t[k + 1].from
    BY <1>3 DEF Connected, First, Last
  <2>6. u # <<>> /\ First(u).from = a /\ Last(u).to = c
    <3>1. First(u) = s[1]  BY <2>1, <2>2 DEF First
    <3>2. Last(u) = t[M]  BY <2>1, <2>3, <1>0 DEF Last
    <3>3. u # <<>>  BY <1>0, <2>1
    <3>  QED  BY <3>1, <3>2, <3>3, <2>4, <2>5
  <2>7. ASSUME NEW k \in 1..(Len(u) - 1)  PROVE u[k].to = u[k + 1].from
    <3>  HIDE DEF u, L, M
    <3>1. CASE k < L
      <4>1. k \in 1..L /\ k + 1 \in 1..L /\ k \in 1..(L - 1)  BY <3>1, <1>0
      <4>  QED  BY <4>1, <2>2, <2>4
    <3>2. CASE k = L
      <4>1. k \in 1..L /\ 1 \in 1..M  BY <3>2, <1>0, <2>1
      <4>2. u[k] = s[L] /\ u[k + 1] = t[1]  BY <4>1, <3>2, <2>2, <2>3
      <4>  QED  BY <4>2, <2>4, <2>5
    <3>3. CASE k > L
      <4>  DEFINE j == k - L
      <4>1. j \in 1..(M - 1) /\ j \in 1..M /\ j + 1 \in 1..M /\ k = L + j /\ k + 1 = L + (j + 1)
        BY <3>3, <1>0
      <4>  HIDE DEF j
      <4>2. u[k] = t[j] /\ u[k + 1] = t[j + 1]  BY <4>1, <2>3
      <4>  QED  BY <4>1, <4>2, <2>5
    <3>  QED  BY <3>1, <3>2, <3>3, <1>0
  <2>  QED  BY <1>0, <2>6, <2>7 DEF Connected
<1>  QED  BY <1>1, <1>2, <1>3

LEMMA FunctionIsSeq ==
    ASSUME NEW S, NEW n \in Nat, NEW f \in [1..n -> S]
    PROVE  f \in Seq(S) /\ Len(f) = n /\ DOMAIN f = 1..n
  OBVIOUS

\* Stages that come back to the encoding they began with can go.
LEMMA ConnectedWithout ==
    ASSUME NEW s \in Seq(HonestStage), NEW a, NEW b, Connected(s, a, b),
           NEW k \in 1..Len(s), NEW n \in {1, 2}, k + n - 1 <= Len(s),
           s[k].from = s[k + n - 1].to
    PROVE  Connected(Without(s, k, n), a, b)
<1> DEFINE L == Len(s)
           w == Without(s, k, n)
<1>0. L \in Nat /\ L - n \in Nat /\ k \in Nat /\ DOMAIN s = 1..L  OBVIOUS
<1>1. w = [j \in 1..(L - n) |-> IF j < k THEN s[j] ELSE s[j + n]]  BY DEF Without
<1>2. \A j \in 1..(L - n) : j \in 1..L /\ j + n \in 1..L  BY <1>0
<1>3. w \in Seq(HonestStage) /\ Len(w) = L - n /\ DOMAIN w = 1..(L - n)
  <2>1. \A j \in 1..(L - n) : w[j] \in HonestStage  BY <1>1, <1>2
  <2>  HIDE DEF w
  <2>2. w \in [1..(L - n) -> HonestStage]  BY <2>1, <1>1
  <2>3. L - n \in Nat  BY <1>0
  <2>  QED  BY <2>2, <2>3, FunctionIsSeq, Zenon
<1>4. \A j \in 1..(L - n) : w[j] = IF j < k THEN s[j] ELSE s[j + n]  BY <1>1
<1>6. /\ s[1].from = a /\ s[L].to = b
      /\ \A j \in 1..(L - 1) : s[j].to = s[j + 1].from
  <2>1. s # <<>>  OBVIOUS
  <2>  QED  BY <2>1 DEF Connected, First, Last
<1>7. \* Before and behind the gap.
      /\ k > 1 => s[k - 1].to = s[k].from
      /\ k + n <= L => s[k + n - 1].to = s[k + n].from
  <2>1. k > 1 => k - 1 \in 1..(L - 1) /\ (k - 1) + 1 = k  BY <1>0
  <2>2. k + n <= L => k + n - 1 \in 1..(L - 1) /\ (k + n - 1) + 1 = k + n  BY <1>0
  <2>  QED  BY <2>1, <2>2, <1>6
<1>  HIDE DEF w, L
<1>8. CASE L = n
  <2>1. k = 1  BY <1>0, <1>8 DEF L
  <2>2. w = <<>>  BY <1>3, <1>8
  <2>3. s[1].from = s[L].to  BY <2>1, <1>8 DEF L
  <2>  QED  BY <2>2, <2>3, <1>6 DEF Connected, w
<1>9. CASE L # n
  <2>0. L - n >= 1 /\ w # <<>> /\ 1 \in 1..(L - n) /\ L - n \in 1..(L - n)  BY <1>0, <1>3, <1>9
  <2>1. w[1].from = a
    <3>1. CASE k > 1  BY <3>1, <2>0, <1>4, <1>6
    <3>2. CASE k = 1
      <4>1. w[1] = s[1 + n]  BY <3>2, <2>0, <1>4
      <4>2. k + n <= L  BY <3>2, <2>0, <1>0
      <4>3. s[1 + n].from = s[1].from  BY <4>2, <1>7, <3>2
      <4>  QED  BY <4>1, <4>3, <1>6
    <3>  QED  BY <3>1, <3>2, <1>0
  <2>2. w[L - n].to = b
    <3>1. CASE L - n >= k
      <4>1. w[L - n] = s[L]
        <5>1. ~(L - n < k) /\ (L - n) + n = L  BY <3>1, <1>0
        <5>  QED  BY <5>1, <2>0, <1>4
      <4>  QED  BY <4>1, <1>6
    <3>2. CASE L - n < k
      <4>1. k = L - n + 1 /\ k + n - 1 = L /\ k > 1 /\ k - 1 = L - n
        BY <3>2, <1>0, <2>0 DEF L
      <4>2. w[L - n] = s[k - 1]  BY <3>2, <4>1, <2>0, <1>4
      <4>3. s[k].from = s[L].to  BY <4>1
      <4>  QED  BY <4>1, <4>2, <4>3, <1>6, <1>7
    <3>  QED  BY <3>1, <3>2, <1>0
  <2>3. ASSUME NEW j \in 1..(L - n - 1)  PROVE w[j].to = w[j + 1].from
    <3>0. j \in 1..(L - n) /\ j + 1 \in 1..(L - n) /\ j \in Nat  BY <1>0
    <3>1. CASE j + 1 < k
      <4>1. w[j] = s[j] /\ w[j + 1] = s[j + 1] /\ j \in 1..(L - 1)  BY <3>0, <3>1, <1>0, <1>4
      <4>  QED  BY <4>1, <1>6
    <3>2. CASE j + 1 = k
      <4>1. w[j] = s[j] /\ w[j + 1] = s[k + n] /\ k > 1 /\ k - 1 = j /\ k + n <= L
        BY <3>0, <3>2, <1>0, <1>4
      <4>  QED  BY <4>1, <1>7
    <3>3. CASE j >= k
      <4>1. ~(j < k) /\ ~(j + 1 < k) /\ (j + 1) + n = (j + n) + 1 /\ j + n \in 1..(L - 1)
        BY <3>0, <3>3, <1>0
      <4>2. w[j] = s[j + n] /\ w[j + 1] = s[(j + n) + 1]  BY <4>1, <3>0, <1>4
      <4>  QED  BY <4>1, <4>2, <1>6
    <3>  QED  BY <3>1, <3>2, <3>3, <3>0, <1>0
  <2>4. Connected(w, a, b)  BY <2>0, <2>1, <2>2, <2>3, <1>3 DEF Connected, First, Last
  <2>  QED  BY <2>4 DEF w
<1>  QED  BY <1>8, <1>9

LEMMA StageHonest ==
    ASSUME NEW op \in {"Identity", "Matrix", "ToneCurves", "NamedColor"},
           NEW a \in Text, NEW b \in Text, op = "Identity" => a = b
    PROVE  /\ Stage(op, a, b) \in HonestStage
           /\ Stage(op, a, b).from = a
           /\ Stage(op, a, b).to = b
<1> DEFINE s == [op |-> op, from |-> a, to |-> b, offset |-> FALSE]
<1>1. s \in [op : Text, from : Text, to : Text, offset : BOOLEAN]  BY DEF Text
<1>2. s.op = op /\ s.from = a /\ s.to = b  OBVIOUS
<1>  HIDE DEF s
<1>3. s \in HonestStage  BY <1>1, <1>2 DEF HonestStage
<1>4. Stage(op, a, b) = s  BY DEF Stage, s
<1>  QED  BY <1>2, <1>3, <1>4

LEMMA ConversionsHonest ==
    /\ {Lab2Xyz, Xyz2Lab, LabV2ToV4, LabV4ToV2} \subseteq HonestStage
    /\ Lab2Xyz.from = "Lab4" /\ Lab2Xyz.to = "XYZ"
    /\ Xyz2Lab.from = "XYZ" /\ Xyz2Lab.to = "Lab4"
    /\ LabV2ToV4.from = "Lab2" /\ LabV2ToV4.to = "Lab4"
    /\ LabV4ToV2.from = "Lab4" /\ LabV4ToV2.to = "Lab2"
  BY DEF Lab2Xyz, Xyz2Lab, LabV2ToV4, LabV4ToV2, Stage, HonestStage, Text

LEMMA OffsetHonest ==
    ASSUME NEW a \in Text, NEW b \in Text
    PROVE  /\ OffsetMatrix(a, b) \in HonestStage
           /\ OffsetMatrix(a, b).from = a
           /\ OffsetMatrix(a, b).to = b
<1> DEFINE x == [op |-> "Matrix", from |-> a, to |-> b, offset |-> FALSE]
           s == [x EXCEPT !.offset = TRUE]
           R == [op : Text, from : Text, to : Text, offset : BOOLEAN]
<1>1. x \in R /\ x.op = "Matrix" /\ x.from = a /\ x.to = b
  <2>1. "Matrix" \in Text  BY DEF Text
  <2>  QED  BY <2>1
<1>2. Stage("Matrix", a, b) = x  BY DEF Stage
<1>  HIDE DEF x
<1>3. s \in R /\ s.op = "Matrix" /\ s.from = a /\ s.to = b  BY <1>1
<1>4. OffsetMatrix(a, b) = s  BY <1>2, Zenon DEF OffsetMatrix
<1>  HIDE DEF s
<1>5. s \in HonestStage  BY <1>3 DEF HonestStage
<1>  QED  BY <1>3, <1>4, <1>5

\* The product of two neighbours stands for both: as if the first had become
\* an identity, and gone.
LEMMA ConnectedProduct ==
    ASSUME NEW s \in Seq(HonestStage), NEW a, NEW b, Connected(s, a, b),
           NEW k \in 1..(Len(s) - 1)
    PROVE  LET w == [Without(s, k, 1) EXCEPT ![k] = Product(s[k], s[k + 1])]
           IN  Connected(w, a, b)
<1> DEFINE L == Len(s)
           p == Product(s[k], s[k + 1])
           e == Stage("Identity", s[k].from, s[k].from)
           t == [j \in 1..L |-> IF j = k THEN e ELSE IF j = k + 1 THEN p ELSE s[j]]
           w == [Without(s, k, 1) EXCEPT ![k] = p]
<1>0. /\ L \in Nat /\ DOMAIN s = 1..L /\ k \in 1..L /\ k + 1 \in 1..L /\ k \in Nat /\ k + 1 # k
      /\ L - 1 \in Nat /\ k \in 1..(L - 1)
  OBVIOUS
<1>1. /\ e \in HonestStage /\ e.from = s[k].from /\ e.to = s[k].from
      /\ p \in HonestStage /\ p.from = s[k].from /\ p.to = s[k + 1].to
  <2>1. s[k] \in HonestStage /\ s[k + 1] \in HonestStage  BY <1>0
  <2>2. s[k].from \in Text /\ s[k + 1].to \in Text  BY <2>1, Zenon DEF HonestStage
  <2>3. e \in HonestStage /\ e.from = s[k].from /\ e.to = s[k].from
    <3>  QED  BY <2>2, StageHonest
  <2>4. p \in HonestStage /\ p.from = s[k].from /\ p.to = s[k + 1].to
    <3>  QED  BY <2>2, StageHonest DEF Product
  <2>  QED  BY <2>3, <2>4, Zenon
<1>2. t \in Seq(HonestStage) /\ Len(t) = L /\ DOMAIN t = 1..L
  <2>1. \A j \in 1..L : s[j] \in HonestStage  BY <1>0
  <2>2. t \in [1..L -> HonestStage]
    <3>  HIDE DEF e, p
    <3>  QED  BY <2>1, <1>1
  <2>  HIDE DEF t, L
  <2>  QED  BY <2>2, <1>0, FunctionIsSeq, Zenon
<1>3. /\ t[k] = e /\ t[k + 1] = p
      /\ \A j \in 1..L : j # k /\ j # k + 1 => t[j] = s[j]
  <2>  HIDE DEF e, p
  <2>  QED  BY <1>0
<1>4. w = Without(t, k, 1)
  <2>1. Without(s, k, 1) = [j \in 1..(L - 1) |-> IF j < k THEN s[j] ELSE s[j + 1]]
    BY DEF Without
  <2>2. Without(t, k, 1) = [j \in 1..(L - 1) |-> IF j < k THEN t[j] ELSE t[j + 1]]
    <3>  HIDE DEF t
    <3>  QED  BY <1>2 DEF Without
  <2>3. w = [j \in 1..(L - 1) |-> IF j = k THEN p ELSE IF j < k THEN s[j] ELSE s[j + 1]]
    <3>  HIDE DEF p
    <3>  QED  BY <2>1, <1>0
  <2>4. ASSUME NEW j \in 1..(L - 1)
        PROVE  (IF j < k THEN t[j] ELSE t[j + 1])
                  = IF j = k THEN p ELSE IF j < k THEN s[j] ELSE s[j + 1]
    <3>  HIDE DEF t, p, e
    <3>0. j \in 1..L /\ j + 1 \in 1..L  BY <1>0
    <3>1. CASE j = k  BY <3>1, <1>3
    <3>2. CASE j < k  BY <3>0, <3>2, <1>3
    <3>3. CASE j > k  BY <3>0, <3>3, <1>3
    <3>  QED  BY <3>1, <3>2, <3>3, <1>0
  <2>  HIDE DEF w, t, p, L
  <2>  QED  BY <2>2, <2>3, <2>4
<1>5. Connected(t, a, b)
  <2>1. /\ s[1].from = a /\ s[L].to = b
        /\ \A j \in 1..(L - 1) : s[j].to = s[j + 1].from
    <3>1. s # <<>>  OBVIOUS
    <3>  QED  BY <3>1 DEF Connected, First, Last
  <2>  HIDE DEF t, p, e, L
  <2>2. t # <<>> /\ 1 \in 1..L /\ L \in 1..L  BY <1>0, <1>2
  <2>3. t[1].from = a
    <3>1. 1 # k + 1  BY <1>0
    <3>  QED  BY <3>1, <2>1, <2>2, <1>1, <1>3
  <2>4. t[L].to = b
    <3>1. L # k  BY <1>0
    <3>  QED  BY <3>1, <2>1, <2>2, <1>1, <1>3
  <2>5. ASSUME NEW j \in 1..(L - 1)  PROVE t[j].to = t[j + 1].from
    <3>0. j \in 1..L /\ j + 1 \in 1..L  BY <1>0
    <3>1. CASE j = k  BY <3>1, <1>1, <1>3
    <3>2. CASE j = k + 1
      <4>1. t[j] = p /\ t[j + 1] = s[j + 1]  BY <3>0, <3>2, <1>0, <1>3
      <4>  QED  BY <4>1, <3>2, <1>1, <2>1
    <3>3. CASE j + 1 = k
      <4>1. t[j] = s[j] /\ t[j + 1] = e  BY <3>0, <3>3, <1>0, <1>3
      <4>2. s[j].to = s[k].from  BY <3>3, <2>1
      <4>  QED  BY <4>1, <4>2, <1>1
    <3>4. CASE j # k /\ j # k + 1 /\ j + 1 # k
      <4>1. t[j] = s[j] /\ t[j + 1] = s[j + 1]  BY <3>0, <3>4, <1>0, <1>3
      <4>  QED  BY <4>1, <2>1
    <3>  QED  BY <3>1, <3>2, <3>3, <3>4
  <2>  QED  BY <2>2, <2>3, <2>4, <2>5, <1>2 DEF Connected, First, Last
<1>6. Connected(Without(t, k, 1), a, b)
  <2>1. k + 1 - 1 <= Len(t) /\ t[k].from = t[k + 1 - 1].to  BY <1>0, <1>1, <1>2, <1>3
  <2>2. k \in 1..Len(t)  BY <1>0, <1>2
  <2>  HIDE DEF t
  <2>  QED  BY <2>1, <2>2, <1>2, <1>5, ConnectedWithout
<1>  HIDE DEF w, t, p
<1>7. Connected(w, a, b)  BY <1>4, <1>6
<1>  QED  BY <1>7, Zenon DEF w, p

-----------------------------------------------------------------------------
(* How pipelines are put together.                                          *)

LEMMA WidthNat == ASSUME NEW e  PROVE Width(e) \in Nat
  BY DEF Width

LEMMA NoPipelineHonest == NoPipeline \in HonestPipeline /\ ~NoPipeline.ok
  BY DEF NoPipeline, HonestPipeline

LEMMA PipelineFields ==
    ASSUME NEW stages \in Seq(HonestStage), NEW in \in Nat, NEW out \in Nat, NEW ok \in BOOLEAN
    PROVE  LET p == [ok |-> ok, stages |-> stages, in |-> in, out |-> out]
           IN  p \in HonestPipeline /\ p.stages = stages /\ p.ok = ok
  BY DEF HonestPipeline

\* Stages put at the end of a pipeline follow what it gives.
LEMMA InsertAllConnects ==
    ASSUME NEW p \in HonestPipeline, NEW stages \in Seq(HonestStage)
    PROVE  /\ InsertAll(p, stages) \in HonestPipeline
           /\ \A a, b, c : InsertAll(p, stages).ok /\ p.ok /\ Connected(p.stages, a, b) /\ Connected(stages, b, c)
                 => Connected(InsertAll(p, stages).stages, a, c)
           /\ InsertAll(p, stages).ok => p.ok
<1> DEFINE q == [p EXCEPT !.stages = @ \o stages]
<1>1. p.stages \in Seq(HonestStage)  BY DEF HonestPipeline
<1>2. p.stages \o stages \in Seq(HonestStage)  BY <1>1
<1>3. q \in HonestPipeline /\ q.stages = p.stages \o stages /\ q.ok = p.ok
  BY <1>2 DEF HonestPipeline
<1>4. ASSUME NEW a, NEW b, NEW c, Connected(p.stages, a, b), Connected(stages, b, c)
      PROVE  Connected(p.stages \o stages, a, c)
  BY <1>1, <1>4, ConnectedConcat
<1>  HIDE DEF q
<1>5. CASE stages = <<>>
  <2>1. InsertAll(p, stages) = p  BY <1>5 DEF InsertAll
  <2>2. \A b, c : Connected(stages, b, c) => b = c  BY <1>5 DEF Connected
  <2>  QED  BY <2>1, <2>2
<1>6. CASE stages # <<>>
  <2>1. \/ InsertAll(p, stages) = q /\ p.ok
        \/ InsertAll(p, stages) = NoPipeline
    BY <1>6 DEF InsertAll, q
  <2>  QED  BY <2>1, <1>3, <1>4, NoPipelineHonest
<1>  QED  BY <1>5, <1>6

LEMMA InsertConnects ==
    ASSUME NEW p \in HonestPipeline, NEW s \in HonestStage
    PROVE  /\ InsertStageAtEnd(p, s) \in HonestPipeline
           /\ InsertStageAtEnd(p, s).ok => p.ok
           /\ \A a : InsertStageAtEnd(p, s).ok /\ Connected(p.stages, a, s.from)
                 => Connected(InsertStageAtEnd(p, s).stages, a, s.to)
<1> DEFINE q == [p EXCEPT !.stages = Append(@, s)]
<1>1. p.stages \in Seq(HonestStage)  BY DEF HonestPipeline
<1>2. /\ Append(p.stages, s) \in Seq(HonestStage)
      /\ Append(p.stages, s) = p.stages \o <<s>>
  BY <1>1
<1>3. q \in HonestPipeline /\ q.stages = p.stages \o <<s>> /\ q.ok = p.ok
  BY <1>2 DEF HonestPipeline
<1>4. ASSUME NEW a, Connected(p.stages, a, s.from)
      PROVE  Connected(p.stages \o <<s>>, a, s.to)
  BY <1>1, <1>4, ConnectedConcat, ConnectedOne
<1>  HIDE DEF q
<1>5. \/ InsertStageAtEnd(p, s) = q /\ p.ok
      \/ InsertStageAtEnd(p, s) = NoPipeline
  BY DEF InsertStageAtEnd, q
<1>  QED  BY <1>5, <1>3, <1>4, NoPipelineHonest

LEMMA PrependConnects ==
    ASSUME NEW p \in HonestPipeline, NEW s \in HonestStage
    PROVE  /\ PrependStage(p, s) \in HonestPipeline
           /\ PrependStage(p, s).ok => p.ok
           /\ \A c : PrependStage(p, s).ok /\ Connected(p.stages, s.to, c)
                 => Connected(PrependStage(p, s).stages, s.from, c)
<1> DEFINE out == IF p.stages = <<>> THEN Width(s.to) ELSE p.out
           q == [ok |-> TRUE, stages |-> <<s>> \o p.stages, in |-> Width(s.from), out |-> out]
<1>1. p.stages \in Seq(HonestStage) /\ p.out \in Nat  BY DEF HonestPipeline
<1>2. <<s>> \o p.stages \in Seq(HonestStage)  BY <1>1
<1>3. out \in Nat /\ Width(s.from) \in Nat  BY <1>1, WidthNat
<1>  HIDE DEF out
<1>4. q \in HonestPipeline /\ q.stages = <<s>> \o p.stages /\ q.ok
  BY <1>2, <1>3, PipelineFields
<1>5. ASSUME NEW c, Connected(p.stages, s.to, c)
      PROVE  Connected(<<s>> \o p.stages, s.from, c)
  BY <1>1, <1>5, ConnectedConcat, ConnectedOne
<1>6. \/ PrependStage(p, s) = q /\ p.ok
      \/ PrependStage(p, s) = NoPipeline
  BY Zenon DEF PrependStage, q, out
<1>  HIDE DEF q
<1>  QED  BY <1>6, <1>4, <1>5, NoPipelineHonest

LEMMA ConcatConnects ==
    ASSUME NEW p \in HonestPipeline, NEW q \in HonestPipeline
    PROVE  /\ Concat(p, q) \in HonestPipeline
           /\ Concat(p, q).ok => p.ok /\ q.ok
           /\ \A a, b, c : Concat(p, q).ok /\ Connected(p.stages, a, b) /\ Connected(q.stages, b, c)
                 => Connected(Concat(p, q).stages, a, c)
<1> DEFINE in == IF p.stages = <<>> THEN q.in ELSE p.in
           r == [ok |-> TRUE, stages |-> p.stages \o q.stages, in |-> in, out |-> q.out]
<1>1. /\ p.stages \in Seq(HonestStage) /\ q.stages \in Seq(HonestStage)
      /\ p.in \in Nat /\ q.in \in Nat /\ q.out \in Nat
  BY DEF HonestPipeline
<1>2. p.stages \o q.stages \in Seq(HonestStage) /\ in \in Nat  BY <1>1
<1>  HIDE DEF in
<1>3. r \in HonestPipeline /\ r.stages = p.stages \o q.stages /\ r.ok
  BY <1>1, <1>2, PipelineFields
<1>4. \/ Concat(p, q) = r /\ p.ok /\ q.ok
      \/ Concat(p, q) = NoPipeline
  BY Zenon DEF Concat, r, in
<1>5. ASSUME NEW a, NEW b, NEW c, Connected(p.stages, a, b), Connected(q.stages, b, c)
      PROVE  Connected(p.stages \o q.stages, a, c)
  BY <1>1, <1>5, ConnectedConcat
<1>  HIDE DEF r
<1>  QED  BY <1>3, <1>4, <1>5, NoPipelineHonest

\* A stage or none.
AtMostOne == {<<>>} \cup {<<s>> : s \in HonestStage}

LEMMA AtMostOneHonest ==
    ASSUME NEW stages \in AtMostOne
    PROVE  /\ stages \in Seq(HonestStage)
           /\ stages # <<>> => stages[1] \in HonestStage
           /\ \A a, b : Connected(stages, a, b) =>
                IF stages = <<>> THEN a = b ELSE stages[1].from = a /\ stages[1].to = b
<1>1. CASE stages = <<>>  BY <1>1 DEF Connected
<1>2. CASE stages # <<>>
  <2>1. PICK s \in HonestStage : stages = <<s>>  BY <1>2 DEF AtMostOne
  <2>2. stages \in Seq(HonestStage) /\ stages[1] = s /\ Len(stages) = 1  BY <2>1
  <2>  QED  BY <2>2, <1>2 DEF Connected, First, Last
<1>  QED  BY <1>1, <1>2

LEMMA AroundConnects ==
    ASSUME NEW before \in AtMostOne, NEW p \in HonestPipeline, NEW after \in AtMostOne
    PROVE  /\ Around(before, p, after) \in HonestPipeline
           /\ Around(before, p, after).ok => p.ok
           /\ \A a, b, c, d :
                /\ Around(before, p, after).ok
                /\ Connected(before, a, b) /\ Connected(p.stages, b, c) /\ Connected(after, c, d)
                => Connected(Around(before, p, after).stages, a, d)
<1> DEFINE front == IF before = <<>> THEN p ELSE PrependStage(p, before[1])
<1>1. /\ front \in HonestPipeline
      /\ front.ok => p.ok
      /\ \A a, b, c : front.ok /\ Connected(before, a, b) /\ Connected(p.stages, b, c)
            => Connected(front.stages, a, c)
  <2>1. CASE before = <<>>
    <3>1. \A a, b : Connected(before, a, b) => a = b  BY <2>1, AtMostOneHonest
    <3>  QED  BY <2>1, <3>1
  <2>2. CASE before # <<>>
    <3>1. before[1] \in HonestStage  BY <2>2, AtMostOneHonest
    <3>2. \A a, b : Connected(before, a, b) => before[1].from = a /\ before[1].to = b
      BY <2>2, AtMostOneHonest
    <3>  QED  BY <2>2, <3>1, <3>2, PrependConnects
  <2>  QED  BY <2>1, <2>2
<1>2. Around(before, p, after)
        = IF after = <<>> THEN front ELSE InsertStageAtEnd(front, after[1])
  BY DEF Around
<1>  HIDE DEF front
<1>3. CASE after = <<>>
  <2>1. \A c, d : Connected(after, c, d) => c = d  BY <1>3, AtMostOneHonest
  <2>  QED  BY <1>1, <1>2, <1>3, <2>1
<1>4. CASE after # <<>>
  <2>1. after[1] \in HonestStage  BY <1>4, AtMostOneHonest
  <2>2. \A c, d : Connected(after, c, d) => after[1].from = c /\ after[1].to = d
    BY <1>4, AtMostOneHonest
  <2>  DEFINE s == after[1]
  <2>  HIDE DEF s
  <2>3. s \in HonestStage  BY <2>1 DEF s
  <2>4. /\ InsertStageAtEnd(front, s) \in HonestPipeline
        /\ InsertStageAtEnd(front, s).ok => front.ok
        /\ \A a : InsertStageAtEnd(front, s).ok /\ Connected(front.stages, a, s.from)
              => Connected(InsertStageAtEnd(front, s).stages, a, s.to)
    BY <1>1, <2>3, InsertConnects
  <2>5. Around(before, p, after) = InsertStageAtEnd(front, s)  BY <1>2, <1>4 DEF s
  <2>6. \A c, d : Connected(after, c, d) => s.from = c /\ s.to = d  BY <2>2 DEF s
  <2>  QED  BY <1>1, <2>4, <2>5, <2>6
<1>  QED  BY <1>3, <1>4

\* A stage under a condition.
LEMMA WhenConnects ==
    ASSUME NEW condition \in BOOLEAN, NEW s \in HonestStage
    PROVE  /\ When(condition, s) \in AtMostOne
           /\ When(condition, s) \in Seq(HonestStage)
           /\ \A a, b : (IF condition THEN a = s.from /\ b = s.to ELSE a = b)
                => Connected(When(condition, s), a, b)
  BY ConnectedOne, ConnectedEmpty, AtMostOneHonest DEF When, AtMostOne

\* The normalizers of a floating-point tag.
LEMMA NormalizersConnect ==
    ASSUME NEW space
    PROVE  /\ NormalizeToFloat(space) \in AtMostOne
           /\ NormalizeFromFloat(space) \in AtMostOne
           /\ Connected(NormalizeToFloat(space), EncodingOf(space), BodyEncoding("mpet", space))
           /\ Connected(NormalizeFromFloat(space), BodyEncoding("mpet", space), EncodingOf(space))
<1>0. {"Lab4", "Lab float", "XYZ", "XYZ float"} \subseteq Text  BY DEF Text
<1>1. CASE space = "Lab"
  <2>1. /\ NormalizeToFloat(space) = <<OffsetMatrix("Lab4", "Lab float")>>
        /\ NormalizeFromFloat(space) = <<OffsetMatrix("Lab float", "Lab4")>>
        /\ EncodingOf(space) = "Lab4" /\ BodyEncoding("mpet", space) = "Lab float"
    BY <1>1 DEF NormalizeToFloat, NormalizeFromFloat, EncodingOf, BodyEncoding
  <2>2. ASSUME NEW a \in {"Lab4", "Lab float"}, NEW b \in {"Lab4", "Lab float"}
        PROVE  <<OffsetMatrix(a, b)>> \in AtMostOne /\ Connected(<<OffsetMatrix(a, b)>>, a, b)
    <3>1. OffsetMatrix(a, b) \in HonestStage /\ OffsetMatrix(a, b).from = a /\ OffsetMatrix(a, b).to = b
      <4>1. a \in Text /\ b \in Text  BY <1>0
      <4>  QED  BY <4>1, OffsetHonest
    <3>  QED  BY <3>1, ConnectedOne DEF AtMostOne
  <2>  QED  BY <2>1, <2>2
<1>2. CASE space = "XYZ"
  <2>1. /\ NormalizeToFloat(space) = <<Stage("Matrix", "XYZ", "XYZ float")>>
        /\ NormalizeFromFloat(space) = <<Stage("Matrix", "XYZ float", "XYZ")>>
        /\ EncodingOf(space) = "XYZ" /\ BodyEncoding("mpet", space) = "XYZ float"
    BY <1>2 DEF NormalizeToFloat, NormalizeFromFloat, EncodingOf, BodyEncoding
  <2>2. ASSUME NEW a \in {"XYZ", "XYZ float"}, NEW b \in {"XYZ", "XYZ float"}
        PROVE  <<Stage("Matrix", a, b)>> \in AtMostOne /\ Connected(<<Stage("Matrix", a, b)>>, a, b)
    <3>1. /\ Stage("Matrix", a, b) \in HonestStage
          /\ Stage("Matrix", a, b).from = a /\ Stage("Matrix", a, b).to = b
      <4>1. a \in Text /\ b \in Text  BY <1>0
      <4>  QED  BY <4>1, StageHonest
    <3>  QED  BY <3>1, ConnectedOne DEF AtMostOne
  <2>  QED  BY <2>1, <2>2
<1>3. CASE space \notin {"Lab", "XYZ"}
  <2>1. /\ NormalizeToFloat(space) = <<>>
        /\ NormalizeFromFloat(space) = <<>>
        /\ EncodingOf(space) = BodyEncoding("mpet", space)
    BY <1>3 DEF NormalizeToFloat, NormalizeFromFloat, EncodingOf, BodyEncoding
  <2>  QED  BY <2>1, ConnectedEmpty DEF AtMostOne
<1>  QED  BY <1>1, <1>2, <1>3

-----------------------------------------------------------------------------
(* The readers of a profile's tags.                                         *)

Profiles == {Catalogue[name] : name \in DOMAIN Catalogue}

LEMMA ProfileNames ==
    ASSUME NEW p \in Profiles
    PROVE  /\ {p.class, p.space, p.pcs, p.linear, p.named} \subseteq Text
           /\ p.gray \in BOOLEAN
           /\ EncodingOf(p.space) \in Text /\ EncodingOf(p.pcs) \in Text
<1>1. {p.class, p.space, p.pcs, p.linear, p.named} \subseteq STRING /\ p.gray \in BOOLEAN
  BY ProfilesAssumption DEF Profiles
<1>2. STRING \subseteq Text /\ "Lab4" \in Text /\ "CMYK" \in Text  BY DEF Text
<1>  QED  BY <1>1, <1>2 DEF EncodingOf

LEMMA TagHonest ==
    ASSUME NEW p \in Profiles, NEW tag \in DOMAIN p.luts
    PROVE  /\ LutPipeline(p, tag) \in HonestPipeline
           /\ LutPipeline(p, tag).stages = p.luts[tag].stages
           /\ LutPipeline(p, tag).ok = p.luts[tag].ok
           /\ p.luts[tag].ok => (p.luts[tag].type = "mpet" <=> tag \in FloatTags)
<1> DEFINE lut == p.luts[tag]
           ss == lut.stages
<1>1. IsLutTag(tag, lut)  BY ProfilesAssumption DEF Profiles
<1>  HIDE DEF lut
<1>2. /\ ss \in Seq(StageRecord) /\ lut.ok \in BOOLEAN /\ lut.in \in Nat /\ lut.out \in Nat
      /\ \A k \in DOMAIN ss : TagStage(ss[k])
      /\ lut.ok => (lut.type = "mpet" <=> tag \in FloatTags)
  BY <1>1 DEF IsLutTag
<1>  HIDE DEF ss
<1>3. ss \in Seq(HonestStage)
  <2>0. Len(ss) \in Nat /\ DOMAIN ss = 1..Len(ss) /\ ss \in [1..Len(ss) -> StageRecord]
    BY <1>2
  <2>1. ASSUME NEW k \in 1..Len(ss)  PROVE ss[k] \in HonestStage
    <3>1. ss[k] \in StageRecord /\ TagStage(ss[k])  BY <1>2, <2>0
    <3>2. ss[k] \in [op : Text, from : Text, to : Text, offset : BOOLEAN]
      <4>1. STRING \subseteq Text  BY DEF Text
      <4>  QED  BY <3>1, <4>1 DEF StageRecord
    <3>  QED  BY <3>1, <3>2 DEF TagStage, PcsConversions, HonestStage
  <2>2. ss \in [1..Len(ss) -> HonestStage]  BY <2>0, <2>1
  <2>  QED  BY <2>0, <2>2, FunctionIsSeq
<1>4. LutPipeline(p, tag) = [ok |-> lut.ok, stages |-> ss, in |-> lut.in, out |-> lut.out]
  BY DEF LutPipeline, lut, ss
<1>5. LutPipeline(p, tag) \in HonestPipeline /\ LutPipeline(p, tag).stages = ss /\ LutPipeline(p, tag).ok = lut.ok
  BY <1>2, <1>3, <1>4, PipelineFields
<1>  QED  BY <1>2, <1>5 DEF lut, ss

LEMMA SoundTag ==
    ASSUME NEW p, SoundProfile(p), NEW tag \in DOMAIN p.luts, p.luts[tag].ok
    PROVE  Connected(p.luts[tag].stages,
                     BodyEncoding(p.luts[tag].type, TagSides(p, tag)[1]),
                     BodyEncoding(p.luts[tag].type, TagSides(p, tag)[2]))
  BY DEF SoundProfile

\* A floating-point tag between its normalizers.
LEMMA FloatTagConnects ==
    ASSUME NEW p \in Profiles, NEW tag \in DOMAIN p.luts, tag \in FloatTags, NEW in, NEW out
    PROVE  /\ FloatTag(p, tag, in, out) \in HonestPipeline
           /\ (SoundProfile(p) /\ TagSides(p, tag) = <<in, out>> /\ FloatTag(p, tag, in, out).ok)
                => Connected(FloatTag(p, tag, in, out).stages, EncodingOf(in), EncodingOf(out))
<1> DEFINE q == LutPipeline(p, tag)
           b == NormalizeToFloat(in)
           a == NormalizeFromFloat(out)
<1>1. q \in HonestPipeline /\ q.stages = p.luts[tag].stages /\ q.ok = p.luts[tag].ok
  BY TagHonest
<1>2. /\ b \in AtMostOne /\ a \in AtMostOne
      /\ Connected(b, EncodingOf(in), BodyEncoding("mpet", in))
      /\ Connected(a, BodyEncoding("mpet", out), EncodingOf(out))
  BY NormalizersConnect
<1>3. FloatTag(p, tag, in, out) = Around(b, q, a)  BY DEF FloatTag
<1>4. ASSUME SoundProfile(p), TagSides(p, tag) = <<in, out>>, q.ok
      PROVE  Connected(q.stages, BodyEncoding("mpet", in), BodyEncoding("mpet", out))
  <2>1. p.luts[tag].ok /\ p.luts[tag].type = "mpet"  BY <1>1, <1>4, TagHonest
  <2>2. TagSides(p, tag)[1] = in /\ TagSides(p, tag)[2] = out  BY <1>4
  <2>3. Connected(p.luts[tag].stages, BodyEncoding(p.luts[tag].type, TagSides(p, tag)[1]),
                  BodyEncoding(p.luts[tag].type, TagSides(p, tag)[2]))
    BY <2>1, <1>4, SoundTag
  <2>  HIDE DEF q
  <2>  QED  BY <2>1, <2>2, <2>3, <1>1
<1>  HIDE DEF q, a, b
<1>  QED  BY <1>1, <1>2, <1>3, <1>4, AroundConnects

\* A 16-bit tag, with the older Lab converted on the sides that have it.
LEMMA Table16Connects ==
    ASSUME NEW p \in Profiles, NEW tag \in DOMAIN p.luts, tag \notin FloatTags,
           NEW before \in BOOLEAN, NEW after \in BOOLEAN
    PROVE  LET r == Around(When(before, LabV4ToV2), LutPipeline(p, tag), When(after, LabV2ToV4))
               in == TagSides(p, tag)[1]
               out == TagSides(p, tag)[2]
           IN  /\ r \in HonestPipeline
               /\ (/\ SoundProfile(p) /\ r.ok
                   /\ before <=> (IsLut16(p, tag) /\ in = "Lab")
                   /\ after <=> (IsLut16(p, tag) /\ out = "Lab"))
                     => Connected(r.stages, EncodingOf(in), EncodingOf(out))
<1> DEFINE q == LutPipeline(p, tag)
           b == When(before, LabV4ToV2)
           a == When(after, LabV2ToV4)
           r == Around(b, q, a)
           in == TagSides(p, tag)[1]
           out == TagSides(p, tag)[2]
           type == p.luts[tag].type
<1>1. q \in HonestPipeline /\ q.stages = p.luts[tag].stages /\ q.ok = p.luts[tag].ok
  BY TagHonest
<1>2. /\ b \in AtMostOne /\ a \in AtMostOne
      /\ \A x, y : (IF before THEN x = "Lab4" /\ y = "Lab2" ELSE x = y) => Connected(b, x, y)
      /\ \A x, y : (IF after THEN x = "Lab2" /\ y = "Lab4" ELSE x = y) => Connected(a, x, y)
  BY WhenConnects, ConversionsHonest
<1>3. ASSUME SoundProfile(p), r.ok,
             before <=> (IsLut16(p, tag) /\ in = "Lab"),
             after <=> (IsLut16(p, tag) /\ out = "Lab")
      PROVE  Connected(r.stages, EncodingOf(in), EncodingOf(out))
  <2>1. p.luts[tag].ok /\ type # "mpet"
    <3>1. q.ok  BY <1>1, <1>2, <1>3, AroundConnects
    <3>  QED  BY <1>1, <3>1, TagHonest
  <2>2. Connected(q.stages, BodyEncoding(type, in), BodyEncoding(type, out))
    BY <1>1, <1>3, <2>1, SoundTag
  <2>3. IF before THEN EncodingOf(in) = "Lab4" /\ BodyEncoding(type, in) = "Lab2"
        ELSE EncodingOf(in) = BodyEncoding(type, in)
    BY <1>3, <2>1 DEF IsLut16, EncodingOf, BodyEncoding
  <2>4. IF after THEN EncodingOf(out) = "Lab4" /\ BodyEncoding(type, out) = "Lab2"
        ELSE EncodingOf(out) = BodyEncoding(type, out)
    BY <1>3, <2>1 DEF IsLut16, EncodingOf, BodyEncoding
  <2>  HIDE DEF q, a, b, in, out, type
  <2>5. Connected(b, EncodingOf(in), BodyEncoding(type, in))  BY <1>2, <2>3
  <2>6. Connected(a, BodyEncoding(type, out), EncodingOf(out))  BY <1>2, <2>4
  <2>  QED  BY <1>1, <1>2, <1>3, <2>2, <2>5, <2>6, AroundConnects
<1>4. r \in HonestPipeline
  <2>  HIDE DEF q, a, b
  <2>  QED  BY <1>1, <1>2, AroundConnects
<1>  QED  BY <1>3, <1>4

LEMMA ConnectedTwo ==
    ASSUME NEW s \in HonestStage, NEW t \in HonestStage, s.to = t.from
    PROVE  <<s, t>> \in Seq(HonestStage) /\ Connected(<<s, t>>, s.from, t.to)
<1> DEFINE u == <<s, t>>
<1>1. u \in Seq(HonestStage) /\ Len(u) = 2 /\ u[1] = s /\ u[2] = t  OBVIOUS
<1>2. u # <<>>  OBVIOUS
<1>  HIDE DEF u
<1>3. \A k \in 1..(Len(u) - 1) : k = 1 /\ k + 1 = 2
  <2>1. Len(u) - 1 = 1  BY <1>1
  <2>2. \A k \in 1..1 : k = 1 /\ k + 1 = 2  OBVIOUS
  <2>  QED  BY <2>1, <2>2
<1>4. Connected(u, s.from, t.to)
  <2>1. First(u) = s /\ Last(u) = t  BY <1>1 DEF First, Last
  <2>2. \A k \in 1..(Len(u) - 1) : u[k].to = u[k + 1].from  BY <1>1, <1>3
  <2>  QED  BY <1>2, <2>1, <2>2 DEF Connected
<1>  QED  BY <1>1, <1>4 DEF u

LEMMA ShaperHonest ==
    ASSUME NEW present \in BOOLEAN, NEW in \in Nat, NEW out \in Nat, NEW stages \in Seq(HonestStage)
    PROVE  /\ Shaper(present, in, out, stages) \in HonestPipeline
           /\ Shaper(present, in, out, stages).ok => present /\ Shaper(present, in, out, stages).stages = stages
<1>1. CASE present
  <2>1. Shaper(present, in, out, stages) = [ok |-> TRUE, stages |-> stages, in |-> in, out |-> out]
    BY <1>1 DEF Shaper
  <2>  DEFINE r == [ok |-> TRUE, stages |-> stages, in |-> in, out |-> out]
  <2>2. TRUE \in BOOLEAN  OBVIOUS
  <2>3. r \in HonestPipeline /\ r.stages = stages  BY <2>2, PipelineFields, Zenon
  <2>  HIDE DEF r
  <2>4. Shaper(present, in, out, stages) = r  BY <2>1 DEF r
  <2>  QED  BY <1>1, <2>3, <2>4
<1>2. CASE ~present
  <2>1. Shaper(present, in, out, stages) = NoPipeline  BY <1>2 DEF Shaper
  <2>  QED  BY <2>1, NoPipelineHonest
<1>  QED  BY <1>1, <1>2

\* Two stages of a shaper in a row.
LEMMA TwoStages ==
    ASSUME NEW f \in {"Matrix", "ToneCurves"}, NEW g \in {"Matrix", "ToneCurves"},
           NEW a \in Text, NEW b \in Text, NEW c \in Text
    PROVE  LET ss == <<Stage(f, a, b), Stage(g, b, c)>>
           IN  ss \in Seq(HonestStage) /\ Connected(ss, a, c)
<1>1. /\ Stage(f, a, b) \in HonestStage /\ Stage(f, a, b).from = a /\ Stage(f, a, b).to = b
      /\ Stage(g, b, c) \in HonestStage /\ Stage(g, b, c).from = b /\ Stage(g, b, c).to = c
  BY StageHonest
<1>  QED  BY <1>1, ConnectedTwo

LEMMA GrayConnects ==
    ASSUME NEW p \in Profiles
    PROVE  /\ GrayInput(p) \in HonestPipeline /\ GrayOutput(p) \in HonestPipeline
           /\ p.pcs \in PCS /\ GrayInput(p).ok
                => Connected(GrayInput(p).stages, "GRAY", EncodingOf(p.pcs))
           /\ p.pcs \in PCS /\ GrayOutput(p).ok
                => Connected(GrayOutput(p).stages, EncodingOf(p.pcs), "GRAY")
<1>0. {"GRAY", "3 gray", "Lab4", "gray light", "XYZ", "L", EncodingOf(p.pcs)} \subseteq Text /\ p.gray \in BOOLEAN
  BY ProfileNames DEF Text
<1> DEFINE lab == <<Stage("Matrix", "GRAY", "3 gray"), Stage("ToneCurves", "3 gray", "Lab4")>>
           xyz == <<Stage("ToneCurves", "GRAY", "gray light"), Stage("Matrix", "gray light", "XYZ")>>
           ins == IF p.pcs = "Lab" THEN lab ELSE xyz
           light == IF p.pcs = "Lab" THEN "L" ELSE "gray light"
           outs == <<Stage("Matrix", EncodingOf(p.pcs), light), Stage("ToneCurves", light, "GRAY")>>
<1>1. lab \in Seq(HonestStage) /\ Connected(lab, "GRAY", "Lab4")
  BY <1>0, TwoStages
<1>2. xyz \in Seq(HonestStage) /\ Connected(xyz, "GRAY", "XYZ")
  BY <1>0, TwoStages
<1>3. outs \in Seq(HonestStage) /\ Connected(outs, EncodingOf(p.pcs), "GRAY")
  <2>1. light \in Text  BY <1>0
  <2>  HIDE DEF light
  <2>  QED  BY <1>0, <2>1, TwoStages
<1>4. GrayInput(p) = Shaper(p.gray, 1, 3, ins)  BY DEF GrayInput
<1>5. GrayOutput(p) = Shaper(p.gray, 3, 1, outs)  BY DEF GrayOutput
<1>6. ins \in Seq(HonestStage) /\ (p.pcs \in PCS => Connected(ins, "GRAY", EncodingOf(p.pcs)))
  <2>  HIDE DEF lab, xyz
  <2>1. p.pcs \in PCS => EncodingOf(p.pcs) = IF p.pcs = "Lab" THEN "Lab4" ELSE "XYZ"
    BY DEF PCS, EncodingOf
  <2>  QED  BY <1>1, <1>2, <2>1
<1>  HIDE DEF ins, outs
<1>7. /\ GrayInput(p) \in HonestPipeline
      /\ GrayInput(p).ok => GrayInput(p).stages = ins
  <2>1. 1 \in Nat /\ 3 \in Nat  OBVIOUS
  <2>2. p.gray \in BOOLEAN  BY <1>0
  <2>3. ins \in Seq(HonestStage)  BY <1>6
  <2>4. /\ Shaper(p.gray, 1, 3, ins) \in HonestPipeline
        /\ Shaper(p.gray, 1, 3, ins).ok => Shaper(p.gray, 1, 3, ins).stages = ins
    BY <2>1, <2>2, <2>3, ShaperHonest, Zenon
  <2>  QED  BY <2>4, <1>4, Zenon
<1>8. /\ GrayOutput(p) \in HonestPipeline
      /\ GrayOutput(p).ok => GrayOutput(p).stages = outs
  <2>1. 1 \in Nat /\ 3 \in Nat  OBVIOUS
  <2>2. p.gray \in BOOLEAN  BY <1>0
  <2>3. outs \in Seq(HonestStage)  BY <1>3
  <2>4. /\ Shaper(p.gray, 3, 1, outs) \in HonestPipeline
        /\ Shaper(p.gray, 3, 1, outs).ok => Shaper(p.gray, 3, 1, outs).stages = outs
    BY <2>1, <2>2, <2>3, ShaperHonest, Zenon
  <2>  QED  BY <2>4, <1>5, Zenon
<1>  QED  BY <1>3, <1>6, <1>7, <1>8, Zenon

LEMMA RgbConnects ==
    ASSUME NEW p \in Profiles
    PROVE  /\ RgbInput(p) \in HonestPipeline /\ RgbOutput(p) \in HonestPipeline
           /\ SoundProfile(p) /\ p.pcs \in PCS /\ RgbInput(p).ok
                => Connected(RgbInput(p).stages, EncodingOf(p.space), EncodingOf(p.pcs))
           /\ SoundProfile(p) /\ p.pcs \in PCS /\ RgbOutput(p).ok
                => Connected(RgbOutput(p).stages, EncodingOf(p.pcs), EncodingOf(p.space))
<1>0. {"RGB", "XYZ", p.linear} \subseteq Text
  BY ProfileNames DEF Text
<1> DEFINE there == <<Stage("ToneCurves", "RGB", p.linear), Stage("Matrix", p.linear, "XYZ")>>
           back == <<Stage("Matrix", "XYZ", p.linear), Stage("ToneCurves", p.linear, "RGB")>>
           toLab == When(p.pcs = "Lab", Xyz2Lab)
           fromLab == When(p.pcs = "Lab", Lab2Xyz)
           usable == p.linear # ""
<1>1. there \in Seq(HonestStage) /\ Connected(there, "RGB", "XYZ")  BY <1>0, TwoStages
<1>2. back \in Seq(HonestStage) /\ Connected(back, "XYZ", "RGB")  BY <1>0, TwoStages
<1>3. /\ toLab \in Seq(HonestStage)
      /\ p.pcs \in PCS => Connected(toLab, "XYZ", EncodingOf(p.pcs))
  BY WhenConnects, ConversionsHonest DEF PCS, EncodingOf
<1>4. /\ fromLab \in Seq(HonestStage)
      /\ p.pcs \in PCS => Connected(fromLab, EncodingOf(p.pcs), "XYZ")
  BY WhenConnects, ConversionsHonest DEF PCS, EncodingOf
<1>5. RgbInput(p) = Shaper(usable, 3, 3, there \o toLab)  BY DEF RgbInput
<1>6. RgbOutput(p) = Shaper(usable, 3, 3, fromLab \o back)  BY DEF RgbOutput
<1>7. SoundProfile(p) /\ usable => EncodingOf(p.space) = "RGB"
  BY DEF SoundProfile, EncodingOf
<1>  HIDE DEF there, back, toLab, fromLab
<1>8. /\ there \o toLab \in Seq(HonestStage)
      /\ p.pcs \in PCS => Connected(there \o toLab, "RGB", EncodingOf(p.pcs))
  BY <1>1, <1>3, ConnectedConcat
<1>9. /\ fromLab \o back \in Seq(HonestStage)
      /\ p.pcs \in PCS => Connected(fromLab \o back, EncodingOf(p.pcs), "RGB")
  BY <1>2, <1>4, ConnectedConcat
<1>10. usable \in BOOLEAN  OBVIOUS
<1>  HIDE DEF usable
<1>11. /\ RgbInput(p) \in HonestPipeline
       /\ RgbInput(p).ok => usable /\ RgbInput(p).stages = there \o toLab
  <2>  DEFINE ss == there \o toLab
  <2>1. 3 \in Nat  OBVIOUS
  <2>2. ss \in Seq(HonestStage)  BY <1>8
  <2>  HIDE DEF ss
  <2>3. /\ Shaper(usable, 3, 3, ss) \in HonestPipeline
        /\ Shaper(usable, 3, 3, ss).ok => usable /\ Shaper(usable, 3, 3, ss).stages = ss
    BY <2>1, <2>2, <1>10, ShaperHonest, Zenon
  <2>  QED  BY <2>3, <1>5, Zenon DEF ss
<1>12. /\ RgbOutput(p) \in HonestPipeline
       /\ RgbOutput(p).ok => usable /\ RgbOutput(p).stages = fromLab \o back
  <2>  DEFINE ss == fromLab \o back
  <2>1. 3 \in Nat  OBVIOUS
  <2>2. ss \in Seq(HonestStage)  BY <1>9
  <2>  HIDE DEF ss
  <2>3. /\ Shaper(usable, 3, 3, ss) \in HonestPipeline
        /\ Shaper(usable, 3, 3, ss).ok => usable /\ Shaper(usable, 3, 3, ss).stages = ss
    BY <2>1, <2>2, <1>10, ShaperHonest, Zenon
  <2>  QED  BY <2>3, <1>6, Zenon DEF ss
<1>  QED  BY <1>7, <1>8, <1>9, <1>11, <1>12

\* The stage of a list of named colours, and the pipeline that holds it.
LEMMA NamedConnects ==
    ASSUME NEW p \in Profiles, NEW to \in Text
    PROVE  /\ NamedStage(p, to) \in HonestPipeline
           /\ NamedStage(p, to).ok
                => p.named # "" /\ Connected(NamedStage(p, to).stages, "index", to)
<1> DEFINE q == NewPipeline(0, 0)
           s == Stage("NamedColor", "index", to)
<1>0. "index" \in Text  BY DEF Text
<1>1. s \in HonestStage /\ s.from = "index" /\ s.to = to  BY <1>0, StageHonest
<1>2. q \in HonestPipeline /\ q.stages = <<>>
  <2>1. <<>> \in Seq(HonestStage)  OBVIOUS
  <2>  QED  BY <2>1, PipelineFields DEF NewPipeline
<1>  HIDE DEF q, s
<1>3. /\ PrependStage(q, s) \in HonestPipeline
      /\ PrependStage(q, s).ok => Connected(PrependStage(q, s).stages, "index", to)
  BY <1>1, <1>2, PrependConnects, ConnectedEmpty
<1>4. NamedStage(p, to) = IF p.named = "" THEN NoPipeline ELSE PrependStage(q, s)
  BY DEF NamedStage, q, s
<1>  QED  BY <1>3, <1>4, NoPipelineHonest

LEMMA TagNames ==
    ASSUME NEW p, NEW intent, IccIntent(intent)
    PROVE  /\ Device2PcsFloat[intent + 1] \in {"D2B0", "D2B1", "D2B2", "D2B3"}
           /\ Pcs2DeviceFloat[intent + 1] \in {"B2D0", "B2D1", "B2D2", "B2D3"}
           /\ Tag16(p, Device2Pcs16, intent) \in {"A2B0", "A2B1", "A2B2"}
           /\ Tag16(p, Pcs2Device16, intent) \in {"B2A0", "B2A1", "B2A2"}
<1>1. intent = 0 \/ intent = 1 \/ intent = 2 \/ intent = 3  BY DEF IccIntent
<1>  QED  BY <1>1 DEF Device2PcsFloat, Pcs2DeviceFloat, Device2Pcs16, Pcs2Device16, Tag16

LEMMA TagDirections ==
    ASSUME NEW p
    PROVE  /\ \A tag \in {"A2B0", "A2B1", "A2B2"} : tag \notin FloatTags /\ TagSides(p, tag) = <<p.space, p.pcs>>
           /\ \A tag \in {"D2B0", "D2B1", "D2B2", "D2B3"} : tag \in FloatTags /\ TagSides(p, tag) = <<p.space, p.pcs>>
           /\ \A tag \in {"B2A0", "B2A1", "B2A2"} : tag \notin FloatTags /\ TagSides(p, tag) = <<p.pcs, p.space>>
           /\ \A tag \in {"B2D0", "B2D1", "B2D2", "B2D3"} : tag \in FloatTags /\ TagSides(p, tag) = <<p.pcs, p.space>>
  BY DEF FloatTags, TagSides

\* The device side is Lab, the PCS is not, and a tag holds the older Lab.
LabDevice(p) ==
    /\ p.space = "Lab" /\ p.pcs # "Lab"
    /\ \E tag \in DOMAIN p.luts : p.luts[tag].type = "mft2"

LEMMA InputConnects ==
    ASSUME NEW p \in Profiles, NEW intent
    PROVE  /\ ReadInputLut(p, intent) \in HonestPipeline
           /\ (/\ SoundProfile(p) /\ p.pcs \in PCS /\ ~LabDevice(p)
               /\ p.class = "NamedColor" => p.pcs = "Lab"
               /\ ReadInputLut(p, intent).ok)
                => Connected(ReadInputLut(p, intent).stages,
                             IF p.class = "NamedColor" THEN "index" ELSE EncodingOf(p.space),
                             EncodingOf(p.pcs))
<1> DEFINE r == ReadInputLut(p, intent)
           float == Device2PcsFloat[intent + 1]
           tag == Tag16(p, Device2Pcs16, intent)
           adjust == IsLut16(p, tag) /\ p.pcs = "Lab"
<1>1. CASE p.class = "NamedColor"
  <2>1. r = InsertStageAtEnd(NamedStage(p, "Lab2"), LabV2ToV4)  BY <1>1 DEF ReadInputLut
  <2>2. "Lab2" \in Text  BY DEF Text
  <2>3. NamedStage(p, "Lab2") \in HonestPipeline
        /\ (NamedStage(p, "Lab2").ok => Connected(NamedStage(p, "Lab2").stages, "index", "Lab2"))
    BY <2>2, NamedConnects
  <2>4. r \in HonestPipeline /\ (r.ok => Connected(r.stages, "index", "Lab4"))
    <3>  HIDE DEF r
    <3>  QED  BY <2>1, <2>3, InsertConnects, ConversionsHonest
  <2>5. p.pcs = "Lab" => EncodingOf(p.pcs) = "Lab4"  BY DEF EncodingOf
  <2>  QED  BY <1>1, <2>4, <2>5
<1>2. CASE p.class # "NamedColor" /\ IccIntent(intent) /\ HasTag(p, float)
  <2>1. r = FloatTag(p, float, p.space, p.pcs)  BY <1>2 DEF ReadInputLut
  <2>2. float \in FloatTags /\ float \in DOMAIN p.luts /\ TagSides(p, float) = <<p.space, p.pcs>>
    BY <1>2, TagNames, TagDirections DEF HasTag
  <2>  HIDE DEF float
  <2>3. /\ FloatTag(p, float, p.space, p.pcs) \in HonestPipeline
        /\ SoundProfile(p) /\ FloatTag(p, float, p.space, p.pcs).ok
             => Connected(FloatTag(p, float, p.space, p.pcs).stages, EncodingOf(p.space), EncodingOf(p.pcs))
    BY <2>2, FloatTagConnects
  <2>  HIDE DEF r
  <2>4. /\ r \in HonestPipeline
        /\ SoundProfile(p) /\ r.ok => Connected(r.stages, EncodingOf(p.space), EncodingOf(p.pcs))
    BY <2>1, <2>3
  <2>  QED  BY <1>2, <2>4 DEF r
<1>3. CASE p.class # "NamedColor" /\ IccIntent(intent) /\ ~HasTag(p, float) /\ HasTag(p, tag)
  <2>  DEFINE before == adjust /\ p.space = "Lab"
              t == Around(When(before, LabV4ToV2), LutPipeline(p, tag), When(adjust, LabV2ToV4))
  <2>1. r = t  BY <1>3 DEF ReadInputLut
  <2>2. /\ tag \notin FloatTags /\ tag \in DOMAIN p.luts
        /\ TagSides(p, tag)[1] = p.space /\ TagSides(p, tag)[2] = p.pcs
    <3>1. tag \in {"A2B0", "A2B1", "A2B2"} /\ tag \in DOMAIN p.luts  BY <1>3, TagNames DEF HasTag
    <3>  HIDE DEF tag
    <3>2. tag \notin FloatTags /\ TagSides(p, tag) = <<p.space, p.pcs>>  BY <3>1, TagDirections
    <3>  QED  BY <3>1, <3>2
  <2>  HIDE DEF tag
  <2>3. /\ ~LabDevice(p) => (before <=> (IsLut16(p, tag) /\ p.space = "Lab"))
        /\ adjust <=> (IsLut16(p, tag) /\ p.pcs = "Lab")
    BY <2>2 DEF LabDevice, IsLut16
  <2>4. before \in BOOLEAN /\ adjust \in BOOLEAN  OBVIOUS
  <2>  HIDE DEF before, adjust, r
  <2>5. /\ t \in HonestPipeline
        /\ (/\ SoundProfile(p) /\ t.ok
            /\ before <=> (IsLut16(p, tag) /\ p.space = "Lab")
            /\ adjust <=> (IsLut16(p, tag) /\ p.pcs = "Lab"))
             => Connected(t.stages, EncodingOf(p.space), EncodingOf(p.pcs))
    BY <2>2, <2>4, Table16Connects
  <2>  HIDE DEF t
  <2>6. /\ r \in HonestPipeline
        /\ SoundProfile(p) /\ ~LabDevice(p) /\ r.ok
             => Connected(r.stages, EncodingOf(p.space), EncodingOf(p.pcs))
    BY <2>1, <2>3, <2>5
  <2>  QED  BY <1>3, <2>6 DEF r
<1>4. CASE p.class # "NamedColor" /\ ~(IccIntent(intent) /\ (HasTag(p, float) \/ HasTag(p, tag)))
  <2>1. r = IF p.space = "GRAY" THEN GrayInput(p) ELSE RgbInput(p)
    BY <1>4 DEF ReadInputLut
  <2>2. p.space = "GRAY" => EncodingOf(p.space) = "GRAY"  BY DEF EncodingOf
  <2>  HIDE DEF r, float, tag
  <2>3. /\ r \in HonestPipeline
        /\ SoundProfile(p) /\ p.pcs \in PCS /\ r.ok
             => Connected(r.stages, EncodingOf(p.space), EncodingOf(p.pcs))
    <3>1. CASE p.space = "GRAY"  BY <2>1, <2>2, <3>1, GrayConnects
    <3>2. CASE p.space # "GRAY"  BY <2>1, <3>2, RgbConnects
    <3>  QED  BY <3>1, <3>2
  <2>  QED  BY <1>4, <2>3 DEF r
<1>  QED  BY <1>1, <1>2, <1>3, <1>4

LEMMA OutputConnects ==
    ASSUME NEW p \in Profiles, NEW intent
    PROVE  /\ ReadOutputLut(p, intent) \in HonestPipeline
           /\ (SoundProfile(p) /\ p.pcs \in PCS /\ ~LabDevice(p) /\ ReadOutputLut(p, intent).ok)
                => Connected(ReadOutputLut(p, intent).stages, EncodingOf(p.pcs), EncodingOf(p.space))
<1> DEFINE r == ReadOutputLut(p, intent)
           float == Pcs2DeviceFloat[intent + 1]
           tag == Tag16(p, Pcs2Device16, intent)
           adjust == IsLut16(p, tag) /\ p.pcs = "Lab"
<1>1. CASE IccIntent(intent) /\ HasTag(p, float)
  <2>1. r = FloatTag(p, float, p.pcs, p.space)  BY <1>1 DEF ReadOutputLut
  <2>2. float \in FloatTags /\ float \in DOMAIN p.luts /\ TagSides(p, float) = <<p.pcs, p.space>>
    BY <1>1, TagNames, TagDirections DEF HasTag
  <2>  HIDE DEF float
  <2>3. /\ FloatTag(p, float, p.pcs, p.space) \in HonestPipeline
        /\ SoundProfile(p) /\ FloatTag(p, float, p.pcs, p.space).ok
             => Connected(FloatTag(p, float, p.pcs, p.space).stages, EncodingOf(p.pcs), EncodingOf(p.space))
    BY <2>2, FloatTagConnects
  <2>  HIDE DEF r
  <2>4. /\ r \in HonestPipeline
        /\ SoundProfile(p) /\ r.ok => Connected(r.stages, EncodingOf(p.pcs), EncodingOf(p.space))
    BY <2>1, <2>3
  <2>  QED  BY <2>4 DEF r
<1>2. CASE IccIntent(intent) /\ ~HasTag(p, float) /\ HasTag(p, tag)
  <2>  DEFINE after == adjust /\ p.space = "Lab"
              t == Around(When(adjust, LabV4ToV2), LutPipeline(p, tag), When(after, LabV2ToV4))
  <2>1. r = t  BY <1>2 DEF ReadOutputLut
  <2>2. /\ tag \notin FloatTags /\ tag \in DOMAIN p.luts
        /\ TagSides(p, tag)[1] = p.pcs /\ TagSides(p, tag)[2] = p.space
    <3>1. tag \in {"B2A0", "B2A1", "B2A2"} /\ tag \in DOMAIN p.luts  BY <1>2, TagNames DEF HasTag
    <3>  HIDE DEF tag
    <3>2. tag \notin FloatTags /\ TagSides(p, tag) = <<p.pcs, p.space>>  BY <3>1, TagDirections
    <3>  QED  BY <3>1, <3>2
  <2>  HIDE DEF tag
  <2>3. /\ ~LabDevice(p) => (after <=> (IsLut16(p, tag) /\ p.space = "Lab"))
        /\ adjust <=> (IsLut16(p, tag) /\ p.pcs = "Lab")
    BY <2>2 DEF LabDevice, IsLut16
  <2>4. after \in BOOLEAN /\ adjust \in BOOLEAN  OBVIOUS
  <2>  HIDE DEF after, adjust, r
  <2>5. /\ t \in HonestPipeline
        /\ (/\ SoundProfile(p) /\ t.ok
            /\ adjust <=> (IsLut16(p, tag) /\ p.pcs = "Lab")
            /\ after <=> (IsLut16(p, tag) /\ p.space = "Lab"))
             => Connected(t.stages, EncodingOf(p.pcs), EncodingOf(p.space))
    BY <2>2, <2>4, Table16Connects
  <2>  HIDE DEF t
  <2>6. /\ r \in HonestPipeline
        /\ SoundProfile(p) /\ ~LabDevice(p) /\ r.ok
             => Connected(r.stages, EncodingOf(p.pcs), EncodingOf(p.space))
    BY <2>1, <2>3, <2>5
  <2>  QED  BY <2>6 DEF r
<1>3. CASE ~(IccIntent(intent) /\ (HasTag(p, float) \/ HasTag(p, tag)))
  <2>1. r = IF p.space = "GRAY" THEN GrayOutput(p) ELSE RgbOutput(p)
    BY <1>3 DEF ReadOutputLut
  <2>2. p.space = "GRAY" => EncodingOf(p.space) = "GRAY"  BY DEF EncodingOf
  <2>  HIDE DEF r, float, tag
  <2>3. /\ r \in HonestPipeline
        /\ SoundProfile(p) /\ p.pcs \in PCS /\ r.ok
             => Connected(r.stages, EncodingOf(p.pcs), EncodingOf(p.space))
    <3>1. CASE p.space = "GRAY"  BY <2>1, <2>2, <3>1, GrayConnects
    <3>2. CASE p.space # "GRAY"  BY <2>1, <3>2, RgbConnects
    <3>  QED  BY <3>1, <3>2
  <2>  QED  BY <2>3 DEF r
<1>  QED  BY <1>1, <1>2, <1>3

\* A device link whose perceptual float tag stands in for another intent's.
OtherFloatTag(p, intent) ==
    /\ IccIntent(intent)
    /\ HasTag(p, "D2B0") /\ ~HasTag(p, Device2PcsFloat[intent + 1])
    /\ {p.space, p.pcs} \cap PCS # {}

LEMMA DevicelinkConnects ==
    ASSUME NEW p \in Profiles, NEW intent
    PROVE  /\ ReadDevicelinkLut(p, intent) \in HonestPipeline
           /\ (/\ SoundProfile(p)
               /\ p.class # "NamedColor" => ~OtherFloatTag(p, intent)
               /\ ReadDevicelinkLut(p, intent).ok)
                => IF p.class = "NamedColor"
                   THEN Connected(ReadDevicelinkLut(p, intent).stages, "index", EncodingOf(p.space))
                   ELSE Connected(ReadDevicelinkLut(p, intent).stages, EncodingOf(p.space), EncodingOf(p.pcs))
<1> DEFINE r == ReadDevicelinkLut(p, intent)
           float == Device2PcsFloat[intent + 1]
           tag == Tag16(p, Device2Pcs16, intent)
           named == NamedStage(p, p.named)
<1>1. CASE ~IccIntent(intent)
  <2>1. r = NoPipeline  BY <1>1 DEF ReadDevicelinkLut
  <2>  HIDE DEF r
  <2>2. r \in HonestPipeline /\ ~r.ok  BY <2>1, NoPipelineHonest
  <2>  QED  BY <2>2 DEF r
<1>2. CASE IccIntent(intent) /\ p.class = "NamedColor"
  <2>1. r = IF p.space = "Lab" THEN InsertStageAtEnd(named, LabV2ToV4) ELSE named
    BY <1>2 DEF ReadDevicelinkLut
  <2>2. p.named \in Text  BY ProfileNames
  <2>3. /\ named \in HonestPipeline
        /\ named.ok => p.named # "" /\ Connected(named.stages, "index", p.named)
    BY <2>2, NamedConnects
  <2>4. /\ SoundProfile(p) /\ p.named # "" /\ p.space = "Lab" => p.named = "Lab2" /\ EncodingOf(p.space) = "Lab4"
        /\ SoundProfile(p) /\ p.named # "" /\ p.space # "Lab" => p.named = EncodingOf(p.space)
    BY DEF SoundProfile, BodyEncoding, EncodingOf
  <2>  HIDE DEF named, r
  <2>5. r \in HonestPipeline /\ (SoundProfile(p) /\ r.ok => Connected(r.stages, "index", EncodingOf(p.space)))
    <3>1. CASE p.space = "Lab"
      <4>1. r = InsertStageAtEnd(named, LabV2ToV4)  BY <2>1, <3>1
      <4>2. /\ r \in HonestPipeline /\ (r.ok => named.ok)
            /\ r.ok /\ Connected(named.stages, "index", "Lab2") => Connected(r.stages, "index", "Lab4")
        BY <4>1, <2>3, InsertConnects, ConversionsHonest
      <4>  QED  BY <4>2, <3>1, <2>3, <2>4
    <3>2. CASE p.space # "Lab"  BY <2>1, <2>3, <2>4, <3>2
    <3>  QED  BY <3>1, <3>2
  <2>  QED  BY <1>2, <2>5 DEF r
<1>3. CASE IccIntent(intent) /\ p.class # "NamedColor" /\ HasTag(p, float)
  <2>1. r = FloatTag(p, float, p.space, p.pcs)  BY <1>3 DEF ReadDevicelinkLut
  <2>2. float \in FloatTags /\ float \in DOMAIN p.luts /\ TagSides(p, float) = <<p.space, p.pcs>>
    BY <1>3, TagNames, TagDirections DEF HasTag
  <2>  HIDE DEF float
  <2>3. /\ FloatTag(p, float, p.space, p.pcs) \in HonestPipeline
        /\ SoundProfile(p) /\ FloatTag(p, float, p.space, p.pcs).ok
             => Connected(FloatTag(p, float, p.space, p.pcs).stages, EncodingOf(p.space), EncodingOf(p.pcs))
    BY <2>2, FloatTagConnects
  <2>  HIDE DEF r
  <2>4. /\ r \in HonestPipeline
        /\ SoundProfile(p) /\ r.ok => Connected(r.stages, EncodingOf(p.space), EncodingOf(p.pcs))
    BY <2>1, <2>3
  <2>  QED  BY <1>3, <2>4 DEF r
<1>4. CASE IccIntent(intent) /\ p.class # "NamedColor" /\ ~HasTag(p, float) /\ HasTag(p, "D2B0")
  <2>1. r = LutPipeline(p, "D2B0")  BY <1>4 DEF ReadDevicelinkLut
  <2>2. "D2B0" \in DOMAIN p.luts /\ "D2B0" \in FloatTags /\ TagSides(p, "D2B0") = <<p.space, p.pcs>>
    BY <1>4, TagDirections DEF HasTag
  <2>3. ~OtherFloatTag(p, intent) => p.space \notin PCS /\ p.pcs \notin PCS
    BY <1>4 DEF OtherFloatTag
  <2>4. \A space : space \notin PCS => BodyEncoding("mpet", space) = EncodingOf(space)
    BY DEF PCS, BodyEncoding, EncodingOf
  <2>5. /\ LutPipeline(p, "D2B0") \in HonestPipeline
        /\ LutPipeline(p, "D2B0").stages = p.luts["D2B0"].stages
        /\ LutPipeline(p, "D2B0").ok = p.luts["D2B0"].ok
        /\ p.luts["D2B0"].ok => p.luts["D2B0"].type = "mpet"
    BY <2>2, TagHonest
  <2>6. SoundProfile(p) /\ p.luts["D2B0"].ok =>
          Connected(p.luts["D2B0"].stages, BodyEncoding("mpet", p.space), BodyEncoding("mpet", p.pcs))
    <3>1. TagSides(p, "D2B0")[1] = p.space /\ TagSides(p, "D2B0")[2] = p.pcs  BY <2>2
    <3>2. SoundProfile(p) /\ p.luts["D2B0"].ok =>
            Connected(p.luts["D2B0"].stages, BodyEncoding(p.luts["D2B0"].type, TagSides(p, "D2B0")[1]),
                      BodyEncoding(p.luts["D2B0"].type, TagSides(p, "D2B0")[2]))
      BY <2>2, SoundTag
    <3>  QED  BY <2>5, <3>1, <3>2
  <2>  HIDE DEF r
  <2>7. /\ r \in HonestPipeline
        /\ SoundProfile(p) /\ ~OtherFloatTag(p, intent) /\ r.ok
             => Connected(r.stages, EncodingOf(p.space), EncodingOf(p.pcs))
    BY <2>1, <2>3, <2>4, <2>5, <2>6
  <2>  QED  BY <1>4, <2>7 DEF r
<1>5. CASE IccIntent(intent) /\ p.class # "NamedColor" /\ ~HasTag(p, float) /\ ~HasTag(p, "D2B0") /\ HasTag(p, tag)
  <2>  DEFINE before == IsLut16(p, tag) /\ p.space = "Lab"
              after == IsLut16(p, tag) /\ p.pcs = "Lab"
              t == Around(When(before, LabV4ToV2), LutPipeline(p, tag), When(after, LabV2ToV4))
  <2>1. r = t  BY <1>5 DEF ReadDevicelinkLut
  <2>2. /\ tag \notin FloatTags /\ tag \in DOMAIN p.luts
        /\ TagSides(p, tag)[1] = p.space /\ TagSides(p, tag)[2] = p.pcs
    <3>1. tag \in {"A2B0", "A2B1", "A2B2"} /\ tag \in DOMAIN p.luts  BY <1>5, TagNames DEF HasTag
    <3>  HIDE DEF tag
    <3>2. tag \notin FloatTags /\ TagSides(p, tag) = <<p.space, p.pcs>>  BY <3>1, TagDirections
    <3>  QED  BY <3>1, <3>2
  <2>  HIDE DEF tag
  <2>3. /\ before <=> (IsLut16(p, tag) /\ p.space = "Lab")
        /\ after <=> (IsLut16(p, tag) /\ p.pcs = "Lab")
    OBVIOUS
  <2>4. before \in BOOLEAN /\ after \in BOOLEAN  OBVIOUS
  <2>  HIDE DEF before, after, r
  <2>5. /\ t \in HonestPipeline
        /\ SoundProfile(p) /\ t.ok => Connected(t.stages, EncodingOf(p.space), EncodingOf(p.pcs))
    BY <2>2, <2>3, <2>4, Table16Connects
  <2>  HIDE DEF t
  <2>  QED  BY <1>5, <2>1, <2>5 DEF r
<1>6. CASE IccIntent(intent) /\ p.class # "NamedColor" /\ ~HasTag(p, float) /\ ~HasTag(p, "D2B0") /\ ~HasTag(p, tag)
  <2>1. r = NoPipeline  BY <1>6 DEF ReadDevicelinkLut
  <2>  HIDE DEF r
  <2>2. r \in HonestPipeline /\ ~r.ok  BY <2>1, NoPipelineHonest
  <2>  QED  BY <2>2 DEF r
<1>  QED  BY <1>1, <1>2, <1>3, <1>4, <1>5, <1>6

-----------------------------------------------------------------------------
(* The conversion between two profiles.                                     *)

\* The stages of add_conversion lead from the one space to the other.
LEMMA ConversionConnects ==
    ASSUME NEW in, NEW out, NEW layer
    PROVE  /\ ConversionStages(in, out, layer) \in Seq(HonestStage)
           /\ in = out \/ {in, out} = PCS
                => Connected(ConversionStages(in, out, layer), EncodingOf(in), EncodingOf(out))
<1> DEFINE adapt == When(layer = "matrix", OffsetMatrix("XYZ", "XYZ"))
<1>1. adapt \in Seq(HonestStage) /\ Connected(adapt, "XYZ", "XYZ")
  <2>1. "XYZ" \in Text /\ (layer = "matrix") \in BOOLEAN  BY DEF Text
  <2>  QED  BY <2>1, OffsetHonest, WhenConnects
<1>2. /\ <<Lab2Xyz>> \in Seq(HonestStage) /\ Connected(<<Lab2Xyz>>, "Lab4", "XYZ")
      /\ <<Xyz2Lab>> \in Seq(HonestStage) /\ Connected(<<Xyz2Lab>>, "XYZ", "Lab4")
  BY ConversionsHonest, ConnectedOne
<1>3. EncodingOf("Lab") = "Lab4" /\ EncodingOf("XYZ") = "XYZ"  BY DEF EncodingOf
<1>  DEFINE toLab == adapt \o <<Xyz2Lab>>
            fromLab == <<Lab2Xyz>> \o adapt
            around == fromLab \o <<Xyz2Lab>>
<1>  HIDE DEF adapt
<1>4. toLab \in Seq(HonestStage) /\ Connected(toLab, "XYZ", "Lab4")  BY <1>1, <1>2, ConnectedConcat
<1>5. fromLab \in Seq(HonestStage) /\ Connected(fromLab, "Lab4", "XYZ")  BY <1>1, <1>2, ConnectedConcat
<1>6. around \in Seq(HonestStage) /\ Connected(around, "Lab4", "Lab4")
  <2>  HIDE DEF fromLab
  <2>  QED  BY <1>2, <1>5, ConnectedConcat
<1>7. <<>> \in Seq(HonestStage) /\ \A a : Connected(<<>>, a, a)  BY ConnectedEmpty
<1>8. CASE in = "XYZ" /\ out = "XYZ"
  <2>1. ConversionStages(in, out, layer) = adapt  BY <1>8 DEF ConversionStages, adapt
  <2>  QED  BY <2>1, <1>1, <1>3, <1>8
<1>9. CASE in = "XYZ" /\ out = "Lab"
  <2>1. ConversionStages(in, out, layer) = toLab  BY <1>9 DEF ConversionStages, adapt
  <2>  QED  BY <2>1, <1>4, <1>3, <1>9
<1>10. CASE in = "Lab" /\ out = "XYZ"
  <2>1. ConversionStages(in, out, layer) = fromLab  BY <1>10 DEF ConversionStages, adapt
  <2>  QED  BY <2>1, <1>5, <1>3, <1>10
<1>11. CASE in = "Lab" /\ out = "Lab" /\ layer = "matrix"
  <2>1. ConversionStages(in, out, layer) = around  BY <1>11 DEF ConversionStages, adapt
  <2>  QED  BY <2>1, <1>6, <1>3, <1>11
<1>12. CASE ~(in \in PCS /\ out \in PCS) \/ (in = "Lab" /\ out = "Lab" /\ layer # "matrix")
  <2>1. ConversionStages(in, out, layer) = <<>>  BY <1>12 DEF ConversionStages, PCS
  <2>2. in = out \/ {in, out} = PCS => in = out  BY <1>12
  <2>  QED  BY <2>1, <2>2, <1>7
<1>  QED  BY <1>8, <1>9, <1>10, <1>11, <1>12 DEF PCS

-----------------------------------------------------------------------------
(***************************************************************************)
(* The inductive invariant.  WalkInv is what the two walks and the pipeline *)
(* have in common at each leg; SimplifiedInv, what a pass of pre_optimize   *)
(* that has changed nothing yet knows of the stages.                        *)
(***************************************************************************)
Walked == phase \in {"linking", "optimizing", "linked"}

LinkTypes ==
    /\ phase \in {"idle", "linking", "optimizing", "linked", "refused"}
    /\ pipe \in HonestPipeline
    /\ rule \in 1..6
    /\ at \in Nat \ {0}
    /\ fired \in BOOLEAN /\ merged \in BOOLEAN
    /\ Walked => chain \in Chains /\ i \in 1..(Len(chain) + 1)
    /\ phase \in {"optimizing", "linked"} => i = Len(chain) + 1

\* The chains the two walks agree on.
Agreeable(legs) ==
    /\ \A k \in DOMAIN legs : ProfileOf(legs[k]).class # "NamedColor"
    /\ ProfileOf(legs[1]).space \notin PCS \/ IsDeviceLink(ProfileOf(legs[1]))
    /\ \A k \in DOMAIN legs :
          ProfileOf(legs[k]).class = "Abstract" => ProfileOf(legs[k]).space = ProfileOf(legs[k]).pcs

WalkInv ==
    Walked =>
        /\ i = 1 => current = ProfileOf(chain[1]).space /\ pipe.stages = <<>>
        /\ Agreeable(chain) => current = PostColorSpaces(chain)[i - 1]

SimplifiedInv ==
    /\ phase = "optimizing" /\ ~fired /\ ~merged =>
          \A r \in 1..(rule - 1), k \in DOMAIN pipe.stages : ~Matches(r, pipe.stages, k)
    /\ phase = "optimizing" /\ ~fired /\ rule <= 5 => at = 1

LinkInv == LinkTypes /\ WalkInv /\ SimplifiedInv /\ EncodingsMeet /\ InversePairsGone

-----------------------------------------------------------------------------
\* A chain is a sequence of legs over the profiles of the catalogue.
LEMMA ChainFacts ==
    ASSUME NEW legs \in Chains
    PROVE  /\ legs \in Seq(Leg) /\ Len(legs) \in Nat /\ Len(legs) >= 1 /\ DOMAIN legs = 1..Len(legs)
           /\ \A k \in 1..Len(legs) : legs[k] \in Leg /\ ProfileOf(legs[k]) \in Profiles
<1>1. legs \in Seq(Leg) /\ legs # <<>>  BY ChainsAssumption
<1>2. Len(legs) \in Nat /\ Len(legs) >= 1 /\ DOMAIN legs = 1..Len(legs)  BY <1>1
<1>3. ASSUME NEW k \in 1..Len(legs)  PROVE legs[k] \in Leg /\ ProfileOf(legs[k]) \in Profiles
  <2>1. legs[k] \in Leg  BY <1>1, <1>2
  <2>2. legs[k].profile \in DOMAIN Catalogue  BY <2>1 DEF Leg
  <2>  QED  BY <2>1, <2>2 DEF ProfileOf, Profiles
<1>  QED  BY <1>1, <1>2, <1>3

\* The recursion that defines the walk of xform_color_spaces has a solution.
LEMMA PostColorSpacesStep ==
    ASSUME NEW legs \in Chains
    PROVE  /\ PostColorSpaces(legs)[0] = ProfileOf(legs[1]).space
           /\ \A k \in 1..Len(legs) :
                PostColorSpaces(legs)[k]
                    = XformDirection(legs, ProfileOf(legs[k]), PostColorSpaces(legs)[k - 1]).out
<1> DEFINE L == Len(legs)
           first == ProfileOf(legs[1]).space
           out(k, v) == XformDirection(legs, ProfileOf(legs[k]), v).out
           step == [k \in 1..L |-> [v \in Text |-> out(k, v)]]
           P(g) == g = [k \in 0..L |-> IF k = 0 THEN first ELSE out(k, g[k - 1])]
<1>0. L \in Nat /\ L >= 1 /\ \A k \in 1..L : ProfileOf(legs[k]) \in Profiles  BY ChainFacts
<1>1. first \in Text  BY <1>0, ProfileNames
<1>2. step \in [1..L -> [Text -> Text]]
  <2>1. ASSUME NEW k \in 1..L, NEW v \in Text  PROVE out(k, v) \in Text
    <3>  DEFINE p == ProfileOf(legs[k])
    <3>1. p.space \in Text /\ p.pcs \in Text  BY <1>0, ProfileNames
    <3>  HIDE DEF p
    <3>2. XformDirection(legs, p, v).out = p.pcs \/ XformDirection(legs, p, v).out = p.space
      BY DEF XformDirection
    <3>  QED  BY <3>1, <3>2 DEF p
  <2>  HIDE DEF out
  <2>  QED  BY <2>1
<1>3. \A k \in 1..L, v \in Text : step[k][v] = out(k, v)
  <2>  HIDE DEF out
  <2>  QED  OBVIOUS
<1>  HIDE DEF L, first, out, step
<1>4. PICK g \in [0..L -> Text] : g[0] = first /\ \A k \in 1..L : g[k] = step[k][g[k - 1]]
  <2>  HIDE DEF P
  <2>1. L \in Nat  BY <1>0
  <2>2. Iterates(L, Text, first, step)  BY <2>1, <1>1, <1>2, IterationExists, Zenon
  <2>  QED  BY <2>2 DEF Iterates
<1>5. P(g)
  <2>1. \A k \in 1..L : g[k] = out(k, g[k - 1])
    <3>1. \A k \in 1..L : g[k - 1] \in Text  BY <1>0
    <3>  QED  BY <3>1, <1>3, <1>4
  <2>2. \A k \in 0..L : k = 0 \/ k \in 1..L  BY <1>0
  <2>  QED  BY <2>1, <2>2, <1>4
<1>6. PostColorSpaces(legs) = CHOOSE h : P(h)  BY DEF PostColorSpaces, L, first, out
<1>7. P(PostColorSpaces(legs))
  <2>  HIDE DEF P
  <2>  QED  BY <1>5, <1>6
<1>8. \A k \in 1..L : k \in 0..L /\ k # 0  BY <1>0
<1>9. 0 \in 0..L  BY <1>0
<1>  QED  BY <1>7, <1>8, <1>9 DEF L, first, out

\* What a conversion and a profile's pipeline put behind another.
LEMMA AdaptedConnects ==
    ASSUME NEW p \in HonestPipeline, NEW lut \in HonestPipeline, NEW in, NEW out, NEW layer
    PROVE  LET q == Concat(AddConversion(p, in, out, layer), lut)
           IN  /\ q \in HonestPipeline
               /\ q.ok => p.ok /\ lut.ok
               /\ \A a, c : /\ q.ok
                            /\ Connected(p.stages, a, EncodingOf(in))
                            /\ Connected(lut.stages, EncodingOf(out), c)
                            => Connected(q.stages, a, c)
<1> DEFINE added == AddConversion(p, in, out, layer)
           ss == ConversionStages(in, out, layer)
           q == Concat(added, lut)
<1>1. /\ ss \in Seq(HonestStage)
      /\ in = out \/ {in, out} = PCS => Connected(ss, EncodingOf(in), EncodingOf(out))
  BY ConversionConnects
<1>2. \/ added = NoPipeline
      \/ added = InsertAll(p, ss) /\ (in = out \/ {in, out} = PCS)
  BY DEF AddConversion
<1>  HIDE DEF ss, added
<1>3. /\ InsertAll(p, ss) \in HonestPipeline
      /\ \A a, b, c : InsertAll(p, ss).ok /\ p.ok /\ Connected(p.stages, a, b) /\ Connected(ss, b, c)
            => Connected(InsertAll(p, ss).stages, a, c)
      /\ InsertAll(p, ss).ok => p.ok
  BY <1>1, InsertAllConnects
<1>4. /\ added \in HonestPipeline
      /\ added.ok => p.ok
      /\ \A a : added.ok /\ Connected(p.stages, a, EncodingOf(in)) => Connected(added.stages, a, EncodingOf(out))
  BY <1>1, <1>2, <1>3, NoPipelineHonest
<1>5. /\ q \in HonestPipeline
      /\ q.ok => added.ok /\ lut.ok
      /\ \A a, b, c : q.ok /\ Connected(added.stages, a, b) /\ Connected(lut.stages, b, c)
            => Connected(q.stages, a, c)
  BY <1>4, ConcatConnects
<1>  HIDE DEF q
<1>6. /\ q \in HonestPipeline
      /\ q.ok => p.ok /\ lut.ok
      /\ \A a, c : /\ q.ok
                   /\ Connected(p.stages, a, EncodingOf(in))
                   /\ Connected(lut.stages, EncodingOf(out), c)
                   => Connected(q.stages, a, c)
  BY <1>4, <1>5
<1>  QED  BY <1>6, Zenon DEF q, added

\* A space meets itself without a stage.
LEMMA NoConversion ==
    ASSUME NEW p, NEW space
    PROVE  AddConversion(p, space, space, "none") = p
<1>1. ConversionStages(space, space, "none") = <<>>  BY DEF ConversionStages, When
<1>  QED  BY <1>1 DEF AddConversion, InsertAll

LEMMA CompatibleEncodings ==
    ASSUME NEW a, NEW b, Compatible(a, b), b \notin PCS
    PROVE  EncodingOf(a) = EncodingOf(b)
<1>1. CASE a = b  BY <1>1
<1>2. CASE {a, b} = {"MCH4", "CMYK"}
  <2>1. a \in {"MCH4", "CMYK"} /\ b \in {"MCH4", "CMYK"}  BY <1>2
  <2>  QED  BY <2>1 DEF EncodingOf
<1>3. {a, b} # PCS
  <2>1. b \in {a, b}  OBVIOUS
  <2>  QED  BY <2>1
<1>  QED  BY <1>1, <1>2, <1>3 DEF Compatible

-----------------------------------------------------------------------------
(* The walk over the profiles.                                              *)

\* The profiles so far are sound and read for what they are.
ReadRight(n) == \A k \in 1..n : chain[k].profile \in SoundProfiles /\ ~Misread(chain, k)

\* What the pipeline leads to behind the leg the walk is at.
Behind == IF NamedDevice THEN EncodingOf(ProfileOf(chain[1]).space) ELSE EncodingOf(SpaceOut)

LEMMA LegFacts ==
    ASSUME LinkInv, Walking
    PROVE  /\ chain \in Chains /\ i \in 1..Len(chain) /\ i - 1 \in 0..Len(chain) /\ Len(chain) \in Nat
           /\ Profile \in Profiles
           /\ i = 1 => Profile = ProfileOf(chain[1]) /\ current = Profile.space /\ pipe.stages = <<>>
           /\ pipe \in HonestPipeline
           /\ ReadRight(i) => SoundProfile(Profile) /\ ~Misread(chain, i) /\ ReadRight(i - 1)
           /\ i # 1 => i > 1 /\ Len(chain) # 1
           /\ Len(chain) # 1 => Len(chain) > 1
<1>1. chain \in Chains /\ i \in 1..(Len(chain) + 1) /\ i <= Len(chain) /\ phase = "linking" /\ pipe \in HonestPipeline
  BY DEF LinkInv, LinkTypes, Walked, Walking
<1>2. Len(chain) \in Nat /\ \A k \in 1..Len(chain) : ProfileOf(chain[k]) \in Profiles
  BY <1>1, ChainFacts
<1>3. i \in 1..Len(chain) /\ i - 1 \in 0..Len(chain)  BY <1>1, <1>2
<1>4. Profile \in Profiles  BY <1>2, <1>3 DEF Profile
<1>5. i = 1 => current = ProfileOf(chain[1]).space /\ pipe.stages = <<>>
  BY <1>1 DEF LinkInv, WalkInv, Walked
<1>6. ReadRight(i) => SoundProfile(Profile) /\ ~Misread(chain, i) /\ ReadRight(i - 1)
  <2>1. i \in 1..i /\ \A k \in 1..(i - 1) : k \in 1..i  BY <1>3
  <2>2. chain[i].profile \in SoundProfiles => SoundProfile(Profile)
    BY DEF SoundProfiles, Profile, ProfileOf
  <2>  QED  BY <2>1, <2>2 DEF ReadRight
<1>7. (i # 1 => i > 1 /\ Len(chain) # 1) /\ (Len(chain) # 1 => Len(chain) > 1)
  <2>  DEFINE L == Len(chain)
  <2>1. i \in 1..L /\ L \in Nat  BY <1>2, <1>3
  <2>  HIDE DEF L
  <2>2. (i # 1 => i > 1 /\ L # 1) /\ (L # 1 => L > 1)  BY <2>1
  <2>  QED  BY <2>2 DEF L
<1>  QED  BY <1>1, <1>2, <1>3, <1>4, <1>5, <1>6, <1>7 DEF Profile

\* The walk of xform_color_spaces goes the same way at this leg.
LEMMA SpacesAgree ==
    ASSUME LinkInv, Walking, Agreeable(chain)
    PROVE  SpaceOut = PostColorSpaces(chain)[i]
<1> DEFINE p == Profile
<1>1. /\ chain \in Chains /\ i \in 1..Len(chain) /\ Len(chain) \in Nat
      /\ i = 1 => p = ProfileOf(chain[1]) /\ current = p.space
  BY LegFacts
<1>2. current = PostColorSpaces(chain)[i - 1]
  BY DEF LinkInv, WalkInv, Walked, Walking
<1>3. PostColorSpaces(chain)[i] = XformDirection(chain, p, current).out
  BY <1>1, <1>2, PostColorSpacesStep DEF Profile
<1>4. /\ p.class # "NamedColor"
      /\ i = 1 => p.space \notin PCS \/ IsDeviceLink(p)
      /\ p.class = "Abstract" => p.space = p.pcs
  <2>1. i \in DOMAIN chain  BY <1>1, ChainFacts
  <2>  QED  BY <1>1, <2>1 DEF Agreeable, Profile
<1>5. SpaceOut = IF IsInput \/ IsDeviceLink(p) THEN p.pcs ELSE p.space
  BY DEF SpaceOut, DeviceToPcs
<1>6. IsInput <=> (i = 1 /\ ~IsDeviceLink(p)) \/ current \notin PCS
  BY DEF IsInput
<1>7. IsDeviceLink(p) <=> p.class \in {"Link", "Abstract"}  BY DEF IsDeviceLink
<1>8. XformDirection(chain, p, current).out
        = IF current \notin PCS \/ p.class = "Link" THEN p.pcs ELSE p.space
  BY <1>4 DEF XformDirection
<1>  HIDE DEF p
<1>  QED  BY <1>1, <1>3, <1>4, <1>5, <1>6, <1>7, <1>8

\* Before the leg, the pipeline leads to the space the walk has come to.
LEMMA MeetsBefore ==
    ASSUME LinkInv, Walking, ReadRight(i - 1)
    PROVE  Connected(pipe.stages, EntryEncoding, IF i = 1 THEN EntryEncoding ELSE EncodingOf(current))
<1>1. Connected(pipe.stages, EntryEncoding, CurrentEncoding)
  BY DEF LinkInv, EncodingsMeet, ReadRight, Walking
<1>2. i # 1 => ~NamedDevice
  <2>1. i # 1 => Len(chain) # 1  BY LegFacts
  <2>  QED  BY <2>1 DEF NamedDevice
<1>  QED  BY <1>1, <1>2 DEF CurrentEncoding

LEMMA InputLegMeets ==
    ASSUME LinkInv, Walking, Compatible(SpaceIn, current),
           ~(IsDeviceLink(Profile) \/ SingleNamed), IsInput
    PROVE  LET q == Concat(pipe, ReadInputLut(Profile, chain[i].intent))
           IN  q \in HonestPipeline
               /\ (q.ok /\ ReadRight(i) => Connected(q.stages, EntryEncoding, Behind))
<1> DEFINE p == Profile
           lut == ReadInputLut(p, chain[i].intent)
           q == Concat(pipe, lut)
           from == IF p.class = "NamedColor" THEN "index" ELSE EncodingOf(p.space)
<1>1. /\ chain \in Chains /\ i \in 1..Len(chain) /\ Len(chain) \in Nat
      /\ p \in Profiles /\ pipe \in HonestPipeline
      /\ i = 1 => p = ProfileOf(chain[1]) /\ current = p.space
      /\ ReadRight(i) => SoundProfile(p) /\ ~Misread(chain, i) /\ ReadRight(i - 1)
  BY LegFacts
<1>2. SpaceIn = p.space /\ SpaceOut = p.pcs  BY DEF SpaceIn, SpaceOut, DeviceToPcs
<1>3. ASSUME ReadRight(i)
      PROVE  /\ p.pcs \in PCS /\ ~LabDevice(p)
             /\ p.class = "NamedColor" => i = 1 /\ p.pcs = "Lab"
  <2>1. p.pcs \in PCS  BY <1>1, <1>3 DEF SoundProfile
  <2>2. p = ProfileOf(chain[i])  BY DEF Profile
  <2>3. ~Misread(chain, i)  BY <1>1, <1>3
  <2>4. ~LabDevice(p)  BY <2>2, <2>3 DEF Misread, LabDevice
  <2>5. p.class = "NamedColor" => ~(i > 1) /\ ~(p.pcs # "Lab" /\ Len(chain) > 1)
    BY <2>2, <2>3 DEF Misread
  <2>6. p.class = "NamedColor" => Len(chain) # 1  BY DEF SingleNamed
  <2>7. (~(i > 1) => i = 1) /\ (Len(chain) # 1 => Len(chain) > 1)
    BY LegFacts, Zenon
  <2>  HIDE DEF p
  <2>  QED  BY <2>1, <2>4, <2>5, <2>6, <2>7, Zenon
<1>4. /\ lut \in HonestPipeline
      /\ (/\ SoundProfile(p) /\ p.pcs \in PCS /\ ~LabDevice(p)
          /\ p.class = "NamedColor" => p.pcs = "Lab"
          /\ lut.ok) => Connected(lut.stages, from, EncodingOf(p.pcs))
  BY <1>1, InputConnects
<1>5. ASSUME ReadRight(i)  PROVE Connected(pipe.stages, EntryEncoding, from)
  <2>1. Connected(pipe.stages, EntryEncoding, IF i = 1 THEN EntryEncoding ELSE EncodingOf(current))
    BY <1>1, <1>5, MeetsBefore
  <2>2. CASE i = 1
    <3>1. EntryEncoding = from  BY <1>1, <2>2 DEF EntryEncoding
    <3>  QED  BY <2>1, <2>2, <3>1
  <2>3. CASE i # 1
    <3>1. current \notin PCS  BY <2>3 DEF IsInput
    <3>2. EncodingOf(current) = EncodingOf(p.space)  BY <3>1, <1>2, CompatibleEncodings
    <3>3. from = EncodingOf(p.space)  BY <1>3, <1>5, <2>3
    <3>  QED  BY <2>1, <2>3, <3>2, <3>3
  <2>  QED  BY <2>2, <2>3
<1>6. Behind = EncodingOf(p.pcs)
  <2>1. ~NamedDevice
    <3>1. Len(chain) = 1 => i = 1  BY <1>1
    <3>2. i = 1 => ProfileOf(chain[1]) = p  BY <1>1
    <3>  QED  BY <3>1, <3>2 DEF NamedDevice, SingleNamed
  <2>  QED  BY <2>1, <1>2 DEF Behind
<1>  HIDE DEF lut, p, from
<1>7. /\ q \in HonestPipeline
      /\ q.ok => lut.ok
      /\ \A a, b, c : q.ok /\ Connected(pipe.stages, a, b) /\ Connected(lut.stages, b, c)
            => Connected(q.stages, a, c)
  BY <1>1, <1>4, ConcatConnects
<1>  HIDE DEF q
<1>8. q \in HonestPipeline /\ (q.ok /\ ReadRight(i) => Connected(q.stages, EntryEncoding, Behind))
  BY <1>1, <1>3, <1>4, <1>5, <1>6, <1>7
<1>  QED  BY <1>8, Zenon DEF q, lut, p

LEMMA OutputLegMeets ==
    ASSUME LinkInv, Walking,
           ~(IsDeviceLink(Profile) \/ SingleNamed), ~IsInput,
           NEW layer
    PROVE  LET q == Concat(AddConversion(pipe, current, SpaceIn, layer),
                           ReadOutputLut(Profile, chain[i].intent))
           IN  q \in HonestPipeline
               /\ (q.ok /\ ReadRight(i) => Connected(q.stages, EntryEncoding, Behind))
<1> DEFINE p == Profile
           lut == ReadOutputLut(p, chain[i].intent)
           q == Concat(AddConversion(pipe, current, SpaceIn, layer), lut)
<1>1. /\ chain \in Chains /\ i \in 1..Len(chain) /\ Len(chain) \in Nat
      /\ p \in Profiles /\ pipe \in HonestPipeline
      /\ ReadRight(i) => SoundProfile(p) /\ ~Misread(chain, i) /\ ReadRight(i - 1)
  BY LegFacts
<1>2. SpaceIn = p.pcs /\ SpaceOut = p.space /\ i # 1
  BY DEF SpaceIn, SpaceOut, DeviceToPcs, IsInput
<1>3. ReadRight(i) => p.pcs \in PCS /\ ~LabDevice(p)
  <2>1. SoundProfile(p) => p.pcs \in PCS  BY DEF SoundProfile
  <2>2. p = ProfileOf(chain[i])  BY DEF Profile
  <2>3. ~Misread(chain, i) => ~LabDevice(p)  BY <2>2 DEF Misread, LabDevice
  <2>  QED  BY <1>1, <2>1, <2>3
<1>4. /\ lut \in HonestPipeline
      /\ (SoundProfile(p) /\ p.pcs \in PCS /\ ~LabDevice(p) /\ lut.ok)
           => Connected(lut.stages, EncodingOf(p.pcs), EncodingOf(p.space))
  BY <1>1, OutputConnects
<1>5. ReadRight(i) => Connected(pipe.stages, EntryEncoding, EncodingOf(current))
  BY <1>1, <1>2, MeetsBefore
<1>6. Behind = EncodingOf(p.space)
  <2>1. ~NamedDevice
    <3>1. Len(chain) # 1  BY <1>2, LegFacts
    <3>  QED  BY <3>1 DEF NamedDevice
  <2>  QED  BY <2>1, <1>2 DEF Behind
<1>  HIDE DEF lut, p
<1>7. /\ q \in HonestPipeline
      /\ q.ok => lut.ok
      /\ \A a, c : q.ok /\ Connected(pipe.stages, a, EncodingOf(current)) /\ Connected(lut.stages, EncodingOf(SpaceIn), c)
            => Connected(q.stages, a, c)
  BY <1>1, <1>4, AdaptedConnects
<1>  HIDE DEF q
<1>8. q \in HonestPipeline /\ (q.ok /\ ReadRight(i) => Connected(q.stages, EntryEncoding, Behind))
  BY <1>1, <1>2, <1>3, <1>4, <1>5, <1>6, <1>7
<1>  QED  BY <1>8, Zenon DEF q, lut, p

LEMMA DeviceLinkLegMeets ==
    ASSUME LinkInv, Walking,
           IsDeviceLink(Profile) \/ SingleNamed,
           NEW layer, Profile.class # "Abstract" => layer = "none"
    PROVE  LET q == Concat(AddConversion(pipe, current, SpaceIn, layer),
                           ReadDevicelinkLut(Profile, chain[i].intent))
           IN  q \in HonestPipeline
               /\ (q.ok /\ ReadRight(i) => Connected(q.stages, EntryEncoding, Behind))
<1> DEFINE p == Profile
           lut == ReadDevicelinkLut(p, chain[i].intent)
           q == Concat(AddConversion(pipe, current, SpaceIn, layer), lut)
<1>1. /\ chain \in Chains /\ i \in 1..Len(chain) /\ Len(chain) \in Nat
      /\ p \in Profiles /\ pipe \in HonestPipeline
      /\ i = 1 => p = ProfileOf(chain[1]) /\ current = p.space /\ pipe.stages = <<>>
      /\ ReadRight(i) => SoundProfile(p) /\ ~Misread(chain, i) /\ ReadRight(i - 1)
  BY LegFacts
<1>2. /\ IsDeviceLink(p) => p.class # "NamedColor"
      /\ SingleNamed <=> p.class = "NamedColor" /\ Len(chain) = 1
      /\ Len(chain) = 1 => i = 1
  BY <1>1 DEF IsDeviceLink, SingleNamed
<1>3. SpaceIn = p.space /\ SpaceOut = p.pcs
  BY <1>2 DEF SpaceIn, SpaceOut, DeviceToPcs, IsInput
<1>4. ReadRight(i) /\ p.class # "NamedColor" => ~OtherFloatTag(p, chain[i].intent)
  <2>1. p = ProfileOf(chain[i])  BY DEF Profile
  <2>2. ~Misread(chain, i) /\ IsDeviceLink(p) => ~OtherFloatTag(p, chain[i].intent)
    BY <2>1 DEF Misread, OtherFloatTag
  <2>  QED  BY <1>1, <1>2, <2>2
<1>5. /\ lut \in HonestPipeline
      /\ (SoundProfile(p) /\ (p.class # "NamedColor" => ~OtherFloatTag(p, chain[i].intent)) /\ lut.ok)
           => IF p.class = "NamedColor" THEN Connected(lut.stages, "index", EncodingOf(p.space))
              ELSE Connected(lut.stages, EncodingOf(p.space), EncodingOf(p.pcs))
  BY <1>1, DevicelinkConnects
<1>6. q \in HonestPipeline
  <2>  HIDE DEF lut, p
  <2>  QED  BY <1>1, <1>5, AdaptedConnects
<1>7. CASE IsDeviceLink(p)
  <2>1. ReadRight(i) => Connected(pipe.stages, EntryEncoding, EncodingOf(current))
    <3>1. i = 1 => EntryEncoding = EncodingOf(current)  BY <1>1, <1>2, <1>7 DEF EntryEncoding
    <3>2. ReadRight(i) => Connected(pipe.stages, EntryEncoding, IF i = 1 THEN EntryEncoding ELSE EncodingOf(current))
      BY <1>1, MeetsBefore
    <3>  QED  BY <3>1, <3>2
  <2>2. Behind = EncodingOf(p.pcs)
    <3>1. ~NamedDevice  BY <1>1, <1>2, <1>7 DEF NamedDevice
    <3>  QED  BY <3>1, <1>3 DEF Behind
  <2>3. p.class # "NamedColor"  BY <1>2, <1>7
  <2>  HIDE DEF lut, p
  <2>4. /\ q.ok => lut.ok
        /\ \A a, c : q.ok /\ Connected(pipe.stages, a, EncodingOf(current)) /\ Connected(lut.stages, EncodingOf(SpaceIn), c)
              => Connected(q.stages, a, c)
    BY <1>1, <1>5, AdaptedConnects
  <2>  HIDE DEF q
  <2>5. q.ok /\ ReadRight(i) => Connected(q.stages, EntryEncoding, Behind)
    BY <1>1, <1>3, <1>4, <1>5, <2>1, <2>2, <2>3, <2>4
  <2>  QED  BY <1>6, <2>5, Zenon DEF q, lut, p
<1>8. CASE ~IsDeviceLink(p)
  <2>1. p.class = "NamedColor" /\ Len(chain) = 1 /\ i = 1  BY <1>2, <1>8
  <2>2. p = ProfileOf(chain[1]) /\ current = p.space /\ pipe.stages = <<>>  BY <1>1, <2>1
  <2>3. Behind = EncodingOf(p.space) /\ EntryEncoding = "index"
    BY <2>1, <2>2 DEF Behind, NamedDevice, EntryEncoding
  <2>4. AddConversion(pipe, current, SpaceIn, layer) = pipe
    <3>1. layer = "none"  BY <2>1
    <3>  QED  BY <3>1, <2>2, <1>3, NoConversion
  <2>5. q = Concat(pipe, lut)  BY <2>4
  <2>  HIDE DEF lut, p, q
  <2>6. /\ q.ok => lut.ok
        /\ \A a, b, c : q.ok /\ Connected(pipe.stages, a, b) /\ Connected(lut.stages, b, c)
              => Connected(q.stages, a, c)
    BY <1>1, <1>5, <2>5, ConcatConnects
  <2>7. Connected(pipe.stages, "index", "index")  BY <2>2, ConnectedEmpty
  <2>8. q.ok /\ ReadRight(i) => Connected(q.stages, EntryEncoding, Behind)
    BY <1>1, <1>5, <2>1, <2>3, <2>6, <2>7
  <2>  QED  BY <1>6, <2>8, Zenon DEF q, lut, p
<1>  QED  BY <1>7, <1>8

-----------------------------------------------------------------------------
(* The removals of pre_optimize.                                            *)

LEMMA WithoutHonest ==
    ASSUME NEW s \in Seq(HonestStage), NEW k \in 1..Len(s), NEW n \in {1, 2}, k + n - 1 <= Len(s)
    PROVE  Without(s, k, n) \in Seq(HonestStage) /\ Len(Without(s, k, n)) = Len(s) - n
<1> DEFINE L == Len(s)
           w == Without(s, k, n)
<1>1. L \in Nat /\ L - n \in Nat /\ \A j \in 1..(L - n) : j \in 1..L /\ j + n \in 1..L
  OBVIOUS
<1>2. w = [j \in 1..(L - n) |-> IF j < k THEN s[j] ELSE s[j + n]]  BY DEF Without
<1>3. \A j \in 1..(L - n) : w[j] \in HonestStage  BY <1>1, <1>2
<1>4. w \in [1..(L - n) -> HonestStage]
  <2>  HIDE DEF w
  <2>  QED  BY <1>2, <1>3
<1>  HIDE DEF w, L
<1>5. w \in Seq(HonestStage) /\ Len(w) = L - n  BY <1>1, <1>4, FunctionIsSeq, Zenon
<1>  QED  BY <1>5 DEF w, L

LEMMA RemovalConnects ==
    ASSUME NEW s \in Seq(HonestStage), NEW k \in 1..Len(s), NEW r \in 1..5, Matches(r, s, k)
    PROVE  LET w == Without(s, k, IF r = 1 THEN 1 ELSE 2)
           IN  /\ w \in Seq(HonestStage)
               /\ \A a, b : Connected(s, a, b) => Connected(w, a, b)
<1>1. s[k] \in HonestStage  OBVIOUS
<1>2. CASE r = 1
  <2>1. s[k].from = s[k].to  BY <1>1, <1>2 DEF Matches, HonestStage
  <2>2. k + 1 - 1 = k /\ k <= Len(s)  OBVIOUS
  <2>3. Without(s, k, 1) \in Seq(HonestStage)  BY <2>2, WithoutHonest
  <2>4. \A a, b : Connected(s, a, b) => Connected(Without(s, k, 1), a, b)
    BY <2>1, <2>2, ConnectedWithout
  <2>  QED  BY <1>2, <2>3, <2>4
<1>3. CASE r # 1
  <2>1. k + 1 \in 1..Len(s) /\ k + 2 - 1 = k + 1 /\ k + 1 <= Len(s)  BY <1>3 DEF Matches
  <2>2. s[k + 1] \in HonestStage  BY <2>1
  <2>3. s[k].op = Pair(r)[1] /\ s[k + 1].op = Pair(r)[2]  BY <1>3 DEF Matches
  <2>4. r = 2 \/ r = 3 \/ r = 4 \/ r = 5  BY <1>3
  <2>5. s[k].from = s[k + 1].to  BY <1>1, <2>2, <2>3, <2>4 DEF Pair, HonestStage
  <2>6. Without(s, k, 2) \in Seq(HonestStage)  BY <2>1, WithoutHonest
  <2>7. \A a, b : Connected(s, a, b) => Connected(Without(s, k, 2), a, b)
    BY <2>1, <2>5, ConnectedWithout
  <2>  QED  BY <1>3, <2>6, <2>7
<1>  QED  BY <1>2, <1>3

LEMMA MultipliedConnects ==
    ASSUME NEW s \in Seq(HonestStage), NEW k \in 1..Len(s), Matches(6, s, k)
    PROVE  /\ Multiplied(s, k) \in Seq(HonestStage)
           /\ \A a, b : Connected(s, a, b) => Connected(Multiplied(s, k), a, b)
<1> DEFINE p == Product(s[k], s[k + 1])
           w == [Without(s, k, 1) EXCEPT ![k] = p]
<1>1. /\ k < Len(s) /\ k \in 1..(Len(s) - 1) /\ k + 1 \in 1..Len(s)
      /\ k + 1 <= Len(s) /\ k + 2 - 1 = k + 1 /\ k + 1 - 1 = k /\ k <= Len(s)
  BY DEF Matches
<1>2. s[k] \in HonestStage /\ s[k + 1] \in HonestStage  BY <1>1
<1>3. p \in HonestStage /\ p.from = s[k].from /\ p.to = s[k + 1].to
  <2>1. s[k].from \in Text /\ s[k + 1].to \in Text  BY <1>2, Zenon DEF HonestStage
  <2>  QED  BY <2>1, StageHonest DEF Product
<1>4. Multiplied(s, k) = IF p.from = p.to THEN Without(s, k, 2) ELSE w
  BY DEF Multiplied
<1>5. /\ Without(s, k, 2) \in Seq(HonestStage)
      /\ Without(s, k, 1) \in Seq(HonestStage) /\ Len(Without(s, k, 1)) = Len(s) - 1
  BY <1>1, WithoutHonest
<1>6. CASE p.from = p.to
  <2>1. s[k].from = s[k + 1].to  BY <1>3, <1>6
  <2>2. \A a, b : Connected(s, a, b) => Connected(Without(s, k, 2), a, b)
    BY <1>1, <2>1, ConnectedWithout
  <2>  QED  BY <1>4, <1>5, <1>6, <2>2
<1>7. CASE p.from # p.to
  <2>1. \A a, b : Connected(s, a, b) => Connected(w, a, b)  BY <1>1, ConnectedProduct
  <2>2. w \in Seq(HonestStage)
    <3>  DEFINE v == Without(s, k, 1)
    <3>  HIDE DEF v, p
    <3>1. v \in Seq(HonestStage) /\ k \in 1..Len(v)  BY <1>1, <1>5 DEF v
    <3>2. [v EXCEPT ![k] = p] \in Seq(HonestStage)  BY <3>1, <1>3
    <3>  QED  BY <3>2 DEF v
  <2>  QED  BY <1>4, <1>7, <2>1, <2>2
<1>  QED  BY <1>6, <1>7

-----------------------------------------------------------------------------
(* The invariant is kept.                                                   *)

LEMMA NewPipelineHonest ==
    NewPipeline(0, 0) \in HonestPipeline /\ NewPipeline(0, 0).stages = <<>>
<1>1. <<>> \in Seq(HonestStage) /\ 0 \in Nat /\ TRUE \in BOOLEAN  OBVIOUS
<1>  QED  BY <1>1, PipelineFields DEF NewPipeline

LEMMA InitInv == LinkInit => LinkInv
<1> SUFFICES ASSUME LinkInit  PROVE LinkInv  OBVIOUS
<1>1. /\ phase = "idle" /\ pipe = NoPipeline /\ rule = 1 /\ at = 1 /\ fired = FALSE /\ merged = FALSE
  BY DEF LinkInit
<1>2. pipe \in HonestPipeline  BY <1>1, NoPipelineHonest
<1>3. LinkTypes
  <2>1. 1 \in 1..6 /\ 1 \in Nat \ {0} /\ FALSE \in BOOLEAN  OBVIOUS
  <2>2. ~Walked /\ phase \notin {"optimizing", "linked"}  BY <1>1 DEF Walked
  <2>  QED  BY <1>1, <1>2, <2>1, <2>2, Zenon DEF LinkTypes
<1>  QED  BY <1>1, <1>3 DEF LinkInv, WalkInv, SimplifiedInv, EncodingsMeet, InversePairsGone, Walked

LEMMA RefuseKeeps == LinkInv /\ Refuse => LinkInv'
<1> SUFFICES ASSUME LinkInv, Refuse  PROVE LinkInv'  OBVIOUS
<1>1. phase' = "refused" /\ pipe' = NoPipeline /\ UNCHANGED <<chain, i, current, rule, at, fired, merged>>
  BY DEF Refuse, ruleVars
<1>2. pipe' \in HonestPipeline  BY <1>1, NoPipelineHonest
<1>3. LinkTypes'  BY <1>1, <1>2 DEF LinkInv, LinkTypes, Walked
<1>  QED  BY <1>1, <1>3 DEF LinkInv, WalkInv, SimplifiedInv, EncodingsMeet, InversePairsGone, Walked

LEMMA BeginKeeps == LinkInv /\ Begin => LinkInv'
<1> SUFFICES ASSUME LinkInv, Begin  PROVE LinkInv'  OBVIOUS
<1>1. /\ chain' \in Chains /\ phase' = "linking" /\ i' = 1
      /\ current' = ProfileOf(chain'[1]).space /\ pipe' = NewPipeline(0, 0)
      /\ UNCHANGED <<rule, at, fired, merged>>
  BY DEF Begin, ruleVars
<1>2. PICK c \in Chains : chain' = c  BY <1>1
<1>3. /\ Len(c) \in Nat
      /\ PostColorSpaces(c)[0] = ProfileOf(c[1]).space
  BY ChainFacts, PostColorSpacesStep
<1>4. pipe' \in HonestPipeline /\ pipe'.stages = <<>>  BY <1>1, NewPipelineHonest
<1>5. LinkTypes'
  <2>1. 1 \in 1..(Len(c) + 1)  BY <1>3
  <2>  QED  BY <1>1, <1>2, <1>4, <2>1 DEF LinkInv, LinkTypes, Walked
<1>6. WalkInv'
  <2>1. i' - 1 = 0  BY <1>1
  <2>  QED  BY <1>1, <1>2, <1>3, <1>4, <2>1 DEF WalkInv, Walked
<1>7. EncodingsMeet'
  <2>1. CurrentEncoding' = EntryEncoding'  BY <1>1 DEF CurrentEncoding
  <2>2. Connected(pipe'.stages, EntryEncoding', EntryEncoding')  BY <1>4 DEF Connected
  <2>  QED  BY <2>1, <2>2 DEF EncodingsMeet
<1>8. SimplifiedInv' /\ InversePairsGone'  BY <1>1 DEF SimplifiedInv, InversePairsGone
<1>  QED  BY <1>5, <1>6, <1>7, <1>8 DEF LinkInv

LEMMA ReturnKeeps == LinkInv /\ Return => LinkInv'
<1> SUFFICES ASSUME LinkInv, Return  PROVE LinkInv'  OBVIOUS
<1>1. phase' = "idle" /\ pipe' = NoPipeline /\ rule' = 1 /\ at' = 1 /\ fired' = FALSE /\ merged' = FALSE
  BY DEF Return
<1>2. pipe' \in HonestPipeline  BY <1>1, NoPipelineHonest
<1>3. LinkTypes'
  <2>1. 1 \in 1..6 /\ 1 \in Nat \ {0} /\ FALSE \in BOOLEAN  OBVIOUS
  <2>2. ~Walked' /\ phase' \notin {"optimizing", "linked"}  BY <1>1 DEF Walked
  <2>  QED  BY <1>1, <1>2, <2>1, <2>2, Zenon DEF LinkTypes
<1>  QED  BY <1>1, <1>3 DEF LinkInv, WalkInv, SimplifiedInv, EncodingsMeet, InversePairsGone, Walked

\* A leg that meets the pipeline so far leads it on.
LEMMA ConcatLegKeeps ==
    ASSUME LinkInv, Walking, NEW result \in HonestPipeline, ConcatLeg(result),
           result.ok /\ ReadRight(i) => Connected(result.stages, EntryEncoding, Behind)
    PROVE  LinkInv'
<1>1. CASE ~result.ok
  <2>1. Refuse  BY <1>1 DEF ConcatLeg
  <2>  QED  BY <2>1, RefuseKeeps
<1>2. CASE result.ok
  <2>1. /\ pipe' = result /\ current' = SpaceOut /\ i' = i + 1
        /\ UNCHANGED <<phase, chain, rule, at, fired, merged>>
    BY <1>2 DEF ConcatLeg, ruleVars
  <2>2. phase = "linking" /\ i \in 1..Len(chain) /\ Len(chain) \in Nat /\ chain \in Chains
    BY LegFacts DEF Walking
  <2>3. i + 1 \in 1..(Len(chain) + 1) /\ i + 1 # 1 /\ (i + 1) - 1 = i
    <3>  DEFINE L == Len(chain)
    <3>1. i \in 1..L /\ L \in Nat  BY <2>2
    <3>  HIDE DEF L
    <3>2. i + 1 \in 1..(L + 1) /\ i + 1 # 1 /\ (i + 1) - 1 = i  BY <3>1
    <3>  QED  BY <3>2 DEF L
  <2>4. LinkTypes'  BY <2>1, <2>2, <2>3 DEF LinkInv, LinkTypes, Walked
  <2>5. WalkInv'
    <3>1. Agreeable(chain) => SpaceOut = PostColorSpaces(chain)[i]  BY SpacesAgree
    <3>  QED  BY <2>1, <2>3, <3>1 DEF WalkInv, Walked
  <2>6. EncodingsMeet'
    <3>1. EntryEncoding' = EntryEncoding  BY <2>1 DEF EntryEncoding
    <3>2. CurrentEncoding' = Behind  BY <2>1, <2>3 DEF CurrentEncoding, Behind, NamedDevice
    <3>3. (\A k \in 1..(i' - 1) : chain'[k].profile \in SoundProfiles /\ ~Misread(chain', k)) => ReadRight(i)
      BY <2>1, <2>3 DEF ReadRight
    <3>  QED  BY <1>2, <2>1, <3>1, <3>2, <3>3 DEF EncodingsMeet
  <2>7. SimplifiedInv' /\ InversePairsGone'  BY <2>1, <2>2 DEF SimplifiedInv, InversePairsGone
  <2>  QED  BY <2>4, <2>5, <2>6, <2>7 DEF LinkInv
<1>  QED  BY <1>1, <1>2

LEMMA WalkKeeps == LinkInv /\ WalkStep => LinkInv'
<1> SUFFICES ASSUME LinkInv, WalkStep  PROVE LinkInv'  OBVIOUS
<1>1. CASE Mismatch
  <2>1. Refuse  BY <1>1 DEF Mismatch
  <2>  QED  BY <2>1, RefuseKeeps
<1>2. CASE DeviceLinkLeg
  <2>  DEFINE layers == IF Profile.class = "Abstract" /\ i > 1 THEN LegLayers ELSE {"none"}
              lut == ReadDevicelinkLut(Profile, chain[i].intent)
  <2>1. Walking /\ (IsDeviceLink(Profile) \/ SingleNamed)  BY <1>2 DEF DeviceLinkLeg
  <2>2. PICK result \in Adapted(layers, lut) : ConcatLeg(result)  BY <1>2 DEF DeviceLinkLeg
  <2>3. PICK layer \in layers : result = Concat(AddConversion(pipe, current, SpaceIn, layer), lut)
    BY <2>2 DEF Adapted
  <2>4. Profile.class # "Abstract" => layer = "none"  BY <2>3
  <2>5. result \in HonestPipeline /\ (result.ok /\ ReadRight(i) => Connected(result.stages, EntryEncoding, Behind))
    BY <2>1, <2>3, <2>4, DeviceLinkLegMeets, Zenon
  <2>  QED  BY <2>1, <2>2, <2>5, ConcatLegKeeps
<1>3. CASE InputLeg
  <2>  DEFINE lut == ReadInputLut(Profile, chain[i].intent)
  <2>1. Walking /\ Compatible(SpaceIn, current) /\ ~(IsDeviceLink(Profile) \/ SingleNamed) /\ IsInput
    BY <1>3 DEF InputLeg
  <2>2. PICK result \in {Concat(pipe, lut)} : ConcatLeg(result)  BY <1>3 DEF InputLeg
  <2>3. result \in HonestPipeline /\ (result.ok /\ ReadRight(i) => Connected(result.stages, EntryEncoding, Behind))
    <3>1. result = Concat(pipe, lut)  BY <2>2
    <3>  QED  BY <2>1, <3>1, InputLegMeets, Zenon
  <2>  QED  BY <2>1, <2>2, <2>3, ConcatLegKeeps
<1>4. CASE OutputLeg
  <2>  DEFINE lut == ReadOutputLut(Profile, chain[i].intent)
  <2>1. Walking /\ ~(IsDeviceLink(Profile) \/ SingleNamed) /\ ~IsInput  BY <1>4 DEF OutputLeg
  <2>2. PICK result \in Adapted(LegLayers, lut) : ConcatLeg(result)  BY <1>4 DEF OutputLeg
  <2>3. PICK layer \in LegLayers : result = Concat(AddConversion(pipe, current, SpaceIn, layer), lut)
    BY <2>2 DEF Adapted
  <2>4. result \in HonestPipeline /\ (result.ok /\ ReadRight(i) => Connected(result.stages, EntryEncoding, Behind))
    BY <2>1, <2>3, OutputLegMeets, Zenon
  <2>  QED  BY <2>1, <2>2, <2>4, ConcatLegKeeps
<1>5. CASE EndOfChain
  <2>1. /\ phase = "linking" /\ i > Len(chain) /\ phase' = "optimizing"
        /\ rule' = 1 /\ at' = 1 /\ fired' = FALSE /\ merged' = FALSE
        /\ UNCHANGED <<chain, i, current, pipe>>
    BY <1>5 DEF EndOfChain
  <2>2. chain \in Chains /\ i \in 1..(Len(chain) + 1)  BY <2>1 DEF LinkInv, LinkTypes, Walked
  <2>3. i = Len(chain) + 1
    <3>  DEFINE L == Len(chain)
    <3>1. i \in 1..(L + 1) /\ L \in Nat /\ i > L  BY <2>1, <2>2, ChainFacts
    <3>  HIDE DEF L
    <3>2. i = L + 1  BY <3>1
    <3>  QED  BY <3>2 DEF L
  <2>4. LinkTypes'
    <3>1. 1 \in 1..6 /\ 1 \in Nat \ {0} /\ FALSE \in BOOLEAN  OBVIOUS
    <3>2. pipe' \in HonestPipeline  BY <2>1 DEF LinkInv, LinkTypes
    <3>3. chain' \in Chains /\ i' \in 1..(Len(chain') + 1) /\ i' = Len(chain') + 1  BY <2>1, <2>2, <2>3, Zenon
    <3>  QED  BY <2>1, <3>1, <3>2, <3>3, Zenon DEF LinkTypes
  <2>5. WalkInv'  BY <2>1 DEF LinkInv, WalkInv, Walked
  <2>6. EncodingsMeet'
    BY <2>1 DEF LinkInv, EncodingsMeet, EntryEncoding, CurrentEncoding, NamedDevice
  <2>7. SimplifiedInv'
    <3>1. 1..(rule' - 1) = {}  BY <2>1
    <3>  QED  BY <2>1, <3>1 DEF SimplifiedInv
  <2>8. InversePairsGone'  BY <2>1 DEF InversePairsGone
  <2>  QED  BY <2>4, <2>5, <2>6, <2>7, <2>8 DEF LinkInv
<1>  QED  BY <1>1, <1>2, <1>3, <1>4, <1>5 DEF WalkStep

\* Stages replaced by others that lead the same way.
LEMMA RemovalKeeps ==
    ASSUME LinkInv, Optimizing, NEW stages \in Seq(HonestStage),
           \A a, b : Connected(pipe.stages, a, b) => Connected(stages, a, b),
           pipe' = [pipe EXCEPT !.stages = stages],
           at' \in Nat \ {0},
           UNCHANGED <<phase, chain, i, current, rule>>,
           fired' \in BOOLEAN, merged' \in BOOLEAN, fired' \/ merged',
           fired' \/ rule = 6
    PROVE  LinkInv'
<1>1. phase = "optimizing" /\ phase' = "optimizing"  BY DEF Optimizing
<1>2. /\ chain \in Chains /\ i = Len(chain) + 1 /\ i \in 1..(Len(chain) + 1) /\ i # 1
      /\ pipe \in HonestPipeline /\ rule \in 1..6
  <2>1. chain \in Chains /\ i = Len(chain) + 1 /\ i \in 1..(Len(chain) + 1) /\ pipe \in HonestPipeline /\ rule \in 1..6
    BY <1>1 DEF LinkInv, LinkTypes, Walked
  <2>  DEFINE L == Len(chain)
  <2>2. L \in Nat /\ L >= 1 /\ i = L + 1  BY <2>1, ChainFacts
  <2>  HIDE DEF L
  <2>3. i # 1  BY <2>2
  <2>  QED  BY <2>1, <2>3
<1>3. pipe' \in HonestPipeline /\ pipe'.stages = stages  BY <1>2 DEF HonestPipeline
<1>4. LinkTypes'
  <2>1. rule' \in 1..6 /\ chain' \in Chains /\ i' = Len(chain') + 1 /\ i' \in 1..(Len(chain') + 1)
    BY <1>2, Zenon
  <2>  QED  BY <1>1, <1>3, <2>1, Zenon DEF LinkTypes
<1>5. WalkInv'  BY <1>1, <1>2 DEF LinkInv, WalkInv, Walked
<1>6. EncodingsMeet'
  BY <1>1, <1>3 DEF LinkInv, EncodingsMeet, EntryEncoding, CurrentEncoding, NamedDevice
<1>7. SimplifiedInv'
  <2>1. fired' \/ ~(rule' <= 5)  BY <1>2
  <2>  QED  BY <2>1 DEF SimplifiedInv
<1>8. InversePairsGone'  BY <1>1 DEF InversePairsGone
<1>  QED  BY <1>4, <1>5, <1>6, <1>7, <1>8 DEF LinkInv

\* Nothing but the place in pre_optimize changes, or the phase ends.
LEMMA PlaceKeeps ==
    ASSUME LinkInv, Optimizing, phase' \in {"optimizing", "linked"},
           UNCHANGED <<chain, i, current, pipe>>,
           rule' \in 1..6, at' \in Nat \ {0}, fired' \in BOOLEAN, merged' \in BOOLEAN,
           SimplifiedInv', InversePairsGone'
    PROVE  LinkInv'
<1>1. phase = "optimizing"  BY DEF Optimizing
<1>2. chain \in Chains /\ i = Len(chain) + 1 /\ i \in 1..(Len(chain) + 1) /\ pipe \in HonestPipeline
  BY <1>1 DEF LinkInv, LinkTypes, Walked
<1>3. LinkTypes'
  <2>1. /\ pipe' \in HonestPipeline /\ chain' \in Chains
        /\ i' = Len(chain') + 1 /\ i' \in 1..(Len(chain') + 1)
    BY <1>2, Zenon
  <2>2. phase' \in {"idle", "linking", "optimizing", "linked", "refused"}  OBVIOUS
  <2>  QED  BY <2>1, <2>2, Zenon DEF LinkTypes
<1>4. WalkInv'  BY <1>1 DEF LinkInv, WalkInv, Walked
<1>5. EncodingsMeet'
  BY <1>1 DEF LinkInv, EncodingsMeet, EntryEncoding, CurrentEncoding, NamedDevice
<1>  QED  BY <1>3, <1>4, <1>5 DEF LinkInv

LEMMA OptimizeKeeps == LinkInv /\ OptimizeStep => LinkInv'
<1> SUFFICES ASSUME LinkInv, OptimizeStep  PROVE LinkInv'  OBVIOUS
<1>0. /\ rule \in 1..6 /\ at \in Nat \ {0} /\ fired \in BOOLEAN /\ merged \in BOOLEAN
      /\ pipe.stages \in Seq(HonestStage) /\ DOMAIN pipe.stages = 1..Len(pipe.stages)
      /\ Len(pipe.stages) \in Nat
  <2>1. pipe.stages \in Seq(HonestStage)  BY DEF LinkInv, LinkTypes, HonestPipeline
  <2>  QED  BY <2>1 DEF LinkInv, LinkTypes
<1>1. CASE RemoveMatch
  <2>1. /\ Optimizing /\ rule <= 5 /\ fired' = TRUE
        /\ UNCHANGED <<phase, chain, i, current, rule, merged>>
    BY <1>1 DEF RemoveMatch
  <2>2. PICK k \in DOMAIN pipe.stages :
          /\ NextMatch(k)
          /\ pipe' = [pipe EXCEPT !.stages = Without(@, k, IF rule = 1 THEN 1 ELSE 2)]
          /\ at' = k
    BY <1>1 DEF RemoveMatch
  <2>  DEFINE stages == Without(pipe.stages, k, IF rule = 1 THEN 1 ELSE 2)
  <2>3. k \in 1..Len(pipe.stages) /\ k \in Nat \ {0} /\ rule \in 1..5  BY <1>0, <2>1
  <2>4. Matches(rule, pipe.stages, k)  BY <2>2 DEF NextMatch
  <2>5. /\ stages \in Seq(HonestStage)
        /\ \A a, b : Connected(pipe.stages, a, b) => Connected(stages, a, b)
    BY <1>0, <2>3, <2>4, RemovalConnects
  <2>6. pipe' = [pipe EXCEPT !.stages = stages]  BY <2>2
  <2>7. merged' \in BOOLEAN  BY <1>0, <2>1
  <2>  HIDE DEF stages
  <2>  QED  BY <2>1, <2>2, <2>3, <2>5, <2>6, <2>7, RemovalKeeps
<1>2. CASE MultiplyMatrices
  <2>1. /\ Optimizing /\ rule = 6 /\ merged' = TRUE
        /\ UNCHANGED <<phase, chain, i, current, rule, fired>>
    BY <1>2 DEF MultiplyMatrices
  <2>2. PICK k \in DOMAIN pipe.stages :
          NextMatch(k) /\ pipe' = [pipe EXCEPT !.stages = Multiplied(@, k)] /\ at' = k
    BY <1>2 DEF MultiplyMatrices
  <2>  DEFINE stages == Multiplied(pipe.stages, k)
  <2>3. k \in 1..Len(pipe.stages) /\ k \in Nat \ {0}  BY <1>0
  <2>4. Matches(6, pipe.stages, k)  BY <2>1, <2>2 DEF NextMatch
  <2>5. /\ stages \in Seq(HonestStage)
        /\ \A a, b : Connected(pipe.stages, a, b) => Connected(stages, a, b)
    BY <1>0, <2>3, <2>4, MultipliedConnects
  <2>6. pipe' = [pipe EXCEPT !.stages = stages]  BY <2>2
  <2>7. fired' \in BOOLEAN  BY <1>0, <2>1
  <2>  HIDE DEF stages
  <2>  QED  BY <2>1, <2>2, <2>3, <2>5, <2>6, <2>7, RemovalKeeps
<1>3. CASE NextRule
  <2>1. /\ Optimizing /\ rule <= 5 /\ NoMatch /\ rule' = rule + 1 /\ at' = 1
        /\ UNCHANGED <<phase, chain, i, current, pipe, fired, merged>>
    BY <1>3 DEF NextRule
  <2>2. phase = "optimizing" /\ phase' = "optimizing"  BY <2>1 DEF Optimizing
  <2>3. rule' \in 1..6 /\ at' \in Nat \ {0} /\ fired' \in BOOLEAN /\ merged' \in BOOLEAN
    <3>1. rule + 1 \in 1..6 /\ 1 \in Nat \ {0}  BY <1>0, <2>1
    <3>  QED  BY <1>0, <2>1, <3>1, Zenon
  <2>4. SimplifiedInv'
    <3>1. ASSUME ~fired, ~merged, NEW r \in 1..rule, NEW k \in DOMAIN pipe.stages
          PROVE  ~Matches(r, pipe.stages, k)
      <4>1. CASE r = rule
        <5>1. at = 1  BY <2>1, <2>2, <3>1 DEF LinkInv, SimplifiedInv
        <5>2. k \in at..Len(pipe.stages)  BY <1>0, <5>1
        <5>  QED  BY <2>1, <4>1, <5>2 DEF NoMatch
      <4>2. CASE r # rule
        <5>1. r \in 1..(rule - 1)  BY <1>0, <4>2
        <5>  QED  BY <2>2, <3>1, <5>1 DEF LinkInv, SimplifiedInv
      <4>  QED  BY <4>1, <4>2
    <3>2. rule' - 1 = rule  BY <1>0, <2>1
    <3>  QED  BY <2>1, <3>1, <3>2 DEF SimplifiedInv
  <2>5. InversePairsGone'  BY <2>2 DEF InversePairsGone
  <2>  QED  BY <2>1, <2>2, <2>3, <2>4, <2>5, PlaceKeeps
<1>4. CASE NextPass
  <2>1. /\ Optimizing /\ rule' = 1 /\ at' = 1 /\ fired' = FALSE /\ merged' = FALSE
        /\ UNCHANGED <<phase, chain, i, current, pipe>>
    BY <1>4 DEF NextPass
  <2>2. phase = "optimizing" /\ phase' = "optimizing"  BY <2>1 DEF Optimizing
  <2>3. rule' \in 1..6 /\ at' \in Nat \ {0} /\ fired' \in BOOLEAN /\ merged' \in BOOLEAN
    <3>1. 1 \in 1..6 /\ 1 \in Nat \ {0} /\ FALSE \in BOOLEAN  OBVIOUS
    <3>  QED  BY <2>1, <3>1, Zenon
  <2>4. SimplifiedInv'
    <3>1. 1..(rule' - 1) = {}  BY <2>1
    <3>  QED  BY <2>1, <3>1 DEF SimplifiedInv
  <2>5. InversePairsGone'  BY <2>2 DEF InversePairsGone
  <2>  QED  BY <2>1, <2>2, <2>3, <2>4, <2>5, PlaceKeeps
<1>5. CASE FinalGuard
  <2>1. Optimizing /\ PassEnds /\ ~AnyFired  BY <1>5 DEF FinalGuard
  <2>2. CASE Refuse  BY <2>2, RefuseKeeps
  <2>3. CASE phase' = "linked" /\ UNCHANGED <<chain, i, current, pipe, ruleVars>>
    <3>1. UNCHANGED <<chain, i, current, pipe, rule, at, fired, merged>>
      BY <2>3 DEF ruleVars
    <3>2. rule' \in 1..6 /\ at' \in Nat \ {0} /\ fired' \in BOOLEAN /\ merged' \in BOOLEAN
      BY <1>0, <3>1
    <3>3. phase = "optimizing" /\ rule = 6 /\ ~fired  BY <2>1 DEF Optimizing, PassEnds, AnyFired
    <3>4. InversePairsGone'
      <4>1. ~merged => \A r \in 1..5, k \in DOMAIN pipe.stages : ~Matches(r, pipe.stages, k)
        <5>1. rule - 1 = 5  BY <3>3
        <5>  QED  BY <3>3, <5>1 DEF LinkInv, SimplifiedInv
      <4>  QED  BY <3>1, <4>1 DEF InversePairsGone
    <3>5. SimplifiedInv'  BY <2>3 DEF SimplifiedInv
    <3>  QED  BY <2>1, <2>3, <3>1, <3>2, <3>4, <3>5, PlaceKeeps
  <2>  QED  BY <1>5, <2>2, <2>3 DEF FinalGuard
<1>  QED  BY <1>1, <1>2, <1>3, <1>4, <1>5 DEF OptimizeStep

LEMMA StepKeeps == LinkInv /\ [LinkNext]_linkVars => LinkInv'
<1>1. LinkInv /\ UNCHANGED linkVars => LinkInv'
  BY DEF linkVars, LinkInv, LinkTypes, WalkInv, SimplifiedInv, EncodingsMeet, InversePairsGone,
         Walked, EntryEncoding, CurrentEncoding, NamedDevice
<1>  QED  BY <1>1, BeginKeeps, ReturnKeeps, WalkKeeps, OptimizeKeeps DEF LinkNext

(***************************************************************************)
(* Along the whole of linking, for every catalogue and every chain: the     *)
(* pipeline holds stages that are what their operation says, the walk of    *)
(* default_icc_intents and that of xform_color_spaces have come to the same *)
(* space, and a pass of pre_optimize that has changed nothing has found     *)
(* none of its rules to apply.                                              *)
(***************************************************************************)
THEOREM LinkInvariant == LinkSpec => []LinkInv
<1>  USE InitInv, StepKeeps
<1>  QED  BY PTL DEF LinkSpec

(***************************************************************************)
(* Whatever profiles are linked, in whatever order: no junction of the      *)
(* pipeline reads numbers in another encoding than they were written in,    *)
(* at any leg of the walk (intents.rs) and after any removal (pre_optimize).*)
(***************************************************************************)
THEOREM EncodingsAlwaysMeet == LinkSpec => []EncodingsMeet
<1>1. LinkInv => EncodingsMeet  BY DEF LinkInv
<1>  QED  BY <1>1, LinkInvariant, PTL

(***************************************************************************)
(* A linked pipeline of any length has no identity and no pair of inverse   *)
(* PCS conversions left, unless the last pass merged matrices: pre_optimize *)
(* stops only once a whole pass has found nothing.                          *)
(***************************************************************************)
THEOREM NoInversePairLeft == LinkSpec => []InversePairsGone
<1>1. LinkInv => InversePairsGone  BY DEF LinkInv
<1>  QED  BY <1>1, LinkInvariant, PTL

\* What the walk has come to when the chain is linked.
LEMMA WalksMeet == LinkInv => WalksAgree
<1> SUFFICES ASSUME LinkInv, phase = "linked", Agreeable(chain)
             PROVE  /\ EntryColorSpace = ProfileOf(chain[1]).space
                    /\ ExitColorSpace = current
  BY DEF WalksAgree, Agreeable
<1>1. chain \in Chains /\ i = Len(chain) + 1  BY DEF LinkInv, LinkTypes, Walked
<1>2. i - 1 = Len(chain)
  <2>  DEFINE L == Len(chain)
  <2>1. L \in Nat /\ i = L + 1  BY <1>1, ChainFacts
  <2>  HIDE DEF L
  <2>2. i - 1 = L  BY <2>1
  <2>  QED  BY <2>2 DEF L
<1>3. ExitColorSpace = current
  BY <1>2 DEF LinkInv, WalkInv, Walked, ExitColorSpace
<1>4. EntryColorSpace = ProfileOf(chain[1]).space
  <2>  DEFINE p == ProfileOf(chain[1])
  <2>1. 1 \in DOMAIN chain  BY <1>1, ChainFacts
  <2>2. /\ p.class # "NamedColor"
        /\ p.space \notin PCS \/ p.class = "Link" \/ p.class = "Abstract"
        /\ p.class = "Abstract" => p.space = p.pcs
    BY <2>1 DEF Agreeable, IsDeviceLink
  <2>  HIDE DEF p
  <2>3. XformDirection(chain, p, p.space).in = p.space  BY <2>2 DEF XformDirection
  <2>  QED  BY <2>3 DEF EntryColorSpace, p
<1>  QED  BY <1>3, <1>4

(***************************************************************************)
(* The spaces a transform reports (xform_color_spaces) are those its        *)
(* pipeline was linked from and to (default_icc_intents), for every chain   *)
(* but those that begin or pass where the two walks are known to part.      *)
(***************************************************************************)
THEOREM ReportedSpacesAreLinked == LinkSpec => []WalksAgree
<1>  QED  BY WalksMeet, LinkInvariant, PTL

=============================================================================
