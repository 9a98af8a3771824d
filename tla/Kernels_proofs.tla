---------------------------- MODULE Kernels_proofs ----------------------------
(***************************************************************************)
(* Theorems about FusedRuns and PixelFormats.                               *)
(*                                                                          *)
(* The fast path loses nothing: for every pipeline, format, size of call    *)
(* and tile, a finished call has converted every pixel as the pipeline in   *)
(* place does, and no buffer was too small.                                 *)
(*                                                                          *)
(* A plan covers the stages without a gap, each of its runs lies between    *)
(* boundaries where the number is a word anyway, and what the evaluator     *)
(* carries from one part of the plan to the next rounds to the word the     *)
(* pipeline has there.                                                      *)
(*                                                                          *)
(* Packing undoes unpacking, for every format word and every pixel: the     *)
(* last part of the module.                                                 *)
(***************************************************************************)
EXTENDS PixelFormats, FusedRuns, SequenceTheorems, IndexLemmas

-----------------------------------------------------------------------------
(* Numbers and what the stages do to them.                                  *)

Represented == {"free", "single", "double", "word"}
Mark == Int \X (Represented \cup {"byte"})
Number == [done : Seq(Mark), as : Represented]

LEMMA NumberMade ==
    ASSUME NEW d \in Seq(Mark), NEW a \in Represented
    PROVE  /\ [done |-> d, as |-> a] \in Number
           /\ [done |-> d, as |-> a].done = d /\ [done |-> d, as |-> a].as = a
  BY DEF Number

LEMMA NumberFields ==
    ASSUME NEW x \in Number
    PROVE  /\ x.done \in Seq(Mark) /\ x.as \in Represented
           /\ x = [done |-> x.done, as |-> x.as]
  BY DEF Number

LEMMA MarkAdded ==
    ASSUME NEW d \in Seq(Mark), NEW k \in Int, NEW a \in Represented \cup {"byte"}
    PROVE  Append(d, <<k, a>>) \in Seq(Mark)
<1>1. <<k, a>> \in Mark  BY DEF Mark
<1> HIDE DEF Mark
<1> QED  BY <1>1

LEMMA EnteredIs ==
    ASSUME NEW float \in BOOLEAN
    PROVE  Entered(float) \in Number /\ (~float => Entered(float).as = "single")
<1>1. <<>> \in Seq(Mark)  OBVIOUS
<1>2. (IF float THEN "free" ELSE "single") \in Represented  BY DEF Represented
<1> DEFINE a == IF float THEN "free" ELSE "single"
<1>3. Entered(float) = [done |-> <<>>, as |-> a]  BY DEF Entered
<1>4. ~float => a = "single"  OBVIOUS
<1> HIDE DEF a
<1>5. a \in Represented  BY <1>2 DEF a
<1>6. [done |-> <<>>, as |-> a] \in Number /\ [done |-> <<>>, as |-> a].as = a
  BY <1>1, <1>5, NumberMade
<1> QED  BY <1>3, <1>4, <1>6

LEMMA ToWordIs ==
    ASSUME NEW x \in Number
    PROVE  /\ ToWord(x) \in Number
           /\ ToWord(x).as = "word"
           /\ ToWord(x).done = IF x.as = "free" THEN Append(x.done, <<0, "free">>) ELSE x.done
           /\ ToWord(x) = [done |-> ToWord(x).done, as |-> "word"]
<1> DEFINE d == IF x.as = "free" THEN Append(x.done, <<0, "free">>) ELSE x.done
<1>1. "word" \in Represented /\ "free" \in Represented \cup {"byte"} /\ 0 \in Int  BY DEF Represented
<1>2. d \in Seq(Mark)
  <2>1. x.done \in Seq(Mark)  BY NumberFields
  <2>2. Append(x.done, <<0, "free">>) \in Seq(Mark)  BY <2>1, <1>1, MarkAdded
  <2> QED  BY <2>1, <2>2
<1>3. ToWord(x) = [done |-> d, as |-> "word"]  BY DEF ToWord
<1>4. ToWord(x).done = d /\ ToWord(x).as = "word"  BY <1>3
<1> HIDE DEF d
<1>5. ToWord(x) \in Number  BY <1>1, <1>2, <1>3, NumberMade
<1> QED  BY <1>3, <1>4, <1>5 DEF d

LEMMA WidenedIs ==
    ASSUME NEW x \in Number, NEW a \in Represented
    PROVE  /\ Widened(x, a) = [done |-> x.done, as |-> a]
           /\ Widened(x, a) \in Number /\ Widened(x, a).done = x.done /\ Widened(x, a).as = a
<1>1. Widened(x, a) = [done |-> x.done, as |-> a]  BY DEF Widened, Number
<1>2. x.done \in Seq(Mark)  BY NumberFields
<1> QED  BY <1>1, <1>2, NumberMade

LEMMA OnWordIs ==
    ASSUME NEW x \in Number, NEW k \in Int
    PROVE  /\ OnWord(k, x) = [done |-> Append(ToWord(x).done, <<k, "word">>), as |-> "word"]
           /\ OnWord(k, x) \in Number /\ OnWord(k, x).as = "word"
           /\ OnWord(k, x).done = Append(ToWord(x).done, <<k, "word">>)
<1>1. ToWord(x) \in Number /\ ToWord(x).as = "word"  BY ToWordIs
<1>2. OnWord(k, x) = [done |-> Append(ToWord(x).done, <<k, "word">>), as |-> "word"]
  <2> DEFINE w == ToWord(x)
             m == <<k, "word">>
  <2>1. OnWord(k, x) = [w EXCEPT !.done = Append(w.done, m)]  BY DEF OnWord
  <2>2. w \in [done : Seq(Mark), as : Represented] /\ w.as = "word"  BY <1>1 DEF Number
  <2> HIDE DEF w, m
  <2>3. [w EXCEPT !.done = Append(w.done, m)] = [done |-> Append(w.done, m), as |-> w.as]
    BY <2>2
  <2> QED  BY <2>1, <2>2, <2>3 DEF w, m
<1>3. "word" \in Represented  BY DEF Represented
<1>4. Append(ToWord(x).done, <<k, "word">>) \in Seq(Mark)
  <2>1. ToWord(x).done \in Seq(Mark)  BY <1>1, NumberFields
  <2> QED  BY <2>1, <1>3, MarkAdded
<1> DEFINE d == Append(ToWord(x).done, <<k, "word">>)
<1> HIDE DEF d
<1>5. /\ [done |-> d, as |-> "word"] \in Number
      /\ [done |-> d, as |-> "word"].done = d /\ [done |-> d, as |-> "word"].as = "word"
  BY <1>3, <1>4, NumberMade DEF d
<1> QED  BY <1>2, <1>5 DEF d

LEMMA OnFloatIs ==
    ASSUME NEW x \in Number, NEW k \in Int
    PROVE  OnFloat(k, x) \in Number
<1>1. x.done \in Seq(Mark) /\ x.as \in Represented  BY NumberFields
<1>2. "free" \in Represented  BY DEF Represented
<1>3. Append(x.done, <<k, x.as>>) \in Seq(Mark)  BY <1>1, MarkAdded
<1> QED  BY <1>2, <1>3, NumberMade DEF OnFloat

LEMMA CurveEvalIs ==
    ASSUME NEW s, NEW k \in Int, NEW ch, NEW x \in Number
    PROVE  CurveEval(s, k, ch, x) \in Number
<1>1. OnFloat(k, x) \in Number  BY OnFloatIs
<1>2. OnWord(k, x) \in Number /\ "double" \in Represented  BY OnWordIs DEF Represented
<1>3. Widened(OnWord(k, x), "double") \in Number  BY <1>2, WidenedIs
<1> QED  BY <1>1, <1>3 DEF CurveEval

LEMMA ClutEvalIs ==
    ASSUME NEW s, NEW k \in Int, NEW x \in Number
    PROVE  /\ ClutEval(s, k, x) \in Number
           /\ s.table = "U16" => ClutEval(s, k, x).as = "single"
<1>1. OnFloat(k, x) \in Number  BY OnFloatIs
<1>2. OnWord(k, x) \in Number /\ "single" \in Represented  BY OnWordIs DEF Represented
<1>3. Widened(OnWord(k, x), "single") \in Number /\ Widened(OnWord(k, x), "single").as = "single"
  BY <1>2, WidenedIs
<1> QED  BY <1>1, <1>3 DEF ClutEval

LEMMA StageEvalIs ==
    ASSUME NEW s \in PipelineStage, NEW k \in Int, NEW ch, NEW x \in Number
    PROVE  /\ StageEval(s, k, ch, x) \in Number
           /\ IsCurves(s) => StageEval(s, k, ch, x) = CurveEval(s, k, ch, x)
           /\ IsClut(s) => StageEval(s, k, ch, x) = ClutEval(s, k, x)
           /\ s.kind = "free" => StageEval(s, k, ch, x) = OnFloat(k, x)
<1>1. s.kind \in {"curves", "clut", "identity", "free"}  BY DEF PipelineStage
<1>2. s.kind = "curves" => StageEval(s, k, ch, x) = CurveEval(s, k, ch, x)
  BY DEF StageEval, IsCurves, IsClut
<1>3. s.kind = "clut" => StageEval(s, k, ch, x) = ClutEval(s, k, x)
  BY DEF StageEval, IsCurves, IsClut
<1>4. s.kind = "identity" => StageEval(s, k, ch, x) = x
  BY DEF StageEval, IsCurves, IsClut
<1>5. s.kind = "free" => StageEval(s, k, ch, x) = OnFloat(k, x)
  BY DEF StageEval, IsCurves, IsClut
<1>6. CurveEval(s, k, ch, x) \in Number /\ ClutEval(s, k, x) \in Number /\ OnFloat(k, x) \in Number
  BY CurveEvalIs, ClutEvalIs, OnFloatIs
<1> QED  BY <1>1, <1>2, <1>3, <1>4, <1>5, <1>6 DEF IsCurves, IsClut

LEMMA LinkFacts ==
    ASSUME NEW l \in Links
    PROVE  /\ l.float \in BOOLEAN /\ l.byteInput \in BOOLEAN
           /\ l.inputs \in Nat /\ l.outputs \in Nat
           /\ l.stages \in Seq(PipelineStage) /\ Len(l.stages) \in Nat
           /\ \A k \in 1..Len(l.stages) : l.stages[k] \in PipelineStage
<1>1. l \in [stages : Seq(PipelineStage), inputs : Nat, outputs : Nat,
             formatIn : Nat, formatOut : Nat, byteInput : BOOLEAN, float : BOOLEAN]
  BY LinksAssumption
<1> HIDE DEF PipelineStage
<1> QED  BY <1>1

\* The pipeline in place, stage by stage.
LEMMA StageNumbersStep ==
    ASSUME NEW l \in Links, NEW ch
    PROVE  /\ StageNumbers(l, ch)[0] = Entered(l.float)
           /\ \A k \in 0..Len(l.stages) : StageNumbers(l, ch)[k] \in Number
           /\ \A k \in 1..Len(l.stages) :
                StageNumbers(l, ch)[k] = StageEval(l.stages[k], k, ch, StageNumbers(l, ch)[k - 1])
<1> DEFINE n == Len(l.stages)
           first == Entered(l.float)
           out(k, v) == StageEval(l.stages[k], k, ch, v)
           step == [k \in 1..n |-> [v \in Number |-> out(k, v)]]
           P(g) == g = [k \in 0..n |-> IF k = 0 THEN first ELSE out(k, g[k - 1])]
<1>0. n \in Nat /\ \A k \in 1..n : l.stages[k] \in PipelineStage  BY LinkFacts
<1>1. first \in Number  BY LinkFacts, EnteredIs
<1>2. step \in [1..n -> [Number -> Number]]
  <2>1. ASSUME NEW k \in 1..n, NEW v \in Number  PROVE out(k, v) \in Number
    <3>1. l.stages[k] \in PipelineStage /\ k \in Int  BY <1>0
    <3> QED  BY <3>1, StageEvalIs
  <2>  HIDE DEF out
  <2>  QED  BY <2>1
<1>3. \A k \in 1..n, v \in Number : step[k][v] = out(k, v)
  <2>  HIDE DEF out
  <2>  QED  OBVIOUS
<1>  HIDE DEF n, first, out, step
<1>4. PICK g \in [0..n -> Number] : g[0] = first /\ \A k \in 1..n : g[k] = step[k][g[k - 1]]
  <2>  HIDE DEF P
  <2>1. n \in Nat  BY <1>0
  <2>2. Iterates(n, Number, first, step)  BY <2>1, <1>1, <1>2, IterationExists, Zenon
  <2>  QED  BY <2>2 DEF Iterates
<1>5. P(g) /\ \A k \in 1..n : g[k] = out(k, g[k - 1])
  <2>1. \A k \in 1..n : g[k] = out(k, g[k - 1])
    <3>1. \A k \in 1..n : g[k - 1] \in Number  BY <1>0
    <3>  QED  BY <3>1, <1>3, <1>4
  <2>2. \A k \in 0..n : k = 0 \/ k \in 1..n  BY <1>0
  <2>  QED  BY <2>1, <2>2, <1>4
<1>6. StageNumbers(l, ch) = CHOOSE h : P(h)  BY DEF StageNumbers, n, first, out
<1>7. P(StageNumbers(l, ch))
  <2>  HIDE DEF P
  <2>  QED  BY <1>5, <1>6
<1> DEFINE h == StageNumbers(l, ch)
<1>8. \A k \in 1..n : k \in 0..n /\ k # 0 /\ k - 1 \in 0..n  BY <1>0
<1>9. 0 \in 0..n  BY <1>0
<1>10. h[0] = first /\ \A k \in 1..n : h[k] = out(k, h[k - 1])
  <2> HIDE DEF h
  <2> QED  BY <1>7, <1>8, <1>9 DEF h
<1>11. \A k \in 0..n : h[k] \in Number
  <2> DEFINE S == {k \in 0..n : h[k] \in Number}
  <2> HIDE DEF h
  <2>1. 0 \in S  BY <1>1, <1>9, <1>10
  <2>2. ASSUME NEW k \in 0..n, k # n, k \in S  PROVE k + 1 \in S
    <3>1. k + 1 \in 1..n /\ k + 1 \in 0..n /\ (k + 1) - 1 = k  BY <1>0, <2>2
    <3>2. h[k + 1] = out(k + 1, h[k]) /\ h[k] \in Number  BY <3>1, <1>10, <2>2
    <3>3. step[k + 1][h[k]] \in Number  BY <3>1, <3>2, <1>2
    <3>4. step[k + 1][h[k]] = h[k + 1]  BY <3>1, <3>2, <1>3
    <3> QED  BY <3>1, <3>3, <3>4
  <2>3. 0..n \subseteq S
    <3> HIDE DEF S
    <3> QED  BY <1>0, <2>1, <2>2, IntervalInduction
  <2> QED  BY <2>3
<1>  QED  BY <1>10, <1>11 DEF n, first, out, h

-----------------------------------------------------------------------------
(* Runs: stages evaluated in words between two boundaries.                  *)

\* What a run may fuse: words go in and come out, and a stage in between that would
\* keep a float stands where the number is a word.
IsRun(ss, i, j) ==
    /\ i \in 1..Len(ss) /\ j \in i..Len(ss)
    /\ \A k \in i..j :
         IsU16Member(ss[k]) /\ (IsQuantBoundary(ss, k - 1) \/ IsTabulatedCurveSet(ss[k]))
    /\ IsQuantBoundary(ss, j)

LEMMA StartsRunIsRun ==
    ASSUME NEW ss \in Seq(PipelineStage), NEW i \in 1..Len(ss), StartsRun(ss, i)
    PROVE  IsRun(ss, i, RunEnd(ss, i))
<1> DEFINE n == Len(ss)
           S == {j \in i..n : Extends(ss, i, j)}
           e == RunEnd(ss, i)
<1>0. n \in Nat /\ i \in 1..n  BY DEF PipelineStage
<1> HIDE DEF n
<1>1. i \in S
  <2>1. i \in i..n  BY <1>0
  <2>2. \A k \in (i + 1)..i : FALSE  BY <1>0
  <2> QED  BY <2>1, <2>2 DEF Extends
<1>2. S \in SUBSET (0..n)  BY <1>0
<1>3. Max(S) \in S
  <2> HIDE DEF S
  <2> QED  BY <1>0, <1>1, <1>2, LargestOf
<1>4. e = Max(S)  BY DEF RunEnd, n
<1>5. e \in i..n /\ Extends(ss, i, e)  BY <1>3, <1>4
<1> HIDE DEF e, S
<1>6. ASSUME NEW k \in i..e
      PROVE  IsU16Member(ss[k]) /\ (IsQuantBoundary(ss, k - 1) \/ IsTabulatedCurveSet(ss[k]))
  <2>1. CASE k = i  BY <2>1 DEF StartsRun, CanStart
  <2>2. CASE k # i
    <3>1. k \in (i + 1)..e  BY <2>2, <1>0, <1>5
    <3> QED  BY <3>1, <1>5 DEF Extends
  <2> QED  BY <2>1, <2>2
<1>7. IsQuantBoundary(ss, e)  BY DEF StartsRun, EndsRun, e
<1> QED  BY <1>0, <1>5, <1>6, <1>7 DEF IsRun, n, e

LEMMA U16StageEvalIs ==
    ASSUME NEW s \in PipelineStage, NEW k \in Int, NEW ch, NEW x \in Number
    PROVE  U16StageEval(s, k, ch, x) \in Number /\ U16StageEval(s, k, ch, x).as = "word"
<1>1. "single" \in Represented  BY DEF Represented
<1>2. Widened(x, "single") \in Number  BY <1>1, WidenedIs
<1>3. CurveEval(s, k, ch, Widened(x, "single")) \in Number  BY <1>2, CurveEvalIs
<1>4. TableOf(s, k, ch, x) \in Number /\ TableOf(s, k, ch, x).as = "word"
  BY <1>3, ToWordIs DEF TableOf
<1>5. Builtin(s, k) \in Int  BY DEF Builtin
<1>6. OnWord(Builtin(s, k), x) \in Number /\ OnWord(Builtin(s, k), x).as = "word"
  BY <1>5, OnWordIs
<1> QED  BY <1>4, <1>6 DEF U16StageEval

\* The words of a run, stage by stage.
LEMMA RunWordsStep ==
    ASSUME NEW ss \in Seq(PipelineStage), NEW i \in 1..Len(ss), NEW j \in i..Len(ss),
           NEW ch, NEW x \in Number
    PROVE  /\ RunWords(ss, i, j, ch, x)[0] = Widened(ToWord(x), "single")
           /\ \A k \in 1..(j - i + 1) :
                RunWords(ss, i, j, ch, x)[k]
                    = U16StageEval(ss[i + k - 1], i + k - 1, ch, RunWords(ss, i, j, ch, x)[k - 1])
<1> DEFINE n == j - i + 1
           first == Widened(ToWord(x), "single")
           out(k, v) == U16StageEval(ss[i + k - 1], i + k - 1, ch, v)
           step == [k \in 1..n |-> [v \in Number |-> out(k, v)]]
           P(g) == g = [k \in 0..n |-> IF k = 0 THEN first ELSE out(k, g[k - 1])]
<1>0. n \in Nat /\ \A k \in 1..n : i + k - 1 \in 1..Len(ss) /\ i + k - 1 \in Int
  <2> DEFINE L == Len(ss)
  <2>1. L \in Nat /\ i \in 1..L /\ j \in i..L  BY DEF PipelineStage
  <2> HIDE DEF L
  <2>2. n \in Nat /\ \A k \in 1..n : i + k - 1 \in 1..L /\ i + k - 1 \in Int  BY <2>1
  <2> QED  BY <2>2 DEF L
<1>1. first \in Number
  <2>1. "single" \in Represented /\ ToWord(x) \in Number  BY ToWordIs DEF Represented
  <2> QED  BY <2>1, WidenedIs
<1>2. step \in [1..n -> [Number -> Number]]
  <2>1. ASSUME NEW k \in 1..n, NEW v \in Number  PROVE out(k, v) \in Number
    <3> HIDE DEF n
    <3> DEFINE m == i + k - 1
    <3>1. m \in 1..Len(ss) /\ m \in Int  BY <1>0
    <3> HIDE DEF m
    <3>2. ss[m] \in PipelineStage
      <4> HIDE DEF PipelineStage
      <4> QED  BY <3>1
    <3>3. U16StageEval(ss[m], m, ch, v) \in Number  BY <3>1, <3>2, U16StageEvalIs
    <3> QED  BY <3>3 DEF m
  <2>  HIDE DEF out, n
  <2>  QED  BY <2>1
<1>3. \A k \in 1..n, v \in Number : step[k][v] = out(k, v)
  <2>  HIDE DEF out, n
  <2>  QED  OBVIOUS
<1>  HIDE DEF n, first, out, step
<1>4. PICK g \in [0..n -> Number] : g[0] = first /\ \A k \in 1..n : g[k] = step[k][g[k - 1]]
  <2>  HIDE DEF P
  <2>1. n \in Nat  BY <1>0
  <2>2. Iterates(n, Number, first, step)  BY <2>1, <1>1, <1>2, IterationExists, Zenon
  <2>  QED  BY <2>2 DEF Iterates
<1>5. P(g)
  <2>1. \A k \in 1..n : g[k] = out(k, g[k - 1])
    <3>1. \A k \in 1..n : g[k - 1] \in Number  BY <1>0
    <3>  QED  BY <3>1, <1>3, <1>4
  <2>2. \A k \in 0..n : k = 0 \/ k \in 1..n  BY <1>0
  <2>  QED  BY <2>1, <2>2, <1>4
<1>6. RunWords(ss, i, j, ch, x) = CHOOSE h : P(h)  BY DEF RunWords, n, first, out
<1>7. P(RunWords(ss, i, j, ch, x))
  <2>  HIDE DEF P
  <2>  QED  BY <1>5, <1>6
<1>8. \A k \in 1..n : k \in 0..n /\ k # 0  BY <1>0
<1>9. 0 \in 0..n  BY <1>0
<1> DEFINE h == RunWords(ss, i, j, ch, x)
<1>10. h[0] = first /\ \A k \in 1..n : h[k] = out(k, h[k - 1])
  <2> HIDE DEF h
  <2> QED  BY <1>7, <1>8, <1>9 DEF h
<1>  QED  BY <1>10 DEF n, first, out, h

\* One stage in words: what it makes of a word is the word the pipeline rounds to.
LEMMA WordStep ==
    ASSUME NEW s \in PipelineStage, NEW k \in Int, NEW ch, NEW x \in Number, NEW y \in Number,
           IsU16Member(s), y.done = ToWord(x).done, y.as # "free",
           IsCurves(s) => x.as = "single" \/ IsTabulatedCurveSet(s)
    PROVE  U16StageEval(s, k, ch, y).done = ToWord(StageEval(s, k, ch, x)).done
<1> DEFINE z == Widened(y, "single")
           m == <<k, "word">>
<1>0. "single" \in Represented /\ "double" \in Represented  BY DEF Represented
<1>1. ToWord(y).done = y.done  BY ToWordIs
<1>2. z \in Number /\ z.done = y.done /\ z.as = "single" /\ z = [done |-> y.done, as |-> "single"]
  BY <1>0, WidenedIs
<1>3. ToWord(z).done = y.done  BY <1>2, ToWordIs
<1> HIDE DEF z
<1>4. CASE IsU16Clut(s)
  <2>1. IsClut(s) /\ ~s.custom /\ s.table = "U16" /\ ~IsCurves(s)
    BY <1>4 DEF IsU16Clut, Resolves, IsClut, IsCurves
  <2>2. U16StageEval(s, k, ch, y) = OnWord(k, y)  BY <2>1 DEF U16StageEval, Builtin
  <2>3. OnWord(k, y).done = Append(ToWord(y).done, m)  BY OnWordIs
  <2>4. OnWord(k, x) \in Number /\ OnWord(k, x).done = Append(ToWord(x).done, m)  BY OnWordIs
  <2>5. StageEval(s, k, ch, x) = Widened(OnWord(k, x), "single")
    BY <2>1, StageEvalIs DEF ClutEval
  <2> DEFINE w == OnWord(k, x)
             v == Widened(w, "single")
  <2>6. v \in Number /\ v.done = w.done /\ v.as = "single"
    <3> HIDE DEF w
    <3>1. w \in Number  BY <2>4 DEF w
    <3> QED  BY <3>1, <1>0, WidenedIs
  <2> HIDE DEF v
  <2>7. ToWord(v).done = v.done  BY <2>6, ToWordIs
  <2> QED  BY <2>2, <2>3, <2>4, <2>5, <2>6, <2>7, <1>1 DEF v
<1>5. CASE IsCurves(s) /\ s.segmented = {}
  <2>1. \A u \in Number : CurveEval(s, k, ch, u) = Widened(OnWord(k, u), "double")
    BY <1>5 DEF CurveEval
  <2>2. ASSUME NEW u \in Number
        PROVE  ToWord(CurveEval(s, k, ch, u)).done = Append(ToWord(u).done, m)
    <3> DEFINE w == OnWord(k, u)
               v == Widened(w, "double")
    <3>1. w \in Number /\ w.done = Append(ToWord(u).done, m)  BY OnWordIs
    <3>2. v \in Number /\ v.done = w.done /\ v.as = "double"
      <4> HIDE DEF w
      <4> QED  BY <3>1, <1>0, WidenedIs
    <3>3. CurveEval(s, k, ch, u) = v  BY <2>1
    <3> HIDE DEF v
    <3>4. ToWord(v).done = v.done  BY <3>2, ToWordIs
    <3> QED  BY <3>1, <3>2, <3>3, <3>4
  <2>3. U16StageEval(s, k, ch, y) = ToWord(CurveEval(s, k, ch, z))
    BY <1>5 DEF U16StageEval, TableOf, z
  <2>4. StageEval(s, k, ch, x) = CurveEval(s, k, ch, x)  BY <1>5, StageEvalIs
  <2>5. ToWord(CurveEval(s, k, ch, z)).done = Append(ToWord(z).done, m)  BY <2>2, <1>2
  <2>6. ToWord(CurveEval(s, k, ch, x)).done = Append(ToWord(x).done, m)  BY <2>2
  <2> QED  BY <2>3, <2>4, <2>5, <2>6, <1>3
<1>6. CASE IsCurves(s) /\ x.as = "single"
  <2>1. ToWord(x).done = x.done  BY <1>6, ToWordIs
  <2>2. x = z
    <3>1. x = [done |-> x.done, as |-> x.as]  BY NumberFields
    <3> QED  BY <3>1, <2>1, <1>2, <1>6
  <2>3. U16StageEval(s, k, ch, y) = ToWord(CurveEval(s, k, ch, z))
    BY <1>6 DEF U16StageEval, TableOf, z
  <2>4. StageEval(s, k, ch, x) = CurveEval(s, k, ch, x)  BY <1>6, StageEvalIs
  <2> QED  BY <2>2, <2>3, <2>4
<1> QED  BY <1>4, <1>5, <1>6 DEF IsU16Member, IsTabulatedCurveSet

-----------------------------------------------------------------------------
(* What is carried along the plan.                                          *)

\* The number the pipeline has behind the first `pos` stages, or one that rounds to
\* the same word where only the word matters.
Carries(l, ch, x, pos) ==
    /\ x \in Number
    /\ \/ x = StageNumbers(l, ch)[pos]
       \/ /\ ~l.float
          /\ ToWord(x) = ToWord(StageNumbers(l, ch)[pos])
          /\ pos = Len(l.stages) \/ IsU16Clut(l.stages[pos + 1])

LEMMA U16ClutIs ==
    ASSUME NEW s, IsU16Clut(s)
    PROVE  IsClut(s) /\ ~IsCurves(s) /\ s.table = "U16" /\ ~s.custom
  BY DEF IsU16Clut, Resolves, IsClut, IsCurves

\* Behind a boundary the pipeline's number is a word, or the end, or a CLUT's input.
LEMMA Boundary ==
    ASSUME NEW l \in Links, NEW ch, ~l.float, NEW pos \in 0..Len(l.stages),
           IsQuantBoundary(l.stages, pos)
    PROVE  \/ StageNumbers(l, ch)[pos].as = "single"
           \/ pos = Len(l.stages)
           \/ IsU16Clut(l.stages[pos + 1])
<1> DEFINE ss == l.stages
           n == Len(ss)
           x == StageNumbers(l, ch)
<1>0. n \in Nat /\ DOMAIN ss = 1..n /\ \A k \in 1..n : ss[k] \in PipelineStage
  BY LinkFacts
<1>1. x[0] = Entered(l.float) /\ \A k \in 0..n : x[k] \in Number  BY StageNumbersStep
<1>2. \A k \in 1..n : x[k] = StageEval(ss[k], k, ch, x[k - 1])  BY StageNumbersStep
<1> HIDE DEF x
<1>3. CASE pos = 0
  <2>1. Entered(l.float).as = "single"  BY LinkFacts, EnteredIs
  <2> QED  BY <1>1, <1>3, <2>1 DEF x
<1>4. CASE pos # 0 /\ pos # n
  <2>1. PICK k \in {pos, pos + 1} \cap DOMAIN ss : IsU16Clut(ss[k])  BY <1>4 DEF IsQuantBoundary
  <2>2. CASE k = pos + 1  BY <2>1, <2>2
  <2>3. CASE k = pos
    <3> HIDE DEF n, ss
    <3>1. pos \in 1..n /\ pos \in Int /\ pos - 1 \in 0..n  BY <1>0, <2>1, <2>3
    <3>2. x[pos] = StageEval(ss[pos], pos, ch, x[pos - 1]) /\ x[pos - 1] \in Number
          /\ ss[pos] \in PipelineStage
      BY <3>1, <1>0, <1>1, <1>2
    <3>3. IsClut(ss[pos]) /\ ss[pos].table = "U16"  BY <2>1, <2>3, U16ClutIs
    <3>4. StageEval(ss[pos], pos, ch, x[pos - 1]) = ClutEval(ss[pos], pos, x[pos - 1])
      BY <3>1, <3>2, <3>3, StageEvalIs
    <3>5. ClutEval(ss[pos], pos, x[pos - 1]).as = "single"
      BY <3>1, <3>2, <3>3, ClutEvalIs
    <3> QED  BY <3>2, <3>4, <3>5 DEF x
  <2> QED  BY <2>1, <2>2, <2>3
<1> QED  BY <1>3, <1>4

\* A run carries the pipeline's words from stage to stage.
LEMMA WordsAlongRun ==
    ASSUME NEW l \in Links, NEW ch, ~l.float, NEW i, NEW j, IsRun(l.stages, i, j),
           NEW v \in Number, ToWord(v) = ToWord(StageNumbers(l, ch)[i - 1])
    PROVE  /\ RunWords(l.stages, i, j, ch, v)[j - i + 1] \in Number
           /\ RunWords(l.stages, i, j, ch, v)[j - i + 1].done = ToWord(StageNumbers(l, ch)[j]).done
<1> DEFINE ss == l.stages
           n == Len(ss)
           x == StageNumbers(l, ch)
           y == RunWords(ss, i, j, ch, v)
           e == j - i + 1
           Same(k) == /\ y[k] \in Number /\ y[k].as # "free"
                      /\ y[k].done = ToWord(x[i + k - 1]).done
           S == {k \in 0..e : Same(k)}
<1>0. n \in Nat /\ ss \in Seq(PipelineStage) /\ \A k \in 1..n : ss[k] \in PipelineStage
  BY LinkFacts
<1>1. i \in 1..n /\ j \in i..n /\ i \in Int /\ j \in Int  BY <1>0 DEF IsRun
<1>2. \A k \in 0..n : x[k] \in Number  BY StageNumbersStep
<1>3. \A k \in 1..n : x[k] = StageEval(ss[k], k, ch, x[k - 1])  BY StageNumbersStep
<1>4. y[0] = Widened(ToWord(v), "single")  BY <1>0, <1>1, RunWordsStep
<1>5. \A k \in 1..e : y[k] = U16StageEval(ss[i + k - 1], i + k - 1, ch, y[k - 1])
  <2> HIDE DEF n
  <2>1. i \in 1..Len(ss) /\ j \in i..Len(ss)  BY <1>1 DEF n
  <2> HIDE DEF ss
  <2>2. \A k \in 1..(j - i + 1) : RunWords(ss, i, j, ch, v)[k]
             = U16StageEval(ss[i + k - 1], i + k - 1, ch, RunWords(ss, i, j, ch, v)[k - 1])
    BY <1>0, <2>1, RunWordsStep
  <2> QED  BY <2>2
<1>6. \A k \in i..j : /\ IsU16Member(ss[k])
                      /\ IsQuantBoundary(ss, k - 1) \/ IsTabulatedCurveSet(ss[k])
  BY DEF IsRun
<1>7. ASSUME NEW pos \in 0..n, IsQuantBoundary(ss, pos)
      PROVE  x[pos].as = "single" \/ pos = n \/ IsU16Clut(ss[pos + 1])
  BY <1>7, Boundary
<1>8. ToWord(v) = ToWord(x[i - 1])  OBVIOUS
<1> HIDE DEF n, x, y, ss
<1>9. e \in Nat /\ e \in 0..e /\ 0 \in 0..e /\ i + e - 1 = j /\ i + 0 - 1 = i - 1  BY <1>0, <1>1
<1> HIDE DEF e
<1>10. 0 \in S
  <2>1. "single" \in Represented /\ "single" # "free"  BY DEF Represented
  <2>2. ToWord(v) \in Number  BY ToWordIs
  <2>3. y[0] \in Number /\ y[0].as = "single" /\ y[0].done = ToWord(v).done
    <3> DEFINE w == ToWord(v)
    <3> HIDE DEF w
    <3>1. w \in Number  BY <2>2 DEF w
    <3>2. Widened(w, "single") \in Number /\ Widened(w, "single").done = w.done
          /\ Widened(w, "single").as = "single"
      BY <2>1, <3>1, WidenedIs
    <3> QED  BY <3>2, <1>4 DEF w
  <2> QED  BY <2>1, <2>3, <1>8, <1>9
<1>11. ASSUME NEW k \in 0..e, k # e, k \in S  PROVE k + 1 \in S
  <2> DEFINE m == i + k
  <2>1. /\ m \in 1..n /\ m \in i..j /\ m \in Int /\ m - 1 \in 0..n /\ m - 1 # n
        /\ k + 1 \in 1..e /\ k + 1 \in 0..e
        /\ i + (k + 1) - 1 = m /\ (k + 1) - 1 = k /\ i + k - 1 = m - 1 /\ (m - 1) + 1 = m
    BY <1>0, <1>1, <1>9, <1>11 DEF e
  <2> HIDE DEF m
  <2> DEFINE p == x[m - 1]
             q == y[k]
             s == ss[m]
  <2>2. p \in Number /\ x[m] = StageEval(s, m, ch, p) /\ s \in PipelineStage
    BY <2>1, <1>0, <1>2, <1>3
  <2>3. y[k + 1] = U16StageEval(s, m, ch, q)  BY <2>1, <1>5
  <2>4. q \in Number /\ q.as # "free" /\ q.done = ToWord(p).done  BY <1>11, <2>1
  <2>5. IsU16Member(s) /\ (IsQuantBoundary(ss, m - 1) \/ IsTabulatedCurveSet(s))  BY <2>1, <1>6
  <2>6. IsCurves(s) => p.as = "single" \/ IsTabulatedCurveSet(s)
    <3> SUFFICES ASSUME IsCurves(s), ~IsTabulatedCurveSet(s)  PROVE p.as = "single"  OBVIOUS
    <3>1. p.as = "single" \/ IsU16Clut(s)  BY <2>1, <2>5, <1>7
    <3> QED  BY <3>1, U16ClutIs
  <2> HIDE DEF p, q, s
  <2>7. U16StageEval(s, m, ch, q).done = ToWord(StageEval(s, m, ch, p)).done
    BY <2>1, <2>2, <2>4, <2>5, <2>6, WordStep
  <2>8. U16StageEval(s, m, ch, q) \in Number /\ U16StageEval(s, m, ch, q).as = "word"
    BY <2>1, <2>2, <2>4, U16StageEvalIs
  <2> QED  BY <2>1, <2>2, <2>3, <2>7, <2>8
<1>12. 0..e \subseteq S
  <2> HIDE DEF S
  <2> QED  BY <1>9, <1>10, <1>11, IntervalInduction
<1>13. Same(e)  BY <1>9, <1>12
<1> QED  BY <1>9, <1>13 DEF e, x, y, ss

LEMMA RunCarries ==
    ASSUME NEW l \in Links, NEW ch, ~l.float, NEW i, NEW j, IsRun(l.stages, i, j),
           NEW v, Carries(l, ch, v, i - 1)
    PROVE  Carries(l, ch, Widened(RunWords(l.stages, i, j, ch, v)[j - i + 1], "single"), j)
<1> DEFINE x == StageNumbers(l, ch)
           y == RunWords(l.stages, i, j, ch, v)[j - i + 1]
           w == Widened(y, "single")
<1>1. v \in Number /\ ToWord(v) = ToWord(x[i - 1])  BY DEF Carries
<1>2. y \in Number /\ y.done = ToWord(x[j]).done  BY <1>1, WordsAlongRun
<1>3. j \in 0..Len(l.stages) /\ IsQuantBoundary(l.stages, j)  BY LinkFacts DEF IsRun
<1>4. x[j] \in Number  BY <1>3, StageNumbersStep
<1>5. x[j].as = "single" \/ j = Len(l.stages) \/ IsU16Clut(l.stages[j + 1])  BY <1>3, Boundary
<1>6. w = [done |-> y.done, as |-> "single"] /\ w \in Number /\ w.done = y.done /\ w.as = "single"
  <2>1. "single" \in Represented  BY DEF Represented
  <2> HIDE DEF y
  <2> QED  BY <1>2, <2>1, WidenedIs
<1> DEFINE p == x[j]
<1> HIDE DEF x, y, w, p
<1>7. CASE p.as = "single"
  <2>1. p \in Number  BY <1>4 DEF p
  <2>2. ToWord(p).done = p.done  BY <1>7, <2>1, ToWordIs
  <2>3. p = [done |-> p.done, as |-> "single"]  BY <1>7, <2>1, NumberFields
  <2>4. y.done = p.done  BY <1>2, <2>2 DEF p
  <2>5. w = p  BY <1>6, <2>3, <2>4
  <2> QED  BY <1>6, <2>5 DEF Carries, p, w, x, y
<1>8. CASE j = Len(l.stages) \/ IsU16Clut(l.stages[j + 1])
  <2>1. p \in Number  BY <1>4 DEF p
  <2>2. ToWord(w).done = w.done /\ ToWord(w) = [done |-> ToWord(w).done, as |-> "word"]
    BY <1>6, ToWordIs
  <2>3. ToWord(p) = [done |-> ToWord(p).done, as |-> "word"]  BY <2>1, ToWordIs
  <2>4. w.done = ToWord(p).done  BY <1>2, <1>6 DEF p
  <2>5. ToWord(w) = ToWord(p)  BY <2>2, <2>3, <2>4
  <2> QED  BY <1>6, <1>8, <2>5 DEF Carries, p, w, x, y
<1> QED  BY <1>5, <1>7, <1>8 DEF p

\* A stage by itself makes what the pipeline makes of it, in whichever form it is kept.
LEMMA KeptCarries ==
    ASSUME NEW l \in Links, NEW ch, NEW k \in 1..Len(l.stages), NEW v, Carries(l, ch, v, k - 1)
    PROVE  /\ StageEval(l.stages[k], k, ch, v) = StageNumbers(l, ch)[k]
           /\ Kept(l, k).form = "clut" =>
                ClutEval(l.stages[k], Builtin(l.stages[k], k), v) = StageNumbers(l, ch)[k]
<1> DEFINE n == Len(l.stages)
           s == l.stages[k]
           x == StageNumbers(l, ch)
           p == x[k - 1]
<1>0. n \in Nat /\ s \in PipelineStage /\ k \in Int  BY LinkFacts
<1>1. k - 1 \in 0..n /\ (k - 1) + 1 = k /\ k - 1 # n
  <2> HIDE DEF n, s
  <2>1. k \in 1..n  BY DEF n
  <2> QED  BY <1>0, <2>1
<1>2. p \in Number /\ x[k] = StageEval(s, k, ch, p)
  <2>1. p \in Number  BY <1>1, StageNumbersStep
  <2> QED  BY <2>1, StageNumbersStep
<1>3. v \in Number  BY DEF Carries
<1>4. v = p \/ (ToWord(v) = ToWord(p) /\ IsU16Clut(s))  BY <1>1 DEF Carries
<1> HIDE DEF s, x, p
<1>5. StageEval(s, k, ch, v) = StageEval(s, k, ch, p)
  <2>1. CASE v = p  BY <2>1
  <2>2. CASE ToWord(v) = ToWord(p) /\ IsU16Clut(s)
    <3>1. IsClut(s) /\ s.table = "U16"  BY <2>2, U16ClutIs
    <3>2. StageEval(s, k, ch, v) = ClutEval(s, k, v)  BY <3>1, <1>0, <1>3, StageEvalIs
    <3>3. StageEval(s, k, ch, p) = ClutEval(s, k, p)  BY <3>1, <1>0, <1>2, StageEvalIs
    <3>4. OnWord(k, v) = OnWord(k, p)  BY <2>2 DEF OnWord
    <3>5. ClutEval(s, k, v) = ClutEval(s, k, p)  BY <3>1, <3>4 DEF ClutEval
    <3> QED  BY <3>2, <3>3, <3>5
  <2> QED  BY <2>1, <2>2, <1>4
<1>6. ASSUME Resolves(s)  PROVE ClutEval(s, Builtin(s, k), v) = StageEval(s, k, ch, v)
  <2>1. IsClut(s) /\ Builtin(s, k) = k  BY <1>6 DEF Resolves, Builtin
  <2> QED  BY <2>1, <1>0, <1>3, StageEvalIs
<1>7. Kept(l, k).form = "clut" => Resolves(s)  BY DEF Kept, s
<1> QED  BY <1>2, <1>5, <1>6, <1>7 DEF s, x, p

-----------------------------------------------------------------------------
(* The inductive invariant.                                                 *)

Part == [form : {"run", "clut", "generic"}, from : Nat, to : Nat]

FusedTypes ==
    /\ progress \in {"build", "split", "ready", "entry", "stages", "done", "panicked"}
    /\ link \in Links /\ channel \in {1, 2}
    /\ evaluator \in {"pipeline", "matshaper", "batched"}
    /\ plan \in Seq(Part) /\ at \in Nat
    /\ pixels \in Nat /\ base \in Nat
    /\ tile \in Nat /\ floats \in Nat /\ words \in Nat

\* An evaluator is built only for a pipeline it is meant for.
EvaluatorInv ==
    /\ evaluator = "matshaper" => IsMatShaper(link)
    /\ evaluator = "batched" => Batches(link)
    /\ progress \in {"split", "entry", "stages"} => evaluator = "batched"

\* A part of a plan is a run, or a stage by itself; and each begins where the one
\* before it ends.
IsPart(l, part) ==
    \/ part.form = "run" /\ IsRun(l.stages, part.from, part.to)
    \/ part.from \in 1..Len(l.stages) /\ part = Kept(l, part.from)
EndOf(p, k) == IF k = 0 THEN 0 ELSE p[k].to
Covers(l, p, pos) ==
    /\ \A k \in 1..Len(p) : IsPart(l, p[k]) /\ p[k].from = EndOf(p, k - 1) + 1
    /\ EndOf(p, Len(p)) = pos

PlanInv ==
    /\ progress = "build" => plan = <<>> /\ at = 1
    /\ progress = "split" => at - 1 \in 0..Len(link.stages) /\ Covers(link, plan, at - 1)
    /\ evaluator = "batched" /\ progress \in {"ready", "entry", "stages"} =>
         /\ Covers(link, plan, Len(link.stages))
         /\ link.float => \A k \in 1..Len(plan) : plan[k].form # "run"

CarriedInv ==
    progress = "stages" =>
        /\ at \in 1..(Len(plan) + 1)
        /\ Carries(link, channel, number, EndOf(plan, at - 1))

\* The buffers hold a tile of the widest stage, the one between two stages included.
ScratchInv ==
    progress \in {"entry", "stages"} =>
        /\ tile * MaxStageChannels(link) <= floats
        /\ ~link.float => tile * MaxStageChannels(link) <= words

AsPipeline(n) == [p \in 1..n |-> PixelEval(link, channel)]
ResultsInv ==
    /\ progress \in {"build", "split", "ready"} => base = 0 /\ results = <<>>
    /\ progress \in {"entry", "stages"} => base <= pixels /\ results = AsPipeline(base)

FusedInv ==
    /\ FusedTypes /\ EvaluatorInv /\ PlanInv /\ CarriedInv /\ ScratchInv /\ ResultsInv
    /\ FastPathLosesNothing

-----------------------------------------------------------------------------
(* What the steps need.                                                     *)

LEMMA ConstantSeqs ==
    ASSUME NEW a \in Nat, NEW b \in Nat, NEW v
    PROVE  [p \in 1..a |-> v] \o [p \in 1..b |-> v] = [p \in 1..(a + b) |-> v]
<1> DEFINE f == [p \in 1..a |-> v]
           g == [p \in 1..b |-> v]
           h == [p \in 1..(a + b) |-> v]
<1>1. f \in [1..a -> {v}] /\ g \in [1..b -> {v}]  OBVIOUS
<1>2. f \in Seq({v}) /\ Len(f) = a /\ g \in Seq({v}) /\ Len(g) = b
  <2> HIDE DEF f, g
  <2> QED  BY <1>1
<1>3. \A p \in 1..a : f[p] = v  OBVIOUS
<1>4. \A p \in 1..b : g[p] = v  OBVIOUS
<1>5. \A p \in 1..(a + b) : h[p] = v  OBVIOUS
<1>6. h \in [1..(a + b) -> {v}]  OBVIOUS
<1>7. h \in Seq({v}) /\ Len(h) = a + b
  <2> HIDE DEF h
  <2> QED  BY <1>6
<1> HIDE DEF f, g, h
<1>8. /\ f \o g \in Seq({v}) /\ Len(f \o g) = a + b
      /\ \A p \in 1..(a + b) : (f \o g)[p] = IF p <= a THEN f[p] ELSE g[p - a]
  BY <1>2, ConcatProperties
<1>9. ASSUME NEW p \in 1..(a + b)  PROVE (f \o g)[p] = h[p]
  <2>1. CASE p <= a
    <3>1. p \in 1..a  BY <2>1
    <3> QED  BY <3>1, <2>1, <1>3, <1>5, <1>8
  <2>2. CASE ~(p <= a)
    <3>1. p - a \in 1..b  BY <2>2
    <3> QED  BY <3>1, <2>2, <1>4, <1>5, <1>8
  <2> QED  BY <2>1, <2>2
<1>10. f \o g = h  BY <1>7, <1>8, <1>9, SeqEqual
<1> QED  BY <1>10 DEF f, g, h

LEMMA WidthFacts ==
    ASSUME NEW l \in Links, Batches(l)
    PROVE  /\ MaxStageChannels(l) \in Nat /\ MaxStageChannels(l) <= MaxChannels
           /\ \A w \in Widths(l) : w \in Nat /\ w <= MaxStageChannels(l)
           /\ l.inputs \in Widths(l)
           /\ \A k \in 1..Len(l.stages) :
                l.stages[k].in \in Widths(l) /\ l.stages[k].out \in Widths(l)
<1> DEFINE W == Widths(l)
<1>1. DOMAIN l.stages = 1..Len(l.stages)  BY LinkFacts
<1>2. l.inputs \in W  BY DEF Widths
<1>3. \A k \in 1..Len(l.stages) : l.stages[k].in \in W /\ l.stages[k].out \in W
  BY <1>1 DEF Widths
<1>4. ASSUME NEW w \in W  PROVE w \in Nat
  <2>1. l.inputs \in Nat /\ l.outputs \in Nat  BY LinkFacts
  <2>2. ASSUME NEW k \in 1..Len(l.stages)
        PROVE  l.stages[k].in \in Nat /\ l.stages[k].out \in Nat
    <3>1. l.stages[k] \in PipelineStage  BY LinkFacts
    <3> QED  BY <3>1 DEF PipelineStage
  <2> QED  BY <2>1, <2>2, <1>1 DEF Widths
<1>5. \A w \in W : w <= MaxChannels  BY DEF Batches
<1> HIDE DEF W
<1>6. MaxChannels \in Nat  BY FusedAssumption
<1>7. W \in SUBSET (0..MaxChannels) /\ W # {}
  <2>1. \A w \in W : w \in 0..MaxChannels  BY <1>4, <1>5, <1>6
  <2> QED  BY <2>1, <1>2
<1>8. Max(W) \in W /\ \A w \in W : w <= Max(W)  BY <1>6, <1>7, LargestOf
<1> QED  BY <1>2, <1>3, <1>4, <1>5, <1>8 DEF MaxStageChannels, W

\* Sizing the buffers by the widest stage leaves room for every stage.
LEMMA EveryStageFits ==
    ASSUME NEW l \in Links, Batches(l), NEW w \in Widths(l),
           NEW t \in Nat, NEW b \in Nat, t <= b, NEW size \in Nat, b * MaxStageChannels(l) <= size
    PROVE  t * w <= size
<1> DEFINE m == MaxStageChannels(l)
<1>1. m \in Nat /\ w \in Nat /\ w <= m  BY WidthFacts
<1> HIDE DEF m
<1>2. t * w <= b * m  BY <1>1, ProductGrows
<1>3. b * m <= size  BY DEF m
<1>4. t * w \in Nat /\ b * m \in Nat  BY <1>1
<1> QED  BY <1>2, <1>3, <1>4

LEMMA CoversNext ==
    ASSUME NEW l, NEW p \in Seq(Part), NEW pos, Covers(l, p, pos),
           NEW part \in Part, IsPart(l, part), part.from = pos + 1
    PROVE  Append(p, part) \in Seq(Part) /\ Covers(l, Append(p, part), part.to)
<1> DEFINE n == Len(p)
           q == Append(p, part)
<1>1. /\ n \in Nat /\ q \in Seq(Part) /\ Len(q) = n + 1 /\ q[n + 1] = part
      /\ \A k \in 1..n : q[k] = p[k]
  <2> HIDE DEF Part
  <2> QED  OBVIOUS
<1>2. (\A k \in 1..n : IsPart(l, p[k]) /\ p[k].from = EndOf(p, k - 1) + 1) /\ EndOf(p, n) = pos
  BY DEF Covers
<1> HIDE DEF n, q
<1>3. \A k \in 0..n : EndOf(q, k) = EndOf(p, k)
  <2>1. ASSUME NEW k \in 0..n  PROVE EndOf(q, k) = EndOf(p, k)
    <3>1. CASE k = 0  BY <3>1 DEF EndOf
    <3>2. CASE k # 0
      <4>1. k \in 1..n  BY <1>1, <3>2
      <4> QED  BY <4>1, <1>1 DEF EndOf
    <3> QED  BY <3>1, <3>2
  <2> QED  BY <2>1
<1>4. ASSUME NEW k \in 1..(n + 1)
      PROVE  IsPart(l, q[k]) /\ q[k].from = EndOf(q, k - 1) + 1
  <2>1. CASE k = n + 1
    <3>1. k - 1 = n /\ n \in 0..n  BY <2>1, <1>1
    <3> QED  BY <3>1, <2>1, <1>1, <1>2, <1>3
  <2>2. CASE k # n + 1
    <3>1. k \in 1..n /\ k - 1 \in 0..n  BY <2>2, <1>1
    <3> QED  BY <3>1, <1>1, <1>2, <1>3
  <2> QED  BY <2>1, <2>2
<1>5. EndOf(q, n + 1) = part.to
  <2>1. n + 1 # 0  BY <1>1
  <2> QED  BY <2>1, <1>1 DEF EndOf
<1> QED  BY <1>1, <1>4, <1>5 DEF Covers, q

LEMMA KeptIs ==
    ASSUME NEW l \in Links, NEW k \in 1..Len(l.stages)
    PROVE  /\ Kept(l, k) \in Part /\ Kept(l, k).form # "run"
           /\ Kept(l, k).from = k /\ Kept(l, k).to = k /\ IsPart(l, Kept(l, k))
<1>1. k \in Nat  BY LinkFacts
<1>2. Kept(l, k) \in Part  BY <1>1 DEF Kept, Part
<1>3. Kept(l, k).form # "run" /\ Kept(l, k).from = k /\ Kept(l, k).to = k  BY DEF Kept
<1> QED  BY <1>2, <1>3 DEF IsPart

\* The float path's plan: every stage by itself.
LEMMA KeptCovers ==
    ASSUME NEW l \in Links
    PROVE  LET p == [k \in DOMAIN l.stages |-> Kept(l, k)]
           IN  /\ p \in Seq(Part) /\ Len(p) = Len(l.stages) /\ Covers(l, p, Len(l.stages))
               /\ \A k \in 1..Len(p) : p[k].form # "run"
<1> DEFINE n == Len(l.stages)
           p == [k \in DOMAIN l.stages |-> Kept(l, k)]
<1>1. n \in Nat /\ DOMAIN l.stages = 1..n  BY LinkFacts
<1>2. \A k \in 1..n : p[k] = Kept(l, k)  BY <1>1
<1>3. \A k \in 1..n : /\ p[k] \in Part /\ p[k].form # "run"
                      /\ p[k].from = k /\ p[k].to = k /\ IsPart(l, p[k])
  BY <1>2, KeptIs
<1>4. p \in Seq(Part) /\ Len(p) = n
  <2>1. p \in [1..n -> Part]
    <3>1. p = [k \in 1..n |-> p[k]]  BY <1>1
    <3> HIDE DEF p, n
    <3> QED  BY <3>1, <1>3
  <2> HIDE DEF p, n, Part
  <2> QED  BY <2>1, <1>1
<1> HIDE DEF n, p
<1>5. \A k \in 0..n : EndOf(p, k) = k
  <2>1. ASSUME NEW k \in 0..n  PROVE EndOf(p, k) = k
    <3>1. CASE k = 0  BY <3>1 DEF EndOf
    <3>2. CASE k # 0
      <4>1. k \in 1..n  BY <1>1, <3>2
      <4> QED  BY <4>1, <3>2, <1>3 DEF EndOf
    <3> QED  BY <3>1, <3>2
  <2> QED  BY <2>1
<1>6. \A k \in 1..n : p[k].from = EndOf(p, k - 1) + 1
  <2>1. \A k \in 1..n : k - 1 \in 0..n /\ (k - 1) + 1 = k  BY <1>1
  <2> QED  BY <2>1, <1>3, <1>5
<1>7. EndOf(p, n) = n
  <2>1. n \in 0..n  BY <1>1
  <2> QED  BY <2>1, <1>5
<1> QED  BY <1>3, <1>4, <1>6, <1>7 DEF Covers, n, p

\* Three channels through curves in tables, a matrix and curves: nothing is rounded
\* that the pipeline does not round.
LEMMA MatShaperIsPipeline ==
    ASSUME NEW l \in Links, NEW ch, IsMatShaper(l)
    PROVE  ToWord(CurveEval(l.stages[3], 3, ch, OnFloat(2, InLut(l, ch)))) = PixelEval(l, ch)
<1> DEFINE ss == l.stages
           x == StageNumbers(l, ch)
<1>1. Len(ss) = 3 /\ l.byteInput /\ ~l.float /\ IsCurves(ss[1]) /\ ss[2].kind = "free" /\ IsCurves(ss[3])
  BY DEF IsMatShaper
<1>2. ss[1] \in PipelineStage /\ ss[2] \in PipelineStage /\ ss[3] \in PipelineStage
  <2>1. 1 \in 1..3 /\ 2 \in 1..3 /\ 3 \in 1..3  OBVIOUS
  <2> QED  BY <2>1, <1>1, LinkFacts
<1>3. x[0] = Entered(FALSE)
  <2>1. l.float = FALSE  BY <1>1, LinkFacts
  <2> QED  BY <2>1, StageNumbersStep
<1>4. x[0] \in Number /\ x[1] \in Number /\ x[2] \in Number
  <2>1. 0 \in 0..3 /\ 1 \in 0..3 /\ 2 \in 0..3  OBVIOUS
  <2>2. \A k \in 0..3 : x[k] \in Number  BY <1>1, StageNumbersStep
  <2> HIDE DEF x
  <2> QED  BY <2>1, <2>2
<1>5. x[1] = StageEval(ss[1], 1, ch, x[0]) /\ x[2] = StageEval(ss[2], 2, ch, x[1])
      /\ x[3] = StageEval(ss[3], 3, ch, x[2])
  <2>1. \A k \in 1..3 : x[k] = StageEval(ss[k], k, ch, x[k - 1])  BY <1>1, StageNumbersStep
  <2> HIDE DEF x, ss
  <2> QED  BY <2>1
<1>6. PixelEval(l, ch) = ToWord(x[3])  BY <1>1 DEF PixelEval
<1>7. FromByte(l) = Entered(FALSE)
  <2>1. FromByte(l) = [Entered(FALSE) EXCEPT !.done = Entered(FALSE).done]  BY <1>1 DEF FromByte
  <2> QED  BY <2>1 DEF Entered
<1>8. InLut(l, ch) = CurveEval(ss[1], 1, ch, x[0])  BY <1>3, <1>7, LinkFacts DEF InLut
<1> HIDE DEF x, ss
<1>9. x[1] = CurveEval(ss[1], 1, ch, x[0])  BY <1>1, <1>2, <1>4, <1>5, StageEvalIs
<1>10. x[2] = OnFloat(2, x[1])  BY <1>1, <1>2, <1>4, <1>5, StageEvalIs
<1>11. x[3] = CurveEval(ss[3], 3, ch, x[2])  BY <1>1, <1>2, <1>4, <1>5, StageEvalIs
<1> QED  BY <1>6, <1>8, <1>9, <1>10, <1>11 DEF ss

\* The first curves by the input byte are the first stage of the pipeline.
LEMMA InputLutsAreFirstStage ==
    ASSUME NEW l \in Links, NEW ch, ~l.float, l.byteInput, l.stages # <<>>, IsCurves(Head(l.stages))
    PROVE  InLut(l, ch) = StageNumbers(l, ch)[1]
<1> DEFINE ss == l.stages
           x == StageNumbers(l, ch)
<1>1. Len(ss) \in Nat /\ Len(ss) # 0 /\ Head(ss) = ss[1]  BY LinkFacts
<1>2. 1 \in 1..Len(ss) /\ 0 \in 0..Len(ss) /\ 1 - 1 = 0
  <2> HIDE DEF ss
  <2> QED  BY <1>1
<1>3. ss[1] \in PipelineStage  BY <1>2, LinkFacts
<1>4. x[0] = Entered(FALSE) /\ x[0] \in Number
  <2>1. l.float = FALSE  BY LinkFacts
  <2> QED  BY <2>1, <1>2, StageNumbersStep
<1>5. x[1] = StageEval(ss[1], 1, ch, x[0])
  <2>1. \A k \in 1..Len(ss) : x[k] = StageEval(ss[k], k, ch, x[k - 1])  BY StageNumbersStep
  <2> HIDE DEF ss, x
  <2>2. x[1] = StageEval(ss[1], 1, ch, x[1 - 1])  BY <2>1, <1>2
  <2> QED  BY <2>2, <1>2
<1>6. FromByte(l) = Entered(FALSE)
  <2>1. FromByte(l) = [Entered(FALSE) EXCEPT !.done = Entered(FALSE).done]  BY DEF FromByte
  <2> QED  BY <2>1 DEF Entered
<1>7. InLut(l, ch) = CurveEval(ss[1], 1, ch, x[0])  BY <1>1, <1>4, <1>6 DEF InLut
<1> HIDE DEF x, ss
<1>8. x[1] = CurveEval(ss[1], 1, ch, x[0])
  <2>1. IsCurves(ss[1])  BY <1>1 DEF ss
  <2>2. 1 \in Int  OBVIOUS
  <2>3. StageEval(ss[1], 1, ch, x[0]) = CurveEval(ss[1], 1, ch, x[0])
    BY <2>1, <2>2, <1>3, <1>4, StageEvalIs
  <2> QED  BY <2>3, <1>5
<1> QED  BY <1>7, <1>8 DEF x

-----------------------------------------------------------------------------
(* The steps.                                                               *)

LEMMA FusedInitInv == FusedInit => FusedInv
<1> SUFFICES ASSUME FusedInit  PROVE FusedInv  OBVIOUS
<1>1. FusedTypes  BY DEF FusedInit, FusedTypes
<1>2. EvaluatorInv  BY DEF FusedInit, EvaluatorInv
<1>3. PlanInv  BY DEF FusedInit, PlanInv
<1>4. CarriedInv /\ ScratchInv  BY DEF FusedInit, CarriedInv, ScratchInv
<1>5. ResultsInv  BY DEF FusedInit, ResultsInv
<1>6. FastPathLosesNothing  BY DEF FusedInit, FastPathLosesNothing
<1> QED  BY <1>1, <1>2, <1>3, <1>4, <1>5, <1>6 DEF FusedInv

LEMMA BuildInv == FusedInv /\ Build => FusedInv'
<1> SUFFICES ASSUME FusedInv, Build  PROVE FusedInv'  OBVIOUS
<1>1. /\ progress = "build" /\ plan = <<>> /\ at = 1 /\ base = 0 /\ results = <<>>
      /\ link \in Links
  BY DEF FusedInv, FusedTypes, Build, PlanInv, ResultsInv
<1>2. /\ evaluator' = IF IsMatShaper(link) THEN "matshaper"
                      ELSE IF Batches(link) THEN "batched" ELSE "pipeline"
      /\ progress' = IF evaluator' = "batched" THEN "split" ELSE "ready"
      /\ link' = link /\ channel' = channel /\ plan' = plan /\ at' = at
      /\ pixels' = pixels /\ base' = base /\ results' = results
      /\ tile' = tile /\ floats' = floats /\ words' = words
  BY DEF Build, callVars, scratchVars
<1>3. FusedTypes'  BY <1>2 DEF FusedInv, FusedTypes
<1>4. EvaluatorInv'  BY <1>2 DEF EvaluatorInv
<1>5. PlanInv'
  <2>1. Covers(link, <<>>, 0)
    <3>1. Len(<<>>) = 0  OBVIOUS
    <3>2. \A k \in 1..0 : FALSE  OBVIOUS
    <3> QED  BY <3>1, <3>2 DEF Covers, EndOf
  <2>2. 1 - 1 = 0 /\ 0 \in 0..Len(link.stages)  BY <1>1, LinkFacts
  <2> QED  BY <2>1, <2>2, <1>1, <1>2 DEF PlanInv
<1>6. CarriedInv' /\ ScratchInv'  BY <1>2 DEF CarriedInv, ScratchInv
<1>7. ResultsInv'  BY <1>1, <1>2 DEF ResultsInv
<1>8. FastPathLosesNothing'  BY <1>2 DEF FastPathLosesNothing
<1> QED  BY <1>3, <1>4, <1>5, <1>6, <1>7, <1>8 DEF FusedInv

\* A part is added to the plan behind those it has.
LEMMA SplitInv ==
    ASSUME FusedInv, progress = "split",
           NEW part \in Part, IsPart(link, part), part.from = at, part.to \in at..Len(link.stages),
           plan' = Append(plan, part), at' = part.to + 1,
           UNCHANGED <<progress, link, channel, evaluator, callVars, scratchVars>>
    PROVE  FusedInv'
<1>0. /\ progress' = progress /\ link' = link /\ channel' = channel /\ evaluator' = evaluator
      /\ pixels' = pixels /\ base' = base /\ results' = results
      /\ tile' = tile /\ floats' = floats /\ words' = words
  BY DEF callVars, scratchVars
<1>1. /\ plan \in Seq(Part) /\ at \in Nat /\ link \in Links
      /\ at - 1 \in 0..Len(link.stages) /\ Covers(link, plan, at - 1)
  BY DEF FusedInv, FusedTypes, PlanInv
<1> DEFINE n == Len(link.stages)
<1>2. n \in Nat  BY <1>1, LinkFacts
<1>3. part.from = (at - 1) + 1  BY <1>1
<1>4. Append(plan, part) \in Seq(Part) /\ Covers(link, Append(plan, part), part.to)
  BY <1>1, <1>3, CoversNext
<1>5. at' \in Nat /\ at' - 1 = part.to /\ part.to \in 0..n
  <2>1. part.to \in at..n  OBVIOUS
  <2> HIDE DEF n
  <2> QED  BY <1>1, <1>2, <2>1
<1>6. FusedTypes'  BY <1>0, <1>4, <1>5 DEF FusedInv, FusedTypes
<1>7. EvaluatorInv'  BY <1>0 DEF FusedInv, EvaluatorInv
<1>8. PlanInv'  BY <1>0, <1>4, <1>5 DEF PlanInv
<1>9. CarriedInv' /\ ScratchInv'  BY <1>0 DEF CarriedInv, ScratchInv
<1>10. ResultsInv'  BY <1>0 DEF FusedInv, ResultsInv
<1>11. FastPathLosesNothing'  BY <1>0 DEF FastPathLosesNothing
<1> QED  BY <1>6, <1>7, <1>8, <1>9, <1>10, <1>11 DEF FusedInv

LEMMA FuseRunInv == FusedInv /\ FuseRun => FusedInv'
<1> SUFFICES ASSUME FusedInv, FuseRun  PROVE FusedInv'  OBVIOUS
<1> DEFINE ss == link.stages
           e == RunEnd(ss, at)
           part == Fused(at, e)
<1>1. /\ progress = "split" /\ at <= Len(ss) /\ StartsRun(ss, at)
      /\ plan' = Append(plan, part) /\ at' = e + 1
      /\ UNCHANGED <<progress, link, channel, evaluator, callVars, scratchVars>>
  BY DEF FuseRun
<1>2. at \in Nat /\ link \in Links /\ at - 1 \in 0..Len(ss)
  BY <1>1 DEF FusedInv, FusedTypes, PlanInv
<1>3. Len(ss) \in Nat /\ ss \in Seq(PipelineStage)  BY <1>2, LinkFacts
<1>4. at \in 1..Len(ss)
  <2> DEFINE n == Len(ss)
  <2> HIDE DEF ss
  <2>1. n \in Nat /\ at <= n /\ at - 1 \in 0..n  BY <1>1, <1>2, <1>3
  <2> HIDE DEF n
  <2>2. at \in 1..n  BY <1>2, <2>1
  <2> QED  BY <2>2 DEF n
<1>5. IsRun(ss, at, e)
  <2>1. \A i \in 1..Len(ss) : StartsRun(ss, i) => IsRun(ss, i, RunEnd(ss, i))
    BY <1>3, StartsRunIsRun
  <2> QED  BY <2>1, <1>1, <1>4
<1>6. e \in at..Len(ss)  BY <1>5 DEF IsRun
<1>7. e \in Nat  BY <1>2, <1>6
<1> HIDE DEF e
<1>8. /\ part \in Part /\ part.form = "run" /\ part.from = at /\ part.to = e
  BY <1>2, <1>7 DEF Fused, Part
<1>9. IsPart(link, part)  BY <1>5, <1>8 DEF IsPart
<1> HIDE DEF part, ss
<1>10. part.to \in at..Len(link.stages) /\ at' = part.to + 1  BY <1>1, <1>6, <1>8 DEF ss
<1> QED  BY <1>1, <1>8, <1>9, <1>10, SplitInv

LEMMA KeepStageInv == FusedInv /\ KeepStage => FusedInv'
<1> SUFFICES ASSUME FusedInv, KeepStage  PROVE FusedInv'  OBVIOUS
<1> DEFINE n == Len(link.stages)
           part == Kept(link, at)
<1>1. /\ progress = "split" /\ at <= n
      /\ plan' = Append(plan, part) /\ at' = at + 1
      /\ UNCHANGED <<progress, link, channel, evaluator, callVars, scratchVars>>
  BY DEF KeepStage
<1>2. at \in Nat /\ link \in Links /\ at - 1 \in 0..n
  BY <1>1 DEF FusedInv, FusedTypes, PlanInv
<1>3. n \in Nat  BY <1>2, LinkFacts
<1>4. at \in 1..n /\ at \in at..n
  <2> HIDE DEF n
  <2> QED  BY <1>1, <1>2, <1>3
<1>5. part \in Part /\ part.from = at /\ part.to = at /\ IsPart(link, part)
  BY <1>2, <1>4, KeptIs
<1> HIDE DEF part
<1>6. part.to \in at..Len(link.stages) /\ at' = part.to + 1  BY <1>1, <1>4, <1>5
<1> QED  BY <1>1, <1>5, <1>6, SplitInv

LEMMA PlanDoneInv == FusedInv /\ PlanDone => FusedInv'
<1> SUFFICES ASSUME FusedInv, PlanDone  PROVE FusedInv'  OBVIOUS
<1> DEFINE n == Len(link.stages)
           kept == [k \in DOMAIN link.stages |-> Kept(link, k)]
<1>0. /\ progress = "split" /\ at > n /\ progress' = "ready"
      /\ plan' = IF link.float THEN kept ELSE plan
      /\ link' = link /\ channel' = channel /\ evaluator' = evaluator /\ at' = at
      /\ pixels' = pixels /\ base' = base /\ results' = results
      /\ tile' = tile /\ floats' = floats /\ words' = words
  BY DEF PlanDone, callVars, scratchVars
<1>1. /\ plan \in Seq(Part) /\ at \in Nat /\ link \in Links
      /\ at - 1 \in 0..n /\ Covers(link, plan, at - 1)
  BY <1>0 DEF FusedInv, FusedTypes, PlanInv
<1>2. n \in Nat  BY <1>1, LinkFacts
<1>3. at - 1 = n
  <2> HIDE DEF n
  <2> QED  BY <1>0, <1>1, <1>2
<1>4. /\ kept \in Seq(Part) /\ Covers(link, kept, n)
      /\ \A k \in 1..Len(kept) : kept[k].form # "run"
  BY <1>1, KeptCovers
<1> HIDE DEF kept
<1>5. plan' \in Seq(Part) /\ Covers(link, plan', n)
      /\ (link.float => \A k \in 1..Len(plan') : plan'[k].form # "run")
  BY <1>0, <1>1, <1>3, <1>4
<1>6. FusedTypes'  BY <1>0, <1>5 DEF FusedInv, FusedTypes
<1>7. EvaluatorInv'  BY <1>0 DEF FusedInv, EvaluatorInv
<1>8. PlanInv'  BY <1>0, <1>5 DEF PlanInv
<1>9. CarriedInv' /\ ScratchInv'  BY <1>0 DEF CarriedInv, ScratchInv
<1>10. ResultsInv'  BY <1>0 DEF FusedInv, ResultsInv
<1>11. FastPathLosesNothing'  BY <1>0 DEF FastPathLosesNothing
<1> QED  BY <1>6, <1>7, <1>8, <1>9, <1>10, <1>11 DEF FusedInv

LEMMA ConvertInPlaceInv ==
    ASSUME FusedInv, NEW c \in Counts, ConvertInPlace(c)  PROVE FusedInv'
<1>0. /\ progress = "ready" /\ evaluator # "batched" /\ progress' = "done" /\ pixels' = c
      /\ results' = [p \in 1..c |-> IF evaluator = "matshaper" THEN MatShaperEval
                                  ELSE PixelEval(link, channel)]
      /\ link' = link /\ channel' = channel /\ evaluator' = evaluator /\ at' = at /\ plan' = plan
      /\ base' = base /\ tile' = tile /\ floats' = floats /\ words' = words
  BY DEF ConvertInPlace, scratchVars
<1>1. c \in Nat  BY FusedAssumption
<1>2. link \in Links /\ (evaluator = "matshaper" => IsMatShaper(link))
  BY DEF FusedInv, FusedTypes, EvaluatorInv
<1>3. evaluator = "matshaper" => MatShaperEval = PixelEval(link, channel)
  BY <1>2, MatShaperIsPipeline DEF MatShaperEval
<1>4. results' = [p \in 1..c |-> PixelEval(link, channel)]  BY <1>0, <1>3
<1>5. FusedTypes'  BY <1>0, <1>1 DEF FusedInv, FusedTypes
<1>6. EvaluatorInv'  BY <1>0 DEF FusedInv, EvaluatorInv
<1>7. PlanInv'  BY <1>0 DEF PlanInv
<1>8. CarriedInv' /\ ScratchInv' /\ ResultsInv'  BY <1>0 DEF CarriedInv, ScratchInv, ResultsInv
<1>9. FastPathLosesNothing'  BY <1>0, <1>4 DEF FastPathLosesNothing
<1> QED  BY <1>5, <1>6, <1>7, <1>8, <1>9 DEF FusedInv

\* A call enters its first tile with a scratch sized in one of two ways.
LEMMA EntryInv ==
    ASSUME FusedInv, progress = "ready", evaluator = "batched",
           NEW c \in Nat, NEW t \in Nat, NEW f \in Nat, NEW w \in Nat,
           t * MaxStageChannels(link) <= f, ~link.float => t * MaxStageChannels(link) <= w,
           pixels' = c, tile' = t, floats' = f, words' = w, progress' = "entry",
           UNCHANGED <<link, channel, evaluator, plan, at, base, number, results>>
    PROVE  FusedInv'
<1>1. base = 0 /\ results = <<>>  BY DEF FusedInv, ResultsInv
<1>2. FusedTypes'  BY DEF FusedInv, FusedTypes
<1>3. EvaluatorInv'  BY DEF FusedInv, EvaluatorInv
<1>4. PlanInv'  BY DEF FusedInv, PlanInv
<1>5. CarriedInv'  BY DEF CarriedInv
<1>6. ScratchInv'  BY DEF ScratchInv
<1>7. ResultsInv'
  <2>1. [p \in 1..0 |-> PixelEval(link', channel')] = <<>>  OBVIOUS
  <2>2. base' = 0 /\ results' = <<>> /\ 0 <= c  BY <1>1
  <2> QED  BY <2>1, <2>2 DEF ResultsInv, AsPipeline
<1>8. FastPathLosesNothing'  BY DEF FastPathLosesNothing
<1> QED  BY <1>2, <1>3, <1>4, <1>5, <1>6, <1>7, <1>8 DEF FusedInv

LEMMA PrepareWorkspaceInv ==
    ASSUME FusedInv, NEW c \in Counts, PrepareWorkspace(c)  PROVE FusedInv'
<1> DEFINE t == Min({c, Chunk})
           m == MaxStageChannels(link)
           w == IF link.float THEN words ELSE t * m
<1>1. /\ progress = "ready" /\ evaluator = "batched" /\ progress' = "entry"
      /\ pixels' = c /\ tile' = t /\ floats' = t * m /\ words' = w
      /\ UNCHANGED <<link, channel, evaluator, plan, at, base, number, results>>
  BY DEF PrepareWorkspace
<1>2. c \in Nat /\ Chunk \in Nat  BY FusedAssumption
<1>3. t \in Nat
  <2>1. {c, Chunk} \in SUBSET Nat /\ {c, Chunk} # {}  BY <1>2
  <2>2. t \in {c, Chunk}  BY <2>1, LeastOf
  <2> QED  BY <2>2, <1>2
<1>4. link \in Links /\ Batches(link) /\ words \in Nat  BY <1>1 DEF FusedInv, FusedTypes, EvaluatorInv
<1>5. m \in Nat  BY <1>4, WidthFacts
<1> HIDE DEF t, m
<1>6. t * m \in Nat /\ t * m <= t * m  BY <1>3, <1>5
<1>7. w \in Nat /\ (~link.float => t * m <= w)  BY <1>4, <1>6
<1> HIDE DEF w
<1> QED  BY <1>1, <1>2, <1>3, <1>6, <1>7, EntryInv DEF m

LEMMA OwnScratchInv ==
    ASSUME FusedInv, NEW c \in Counts, OwnScratch(c)  PROVE FusedInv'
<1> DEFINE m == MaxStageChannels(link)
           s == Chunk * MaxChannels
<1>1. /\ progress = "ready" /\ evaluator = "batched" /\ progress' = "entry"
      /\ pixels' = c /\ tile' = Chunk /\ floats' = s /\ words' = s
      /\ UNCHANGED <<link, channel, evaluator, plan, at, base, number, results>>
  BY DEF OwnScratch
<1>2. c \in Nat /\ Chunk \in Nat /\ MaxChannels \in Nat  BY FusedAssumption
<1>3. link \in Links /\ Batches(link)  BY <1>1 DEF FusedInv, FusedTypes, EvaluatorInv
<1>4. m \in Nat /\ m <= MaxChannels  BY <1>3, WidthFacts
<1> HIDE DEF m
<1>5. Chunk <= Chunk  BY <1>2
<1>6. Chunk * m <= s  BY <1>2, <1>4, <1>5, ProductGrows
<1>7. s \in Nat  BY <1>2
<1> HIDE DEF s
<1> QED  BY <1>1, <1>2, <1>6, <1>7, EntryInv DEF m

\* What holds while a call is under way.
LEMMA InCall ==
    ASSUME FusedInv, progress \in {"entry", "stages"}
    PROVE  /\ link \in Links /\ Batches(link) /\ plan \in Seq(Part)
           /\ Covers(link, plan, Len(link.stages))
           /\ link.float => \A k \in 1..Len(plan) : plan[k].form # "run"
           /\ pixels \in Nat /\ base \in Nat /\ base <= pixels /\ floats \in Nat /\ words \in Nat
           /\ TilePixels \in Nat /\ base + TilePixels <= pixels
           /\ \A w \in Widths(link) : FitFloats(w) /\ (~link.float => FitWords(w))
<1>1. /\ link \in Links /\ Batches(link) /\ plan \in Seq(Part)
      /\ Covers(link, plan, Len(link.stages))
      /\ link.float => \A k \in 1..Len(plan) : plan[k].form # "run"
      /\ pixels \in Nat /\ base \in Nat /\ base <= pixels
      /\ tile \in Nat /\ floats \in Nat /\ words \in Nat
      /\ tile * MaxStageChannels(link) <= floats
      /\ ~link.float => tile * MaxStageChannels(link) <= words
  BY DEF FusedInv, FusedTypes, EvaluatorInv, PlanInv, ScratchInv, ResultsInv
<1>2. TilePixels \in Nat /\ TilePixels <= tile /\ TilePixels <= pixels - base
  <2> DEFINE S == {pixels - base, tile, Chunk}
  <2>1. pixels - base \in Nat /\ Chunk \in Nat  BY <1>1, FusedAssumption
  <2>2. S \in SUBSET Nat /\ S # {} /\ tile \in S /\ pixels - base \in S  BY <1>1, <2>1
  <2> HIDE DEF S
  <2>3. Min(S) \in S /\ \A k \in S : Min(S) <= k  BY <2>2, LeastOf
  <2> QED  BY <2>2, <2>3 DEF TilePixels, S
<1>3. base + TilePixels <= pixels
  <2> DEFINE t == TilePixels
  <2> HIDE DEF t
  <2>1. t \in Nat /\ t <= pixels - base  BY <1>2 DEF t
  <2>2. base + t <= pixels  BY <1>1, <2>1
  <2> QED  BY <2>2 DEF t
<1>4. ASSUME NEW w \in Widths(link)  PROVE FitFloats(w) /\ (~link.float => FitWords(w))
  <2> DEFINE t == TilePixels
  <2> HIDE DEF t
  <2>1. t \in Nat /\ t <= tile  BY <1>2 DEF t
  <2>2. t * w <= floats  BY <1>1, <2>1, EveryStageFits
  <2>3. ~link.float => t * w <= words  BY <1>1, <2>1, EveryStageFits
  <2> QED  BY <2>2, <2>3 DEF FitFloats, FitWords, t
<1> QED  BY <1>1, <1>2, <1>3, <1>4

\* A tile goes from one part of the plan to the next.
LEMMA StagesInv ==
    ASSUME FusedInv, progress \in {"entry", "stages"}, progress' = "stages",
           NEW a \in 1..(Len(plan) + 1), at' = a,
           Carries(link, channel, number', EndOf(plan, a - 1)),
           UNCHANGED <<link, channel, evaluator, plan, pixels, base, results, scratchVars>>
    PROVE  FusedInv'
<1>0. /\ link' = link /\ channel' = channel /\ evaluator' = evaluator /\ plan' = plan
      /\ pixels' = pixels /\ base' = base /\ results' = results
      /\ tile' = tile /\ floats' = floats /\ words' = words
  BY DEF scratchVars
<1>1. a \in Nat
  <2>1. plan \in Seq(Part)  BY InCall
  <2> HIDE DEF Part
  <2>2. Len(plan) \in Nat  BY <2>1
  <2> QED  BY <2>2
<1>2. FusedTypes'  BY <1>0, <1>1 DEF FusedInv, FusedTypes
<1>3. EvaluatorInv'  BY <1>0 DEF FusedInv, EvaluatorInv
<1>4. PlanInv'  BY <1>0 DEF FusedInv, PlanInv, EvaluatorInv
<1>5. CarriedInv'  BY <1>0 DEF CarriedInv
<1>6. ScratchInv'  BY <1>0 DEF FusedInv, ScratchInv
<1>7. ResultsInv'  BY <1>0 DEF FusedInv, ResultsInv, AsPipeline
<1>8. FastPathLosesNothing'  BY DEF FastPathLosesNothing
<1> QED  BY <1>2, <1>3, <1>4, <1>5, <1>6, <1>7, <1>8 DEF FusedInv

LEMMA EnterTileInv == FusedInv /\ EnterTile => FusedInv'
<1> SUFFICES ASSUME FusedInv, EnterTile  PROVE FusedInv'  OBVIOUS
<1> DEFINE luts == ~link.float /\ UsesInputLuts(link, plan)
           x == StageNumbers(link, channel)
           n == Len(link.stages)
           m == Len(plan)
<1>0. /\ progress = "entry"
      /\ number' = IF luts THEN InLut(link, channel) ELSE Entered(link.float)
      /\ at' = IF luts THEN 2 ELSE 1
      /\ progress' = OrPanic(FitFloats(link.inputs), "stages")
      /\ UNCHANGED <<link, channel, evaluator, plan, pixels, base, results, scratchVars>>
  BY DEF EnterTile
<1>1. /\ link \in Links /\ Batches(link) /\ plan \in Seq(Part) /\ Covers(link, plan, n)
      /\ \A w \in Widths(link) : FitFloats(w)
  BY <1>0, InCall
<1>2. progress' = "stages"
  <2>1. link.inputs \in Widths(link)  BY <1>1, WidthFacts
  <2> QED  BY <1>0, <1>1, <2>1 DEF OrPanic
<1>3. m \in Nat /\ n \in Nat
  <2>1. n \in Nat  BY <1>1, LinkFacts
  <2> HIDE DEF Part
  <2>2. m \in Nat  BY <1>1
  <2> QED  BY <2>1, <2>2
<1>4. x[0] = Entered(link.float) /\ x[0] \in Number /\ \A k \in 0..n : x[k] \in Number
  <2>1. 0 \in 0..n
    <3> HIDE DEF n
    <3> QED  BY <1>3
  <2> QED  BY <1>1, <2>1, StageNumbersStep
<1>5. CASE ~luts
  <2>1. number' = x[0] /\ at' = 1  BY <1>0, <1>4, <1>5
  <2>2. Carries(link, channel, number', 0)  BY <2>1, <1>4 DEF Carries
  <2>3. 1 - 1 = 0 /\ EndOf(plan, 0) = 0  BY DEF EndOf
  <2>4. 1 \in 1..(m + 1)
    <3> HIDE DEF m
    <3> QED  BY <1>3
  <2>5. Carries(link, channel, number', EndOf(plan, 1 - 1))  BY <2>2, <2>3
  <2> QED  BY <1>0, <1>2, <2>1, <2>4, <2>5, StagesInv
<1>6. CASE luts
  <2>1. /\ number' = InLut(link, channel) /\ at' = 2 /\ ~link.float
        /\ link.byteInput /\ IsCurves(Head(link.stages)) /\ Head(plan).form # "run"
    BY <1>0, <1>6 DEF UsesInputLuts
  <2>2. link.stages # <<>>  BY <1>1 DEF Batches
  <2>3. number' = x[1]  BY <1>1, <2>1, <2>2, InputLutsAreFirstStage
  <2>4. n # 0  BY <1>1, <2>2, LinkFacts
  <2>5. m # 0
    <3> SUFFICES ASSUME m = 0  PROVE FALSE  OBVIOUS
    <3>1. EndOf(plan, m) = n  BY <1>1 DEF Covers
    <3>2. EndOf(plan, 0) = 0  BY DEF EndOf
    <3> QED  BY <3>1, <3>2, <2>4
  <2>6. 1 \in 1..m /\ 2 \in 1..(m + 1) /\ 2 - 1 = 1 /\ 1 - 1 = 0 /\ 1 \in 0..n
    <3> HIDE DEF m, n
    <3> QED  BY <1>3, <2>4, <2>5
  <2>7. IsPart(link, plan[1]) /\ plan[1].from = EndOf(plan, 0) + 1
    <3>1. \A k \in 1..m : IsPart(link, plan[k]) /\ plan[k].from = EndOf(plan, k - 1) + 1
      BY <1>1 DEF Covers
    <3> HIDE DEF m
    <3> QED  BY <3>1, <2>6
  <2>8. plan[1].form # "run"
    <3>1. Head(plan) = plan[1]  BY DEF Part
    <3> QED  BY <3>1, <2>1
  <2>9. plan[1].from = 1  BY <2>7 DEF EndOf
  <2>10. plan[1].to = 1
    <3>1. plan[1] = Kept(link, plan[1].from)  BY <2>7, <2>8 DEF IsPart
    <3>2. plan[1] = Kept(link, 1)  BY <3>1, <2>9
    <3> QED  BY <3>2 DEF Kept
  <2>11. EndOf(plan, 1) = 1  BY <2>10 DEF EndOf
  <2>12. Carries(link, channel, number', 1)
    <3>1. x[1] \in Number  BY <1>4, <2>6
    <3> QED  BY <2>3, <3>1 DEF Carries
  <2>13. Carries(link, channel, number', EndOf(plan, 2 - 1))  BY <2>6, <2>11, <2>12
  <2> HIDE DEF m
  <2>14. 2 \in 1..(Len(plan) + 1)  BY <2>6 DEF m
  <2> QED  BY <1>0, <1>2, <2>1, <2>13, <2>14, StagesInv
<1> QED  BY <1>5, <1>6

\* Facts about the part a tile is at.
LEMMA AtPart ==
    ASSUME FusedInv, progress = "stages", at <= Len(plan)
    PROVE  /\ at \in 1..Len(plan) /\ at + 1 \in 1..(Len(plan) + 1) /\ (at + 1) - 1 = at
           /\ IsPart(link, plan[at])
           /\ Carries(link, channel, number, plan[at].from - 1)
           /\ EndOf(plan, at) = plan[at].to
<1> DEFINE m == Len(plan)
           e == EndOf(plan, at - 1)
<1>1. /\ plan \in Seq(Part) /\ Covers(link, plan, Len(link.stages)) /\ link \in Links
      /\ at \in Nat /\ at \in 1..(m + 1) /\ Carries(link, channel, number, e)
  BY InCall DEF FusedInv, FusedTypes, CarriedInv
<1>2. m \in Nat
  <2> HIDE DEF Part
  <2> QED  BY <1>1
<1>3. \A k \in 1..m : IsPart(link, plan[k]) /\ plan[k].from = EndOf(plan, k - 1) + 1
  BY <1>1 DEF Covers
<1>4. at <= m  OBVIOUS
<1> HIDE DEF m
<1>5. at \in 1..m /\ at + 1 \in 1..(m + 1) /\ (at + 1) - 1 = at /\ at # 0  BY <1>1, <1>2, <1>4
<1>6. IsPart(link, plan[at]) /\ plan[at].from = e + 1  BY <1>3, <1>5
<1>7. e \in Int
  <2>1. CASE at - 1 = 0  BY <2>1 DEF EndOf
  <2>2. CASE at - 1 # 0
    <3>1. at - 1 \in 1..m  BY <1>5, <1>2, <2>2
    <3>2. plan[at - 1] \in Part
      <4> HIDE DEF Part
      <4> QED  BY <1>1, <3>1 DEF m
    <3>3. plan[at - 1].to \in Int  BY <3>2 DEF Part
    <3> QED  BY <3>3, <2>2 DEF EndOf
  <2> QED  BY <2>1, <2>2
<1> HIDE DEF e
<1>8. plan[at].from - 1 = e  BY <1>6, <1>7
<1>9. EndOf(plan, at) = plan[at].to  BY <1>5 DEF EndOf
<1> QED  BY <1>1, <1>5, <1>6, <1>8, <1>9 DEF m

LEMMA EvalStageInv == FusedInv /\ EvalStage => FusedInv'
<1> SUFFICES ASSUME FusedInv, EvalStage  PROVE FusedInv'  OBVIOUS
<1> DEFINE k == plan[at].from
           s == link.stages[k]
           x == StageNumbers(link, channel)
<1>0. /\ progress = "stages" /\ at <= Len(plan) /\ plan[at].form # "run"
      /\ number' = IF plan[at].form = "clut" THEN ClutEval(s, Builtin(s, k), number)
                   ELSE StageEval(s, k, channel, number)
      /\ progress' = OrPanic(FitFloats(s.out), "stages")
      /\ at' = at + 1
      /\ UNCHANGED <<link, channel, evaluator, plan, pixels, base, results, scratchVars>>
  BY DEF EvalStage
<1>1. /\ link \in Links /\ Batches(link) /\ \A w \in Widths(link) : FitFloats(w)
  BY <1>0, InCall
<1>2. /\ at + 1 \in 1..(Len(plan) + 1) /\ (at + 1) - 1 = at /\ IsPart(link, plan[at])
      /\ Carries(link, channel, number, k - 1) /\ EndOf(plan, at) = plan[at].to
  BY <1>0, AtPart
<1>3. k \in 1..Len(link.stages) /\ plan[at] = Kept(link, k)  BY <1>0, <1>2 DEF IsPart
<1>4. plan[at].to = k  BY <1>3, <1>1, KeptIs
<1>5. progress' = "stages"
  <2>1. s.out \in Widths(link)  BY <1>1, <1>3, WidthFacts
  <2> QED  BY <1>0, <1>1, <2>1 DEF OrPanic
<1>6. number' = x[k]  BY <1>0, <1>1, <1>2, <1>3, KeptCarries
<1>7. x[k] \in Number
  <2>1. k \in 0..Len(link.stages)  BY <1>1, <1>3, LinkFacts
  <2> QED  BY <1>1, <2>1, StageNumbersStep
<1>8. Carries(link, channel, number', k)  BY <1>6, <1>7 DEF Carries
<1>9. Carries(link, channel, number', EndOf(plan, (at + 1) - 1))  BY <1>2, <1>4, <1>8
<1> QED  BY <1>0, <1>2, <1>5, <1>9, StagesInv

LEMMA EvalRunInv == FusedInv /\ EvalRun => FusedInv'
<1> SUFFICES ASSUME FusedInv, EvalRun  PROVE FusedInv'  OBVIOUS
<1> DEFINE i == plan[at].from
           j == plan[at].to
           ss == link.stages
           last == RunWords(ss, i, j, channel, number)[j - i + 1]
           fits == /\ FitWords(ss[i].in)
                   /\ \A k \in i..j : FitWords(ss[k].out)
                   /\ FitFloats(ss[j].out)
<1>0. /\ progress = "stages" /\ at <= Len(plan) /\ plan[at].form = "run"
      /\ number' = Widened(last, "single")
      /\ progress' = OrPanic(fits, "stages")
      /\ at' = at + 1
      /\ UNCHANGED <<link, channel, evaluator, plan, pixels, base, results, scratchVars>>
  BY DEF EvalRun
<1>1. /\ link \in Links /\ Batches(link)
      /\ link.float => \A k \in 1..Len(plan) : plan[k].form # "run"
      /\ \A w \in Widths(link) : FitFloats(w) /\ (~link.float => FitWords(w))
  BY <1>0, InCall
<1>2. /\ at \in 1..Len(plan) /\ at + 1 \in 1..(Len(plan) + 1) /\ (at + 1) - 1 = at
      /\ IsPart(link, plan[at])
      /\ Carries(link, channel, number, i - 1) /\ EndOf(plan, at) = j
  BY <1>0, AtPart
<1>3. ~link.float  BY <1>0, <1>1, <1>2
<1>4. IsRun(ss, i, j)
  <2>1. ASSUME i \in 1..Len(link.stages), plan[at] = Kept(link, i)  PROVE FALSE
    <3>1. Kept(link, i).form # "run"  BY <2>1, <1>1, KeptIs
    <3> QED  BY <2>1, <3>1, <1>0
  <2> QED  BY <2>1, <1>2 DEF IsPart
<1>5. i \in 1..Len(ss) /\ \A k \in i..j : k \in 1..Len(ss)
  <2> DEFINE n == Len(ss)
  <2>1. n \in Nat  BY <1>1, LinkFacts
  <2>2. i \in 1..n /\ j \in i..n  BY <1>4 DEF IsRun
  <2> HIDE DEF n, i, j, ss
  <2>3. \A k \in i..j : k \in 1..n  BY <2>1, <2>2
  <2> QED  BY <2>2, <2>3 DEF n
<1>6. j \in i..j
  <2>1. j \in i..Len(ss) /\ i \in 1..Len(ss) /\ Len(ss) \in Nat  BY <1>1, <1>4, LinkFacts DEF IsRun
  <2> HIDE DEF i, j, ss
  <2> QED  BY <2>1
<1>7. fits
  <2>1. \A k \in 1..Len(ss) : ss[k].in \in Widths(link) /\ ss[k].out \in Widths(link)
    BY <1>1, WidthFacts
  <2> HIDE DEF i, j, ss
  <2>2. ss[i].in \in Widths(link)  BY <1>5, <2>1
  <2>3. \A k \in i..j : ss[k].out \in Widths(link)  BY <1>5, <2>1
  <2> QED  BY <2>2, <2>3, <1>1, <1>3, <1>6
<1>8. progress' = "stages"  BY <1>0, <1>7 DEF OrPanic
<1>9. Carries(link, channel, number', j)
  <2>1. Carries(link, channel, Widened(last, "single"), j)  BY <1>1, <1>2, <1>3, <1>4, RunCarries
  <2> QED  BY <2>1, <1>0
<1>10. Carries(link, channel, number', EndOf(plan, (at + 1) - 1))  BY <1>2, <1>9
<1> QED  BY <1>0, <1>2, <1>8, <1>10, StagesInv

LEMMA LeaveTileInv == FusedInv /\ LeaveTile => FusedInv'
<1> SUFFICES ASSUME FusedInv, LeaveTile  PROVE FusedInv'  OBVIOUS
<1> DEFINE n == Len(link.stages)
           v == PixelEval(link, channel)
           out == IF link.float THEN number ELSE ToWord(number)
           t == TilePixels
<1>0. /\ progress = "stages" /\ at > Len(plan) /\ progress' = "entry"
      /\ results' = results \o [p \in 1..t |-> out] /\ base' = base + t
      /\ link' = link /\ channel' = channel /\ evaluator' = evaluator /\ plan' = plan /\ at' = at
      /\ pixels' = pixels /\ tile' = tile /\ floats' = floats /\ words' = words
  BY DEF LeaveTile, scratchVars
<1>1. /\ link \in Links /\ plan \in Seq(Part) /\ Covers(link, plan, n)
      /\ pixels \in Nat /\ base \in Nat /\ t \in Nat /\ base + t <= pixels
  BY <1>0, InCall
<1>2. EndOf(plan, at - 1) = n
  <2> DEFINE m == Len(plan)
  <2>1. m \in Nat
    <3> HIDE DEF Part
    <3> QED  BY <1>1
  <2>2. at \in 1..(m + 1) /\ at > m  BY <1>0 DEF FusedInv, CarriedInv
  <2>3. EndOf(plan, m) = n  BY <1>1 DEF Covers
  <2> HIDE DEF m
  <2>4. at - 1 = m  BY <2>1, <2>2
  <2> QED  BY <2>3, <2>4
<1>3. Carries(link, channel, number, n)  BY <1>0, <1>2 DEF FusedInv, CarriedInv
<1>4. out = v
  <2> DEFINE x == StageNumbers(link, channel)
  <2>1. v = IF link.float THEN x[n] ELSE ToWord(x[n])  BY DEF PixelEval
  <2>2. number = x[n] \/ (~link.float /\ ToWord(number) = ToWord(x[n]))  BY <1>3 DEF Carries
  <2> HIDE DEF x, v
  <2> QED  BY <2>1, <2>2
<1>5. results = [p \in 1..base |-> v]  BY <1>0 DEF FusedInv, ResultsInv, AsPipeline
<1> HIDE DEF v, out, t
<1>6. results' = [p \in 1..(base + t) |-> v]  BY <1>0, <1>1, <1>4, <1>5, ConstantSeqs
<1>7. base + t \in Nat  BY <1>1
<1>8. FusedTypes'  BY <1>0, <1>7 DEF FusedInv, FusedTypes
<1>9. EvaluatorInv'  BY <1>0 DEF FusedInv, EvaluatorInv
<1>10. PlanInv'  BY <1>0 DEF FusedInv, PlanInv, EvaluatorInv
<1>11. CarriedInv'  BY <1>0 DEF CarriedInv
<1>12. ScratchInv'  BY <1>0 DEF FusedInv, ScratchInv
<1>13. ResultsInv'  BY <1>0, <1>1, <1>6 DEF ResultsInv, AsPipeline, v
<1>14. FastPathLosesNothing'  BY <1>0 DEF FastPathLosesNothing
<1> QED  BY <1>8, <1>9, <1>10, <1>11, <1>12, <1>13, <1>14 DEF FusedInv

LEMMA CallDoneInv == FusedInv /\ CallDone => FusedInv'
<1> SUFFICES ASSUME FusedInv, CallDone  PROVE FusedInv'  OBVIOUS
<1>0. /\ progress = "entry" /\ base >= pixels /\ progress' = "done"
      /\ link' = link /\ channel' = channel /\ evaluator' = evaluator /\ plan' = plan /\ at' = at
      /\ pixels' = pixels /\ base' = base /\ results' = results
      /\ tile' = tile /\ floats' = floats /\ words' = words
  BY DEF CallDone, callVars, scratchVars
<1>1. pixels \in Nat /\ base \in Nat /\ base <= pixels  BY <1>0, InCall
<1>2. base = pixels  BY <1>0, <1>1
<1>3. results = [p \in 1..base |-> PixelEval(link, channel)]
  BY <1>0 DEF FusedInv, ResultsInv, AsPipeline
<1>4. FusedTypes'  BY <1>0 DEF FusedInv, FusedTypes
<1>5. EvaluatorInv'  BY <1>0 DEF FusedInv, EvaluatorInv
<1>6. PlanInv' /\ CarriedInv' /\ ScratchInv' /\ ResultsInv'
  BY <1>0 DEF PlanInv, CarriedInv, ScratchInv, ResultsInv
<1>7. FastPathLosesNothing'  BY <1>0, <1>2, <1>3 DEF FastPathLosesNothing
<1> QED  BY <1>4, <1>5, <1>6, <1>7 DEF FusedInv

LEMMA FusedStep == FusedInv /\ [FusedNext]_fusedVars => FusedInv'
<1> SUFFICES ASSUME FusedInv, [FusedNext]_fusedVars  PROVE FusedInv'  OBVIOUS
<1>1. CASE Build  BY <1>1, BuildInv
<1>2. CASE FuseRun  BY <1>2, FuseRunInv
<1>3. CASE KeepStage  BY <1>3, KeepStageInv
<1>4. CASE PlanDone  BY <1>4, PlanDoneInv
<1>5. CASE \E n \in Counts : ConvertInPlace(n) \/ PrepareWorkspace(n) \/ OwnScratch(n)
  <2>1. PICK n \in Counts : ConvertInPlace(n) \/ PrepareWorkspace(n) \/ OwnScratch(n)  BY <1>5
  <2> QED  BY <2>1, ConvertInPlaceInv, PrepareWorkspaceInv, OwnScratchInv
<1>6. CASE EnterTile  BY <1>6, EnterTileInv
<1>7. CASE EvalStage  BY <1>7, EvalStageInv
<1>8. CASE EvalRun  BY <1>8, EvalRunInv
<1>9. CASE LeaveTile  BY <1>9, LeaveTileInv
<1>10. CASE CallDone  BY <1>10, CallDoneInv
<1>11. CASE UNCHANGED fusedVars
  <2>0. /\ progress' = progress /\ link' = link /\ channel' = channel /\ evaluator' = evaluator
        /\ plan' = plan /\ at' = at /\ pixels' = pixels /\ base' = base /\ number' = number
        /\ results' = results /\ tile' = tile /\ floats' = floats /\ words' = words
    BY <1>11 DEF fusedVars
  <2>1. FusedTypes' /\ EvaluatorInv' /\ PlanInv'
    BY <2>0 DEF FusedInv, FusedTypes, EvaluatorInv, PlanInv
  <2>2. CarriedInv' /\ ScratchInv' /\ ResultsInv'
    BY <2>0 DEF FusedInv, CarriedInv, ScratchInv, ResultsInv, AsPipeline
  <2>3. FastPathLosesNothing'  BY <2>0 DEF FusedInv, FastPathLosesNothing
  <2> QED  BY <2>1, <2>2, <2>3 DEF FusedInv
<1> QED  BY <1>1, <1>2, <1>3, <1>4, <1>5, <1>6, <1>7, <1>8, <1>9, <1>10, <1>11 DEF FusedNext

\* The plan covers the pipeline, runs lie between boundaries, what is carried rounds to
\* the pipeline's words, and the scratch holds a tile of the widest stage.
THEOREM FusedInvariant == FusedSpec => []FusedInv
  BY FusedInitInv, FusedStep, PTL DEF FusedSpec

\* AccurateFast is lossless: whichever evaluator is built, and whatever the stages
\* compute, a finished call has converted every pixel as the pipeline in place does, and
\* no evaluation ran out of its scratch.
THEOREM FastPathIsLossless == FusedSpec => []FastPathLosesNothing
<1>1. FusedInv => FastPathLosesNothing  BY DEF FusedInv
<1> QED  BY FusedInvariant, <1>1, PTL

-----------------------------------------------------------------------------
(***************************************************************************)
(* Pixels: packing undoes unpacking.                                        *)
(*                                                                          *)
(* The argument has two halves.  Where: reversing, rotating and repeating   *)
(* the channels on the way out puts each one back at the place it came      *)
(* from.  What: a sample turned into a channel value and back is that       *)
(* sample, in its width, byte order and flavor.                             *)
(***************************************************************************)

\* What the pixel's steps leave to be known of each other.
PixelInv ==
    /\ job \in Jobs
    /\ stage \in {"ready", "unpacked", "packed"} => HasFormatters(job)
    /\ stage \in {"asked", "ready", "unpacked"} => output = [p \in 1..Total(job.out) |-> Untouched]
    /\ stage = "unpacked" => values = Unroll(job.in, OnFloatPath(job), job.pixel)
    /\ stage = "packed" =>
         output = PackInto(job.out, OnFloatPath(job), Unroll(job.in, OnFloatPath(job), job.pixel),
                           [p \in 1..Total(job.out) |-> Untouched])

\* The channel values of a packed pixel in the order of its samples.
ReadOf(f, floatPath, pixel) ==
    [i \in 1..Channels(f) |-> FromSample(f, floatPath, pixel[Start(f) + i], i)]

\* The values of n channels as Unroll orders them; alone is the row that repeats one.
OrderedOf(f, alone, r) ==
    LET v == Swapped(f, r)
    IN  IF Rotates(f) THEN Tail(v) \o <<Head(v)>> ELSE IF alone THEN <<v[1], v[1], v[1]>> ELSE v

\* The values PackInto writes, in the order of the samples.
WrittenOf(f, n, u) ==
    LET t == Swapped(f, SubSeq(u, 1, n))
    IN  IF Rotates(f) THEN <<Last(t)>> \o Front(t) ELSE t

\* A sequence of n values, whatever they are.
IsRow(n, s) == s = [i \in 1..n |-> s[i]]

-----------------------------------------------------------------------------
(* Where *)

\* A pixel format has at least one channel, and its counts are numbers.
LEMMA FormatCounts ==
    ASSUME NEW f \in Nat
    PROVE  /\ Channels(f) \in Nat /\ Extra(f) \in Nat /\ Bytes(f) \in Nat /\ Start(f) \in Nat
           /\ Start(f) <= Extra(f) /\ Total(f) = Channels(f) + Extra(f) /\ Total(f) \in Nat
           /\ Shaped(f) => Channels(f) >= 1
<1>1. Channels(f) \in Nat /\ Extra(f) \in Nat /\ Bytes(f) \in Nat
  BY DEF Channels, Extra, Bytes
<1>2. Start(f) \in Nat /\ Start(f) <= Extra(f)  BY <1>1 DEF Start
<1>3. Total(f) = Channels(f) + Extra(f) /\ Total(f) \in Nat  BY <1>1 DEF Total
<1>4. Shaped(f) => Channels(f) >= 1  BY <1>1 DEF Shaped
<1> QED  BY <1>1, <1>2, <1>3, <1>4

\* A sequence reversed twice, from its definition by places.
LEMMA ReverseTwice ==
    ASSUME NEW n \in Nat, NEW s, IsRow(n, s)
    PROVE  /\ IsRow(n, Reverse(s)) /\ Reverse(Reverse(s)) = s
<1>1. Len(s) = n /\ DOMAIN s = 1..n  BY DEF IsRow
<1>2. Reverse(s) = [i \in 1..n |-> s[n - i + 1]]  BY <1>1 DEF Reverse
<1>3. Len(Reverse(s)) = n  BY <1>2
<1>4. Reverse(Reverse(s)) = [i \in 1..n |-> Reverse(s)[n - i + 1]]  BY <1>2, <1>3 DEF Reverse
<1>5. ASSUME NEW i \in 1..n PROVE Reverse(s)[n - i + 1] = s[i]
  <2> DEFINE k == n - i + 1
  <2>1. k \in 1..n /\ n - k + 1 = i  OBVIOUS
  <2> HIDE DEF k
  <2>2. Reverse(s)[k] = s[n - k + 1]  BY <1>2, <2>1
  <2> QED  BY <2>1, <2>2 DEF k
<1>6. Reverse(Reverse(s)) = [i \in 1..n |-> s[i]]  BY <1>4, <1>5
<1>7. IsRow(n, Reverse(s))  BY <1>2 DEF IsRow
<1>8. s = [i \in 1..n |-> s[i]]  BY DEF IsRow
<1> QED  BY <1>6, <1>7, <1>8

\* A function on 1..n is a sequence of its values, and a sequence such a function.
LEMMA FunctionIsSeq ==
    ASSUME NEW n \in Nat, NEW s, IsRow(n, s)
    PROVE  s \in Seq({s[i] : i \in 1..n}) /\ Len(s) = n
<1> DEFINE S == {s[i] : i \in 1..n}
<1>1. Len(s) = n /\ DOMAIN s = 1..n  BY DEF IsRow
<1>2. \A i \in 1..n : s[i] \in S  OBVIOUS
<1> HIDE DEF S
<1>3. s \in [1..n -> S]  BY <1>1, <1>2 DEF IsRow
<1>4. s \in Seq(S)  BY <1>3
<1> QED  BY <1>1, <1>4 DEF S

LEMMA SeqIsFunction ==
    ASSUME NEW S, NEW s \in Seq(S), NEW n \in Nat, Len(s) = n
    PROVE  IsRow(n, s)
<1>1. DOMAIN s = 1..n  OBVIOUS
<1>2. s = [i \in DOMAIN s |-> s[i]]  OBVIOUS
<1> QED  BY <1>1, <1>2 DEF IsRow

LEMMA PrefixProperties ==
    ASSUME NEW S, NEW s \in Seq(S), NEW k \in Nat, k <= Len(s)
    PROVE  /\ SubSeq(s, 1, k) \in Seq(S) /\ Len(SubSeq(s, 1, k)) = k
           /\ \A i \in 1..k : SubSeq(s, 1, k)[i] = s[i]
<1>1. \A i \in 1..k : s[i] \in S
  <2>1. Len(s) \in Nat /\ \A i \in 1..Len(s) : s[i] \in S  OBVIOUS
  <2> QED  BY <2>1
<1>2. 1 \in Int /\ k \in Int  OBVIOUS
<1>3. /\ SubSeq(s, 1, k) \in Seq(S)
      /\ Len(SubSeq(s, 1, k)) = IF 1 <= k THEN k - 1 + 1 ELSE 0
      /\ \A i \in 1..(k - 1 + 1) : SubSeq(s, 1, k)[i] = s[1 + i - 1]
  BY <1>1, <1>2, SubSeqProperties
<1>4. k - 1 + 1 = k /\ (1 <= k \/ k = 0) /\ \A i \in 1..k : 1 + i - 1 = i  OBVIOUS
<1> QED  BY <1>3, <1>4

\* The first n of n are all of them; the first of three is the first.
LEMMA WholeSubSeq ==
    ASSUME NEW n \in Nat, NEW s, IsRow(n, s)
    PROVE  SubSeq(s, 1, n) = s
<1>1. Len(s) = n /\ DOMAIN s = 1..n  BY DEF IsRow
<1> DEFINE S == {s[i] : i \in 1..n}
<1>2. s \in Seq(S)  BY FunctionIsSeq
<1> HIDE DEF S
<1>3. SubSeq(s, 1, n) \in Seq(S) /\ Len(SubSeq(s, 1, n)) = n
      /\ \A i \in 1..n : SubSeq(s, 1, n)[i] = s[i]
  BY <1>1, <1>2
<1> QED  BY <1>1, <1>2, <1>3, SeqEqual

\* One value before others.
LEMMA BehindOne ==
    ASSUME NEW S, NEW h \in Seq(S), Len(h) = 1, NEW t \in Seq(S), NEW k \in Nat,
           1 <= k, k <= Len(t)
    PROVE  (h \o t)[k + 1] = t[k]
<1> DEFINE m == Len(t)
           j == k + 1
<1>1. m \in Nat /\ j \in 1..(1 + m) /\ ~(j <= 1) /\ j - 1 = k  OBVIOUS
<1>2. \A x \in 1..(1 + m) : (h \o t)[x] = IF x <= 1 THEN h[x] ELSE t[x - 1]
  BY ConcatProperties
<1> HIDE DEF m, j
<1>3. (h \o t)[j] = t[j - 1]  BY <1>1, <1>2
<1> QED  BY <1>1, <1>3 DEF j

\* Rotating left on the way in and right on the way out.
LEMMA RotatedBack ==
    ASSUME NEW n \in Nat, n >= 1, NEW s, IsRow(n, s),
           NEW u, u = Tail(s) \o <<Head(s)>>
    PROVE  /\ IsRow(n, u)
           /\ \A i \in 1..n : (<<Last(u)>> \o Front(u))[i] = s[i]
<1> DEFINE S == {s[i] : i \in 1..n}
<1>1. Len(s) = n /\ DOMAIN s = 1..n  BY DEF IsRow
<1>2. s \in Seq(S)  BY FunctionIsSeq
<1>3. s[1] \in S  OBVIOUS
<1> HIDE DEF S
<1>4. /\ Tail(s) \in Seq(S) /\ Len(Tail(s)) = n - 1
      /\ \A i \in 1..(n - 1) : Tail(s)[i] = s[i + 1]
      /\ Head(s) = s[1]
  BY <1>1, <1>2
<1>5. <<Head(s)>> \in Seq(S) /\ Len(<<Head(s)>>) = 1 /\ <<Head(s)>>[1] = s[1]  BY <1>3, <1>4
<1>6. /\ u \in Seq(S) /\ Len(u) = n /\ u[n] = s[1]
      /\ \A i \in 1..(n - 1) : u[i] = s[i + 1]
  BY <1>4, <1>5, ConcatProperties
<1>7. IsRow(n, u)  BY <1>6, SeqIsFunction
<1>8. /\ Front(u) \in Seq(S) /\ Len(Front(u)) = n - 1
      /\ \A i \in 1..(n - 1) : Front(u)[i] = s[i + 1]
  <2>1. n - 1 \in Nat /\ n - 1 <= n  OBVIOUS
  <2> DEFINE k == n - 1
  <2>2. k \in Nat /\ k <= Len(u) /\ Front(u) = SubSeq(u, 1, k)  BY <1>6, <2>1 DEF Front
  <2> HIDE DEF k
  <2>5. /\ SubSeq(u, 1, k) \in Seq(S) /\ Len(SubSeq(u, 1, k)) = k
        /\ \A i \in 1..k : SubSeq(u, 1, k)[i] = u[i]
    BY <1>6, <2>2, PrefixProperties
  <2>6. \A i \in 1..k : Front(u)[i] = s[i + 1]
    <3> TAKE i \in 1..k
    <3>1. Front(u)[i] = u[i]  BY <2>2, <2>5
    <3> QED  BY <1>6, <3>1 DEF k
  <2>7. Front(u) \in Seq(S) /\ Len(Front(u)) = k  BY <2>2, <2>5
  <2> QED  BY <2>6, <2>7 DEF k
<1>9. <<Last(u)>> \in Seq(S) /\ Len(<<Last(u)>>) = 1 /\ <<Last(u)>>[1] = s[1]
  BY <1>3, <1>6 DEF Last
<1>10. ASSUME NEW i \in 1..n PROVE (<<Last(u)>> \o Front(u))[i] = s[i]
  <2> HIDE DEF S
  <2>0. 1 \in 1..(Len(<<Last(u)>>) + Len(Front(u))) /\ 1 <= Len(<<Last(u)>>)  BY <1>8, <1>9
  <2>1. CASE i = 1
    <3>1. (<<Last(u)>> \o Front(u))[1] = <<Last(u)>>[1]  BY <1>8, <1>9, <2>0, ConcatProperties
    <3> QED  BY <1>9, <2>1, <3>1
  <2>2. CASE i > 1
    <3> DEFINE k == i - 1
    <3>1. k \in Nat /\ 1 <= k /\ k <= n - 1 /\ k \in 1..(n - 1) /\ k + 1 = i  BY <2>2
    <3> HIDE DEF k
    <3>3. k <= Len(Front(u))  BY <1>8, <3>1
    <3>2. (<<Last(u)>> \o Front(u))[k + 1] = Front(u)[k]  BY <1>8, <1>9, <3>1, <3>3, BehindOne
    <3> QED  BY <1>8, <3>1, <3>2
  <2>3. i = 1 \/ i > 1  OBVIOUS
  <2> QED  BY <2>1, <2>2, <2>3
<1> QED  BY <1>7, <1>10

\* Whatever the word asks of the order, the values are written where they were read.
LEMMA PlacesBack ==
    ASSUME NEW f \in Nat, ~(Rotates(f) /\ DoSwap(f)), NEW alone \in BOOLEAN,
           NEW n \in Nat, n >= 1, NEW r, IsRow(n, r),
           alone => n = 1 /\ ~DoSwap(f),
           NEW i \in 1..n
    PROVE  WrittenOf(f, n, OrderedOf(f, alone, r))[i] = r[i]
<1> DEFINE v == Swapped(f, r)
           u == OrderedOf(f, alone, r)
           t == Swapped(f, SubSeq(u, 1, n))
<1>4. u = IF Rotates(f) THEN Tail(v) \o <<Head(v)>> ELSE IF alone THEN <<v[1], v[1], v[1]>> ELSE v
  BY DEF OrderedOf
<1>5. WrittenOf(f, n, u) = IF Rotates(f) THEN <<Last(t)>> \o Front(t) ELSE t  BY DEF WrittenOf
<1>6. v = Swapped(f, r) /\ t = Swapped(f, SubSeq(u, 1, n))  OBVIOUS
<1> HIDE DEF v, u, t
<1>1. CASE Rotates(f)
  <2>1. ~DoSwap(f) /\ v = r /\ u = Tail(r) \o <<Head(r)>>  BY <1>1, <1>4, <1>6 DEF Swapped
  <2>2. /\ IsRow(n, u)
        /\ \A j \in 1..n : (<<Last(u)>> \o Front(u))[j] = r[j]
    BY <2>1, RotatedBack
  <2>3. SubSeq(u, 1, n) = u  BY <2>2, WholeSubSeq
  <2>4. t = u  BY <1>6, <2>1, <2>3 DEF Swapped
  <2> QED  BY <1>1, <1>5, <2>2, <2>4 DEF u
<1>2. CASE ~Rotates(f) /\ alone
  <2>1. ~DoSwap(f) /\ v = r /\ n = 1 /\ i = 1 /\ u = <<r[1], r[1], r[1]>>
    BY <1>2, <1>4, <1>6 DEF Swapped
  <2>2. <<r[1], r[1], r[1]>> \in Seq({r[1]}) /\ Len(<<r[1], r[1], r[1]>>) = 3  OBVIOUS
  <2>6. u \in Seq({r[1]}) /\ Len(u) = 3  BY <2>1, <2>2
  <2>7. u[1] = r[1]  BY <2>1
  <2>5. u \in Seq({r[1]}) /\ 1 <= Len(u) /\ 1 \in Nat /\ 1 \in 1..1 /\ u[1] = r[1]  BY <2>6, <2>7
  <2>3. SubSeq(u, 1, 1)[1] = r[1]  BY <2>5, PrefixProperties
  <2>4. t = SubSeq(u, 1, 1)  BY <1>6, <2>1 DEF Swapped
  <2> QED  BY <1>2, <1>5, <2>1, <2>3, <2>4 DEF u
<1>3. CASE ~Rotates(f) /\ ~alone
  <2>1. u = v  BY <1>3, <1>4
  <2>2. CASE DoSwap(f) /\ ~IsPcsFloat(f)
    <3>1. v = Reverse(r)  BY <1>6, <2>2 DEF Swapped
    <3>2. Reverse(Reverse(r)) = r /\ IsRow(n, Reverse(r))
      BY ReverseTwice
    <3>3. IsRow(n, v)  BY <3>1, <3>2
    <3>4. SubSeq(v, 1, n) = v  BY <3>3, WholeSubSeq
    <3>5. t = r  BY <1>6, <2>1, <2>2, <3>1, <3>2, <3>4 DEF Swapped
    <3> QED  BY <1>3, <1>5, <3>5 DEF u
  <2>3. CASE ~(DoSwap(f) /\ ~IsPcsFloat(f))
    <3>1. v = r  BY <1>6, <2>3 DEF Swapped
    <3>2. SubSeq(v, 1, n) = r  BY <3>1, WholeSubSeq
    <3>3. t = r  BY <1>6, <2>1, <2>3, <3>2 DEF Swapped
    <3> QED  BY <1>3, <1>5, <3>3 DEF u
  <2> QED  BY <2>2, <2>3
<1> QED  BY <1>1, <1>2, <1>3

LEMMA WrittenIsRead ==
    ASSUME NEW f \in Nat, Shaped(f), ~(Rotates(f) /\ DoSwap(f)), NEW floatPath \in BOOLEAN,
           NEW pixel, NEW i \in 1..Channels(f)
    PROVE  WrittenOf(f, Channels(f), Unroll(f, floatPath, pixel))[i] = ReadOf(f, floatPath, pixel)[i]
<1> DEFINE n == Channels(f)
           alone == Replicates(f) /\ ~floatPath
           r == ReadOf(f, floatPath, pixel)
<1>1. n \in Nat /\ n >= 1 /\ i \in 1..n  BY FormatCounts
<1>2. IsRow(n, r)  BY DEF ReadOf, IsRow
<1>3. Unroll(f, floatPath, pixel) = OrderedOf(f, alone, r)  BY DEF Unroll, ReadOf, OrderedOf
<1>4. alone \in BOOLEAN /\ (alone => n = 1 /\ ~DoSwap(f))  BY DEF Replicates
<1> HIDE DEF n, alone, r
<1>5. WrittenOf(f, n, OrderedOf(f, alone, r))[i] = r[i]  BY <1>1, <1>2, <1>4, PlacesBack
<1> QED  BY <1>3, <1>5 DEF n, r

-----------------------------------------------------------------------------
(* What *)

\* A byte made a word and a byte again, and a word's bytes exchanged twice.
LEMMA ByteBack ==
    ASSUME NEW n \in 0..255
    PROVE  /\ from_8_to_16(n) \in Nat /\ from_8_to_16(n) <= 65535
           /\ from_16_to_8(from_8_to_16(n)) = n
<1>1. (257 * n) \div 256 = n
  <2>1. 257 * n = 256 * n + n  OBVIOUS
  <2> QED  BY <2>1
<1>2. (255 * (257 * n) + n + 32768) \div 65536 = n
  <2>1. 255 * (257 * n) + n + 32768 = 65536 * n + 32768  OBVIOUS
  <2>2. (65536 * n + 32768) \div 65536 = n  OBVIOUS
  <2> QED  BY <2>1, <2>2
<1>3. from_8_to_16(n) = 257 * n  BY DEF from_8_to_16
<1>4. from_16_to_8(257 * n) = (255 * (257 * n) + (257 * n) \div 256 + 32768) \div 65536
  BY DEF from_16_to_8
<1>5. from_16_to_8(257 * n) = n  BY <1>1, <1>2, <1>4
<1>6. 257 * n \in Nat /\ 257 * n <= 65535  OBVIOUS
<1> QED  BY <1>3, <1>5, <1>6

IsBytes(w, low, high) == low \in 0..255 /\ high \in 0..255 /\ w = 256 * high + low

LEMMA BytesExchanged ==
    ASSUME NEW w, NEW a, NEW b, IsBytes(w, a, b)
    PROVE  IsBytes(change_endian(w), b, a)
<1>1. a \in 0..255 /\ b \in 0..255 /\ w = 256 * b + a  BY DEF IsBytes
<1>2. (256 * b + a) \div 256 = b  BY <1>1
<1>3. (256 * b + a) % 256 = a  BY <1>1
<1>4. change_endian(w) = a * 256 + b  BY <1>1, <1>2, <1>3 DEF change_endian
<1> QED  BY <1>1, <1>4 DEF IsBytes

LEMMA EndianBack ==
    ASSUME NEW w \in Nat, w <= 65535
    PROVE  /\ change_endian(w) \in Nat /\ change_endian(w) <= 65535
           /\ change_endian(change_endian(w)) = w
<1> DEFINE a == w % 256
           b == w \div 256
<1>1. IsBytes(w, a, b)
  <2>1. w % 256 \in 0..255 /\ w \div 256 \in 0..255 /\ w = (256 * (w \div 256)) + (w % 256)
    OBVIOUS
  <2> QED  BY <2>1 DEF IsBytes
<1> HIDE DEF a, b
<1>2. IsBytes(change_endian(w), b, a)  BY <1>1, BytesExchanged
<1>3. IsBytes(change_endian(change_endian(w)), a, b)  BY <1>2, BytesExchanged
<1>4. change_endian(change_endian(w)) = w  BY <1>1, <1>3 DEF IsBytes
<1>5. change_endian(w) \in Nat /\ change_endian(w) <= 65535  BY <1>2 DEF IsBytes
<1> QED  BY <1>4, <1>5

\* The flavor reversed twice, and a word that stays a word.
LEMMA FlavorBack ==
    ASSUME NEW f \in Nat, NEW v \in Int
    PROVE  Flavored(f, v) \in Int /\ Flavored(f, Flavored(f, v)) = v
  BY DEF Flavored, reverse_flavor

LEMMA WordSaturated ==
    ASSUME NEW v \in Nat, v <= 65535
    PROVE  quick_saturate_word(v) = v
  BY DEF quick_saturate_word, Clamped

\* The three kinds of a format's sample: what it counts in, how it is read and written.
LEMMA ByteSample ==
    ASSUME NEW f, NEW floatPath, NEW c, NEW s, NEW v, Bytes(f) = 1, ~IsFloat(f)
    PROVE  /\ Unit(f, c) = "u8"
           /\ FromSample(f, floatPath, s, c) = Flavored(f, from_8_to_16(s.n))
           /\ ToSample(f, floatPath, v, c) =
                Sample(from_16_to_8(quick_saturate_word(Flavored(f, v))), "u8")
<1>1. Bytes(f) # 2 /\ ~IsPcsFloat(f)  BY DEF IsPcsFloat
<1> QED  BY <1>1, Zenon DEF Unit, FromSample, ToSample

LEMMA WordSample ==
    ASSUME NEW f, NEW floatPath, NEW c, NEW s, NEW v, Bytes(f) = 2, ~IsFloat(f)
    PROVE  /\ Unit(f, c) = "u16"
           /\ FromSample(f, floatPath, s, c) = Flavored(f, Word(f, floatPath, s.n))
           /\ ToSample(f, floatPath, v, c) =
                Sample(Word(f, floatPath, quick_saturate_word(Flavored(f, v))), "u16")
<1>1. Bytes(f) # 1 /\ ~IsPcsFloat(f)  BY DEF IsPcsFloat
<1> QED  BY <1>1, Zenon DEF Unit, FromSample, ToSample

LEMMA FloatSample ==
    ASSUME NEW f, NEW floatPath, NEW c, NEW s, NEW v, IsFloat(f), Bytes(f) # 1, Bytes(f) # 2
    PROVE  /\ s.unit = Unit(f, c) => FromSample(f, floatPath, s, c) = Flavored(f, s.n)
           /\ ToSample(f, floatPath, v, c) = Sample(Flavored(f, v), Unit(f, c))
  BY Zenon DEF FromSample, ToSample

\* A colour sample of a format the transform takes, read and written again.
LEMMA SampleBack ==
    ASSUME NEW f \in Nat, NEW floatPath \in BOOLEAN, floatPath = IsFloat(f),
           floatPath => HasFormatterFloat(f), ~floatPath => HasFormatter16(f),
           NEW c, NEW s \in [n : Int, unit : Units], s.unit = Unit(f, c), Fits(s)
    PROVE  ToSample(f, floatPath, FromSample(f, floatPath, s, c), c) = s
<1> DEFINE v == FromSample(f, floatPath, s, c)
<1>1. s.n \in Int /\ Sample(s.n, Unit(f, c)) = s  BY DEF Sample
<1>2. CASE ~floatPath /\ Bytes(f) = 1
  <2>1. ~IsFloat(f)  BY <1>2
  <2>2. Unit(f, c) = "u8" /\ v = Flavored(f, from_8_to_16(s.n))  BY <1>2, <2>1, ByteSample
  <2>3. s.n \in 0..255  BY <2>2 DEF Fits
  <2>4. /\ from_8_to_16(s.n) \in Nat /\ from_8_to_16(s.n) <= 65535
        /\ from_16_to_8(from_8_to_16(s.n)) = s.n
    BY <2>3, ByteBack
  <2>5. Flavored(f, v) = from_8_to_16(s.n)  BY <2>2, <2>4, FlavorBack
  <2>6. quick_saturate_word(Flavored(f, v)) = from_8_to_16(s.n)  BY <2>4, <2>5, WordSaturated
  <2>7. ToSample(f, floatPath, v, c) =
          Sample(from_16_to_8(quick_saturate_word(Flavored(f, v))), "u8")
    BY <1>2, <2>1, ByteSample
  <2> QED  BY <1>1, <2>2, <2>4, <2>6, <2>7
<1>3. CASE ~floatPath /\ Bytes(f) = 2
  <2>1. ~IsFloat(f)  BY <1>3
  <2> DEFINE w == Word(f, floatPath, s.n)
  <2>2. Unit(f, c) = "u16" /\ v = Flavored(f, w)  BY <1>3, <2>1, WordSample
  <2>3. s.n \in Nat /\ s.n <= 65535  BY <1>1, <2>2 DEF Fits
  <2>4. w \in Nat /\ w <= 65535 /\ Word(f, floatPath, w) = s.n  BY <2>3, EndianBack DEF Word
  <2> HIDE DEF w
  <2>5. Flavored(f, v) = w  BY <2>2, <2>4, FlavorBack
  <2>6. quick_saturate_word(Flavored(f, v)) = w  BY <2>4, <2>5, WordSaturated
  <2>7. ToSample(f, floatPath, v, c) =
          Sample(Word(f, floatPath, quick_saturate_word(Flavored(f, v))), "u16")
    BY <1>3, <2>1, WordSample
  <2> QED  BY <1>1, <2>2, <2>4, <2>6, <2>7
<1>4. CASE floatPath
  <2>1. IsFloat(f) /\ Bytes(f) # 1 /\ Bytes(f) # 2  BY <1>4 DEF HasFormatterFloat
  <2>2. s.unit = Unit(f, c) => v = Flavored(f, s.n)  BY <2>1, FloatSample
  <2>4. ToSample(f, floatPath, v, c) = Sample(Flavored(f, v), Unit(f, c))  BY <2>1, FloatSample
  <2>3. Flavored(f, v) = s.n  BY <1>1, <2>2, FlavorBack
  <2> QED  BY <1>1, <2>3, <2>4
<1>5. ~floatPath => Bytes(f) \in {1, 2}  BY DEF HasFormatter16
<1> QED  BY <1>2, <1>3, <1>4, <1>5

-----------------------------------------------------------------------------
(* Where and what together *)

\* A pixel unpacked and packed by one format.
LEMMA PixelBack ==
    ASSUME NEW f \in Nat, NEW floatPath \in BOOLEAN, floatPath = IsFloat(f),
           floatPath => HasFormatterFloat(f), ~floatPath => HasFormatter16(f),
           ~(Rotates(f) /\ DoSwap(f)), NEW pixel, IsPixel(f, pixel),
           NEW blank, NEW p \in DOMAIN blank, p \in Int
    PROVE  PackInto(f, floatPath, Unroll(f, floatPath, pixel), blank)[p] =
             IF p - Start(f) \in 1..Channels(f) THEN pixel[p] ELSE blank[p]
<1>1. Shaped(f)  BY DEF HasFormatterFloat, HasFormatter16
<1> DEFINE n == Channels(f)
           c == p - Start(f)
           v == Unroll(f, floatPath, pixel)
<1>2. n \in Nat /\ Start(f) \in Nat  BY FormatCounts
<1>3. PackInto(f, floatPath, v, blank)[p] =
        IF c \in 1..n THEN ToSample(f, floatPath, WrittenOf(f, n, v)[c], c) ELSE blank[p]
  BY DEF PackInto, WrittenOf
<1>4. CASE c \in 1..n
  <2>1. Start(f) + c = p  BY <1>2
  <2>2. WrittenOf(f, n, v)[c] = ReadOf(f, floatPath, pixel)[c]  BY <1>1, <1>4, WrittenIsRead
  <2>3. ReadOf(f, floatPath, pixel)[c] = FromSample(f, floatPath, pixel[p], c)
    BY <1>4, <2>1 DEF ReadOf
  <2>4. pixel[p].unit = Unit(f, c) /\ Fits(pixel[p])
    BY <1>4, <2>1 DEF IsPixel
  <2>5. pixel[p] \in [n : Int, unit : Units]
    <3>1. pixel \in Seq([n : Int, unit : Units]) /\ Len(pixel) = Total(f)  BY DEF IsPixel
    <3>2. p >= 1 /\ p <= Total(f)
      <4>1. /\ n \in Nat /\ Start(f) \in Nat /\ Extra(f) \in Nat
            /\ Start(f) <= Extra(f) /\ Total(f) = n + Extra(f)
        BY FormatCounts
      <4>2. c >= 1 /\ c <= n /\ p = Start(f) + c  BY <1>4, <2>1, <4>1
      <4> HIDE DEF n, c
      <4>3. c \in Int  BY <1>4
      <4> QED  BY <4>1, <4>2, <4>3
    <3>3. p \in 1..Len(pixel)  BY <3>1, <3>2
    <3> DEFINE S == [n : Int, unit : Units]
    <3> HIDE DEF S
    <3>4. pixel \in Seq(S)  BY <3>1 DEF S
    <3>5. pixel[p] \in S  BY <3>3, <3>4
    <3> QED  BY <3>5 DEF S
  <2> HIDE DEF c
  <2>6. ToSample(f, floatPath, FromSample(f, floatPath, pixel[p], c), c) = pixel[p]
    BY <2>4, <2>5, SampleBack
  <2> QED  BY <1>3, <1>4, <2>2, <2>3, <2>6 DEF c
<1>5. CASE c \notin 1..n  BY <1>3, <1>5
<1> QED  BY <1>4, <1>5

(***************************************************************************)
(* The steps of a pixel keep what they make known of each other.            *)
(***************************************************************************)
THEOREM PixelInvariant == PixelSpec => []PixelInv
<1>1. PixelInit => PixelInv  BY DEF PixelInit, PixelInv
<1>2. PixelInv /\ [PixelNext]_pixelVars => PixelInv'
  <2> SUFFICES ASSUME PixelInv, [PixelNext]_pixelVars PROVE PixelInv'
    OBVIOUS
  <2>1. CASE SelectFormatters  BY <2>1 DEF SelectFormatters, PixelInv
  <2>2. CASE Unpack  BY <2>2 DEF Unpack, PixelInv
  <2>3. CASE Pack  BY <2>3 DEF Pack, PixelInv
  <2>4. CASE CopyExtra  BY <2>4 DEF CopyExtra, PixelInv
  <2>5. CASE UNCHANGED pixelVars  BY <2>5 DEF pixelVars, PixelInv
  <2> QED  BY <2>1, <2>2, <2>3, <2>4, <2>5 DEF PixelNext
<1> QED  BY <1>1, <1>2, PTL DEF PixelSpec

(***************************************************************************)
(* Packing undoes unpacking, for every format word and every pixel          *)
(* (format/formatters.rs and format/float.rs).                              *)
(***************************************************************************)
THEOREM PackingUndoesUnpacking == PixelSpec => []PackUndoesUnpack
<1>1. PixelInv => PackUndoesUnpack
  <2> SUFFICES ASSUME PixelInv, stage = "packed", job.in = job.out,
                      ~(Rotates(job.in) /\ DoSwap(job.in)), NEW p \in DOMAIN output
               PROVE  output[p] = IF p - Start(job.in) \in 1..Channels(job.in)
                                  THEN job.pixel[p] ELSE Untouched
    BY DEF PackUndoesUnpack
  <2> DEFINE f == job.in
             floatPath == OnFloatPath(job)
             blank == [q \in 1..Total(f) |-> Untouched]
  <2>1. job \in Jobs /\ HasFormatters(job)  BY DEF PixelInv
  <2>2. f \in Nat /\ IsPixel(f, job.pixel)  BY <2>1, JobsAssumption
  <2>3. floatPath = IsFloat(f) /\ floatPath \in BOOLEAN  BY DEF OnFloatPath, IsFloat, Flag
  <2>4. (floatPath => HasFormatterFloat(f)) /\ (~floatPath => HasFormatter16(f))
    BY <2>1 DEF HasFormatters
  <2>5. output = PackInto(f, floatPath, Unroll(f, floatPath, job.pixel), blank)  BY DEF PixelInv
  <2>6. p \in DOMAIN blank /\ p \in Int /\ blank[p] = Untouched
    <3>1. DOMAIN output = DOMAIN blank  BY <2>5 DEF PackInto
    <3> QED  BY <3>1
  <2> HIDE DEF f, floatPath, blank
  <2>7. PackInto(f, floatPath, Unroll(f, floatPath, job.pixel), blank)[p] =
          IF p - Start(f) \in 1..Channels(f) THEN job.pixel[p] ELSE blank[p]
    <3>1. ~(Rotates(f) /\ DoSwap(f))  BY DEF f
    <3> QED  BY <2>2, <2>3, <2>4, <2>6, <3>1, PixelBack
  <2> QED  BY <2>5, <2>6, <2>7 DEF f
<1> QED  BY <1>1, PixelInvariant, PTL

=============================================================================
