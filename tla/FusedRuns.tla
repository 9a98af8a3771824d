------------------------------ MODULE FusedRuns ------------------------------
(***************************************************************************)
(* The evaluators the AccurateFast strategy builds from a linked pipeline:  *)
(* a matrix-shaper with its first curves in tables, or a plan of stages     *)
(* evaluated tile by tile, in which runs of curves and 16-bit CLUTs are     *)
(* fused into kernels that never leave 16-bit words.                        *)
(*                                                                          *)
(* What a stage computes is left open.  A number is the history of what was *)
(* done to it: the stages applied, how the number each one took was         *)
(* represented, and where a float was rounded to a word.  Two evaluations   *)
(* give the same bytes whatever the stages compute when, and only when,     *)
(* their histories agree.  In a history <<k, as>> is the k-th stage and how *)
(* its number came, <<0, "free">> a rounding, and <<-k, as>> the builtin    *)
(* interpolator in the place of the k-th stage's own; <<0, "byte">> is an   *)
(* input word taken for its low byte, twice.                                *)
(***************************************************************************)
EXTENDS Integers, Sequences, SequencesExt

CONSTANTS
    Links,        \* the linked pipelines, each with the formats it was built for and their channels
    Counts,       \* how many pixels a call brings
    Chunk,        \* CHUNK, and the TILE of transform.rs: pixels per tile
    MaxChannels   \* MAX_STAGE_CHANNELS

\* A stage of kind "curves" tells which channels have a segmented curve; "clut" its
\* table and whether a plug-in interpolates; "free" computes in floats (matrices, PCS
\* conversions, named colours).
PipelineStage ==
    [kind : {"curves"}, segmented : SUBSET Nat, in : Nat, out : Nat]
    \cup [kind : {"clut"}, table : {"U16", "F32"}, custom : BOOLEAN, in : Nat, out : Nat]
    \cup [kind : {"free"}, matrix : BOOLEAN, in : Nat, out : Nat]
    \cup [kind : {"identity"}, in : Nat, out : Nat]

ASSUME LinksAssumption ==
    Links \subseteq [stages : Seq(PipelineStage), inputs : Nat, outputs : Nat,
                    formatIn : Nat, formatOut : Nat, byteInput : BOOLEAN, float : BOOLEAN]

ASSUME FusedAssumption ==
    /\ Chunk \in Nat \ {0}
    /\ MaxChannels \in Nat \ {0}
    /\ Counts \subseteq Nat

-----------------------------------------------------------------------------
(* Stages and numbers.                                                      *)

IsCurves(s) == s.kind = "curves"
IsClut(s) == s.kind = "clut"
IsTabulatedCurveSet(s) == IsCurves(s) /\ s.segmented = {}

\* How a number is represented: a free float, or a word w widened as w / 65535 in
\* single precision or, by the tabulated curves, in double precision and narrowed.
Entered(float) == [done |-> <<>>, as |-> IF float THEN "free" ELSE "single"]

\* quick_saturate_word(x * 65535.0): a widened word comes back as itself.
ToWord(x) ==
    [done |-> IF x.as = "free" THEN Append(x.done, <<0, "free">>) ELSE x.done, as |-> "word"]
Widened(x, how) == [x EXCEPT !.as = how]

\* A stage that takes the word, and one that takes the float as it is.
OnWord(name, x) == [ToWord(x) EXCEPT !.done = Append(@, <<name, "word">>)]
OnFloat(name, x) == [done |-> Append(x.done, <<name, x.as>>), as |-> "free"]

\* ToneCurve::eval_float_in on one channel.
CurveEval(s, name, channel, x) ==
    IF channel \in s.segmented THEN OnFloat(name, x) ELSE Widened(OnWord(name, x), "double")

\* Clut::eval and ResolvedClut::eval, which knows no plug-in's interpolator.
ClutEval(s, name, x) ==
    IF s.table = "U16" THEN Widened(OnWord(name, x), "single") ELSE OnFloat(name, x)
Builtin(s, name) == IF s.custom THEN -name ELSE name

\* Stage::eval_in
StageEval(s, name, channel, x) ==
    CASE IsCurves(s) -> CurveEval(s, name, channel, x)
      [] IsClut(s) -> ClutEval(s, name, x)
      [] s.kind = "identity" -> x
      [] s.kind = "free" -> OnFloat(name, x)

\* What a number has become behind each of the stages ...
StageNumbers(l, channel) ==
    LET x[k \in 0..Len(l.stages)] ==
            IF k = 0 THEN Entered(l.float) ELSE StageEval(l.stages[k], k, channel, x[k - 1])
    IN  x

\* ... and at the end, Pipeline::eval_16 and eval_float, pixel by pixel: what every
\* evaluator must equal.
PixelEval(l, channel) ==
    LET last == StageNumbers(l, channel)[Len(l.stages)]
    IN  IF l.float THEN last ELSE ToWord(last)

-----------------------------------------------------------------------------
(* What is built.                                                           *)

\* lossless_matshaper::try_optimize: formats of three channels, 8-bit words in, no floats.
IsMatShaper(l) ==
    /\ l.formatIn = 3 /\ l.formatOut = 3 /\ l.byteInput /\ ~l.float
    /\ Len(l.stages) = 3
    /\ IsCurves(l.stages[1]) /\ l.stages[1].in = 3
    /\ l.stages[2].kind = "free" /\ l.stages[2].matrix /\ l.stages[2].in = 3 /\ l.stages[2].out = 3
    /\ IsCurves(l.stages[3]) /\ l.stages[3].in = 3

Widths(l) ==
    {l.inputs, l.outputs} \cup UNION {{l.stages[k].in, l.stages[k].out} : k \in DOMAIN l.stages}

\* The refusals of batched::try_optimize.
Batches(l) ==
    /\ l.stages # <<>>
    /\ l.inputs = Head(l.stages).in
    /\ l.outputs = Last(l.stages).out
    /\ \A w \in Widths(l) : w <= MaxChannels

MaxStageChannels(l) == Max(Widths(l))

\* resolve_clut declines a plug-in's interpolator; everything else is kept as it is.
Resolves(s) == IsClut(s) /\ ~s.custom
Kept(l, k) == [form |-> IF Resolves(l.stages[k]) THEN "clut" ELSE "generic", from |-> k, to |-> k]
Fused(i, j) == [form |-> "run", from |-> i, to |-> j]

\* is_u16_member, and the Clut of U16Kind
IsU16Clut(s) == Resolves(s) /\ s.table = "U16"
IsU16Member(s) == IsCurves(s) \/ IsU16Clut(s)

\* is_quant_boundary: is what passes behind the first `pos` stages always a word?
IsQuantBoundary(ss, pos) ==
    \/ pos \in {0, Len(ss)}
    \/ \E k \in {pos, pos + 1} \cap DOMAIN ss : IsU16Clut(ss[k])

\* Mutant: any curves may begin a run, since they become a table of words.
CanStartAtCurves(ss, i) == IsQuantBoundary(ss, i - 1) \/ IsCurves(ss[i])

\* Where a run may begin, and how far it reaches.  Tabulated curves round by themselves.
CanStart(ss, i) == IsQuantBoundary(ss, i - 1) \/ IsTabulatedCurveSet(ss[i])
Extends(ss, i, j) ==
    \A k \in (i + 1)..j : IsU16Member(ss[k]) /\ IsQuantBoundary(ss, k - 1)
RunEnd(ss, i) == Max({j \in i..Len(ss) : Extends(ss, i, j)})
EndsRun(ss, j) == IsQuantBoundary(ss, j)
StartsRun(ss, i) == IsU16Member(ss[i]) /\ CanStart(ss, i) /\ EndsRun(ss, RunEnd(ss, i))

\* build_in_lut, build_input_curve_luts: the first curves by the input word's low byte.
FromByte(l) ==
    [Entered(FALSE) EXCEPT !.done = IF l.byteInput THEN @ ELSE Append(@, <<0, "byte">>)]
InLut(l, channel) == CurveEval(Head(l.stages), 1, channel, FromByte(l))

\* Are the first curves looked up by the input byte?  Not when a run has them.
UsesInputLuts(l, plan) ==
    /\ l.byteInput /\ IsCurves(Head(l.stages))
    /\ Head(plan).form # "run"

\* build_u16_curve_tables: the curve between a widened word and the rounding behind.
TableOf(s, name, channel, x) == ToWord(CurveEval(s, name, channel, Widened(x, "single")))
U16StageEval(s, name, channel, x) ==
    IF IsCurves(s) THEN TableOf(s, name, channel, x) ELSE OnWord(Builtin(s, name), x)

\* A word behind each of the stages of a run.
RunWords(ss, from, to, channel, x) ==
    LET y[k \in 0..(to - from + 1)] ==
            IF k = 0 THEN Widened(ToWord(x), "single")
            ELSE U16StageEval(ss[from + k - 1], from + k - 1, channel, y[k - 1])
    IN  y

-----------------------------------------------------------------------------
VARIABLES
    progress,   \* "build", "split", "ready", "entry", "stages", "done" or "panicked"
    link,       \* the pipeline, and the formats of its transform
    channel,    \* the channel looked at
    evaluator,  \* which OptimizedEval was built
    plan,       \* stages_16, as far as it is split
    at,         \* the next stage to split, or the next of the plan to evaluate
    pixels,     \* pixels of the call, and those of its finished tiles
    base,
    tile,       \* the scratch: cap_pixels, and how many words each buffer holds
    floats,
    words,
    number,     \* what every pixel of the tile has become
    results

fusedVars == <<progress, link, channel, evaluator, plan, at, pixels, base, tile, floats, words, number, results>>

FusedInit ==
    /\ progress = "build"
    /\ link \in Links
    /\ channel \in {1, 2}
    /\ evaluator = "pipeline"
    /\ plan = <<>> /\ at = 1
    /\ pixels = 0 /\ base = 0
    /\ tile = 0 /\ floats = 0 /\ words = 0
    /\ number = Entered(FALSE)
    /\ results = <<>>

callVars == <<pixels, base, number, results>>
scratchVars == <<tile, floats, words>>

\* OptimizationStrategy::accurate_fast
Build ==
    /\ progress = "build"
    /\ evaluator' = IF IsMatShaper(link) THEN "matshaper"
                    ELSE IF Batches(link) THEN "batched" ELSE "pipeline"
    /\ progress' = IF evaluator' = "batched" THEN "split" ELSE "ready"
    /\ UNCHANGED <<link, channel, plan, at, callVars, scratchVars>>

\* split_u16_runs: a run, or a stage by itself, at a time.
FuseRun ==
    /\ progress = "split" /\ at <= Len(link.stages)
    /\ StartsRun(link.stages, at)
    /\ plan' = Append(plan, Fused(at, RunEnd(link.stages, at)))
    /\ at' = RunEnd(link.stages, at) + 1
    /\ UNCHANGED <<progress, link, channel, evaluator, callVars, scratchVars>>

KeepStage ==
    /\ progress = "split" /\ at <= Len(link.stages)
    /\ ~StartsRun(link.stages, at)
    /\ plan' = Append(plan, Kept(link, at))
    /\ at' = at + 1
    /\ UNCHANGED <<progress, link, channel, evaluator, callVars, scratchVars>>

\* The float path goes by the unfused stages.
PlanDone ==
    /\ progress = "split" /\ at > Len(link.stages)
    /\ plan' = IF link.float THEN [k \in DOMAIN link.stages |-> Kept(link, k)] ELSE plan
    /\ progress' = "ready"
    /\ UNCHANGED <<link, channel, evaluator, at, callVars, scratchVars>>

\* MatShaperEval, and the pipeline in place: one pixel after the other.
MatShaperEval ==
    LET curved == InLut(link, channel)
        mixed == OnFloat(2, curved)
    IN  ToWord(CurveEval(link.stages[3], 3, channel, mixed))
ConvertInPlace(n) ==
    /\ progress = "ready" /\ evaluator # "batched"
    /\ pixels' = n
    /\ results' = [p \in 1..n |-> IF evaluator = "matshaper" THEN MatShaperEval
                                ELSE PixelEval(link, channel)]
    /\ progress' = "done"
    /\ UNCHANGED <<link, channel, evaluator, plan, at, base, number, scratchVars>>

\* do_transform_batched: prepare sizes the workspace to the call and to the widest
\* stage, and the buffers of words only for a call of words.
PrepareWorkspace(n) ==
    /\ progress = "ready" /\ evaluator = "batched"
    /\ pixels' = n
    /\ tile' = Min({n, Chunk})
    /\ floats' = tile' * MaxStageChannels(link)
    /\ words' = IF link.float THEN words ELSE tile' * MaxStageChannels(link)
    /\ progress' = "entry"
    /\ UNCHANGED <<link, channel, evaluator, plan, at, base, number, results>>

\* eval_16_buffer and eval_float_buffer: a scratch of their own, whole chunks wide.
OwnScratch(n) ==
    /\ progress = "ready" /\ evaluator = "batched"
    /\ pixels' = n
    /\ tile' = Chunk
    /\ floats' = Chunk * MaxChannels
    /\ words' = Chunk * MaxChannels
    /\ progress' = "entry"
    /\ UNCHANGED <<link, channel, evaluator, plan, at, base, number, results>>

\* The pixels of this tile, and whether so many of a width fit.
TilePixels == Min({pixels - base, tile, Chunk})
FitFloats(width) == TilePixels * width <= floats
FitWords(width) == TilePixels * width <= words
OrPanic(fits, next) == IF fits THEN next ELSE "panicked"

\* The input is widened, or looked up with the first curves.
EnterTile ==
    /\ progress = "entry" /\ base < pixels
    /\ LET luts == ~link.float /\ UsesInputLuts(link, plan)
       IN  /\ number' = IF luts THEN InLut(link, channel)
                        ELSE Entered(link.float)
           /\ at' = IF luts THEN 2 ELSE 1
    /\ progress' = OrPanic(FitFloats(link.inputs), "stages")
    /\ UNCHANGED <<link, channel, evaluator, plan, pixels, base, results, scratchVars>>

\* run_stage
EvalStage ==
    /\ progress = "stages" /\ at <= Len(plan) /\ plan[at].form # "run"
    /\ LET k == plan[at].from
           s == link.stages[k]
       IN  /\ number' = IF plan[at].form = "clut" THEN ClutEval(s, Builtin(s, k), number)
                        ELSE StageEval(s, k, channel, number)
           /\ progress' = OrPanic(FitFloats(s.out), "stages")
    /\ at' = at + 1
    /\ UNCHANGED <<link, channel, evaluator, plan, pixels, base, results, scratchVars>>

\* U16Run::eval: to words, stage after stage in words, and back.
EvalRun ==
    /\ progress = "stages" /\ at <= Len(plan) /\ plan[at].form = "run"
    /\ LET from == plan[at].from
           to == plan[at].to
           ss == link.stages
           last == RunWords(ss, from, to, channel, number)[to - from + 1]
       IN  /\ number' = Widened(last, "single")
           /\ progress' = OrPanic(/\ FitWords(ss[from].in)
                                  /\ \A k \in from..to : FitWords(ss[k].out)
                                  /\ FitFloats(ss[to].out), "stages")
    /\ at' = at + 1
    /\ UNCHANGED <<link, channel, evaluator, plan, pixels, base, results, scratchVars>>

\* The tile's results, rounded on the path of words.
LeaveTile ==
    /\ progress = "stages" /\ at > Len(plan)
    /\ results' = results \o [p \in 1..TilePixels |-> IF link.float THEN number ELSE ToWord(number)]
    /\ base' = base + TilePixels
    /\ progress' = "entry"
    /\ UNCHANGED <<link, channel, evaluator, plan, at, pixels, number, scratchVars>>

CallDone ==
    /\ progress = "entry" /\ base >= pixels
    /\ progress' = "done"
    /\ UNCHANGED <<link, channel, evaluator, plan, at, callVars, scratchVars>>

FusedNext ==
    \/ Build \/ FuseRun \/ KeepStage \/ PlanDone
    \/ \E n \in Counts : ConvertInPlace(n) \/ PrepareWorkspace(n) \/ OwnScratch(n)
    \/ EnterTile \/ EvalStage \/ EvalRun \/ LeaveTile \/ CallDone

FusedSpec == FusedInit /\ [][FusedNext]_fusedVars

-----------------------------------------------------------------------------
\* The strategy is lossless ("never changes an results bit versus Accurate"): whatever
\* the stages compute, every pixel comes out with the history the pipeline in place
\* gives it, and no buffer is too small for a stage, one hidden inside a run included.
FastPathLosesNothing ==
    /\ progress # "panicked"
    /\ progress = "done" => results = [p \in 1..pixels |-> PixelEval(link, channel)]
=============================================================================
