------------------------------ MODULE MCKernels ------------------------------
(***************************************************************************)
(* Instances of PixelFormats, Interpolation and FusedRuns for TLC.          *)
(*                                                                          *)
(* Pixels: every pair of TYPE_* formats of one colour space, with and       *)
(* without copied alpha, and every word of a set of sizes and flags against *)
(* itself.  CLUTs: scaled words 0..15 and floats in eighths, on grids whose *)
(* nodes do and do not lie on a word, from one to five channels.            *)
(***************************************************************************)
EXTENDS PixelFormats, Interpolation, FusedRuns, TLC

\* Full, none, and values between, each a byte's worth.
MCColour == ("R" :> 65535) @@ ("G" :> 0) @@ ("B" :> 32896) @@ ("A" :> 65278)
            @@ ("C" :> 257) @@ ("M" :> 65535) @@ ("Y" :> 0) @@ ("K" :> 32896)
            @@ ("V" :> 514) @@ ("L" :> 65535) @@ ("a" :> 0) @@ ("b" :> 257)
            @@ ("X" :> 65535) @@ ("Yxyz" :> 0) @@ ("Z" :> 257)

Inks(type) == Range(Letters[type[1]]) \ {"A"}
NamedJobs ==
    {[in |-> TYPE(a[1], a[2]), out |-> TYPE(b[1], b[2]), copyAlpha |-> alpha,
      pixel |-> NamedPixel(a, MCColour), inType |-> a, outType |-> b, colour |-> MCColour] :
        <<a, b, alpha>> \in {t \in TypeNames \X TypeNames \X BOOLEAN : Inks(t[1]) = Inks(t[2])}}

\* Samples that are no multiple of anything.
MCNumbers == <<65534, 1, 300, 40000, 128, 7, 513, 65535, 0>>
MCPixel(f) ==
    [p \in 1..Total(f) |->
        LET c == p - Start(f)
            n == MCNumbers[1 + (p % Len(MCNumbers))]
        IN  IF c \in 1..Channels(f) THEN Sample(IF Unit(f, c) = "u8" THEN n % 256 ELSE n, Unit(f, c))
            ELSE Sample(0, "of 1")]
Flags == {SumSet(s) : s \in SUBSET {doswap_sh, swapfirst_sh, flavor_sh}}
Words ==
    {d + colorspace_sh(c) + channels_sh(n) + extra_sh(e) + fl :
        d \in {1, 2, 2 + endian16_sh, 4 + float_sh, float_sh},
        c \in {PT.ANY, PT.CMYK, PT.LAB}, n \in {1, 2, 3, 5}, e \in {0, 1, 3}, fl \in Flags}
    \cup {channels_sh(14) + extra_sh(2) + 1}
\* Planar, premultiplied, without channels, with too many, three bytes, half floats.
Refused == {TYPE("RGB", "b8") + planar_sh, TYPE("RGBA", "b16") + premul_sh, colorspace_sh(PT.RGB) + 1,
            channels_sh(15) + extra_sh(2) + 1, channels_sh(3) + 3, channels_sh(3) + 2 + float_sh}
WordJobs == {[in |-> w, out |-> w, copyAlpha |-> alpha, pixel |-> MCPixel(w)] :
               w \in Words, alpha \in BOOLEAN}
            \cup {[in |-> w, out |-> w, copyAlpha |-> TRUE, pixel |-> <<>>] : w \in Refused}

MCJobs == NamedJobs \cup WordJobs

-----------------------------------------------------------------------------
MCOne == 16
MCF == 8
MCR == 4

Nodes(grid) == FoldLeft(LAMBDA x, y : x * y, 1, grid)
\* Extremes, and values in no order, so that every corner differs.
MCTable(grid, outputs, seed) ==
    [i \in 1..(Nodes(grid) * outputs) |->
       CASE seed = 0 -> (i * i * 7 + 3 * i) % MCOne
         [] seed = 1 -> IF (i * i + i \div 2) % 3 = 0 THEN 15 ELSE 0]
Job(grid, outputs, seed, float, trilinear, input) ==
    [grid |-> grid, outputs |-> outputs, table |-> MCTable(grid, outputs, seed),
     float |-> float, trilinear |-> trilinear, input |-> input]
Words1 == -1..16
Words3 == {0, 4, 5, 7, 11, 14, 15}
Words4 == {0, 6, 13, 15}
Floats1 == -1..9
Floats3 == {0, 1, 3, 4, 6, 7, 8}
Floats4 == {0, 5, 7, 8}
All(grids, outputs, float, trilinears, ins) ==
    {Job(g, o, s, float, t, i) : g \in grids, o \in outputs, s \in {0, 1}, t \in trilinears, i \in ins}
Tuples(n, s) == [1..n -> s]
MCLookUps ==
    All({<<1>>, <<2>>, <<4>>}, {1, 2}, FALSE, {FALSE}, Tuples(1, Words1))
    \cup All({<<2, 3>>, <<4, 2>>}, {1, 2}, FALSE, {FALSE}, Tuples(2, Words1))
    \cup All({<<2, 3, 2>>, <<3, 2, 4>>}, {2}, FALSE, BOOLEAN, Tuples(3, Words3))
    \cup All({<<2, 3, 2, 2>>}, {1}, FALSE, {FALSE}, Tuples(4, Words4))
    \cup All({<<1>>, <<2>>, <<4>>}, {1, 2}, TRUE, {FALSE}, Tuples(1, Floats1))
    \cup All({<<2, 3>>, <<4, 2>>}, {1, 2}, TRUE, {FALSE}, Tuples(2, Floats1))
    \cup All({<<2, 3, 2>>, <<3, 2, 4>>}, {2}, TRUE, BOOLEAN, Tuples(3, Floats3))
    \cup All({<<2, 3, 2, 2>>}, {1}, TRUE, {FALSE}, Tuples(4, Floats4))
    \cup All({<<2, 2, 3, 2, 2>>}, {1}, FALSE, {FALSE}, Tuples(5, {0, 6, 15}))
    \cup {Job(<<2, 2, 2, 2>>, 128, 0, FALSE, FALSE, <<0, 0, 0, 0>>)}

-----------------------------------------------------------------------------
(***************************************************************************)
(* Links for FusedRuns: every pipeline of up to three stages of             *)
(* eleven kinds whose widths chain, and longer ones of the kinds            *)
(* the runs turn on, for 8-bit, 16-bit and floating formats.                *)
(***************************************************************************)

Curves(n, segmented) == [kind |-> "curves", segmented |-> segmented, in |-> n, out |-> n]
Clut(in, out, table, custom) ==
    [kind |-> "clut", table |-> table, custom |-> custom, in |-> in, out |-> out]
Free(in, out, matrix) == [kind |-> "free", matrix |-> matrix, in |-> in, out |-> out]

Analytic == Curves(3, {1, 2, 3})
Mixed == Curves(3, {2})
Tables == Curves(3, {})
Grid == Clut(3, 3, "U16", FALSE)
Matrix == Free(3, 3, TRUE)
Conversion == Free(3, 3, FALSE)
Kinds == {Analytic, Mixed, Tables, Grid, Matrix, Conversion,
          Clut(3, 3, "F32", FALSE), Clut(3, 3, "U16", TRUE),
          Clut(3, 4, "U16", FALSE), Clut(4, 3, "U16", FALSE), Curves(4, {})}
Chains(ss) == \A k \in 1..(Len(ss) - 1) : ss[k].out = ss[k + 1].in

Pipelines ==
    {ss \in UNION {[1..n -> Kinds] : n \in 1..3} : Chains(ss)}
    \cup [1..4 -> {Analytic, Mixed, Tables, Grid, Matrix}]
    \cup [1..5 -> {Analytic, Tables, Grid, Matrix}]
    \cup {<<[kind |-> "identity", in |-> 3, out |-> 3], s, t>> : s, t \in {Tables, Grid, Matrix}}
    \* Too wide on the way, and wider on the way than at both ends.
    \cup {<<Clut(3, 9, "U16", FALSE), Clut(9, 3, "U16", FALSE)>>,
          <<Clut(3, 6, "U16", FALSE), Curves(6, {}), Clut(6, 3, "U16", FALSE)>>}
Of(ss, byte, float) ==
    [stages |-> ss, inputs |-> ss[1].in, outputs |-> Last(ss).out,
     formatIn |-> ss[1].in, formatOut |-> Last(ss).out, byteInput |-> byte, float |-> float]
MCLinks ==
    {Of(ss, f[1], f[2]) : ss \in Pipelines, f \in {<<TRUE, FALSE>>, <<FALSE, FALSE>>, <<FALSE, TRUE>>}}
    \cup {Of(ss, TRUE, TRUE) : ss \in [1..2 -> {Analytic, Grid}]}
    \* No stages, and a declared width that is not the last stage's.
    \cup {[Of(<<Matrix>>, FALSE, FALSE) EXCEPT !.stages = <<>>],
          [Of(<<Grid>>, FALSE, FALSE) EXCEPT !.outputs = 4]}
    \* Formats of another number of channels than the pipeline.
    \cup {[Of(<<Tables, Matrix, Analytic>>, TRUE, FALSE) EXCEPT !.formatIn = n[1], !.formatOut = n[2]]
            : n \in {<<4, 3>>, <<3, 4>>}}

-----------------------------------------------------------------------------
\* One machine runs in a behaviour, the others have stopped.
NoPixel == job = [in |-> 0] /\ stage = "idle" /\ values = <<>> /\ output = <<>>
NoLookUp == lookUp = [float |-> FALSE] /\ phase = "idle" /\ kernel = "none" /\ result = <<>>
NoLink ==
    /\ progress = "idle" /\ link = [stages |-> <<>>, float |-> FALSE]
    /\ channel = 1 /\ evaluator = "none" /\ plan = <<>> /\ at = 1
    /\ pixels = 0 /\ base = 0 /\ number = <<>> /\ results = <<>>
    /\ tile = 0 /\ floats = 0 /\ words = 0
KernelsInit ==
    \/ PixelInit /\ NoLookUp /\ NoLink
    \/ InterpInit /\ NoPixel /\ NoLink
    \/ FusedInit /\ NoPixel /\ NoLookUp
KernelsNext ==
    \/ PixelNext /\ UNCHANGED <<interpVars, fusedVars>>
    \/ InterpNext /\ UNCHANGED <<pixelVars, fusedVars>>
    \/ FusedNext /\ UNCHANGED <<pixelVars, interpVars>>
KernelsSpec == KernelsInit /\ [][KernelsNext]_<<pixelVars, interpVars, fusedVars>>
=============================================================================
