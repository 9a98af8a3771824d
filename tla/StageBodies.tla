----------------------------- MODULE StageBodies -----------------------------
(***************************************************************************)
(* Curves and pipelines in tag bodies: curv, para and vcgt, the 16-bit and  *)
(* 8-bit tables, mAB, mBA and mpet.  Written by profile/serialize.rs, read  *)
(* by profile/types/curve.rs, types/lut.rs and types/mpe.rs.                *)
(*                                                                          *)
(* A fixed-point number is its raw value, a floating-point one its bits.    *)
(* Three entries stand for the 256 of an 8-bit table and of a vcgt table,   *)
(* and for the 4096 a curve is sampled at.                                  *)
(***************************************************************************)
EXTENDS TextBodies

One == 65536
Entries == 3
MaxChannels == 16

\* A segment: sampled (type 0) or a formula, up to its break.
PlusInf == 99999
MinusInf == 0
Formula(type, params) == [type |-> type, x1 |-> PlusInf, params |-> params, samples |-> <<>>]
Sampled(samples) == [type |-> 0, x1 |-> PlusInf, params |-> <<>>, samples |-> samples]

\* build_segmented samples the segments, an identity at its two ends.  What a
\* formula evaluates to is a number of its own.
Identity == <<0, 65535>>
TableOf(segments) ==
    IF Len(segments) = 1 /\ segments[1] = Formula(1, <<One>>) THEN Identity
    ELSE [k \in 1..Entries |-> 1000 * Len(segments) + 100 * segments[1].type + k]

Tabulated(table) == [segments |-> <<>>, table |-> table]
Segmented(segments) == [segments |-> segments, table |-> TableOf(segments)]
Parametric(type, params) == Segmented(<<Formula(type, params)>>)
Gamma(gamma) == Parametric(1, <<gamma>>)

\* U8Fixed8 of a number held as s15Fixed16, and back.
U8Fixed8(raw) == (raw + 128) \div 256
FromU8Fixed8(fixed) == fixed * 256

FromByte(byte) == 257 * byte   \* from_8_to_16

-----------------------------------------------------------------------------
ParamCounts == <<1, 3, 4, 5, 7>>   \* ICC types 0 to 4, here 1 to 5

IsGamma(curve) == Len(curve.segments) = 1 /\ curve.segments[1].type = 1

WriteCurv(curve) ==
    IF IsGamma(curve)
    THEN U32(1) \o U16(U8Fixed8(curve.segments[1].params[1]))
    ELSE U32(Len(curve.table)) \o Numbers(curve.table, 2)

CanWritePara(curve) == Len(curve.segments) = 1 /\ curve.segments[1].type \in 1..5

WritePara(curve) ==
    LET segment == curve.segments[1]
    IN  U16(segment.type - 1) \o U16(0)
        \o Numbers(SubSeq(segment.params, 1, ParamCounts[segment.type]), 4)

MaxCurveEntries == 32767
ReadCurv(file, at) ==
    Then(ReadNumber(file, at, 4), LAMBDA count, here :
        CASE count = 0 -> Got(Gamma(One), here)
          [] count = 1 -> As(ReadNumber(file, here, 2), LAMBDA fixed : Gamma(FromU8Fixed8(fixed)))
          [] count > MaxCurveEntries -> Failed
          [] OTHER -> As(ReadNumbers(file, here, count, 2), Tabulated))

ReadPara(file, at) ==
    Then(ReadNumbers(file, at, 2, 2), LAMBDA head, here :
        Unless(head[1] > 4,
               As(ReadNumbers(file, here, ParamCounts[head[1] + 1], 4),
                  LAMBDA params : Parametric(head[1] + 1, params))))

-----------------------------------------------------------------------------
\* powf on whole numbers: gammas of 1 and 2, and its inverse.
Power(x, gamma) == IF gamma = One THEN x ELSE (x \div 256) * (x \div 256)
Root(y, gamma) == CHOOSE x \in {k * One : k \in 0..16} : Power(x, gamma) = y

\* A curve at `Entries` evenly spaced points.
Resampled(table) ==
    IF table = Identity
    THEN [j \in 1..Entries |-> (2 * 65535 * (j - 1) + Entries - 1) \div (2 * (Entries - 1))]
    ELSE table

IsFormula5(curve) == Len(curve.segments) = 1 /\ curve.segments[1].type = 5

VcgtTable == 0
VcgtFormula == 1
WriteVcgt(curves) ==
    LET formula(p) == <<p[1], p[6], Power(p[2], p[1]) + p[6]>>   \* gamma, min, max
    IN  IF \A i \in 1..3 : IsFormula5(curves[i])
        THEN U32(VcgtFormula)
             \o FlattenSeq([i \in 1..3 |-> Numbers(formula(curves[i].segments[1].params), 4)])
        ELSE U32(VcgtTable) \o U16(3) \o U16(Entries) \o U16(2)
             \o FlattenSeq([i \in 1..3 |-> Numbers(Resampled(curves[i].table), 2)])

\* A table of words that some profiles declare as bytes is known by its size.
MislabelledSize == 10 + 3 * 2 * Entries + 30

ReadVcgtTable(file, at, size) ==
    LET width(head) == IF head[2] = Entries /\ head[3] = 1 /\ size = MislabelledSize
                       THEN 2 ELSE head[3]
        words(ns, bytes) == [j \in DOMAIN ns |-> IF bytes = 1 THEN FromByte(ns[j]) ELSE ns[j]]
        tables(n, bytes, here) ==
            As(InTurn(3, here, LAMBDA i, next : ReadNumbers(file, next, n, bytes)),
               LAMBDA ts : [i \in 1..3 |-> Tabulated(words(ts[i], bytes))])
    IN  Then(ReadNumbers(file, at, 3, 2), LAMBDA head, here :
            Unless(head[1] # 3 \/ width(head) \notin {1, 2}, tables(head[2], width(head), here)))

ReadVcgt(file, at, size) ==
    LET curve(f) == Parametric(5, <<f[1], Root(f[3] - f[2], f[1]), 0, 0, 0, f[2], 0>>)
    IN  Then(ReadNumber(file, at, 4), LAMBDA type, here :
            CASE type = VcgtTable -> ReadVcgtTable(file, here, size)
              [] type = VcgtFormula ->
                     As(InTurn(3, here, LAMBDA i, next : ReadNumbers(file, next, 3, 4)),
                        LAMBDA fs : [i \in 1..3 |-> curve(fs[i])])
              [] OTHER -> Failed)

\* Two counted tables, and what is left of the tag is the description.
ReadUcrBg(file, at, size) ==
    LET counted(here, left) ==
            Unless(left < 4, Then(ReadNumber(file, here, 4), LAMBDA n, next :
                Unless(left - 4 < 2 * n, ReadNumbers(file, next, n, 2))))
        text(ucr, bg, here) ==
            LET rest == size - 8 - 2 * Len(ucr) - 2 * Len(bg)
            IN  Unless(rest > 32000, As(ReadAscii(file, here, rest),
                                        LAMBDA desc : [ucr |-> ucr, bg |-> bg, desc |-> desc]))
    IN  Then(counted(at, size), LAMBDA ucr, here :
            Then(counted(here, size - 4 - 2 * Len(ucr)), LAMBDA bg, next : text(ucr, bg, next)))

-----------------------------------------------------------------------------
\* The stages of a pipeline.  No offset is the empty sequence.
CurveSet(curves) == [kind |-> "curves", curves |-> curves]
MatrixStage(rows, cols, m, offset) ==
    [kind |-> "matrix", rows |-> rows, cols |-> cols, m |-> m, offset |-> offset]
ClutStage(grid, outputs, float, table) ==
    [kind |-> "clut", grid |-> grid, outputs |-> outputs, float |-> float, table |-> table]
Lut(inputs, outputs, stages) == [inputs |-> inputs, outputs |-> outputs, stages |-> stages]

Inputs(stage) == CASE stage.kind = "curves" -> Len(stage.curves)
                   [] stage.kind = "matrix" -> stage.cols
                   [] stage.kind = "clut"   -> Len(stage.grid)
Outputs(stage) == CASE stage.kind = "curves" -> Len(stage.curves)
                    [] stage.kind = "matrix" -> stage.rows
                    [] stage.kind = "clut"   -> stage.outputs

\* insert_stage_at_end: every stage takes what the one before it gives.
Joined(stages) == \A i \in 1..(Len(stages) - 1) : Outputs(stages[i]) = Inputs(stages[i + 1])

Assembled(inputs, outputs, stages) ==
    Then(stages, LAMBDA parts, at :
        LET all == FlattenSeq(parts)
        IN  Unless(~Joined(all), Got(Lut(inputs, outputs, all), at)))

Product(ns) == FoldLeft(LAMBDA n, m : n * m, 1, ns)

IdentityMatrix == <<One, 0, 0, 0, One, 0, 0, 0, One>>
\* Within one part in 65535 of the identity.
IsIdentityMatrix(m) == \A i \in 1..9 : m[i] - IdentityMatrix[i] \in -1..1

-----------------------------------------------------------------------------
\* mft2: at most one stage of each kind, in this order.
Lut16Kinds == <<"matrix", "curves", "clut", "curves">>

Disassembled(stages) ==
    FoldLeft(LAMBDA done, kind :
                 IF done.rest # <<>> /\ Head(done.rest).kind = kind
                 THEN [parts |-> Append(done.parts, <<Head(done.rest)>>), rest |-> Tail(done.rest)]
                 ELSE [done EXCEPT !.parts = Append(@, <<>>)],
             [parts |-> <<>>, rest |-> stages], Lut16Kinds)

IsUniform(grid) == \A i \in DOMAIN grid : grid[i] = grid[1]

CanWriteLut16(lut) ==
    LET parts == Disassembled(lut.stages).parts
    IN  /\ Disassembled(lut.stages).rest = <<>>
        /\ \A s \in ToSet(parts[1]) : s.rows = 3 /\ s.cols = 3
        /\ \A s \in ToSet(parts[3]) : IsUniform(s.grid) /\ ~s.float

\* The number of entries is that of the first curve; without curves, ramps.
EntriesOf(part) == IF part = <<>> THEN Len(Identity) ELSE Len(part[1].curves[1].table)
TablesOf(part, channels) ==
    IF part = <<>> THEN FlattenSeq([i \in 1..channels |-> Numbers(Identity, 2)])
    ELSE FlattenSeq([i \in DOMAIN part[1].curves |-> Numbers(part[1].curves[i].table, 2)])

WriteLut16(lut) ==
    LET parts  == Disassembled(lut.stages).parts
        points == IF parts[3] = <<>> THEN 0 ELSE parts[3][1].grid[1]
        matrix == IF parts[1] = <<>> THEN IdentityMatrix ELSE parts[1][1].m
    IN  U8(lut.inputs) \o U8(lut.outputs) \o U8(points) \o U8(0)
        \o Numbers(matrix, 4)
        \o U16(EntriesOf(parts[2])) \o U16(EntriesOf(parts[4]))
        \o TablesOf(parts[2], lut.inputs)
        \o (IF points = 0 THEN <<>> ELSE Numbers(parts[3][1].table, 2))
        \o TablesOf(parts[4], lut.outputs)

ReadLutMatrix(file, at, inputs) ==
    As(ReadNumbers(file, at, 9, 4),
       LAMBDA m : IF inputs = 3 /\ ~IsIdentityMatrix(m) THEN <<MatrixStage(3, 3, m, <<>>)>> ELSE <<>>)

ReadTables(file, at, channels, entries) ==
    CASE entries = 0 -> Got(<<>>, at)
      [] entries = 1 -> Failed
      [] OTHER -> As(InTurn(channels, at, LAMBDA i, here : ReadNumbers(file, here, entries, 2)),
                     LAMBDA ts : <<CurveSet([i \in DOMAIN ts |-> Tabulated(ts[i])])>>)

ReadByteTables(file, at, channels) ==
    As(InTurn(channels, at, LAMBDA i, here : ReadNumbers(file, here, Entries, 1)),
       LAMBDA ts : <<CurveSet([i \in DOMAIN ts |-> Tabulated([j \in 1..Entries |-> FromByte(ts[i][j])])])>>)

\* A grid of 0 points is no table; 8-bit nodes widen.
ReadUniformClut(file, at, points, inputs, outputs, width) ==
    LET grid == [i \in 1..inputs |-> points]
    IN  IF inputs = MaxChannels THEN Failed
        ELSE IF points = 0 THEN Got(<<>>, at)
        ELSE As(ReadNumbers(file, at, outputs * Product(grid), width),
                LAMBDA ns : <<ClutStage(grid, outputs, FALSE,
                                   [j \in DOMAIN ns |-> IF width = 1 THEN FromByte(ns[j]) ELSE ns[j]])>>)

LutHeader(file, at) == ReadNumbers(file, at, 4, 1)
LutHeaderFits(head) ==
    head[1] \in 1..MaxChannels /\ head[2] \in 1..MaxChannels /\ head[3] # 1

ReadLut8(file, at) ==
    LET part(i, here, inputs, outputs, points) ==
            CASE i = 1 -> ReadLutMatrix(file, here, inputs)
              [] i = 2 -> ReadByteTables(file, here, inputs)
              [] i = 3 -> ReadUniformClut(file, here, points, inputs, outputs, 1)
              [] i = 4 -> ReadByteTables(file, here, outputs)
    IN  Then(LutHeader(file, at), LAMBDA head, here :
            Unless(~LutHeaderFits(head),
                Assembled(head[1], head[2],
                    InTurn(4, here, LAMBDA i, next : part(i, next, head[1], head[2], head[3])))))

ReadLut16(file, at) ==
    LET part(i, here, head, entries) ==
            CASE i = 1 -> ReadTables(file, here, head[1], entries[1])
              [] i = 2 -> ReadUniformClut(file, here, head[3], head[1], head[2], 2)
              [] i = 3 -> ReadTables(file, here, head[2], entries[2])
        parts(head, matrix, here) ==
            Then(ReadNumbers(file, here, 2, 2), LAMBDA entries, next :
                Unless(entries[1] > MaxCurveEntries \/ entries[2] > MaxCurveEntries,
                    As(InTurn(3, next, LAMBDA i, k : part(i, k, head, entries)),
                       LAMBDA stages : <<matrix>> \o stages)))
    IN  Then(LutHeader(file, at), LAMBDA head, here :
            Unless(~LutHeaderFits(head),
                Assembled(head[1], head[2],
                    Then(ReadLutMatrix(file, here, head[1]),
                         LAMBDA matrix, next : parts(head, matrix, next)))))

=============================================================================
