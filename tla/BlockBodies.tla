----------------------------- MODULE BlockBodies -----------------------------
(***************************************************************************)
(* Tag bodies made of blocks at patched offsets: mAB and mBA, whose five    *)
(* blocks are found by role, and mpet, whose elements carry signatures.     *)
(* Written by profile/serialize.rs, read by types/lut.rs and types/mpe.rs.  *)
(***************************************************************************)
EXTENDS StageBodies

\* The roles of the stages of an mAB, by their kinds; an mBA has them backwards.
A2BRoles(kinds) ==
    CASE kinds = <<"curves">> -> <<"B">>
      [] kinds = <<"curves", "matrix", "curves">> -> <<"M", "X", "B">>
      [] kinds = <<"curves", "clut", "curves">> -> <<"A", "C", "B">>
      [] kinds = <<"curves", "clut", "curves", "matrix", "curves">> -> <<"A", "C", "M", "X", "B">>
      [] OTHER -> <<>>

Kinds(stages) == [i \in DOMAIN stages |-> stages[i].kind]
RolesOf(type, stages) ==
    IF type = "mAB" THEN A2BRoles(Kinds(stages)) ELSE Reverse(A2BRoles(Reverse(Kinds(stages))))

-----------------------------------------------------------------------------
\* In a set, a curve is a table when it has no segments, when it is a table
\* between two extensions, or an inverse; any other must be one formula.
UsesCurv(curve) ==
    LET segments == curve.segments
    IN  \/ segments = <<>>
        \/ Len(segments) = 3 /\ segments[2].type = 0
        \/ segments # <<>> /\ segments[1].type < 0

CanWriteSetOfCurves(curves) ==
    \A curve \in ToSet(curves) : UsesCurv(curve) \/ CanWritePara(curve)

WriteSetOfCurves(curves) ==
    FlattenSeq([i \in DOMAIN curves |->
        Padded(IF UsesCurv(curves[i]) THEN TypeBase("curv") \o WriteCurv(curves[i])
                                      ELSE TypeBase("para") \o WritePara(curves[i]))])

GridPoints(grid) == grid \o Zeros(MaxChannels - Len(grid))

WriteClutBlock(clut) ==
    Padded(GridPoints(clut.grid) \o U8(2) \o Zeros(3) \o Numbers(clut.table, 2))

OffsetOf(matrix) == IF matrix.offset = <<>> THEN Zeros(matrix.rows) ELSE matrix.offset

WriteMatrixBlock(matrix) == Numbers(matrix.m \o OffsetOf(matrix), 4)

CanWriteBlock(stage) ==
    CASE stage.kind = "curves" -> CanWriteSetOfCurves(stage.curves)
      [] stage.kind = "clut"   -> ~stage.float
      [] stage.kind = "matrix" -> TRUE

WriteBlock(stage) ==
    CASE stage.kind = "curves" -> WriteSetOfCurves(stage.curves)
      [] stage.kind = "clut"   -> WriteClutBlock(stage)
      [] stage.kind = "matrix" -> WriteMatrixBlock(stage)

WriteOrder == <<"A", "C", "M", "X", "B">>
OffsetOrder == <<"B", "X", "M", "C", "A">>
OffsetsEnd == BaseLength + 4 + 4 * Len(OffsetOrder)

CanWriteMab(type, lut) ==
    /\ RolesOf(type, lut.stages) # <<>>
    /\ \A stage \in ToSet(lut.stages) : CanWriteBlock(stage)

\* Mutant: the offsets in the order the blocks are written in.
WriteMabOffsetsAsWritten(type, lut) ==
    LET roles == RolesOf(type, lut.stages)
        block == [role \in ToSet(WriteOrder) |->
                     IF Contains(roles, role)
                     THEN WriteBlock(lut.stages[SelectInSeq(roles, LAMBDA r : r = role)]) ELSE <<>>]
        before(role) == FlattenSeq([i \in 1..(SelectInSeq(WriteOrder, LAMBDA r : r = role) - 1) |->
                                       block[WriteOrder[i]]])
        offset(role) == IF Contains(roles, role) THEN OffsetsEnd + Len(before(role)) ELSE 0
    IN  U8(lut.inputs) \o U8(lut.outputs) \o U16(0)
        \o Numbers([i \in 1..5 |-> offset(WriteOrder[i])], 4)
        \o FlattenSeq([i \in 1..5 |-> block[WriteOrder[i]]])

\* A block that is not there has offset 0; the others count from the type base.
WriteMab(type, lut) ==
    LET roles == RolesOf(type, lut.stages)
        block == [role \in ToSet(WriteOrder) |->
                     IF Contains(roles, role)
                     THEN WriteBlock(lut.stages[SelectInSeq(roles, LAMBDA r : r = role)]) ELSE <<>>]
        before(role) == FlattenSeq([i \in 1..(SelectInSeq(WriteOrder, LAMBDA r : r = role) - 1) |->
                                       block[WriteOrder[i]]])
        offset(role) == IF Contains(roles, role) THEN OffsetsEnd + Len(before(role)) ELSE 0
    IN  U8(lut.inputs) \o U8(lut.outputs) \o U16(0)
        \o Numbers([i \in 1..5 |-> offset(OffsetOrder[i])], 4)
        \o FlattenSeq([i \in 1..5 |-> block[WriteOrder[i]]])

-----------------------------------------------------------------------------
ReadEmbeddedCurve(file, at) ==
    LET aligned(curve, end) == Unless(Aligned(end) > Len(file), Got(curve, Aligned(end)))
    IN  Then(ReadNumbers(file, at, 2, 4), LAMBDA base, here :
            Then(CASE base[1] = SigNumber("curv") -> ReadCurv(file, here)
                   [] base[1] = SigNumber("para") -> ReadPara(file, here)
                   [] OTHER -> Failed, aligned))

ReadSetOfCurves(file, at, channels) ==
    As(InTurn(channels, at, LAMBDA i, here : ReadEmbeddedCurve(file, here)),
       LAMBDA curves : <<CurveSet(curves)>>)

\* Whatever the channels, three by three and three.
ReadMatrixBlock(file, at) ==
    As(ReadNumbers(file, at, 12, 4),
       LAMBDA ns : <<MatrixStage(3, 3, SubSeq(ns, 1, 9), SubSeq(ns, 10, 12))>>)

\* granular_clut_entries: every axis has two nodes or more.
GridFits(grid) == \A n \in ToSet(grid) : n > 1

ReadClutBlock(file, at, inputs, outputs) ==
    LET clut(grid, width, here) ==
            Unless(~GridFits(grid) \/ width \notin {1, 2},
                As(ReadNumbers(file, here, outputs * Product(grid), width),
                   LAMBDA ns : <<ClutStage(grid, outputs, FALSE,
                       [j \in DOMAIN ns |-> IF width = 1 THEN FromByte(ns[j]) ELSE ns[j]])>>))
    IN  Then(ReadBytes(file, at, MaxChannels + 4), LAMBDA head, here :
            Unless(Contains(SubSeq(head, 1, MaxChannels), 1),
                   clut(SubSeq(head, 1, inputs), head[MaxChannels + 1], here)))

\* The curves before the table of an mAB and behind that of an mBA are as many
\* as its inputs and outputs; the others are as many as the PCS has channels.
ChannelsOf(type, role, inputs, outputs) ==
    IF (type = "mAB") = (role = "A") THEN inputs ELSE outputs

ReadMab(type, file, at) ==
    LET order == IF type = "mAB" THEN WriteOrder ELSE OffsetOrder
        block(role, start, inputs, outputs) ==
            CASE role = "C" -> ReadClutBlock(file, start, inputs, outputs)
              [] role = "X" -> ReadMatrixBlock(file, start)
              [] OTHER -> ReadSetOfCurves(file, start, ChannelsOf(type, role, inputs, outputs))
        part(role, here, head) ==
            LET offset == head[3 + SelectInSeq(OffsetOrder, LAMBDA r : r = role)]
            IN  IF offset = 0 THEN Got(<<>>, here)
                ELSE block(role, at - BaseLength + offset, head[1], head[2])
    IN  Then(ReadFields(file, at, <<1, 1, 2, 4, 4, 4, 4, 4>>), LAMBDA head, here :
            Unless({head[1], head[2]} \ 1..(MaxChannels - 1) # {},
                Assembled(head[1], head[2],
                    InTurn(5, here, LAMBDA i, next : part(order[i], next, head)))))

-----------------------------------------------------------------------------
\* The signatures inside an mpet.
ElementSigs == <<"curves", "matrix", "clut", "bACS", "eACS", "curf", "parf", "samf">>
ElementSig(name) == 100 + SelectInSeq(ElementSigs, LAMBDA s : s = name)

MpeParamCounts == <<4, 5, 5>>   \* types 6 to 8

CanWriteSegmented(curve) ==
    curve.segments # <<>> /\ \A s \in ToSet(curve.segments) : s.type \in {0, 6, 7, 8}

\* The first point of a sampled segment is implied and not written.
WriteSegment(segment) ==
    IF segment.type = 0
    THEN U32(ElementSig("samf")) \o U32(0) \o U32(Len(segment.samples) - 1)
         \o Numbers(Tail(segment.samples), 4)
    ELSE U32(ElementSig("parf")) \o U32(0) \o U16(segment.type - 6) \o U16(0)
         \o Numbers(segment.params, 4)

WriteSegmentedCurve(curve) ==
    LET segments == curve.segments
    IN  U32(ElementSig("curf")) \o U32(0) \o U16(Len(segments)) \o U16(0)
        \o Numbers([i \in 1..(Len(segments) - 1) |-> segments[i].x1], 4)
        \o FlattenSeq([i \in DOMAIN segments |-> WriteSegment(segments[i])])

CanWriteElement(stage) ==
    CASE stage.kind = "curves" -> \A curve \in ToSet(stage.curves) : CanWriteSegmented(curve)
      [] stage.kind = "matrix" -> TRUE
      [] stage.kind = "clut"   -> stage.float

WriteElement(stage) ==
    CASE stage.kind = "curves" ->
           WithPositionTable(U16(Len(stage.curves)) \o U16(Len(stage.curves)),
               [i \in DOMAIN stage.curves |-> WriteSegmentedCurve(stage.curves[i])])
      [] stage.kind = "matrix" ->
           U16(stage.cols) \o U16(stage.rows) \o Numbers(stage.m \o OffsetOf(stage), 4)
      [] stage.kind = "clut" ->
           U16(Len(stage.grid)) \o U16(stage.outputs) \o GridPoints(stage.grid)
           \o Numbers(stage.table, 4)

CanWriteMpe(lut) == \A stage \in ToSet(lut.stages) : CanWriteElement(stage)

WriteMpe(lut) ==
    WithPositionTable(U16(lut.inputs) \o U16(lut.outputs) \o U32(Len(lut.stages)),
        [i \in DOMAIN lut.stages |->
            Padded(U32(ElementSig(lut.stages[i].kind)) \o U32(0) \o WriteElement(lut.stages[i]))])

-----------------------------------------------------------------------------
ReadSegment(file, at) ==
    LET formula(head, here) ==
            Unless(head[1] > 2,
                As(ReadNumbers(file, here, MpeParamCounts[head[1] + 1], 4),
                   LAMBDA params : Formula(head[1] + 6, params)))
        sampled(count, here) ==
            As(ReadNumbers(file, here, count, 4), LAMBDA samples : Sampled(<<MinusInf>> \o samples))
    IN  Then(ReadNumbers(file, at, 2, 4), LAMBDA head, here :
            CASE head[1] = ElementSig("parf") -> Then(ReadNumbers(file, here, 2, 2), formula)
              [] head[1] = ElementSig("samf") -> Then(ReadNumber(file, here, 4), sampled)
              [] OTHER -> Failed)

\* build_mpe_segmented: the implied point is where the segment before ends.
LastValue(segment) == IF segment.type = 0 THEN Last(segment.samples) ELSE segment.params[1]
Implied(segments) ==
    [i \in DOMAIN segments |->
        IF segments[i].type = 0
        THEN [segments[i] EXCEPT !.samples[1] = IF i = 1 THEN MinusInf ELSE LastValue(segments[i - 1])]
        ELSE segments[i]]

ReadSegmentedCurve(file, at) ==
    LET broken(ss, breaks) ==
            [i \in DOMAIN ss |-> [ss[i] EXCEPT !.x1 = IF i < Len(ss) THEN breaks[i] ELSE PlusInf]]
        segments(n, breaks, here) ==
            As(InTurn(n, here, LAMBDA i, next : ReadSegment(file, next)),
               LAMBDA ss : Segmented(Implied(broken(ss, breaks))))
    IN  Then(ReadFields(file, at, <<4, 4, 2, 2>>), LAMBDA head, here :
            Unless(head[1] # ElementSig("curf") \/ head[3] < 1,
                Then(ReadNumbers(file, here, head[3] - 1, 4),
                     LAMBDA breaks, next : segments(head[3], breaks, next))))

ReadMpeCurve(file, at) ==
    Then(ReadNumbers(file, at, 2, 2), LAMBDA channels, here :
        Unless(channels[1] # channels[2],
            As(ReadAtPositions(file, here, at - BaseLength, channels[1],
                               LAMBDA next, len : ReadSegmentedCurve(file, next)),
               LAMBDA curves : <<CurveSet(curves)>>)))

ReadMpeMatrix(file, at) ==
    LET matrix(cols, rows, here) ==
            As(ReadNumbers(file, here, rows * cols + rows, 4),
               LAMBDA ns : <<MatrixStage(rows, cols, SubSeq(ns, 1, rows * cols),
                                         SubSeq(ns, rows * cols + 1, rows * cols + rows))>>)
    IN  Then(ReadNumbers(file, at, 2, 2), LAMBDA channels, here :
            Unless(channels[1] >= MaxChannels \/ channels[2] >= MaxChannels,
                   matrix(channels[1], channels[2], here)))

ReadMpeClut(file, at) ==
    LET clut(grid, outputs, here) ==
            Unless(~GridFits(grid),
                As(ReadNumbers(file, here, outputs * Product(grid), 4),
                   LAMBDA ns : <<ClutStage(grid, outputs, TRUE, ns)>>))
    IN  Then(ReadFields(file, at, <<2, 2>> \o [i \in 1..MaxChannels |-> 1]), LAMBDA head, here :
            Unless({head[1], head[2]} \ 1..(MaxChannels - 1) # {},
                   clut(SubSeq(head, 3, 2 + head[1]), head[2], here)))

ReadMpeElement(file, at) ==
    Then(ReadNumbers(file, at, 2, 4), LAMBDA head, here :
        CASE head[1] = ElementSig("curves") -> ReadMpeCurve(file, here)
          [] head[1] = ElementSig("matrix") -> ReadMpeMatrix(file, here)
          [] head[1] = ElementSig("clut")   -> ReadMpeClut(file, here)
          [] head[1] \in {ElementSig("bACS"), ElementSig("eACS")} -> Got(<<>>, here)
          [] OTHER -> Failed)

ReadMpe(file, at) ==
    Then(ReadFields(file, at, <<2, 2, 4>>), LAMBDA head, here :
        Unless({head[1], head[2]} \ 1..(MaxChannels - 1) # {},
            Assembled(head[1], head[2],
                ReadAtPositions(file, here, at - BaseLength, head[3],
                                LAMBDA next, len : ReadMpeElement(file, next)))))

=============================================================================
