----------------------------- MODULE PlainBodies -----------------------------
(***************************************************************************)
(* The tag types that hold numbers, bytes and names, and the tables that    *)
(* find the writer and the reader of every type (serialize.rs:              *)
(* write_tag_body_in, types/mod.rs: read_tag_value_in).                     *)
(***************************************************************************)
EXTENDS BlockBodies

\* Types with a fixed layout: the widths of their numbers.
Times(n, width) == [i \in 1..n |-> width]
Layout(type) ==
    CASE type = "XYZ"  -> Times(3, 4)
      [] type = "sig"  -> Times(1, 4)
      [] type = "dtim" -> Times(6, 2)
      [] type = "meas" -> Times(7, 4)   \* observer, backing, geometry, flare, illuminant
      [] type = "view" -> Times(7, 4)   \* illuminant, surround, illuminant type
      [] type = "cicp" -> Times(4, 1)
FixedTypes == {"XYZ", "sig", "dtim", "meas", "view", "cicp"}

WriteFixed(type, value) ==
    FlattenSeq([i \in DOMAIN value |-> BigEndian(value[i], Layout(type)[i])])

\* Types that are words up to their end.
WordTypes == {"sf32", "uf32", "ui32"}

WriteChromaticity(xys) == U16(3) \o U16(0) \o Numbers(xys, 4)

\* A channel count of 0 in 32 bytes is an old writer's: the count follows.
ReadChromaticity(file, at, size) ==
    Then(ReadNumber(file, at, 2), LAMBDA count, here :
        Then(IF count = 0 /\ size = 32 THEN ReadNumber(file, at + 4, 2) ELSE Got(count, here),
             LAMBDA real, next :
                 Unless(real # 3, Then(ReadNumber(file, next, 2),
                                       LAMBDA table, xys : ReadNumbers(file, xys, 6, 4)))))

ReadData(file, at, size) ==
    Unless(size < 4, Then(ReadNumber(file, at, 4), LAMBDA flag, here :
        As(ReadBytes(file, here, size - 4), LAMBDA data : [flag |-> flag, data |-> data])))

ReadColorantOrder(file, at) ==
    Then(ReadNumber(file, at, 4), LAMBDA count, here :
        Unless(count > MaxChannels, ReadBytes(file, here, count)))

-----------------------------------------------------------------------------
NameLength == 32

\* Latin-1, one byte a character; what does not fit is cut.
NameField(name) == [i \in 1..NameLength |-> IF i <= Len(name) THEN name[i] ELSE 0]
CanWriteColorants(entries) ==
    \A entry \in ToSet(entries) : \A i \in 1..NameLength : NameField(entry.name)[i] <= 255

WriteColorantTable(entries) ==
    U32(Len(entries)) \o
    FlattenSeq([i \in DOMAIN entries |-> NameField(entries[i].name) \o Numbers(entries[i].pcs, 2)])

\* A name, three words, and as many device coordinates as the list has.
ReadNamed(file, at, coordinates) ==
    Then(ReadAscii(file, at, NameLength), LAMBDA name, here :
        As(ReadNumbers(file, here, 3 + coordinates, 2),
           LAMBDA ns : [name |-> name, pcs |-> SubSeq(ns, 1, 3),
                        device |-> SubSeq(ns, 4, 3 + coordinates)]))

ReadColorantTable(file, at) ==
    Then(ReadNumber(file, at, 4), LAMBDA count, here :
        Unless(count > MaxChannels, InTurn(count, here, LAMBDA i, next :
            As(ReadNamed(file, next, 0), LAMBDA c : [name |-> c.name, pcs |-> c.pcs]))))

ReadNamedColor2(file, at) ==
    LET colors(vendor_flag, count, coordinates, affixes, here) ==
            Unless(coordinates > MaxChannels,
                As(InTurn(count, here, LAMBDA i, next : ReadNamed(file, next, coordinates)),
                   LAMBDA cs : [vendor_flag |-> vendor_flag, colorant_count |-> coordinates,
                                prefix |-> affixes[1], suffix |-> affixes[2], colors |-> cs]))
    IN  Then(ReadNumbers(file, at, 3, 4), LAMBDA head, here :
            Then(InTurn(2, here, LAMBDA i, next : ReadAscii(file, next, NameLength)),
                 LAMBDA affixes, next : colors(head[1], head[2], head[3], affixes, next)))

\* More channels than there may be are not read.
ReadScreening(file, at) ==
    LET channels(flag, count, here) ==
            As(InTurn(IF count > MaxChannels - 1 THEN MaxChannels - 1 ELSE count, here,
                      LAMBDA i, next : ReadNumbers(file, next, 3, 4)),
               LAMBDA cs : [flag |-> flag, channels |-> cs])
    IN  Then(ReadNumbers(file, at, 2, 4), LAMBDA head, here : channels(head[1], head[2], here))

\* Five counted texts, each within what the ones before it left of the tag.
ReadCountAndString(file, at, end) ==
    Unless(at + 4 > end, Then(ReadNumber(file, at, 4), LAMBDA count, here :
        Unless(here + count > end, ReadAscii(file, here, count))))

ReadCrdInfo(file, at, size) ==
    InTurn(5, at, LAMBDA i, here : ReadCountAndString(file, here, at + size))

-----------------------------------------------------------------------------
\* write_tag_body_in and the writers it dispatches to; the others are refused.
CanWrite(type, value) ==
    CASE type = "clrt" -> CanWriteColorants(value)
      [] type = "para" -> CanWritePara(value)
      [] type = "mft2" -> CanWriteLut16(value)
      [] type \in {"mAB", "mBA"} -> CanWriteMab(type, value)
      [] type = "mpet" -> CanWriteMpe(value)
      [] type \in {"scrn", "crdi", "ncl2", "dict", "bfd", "ui08"} -> FALSE
      [] OTHER -> TRUE

WriteBody(type, value, version) ==
    CASE type \in FixedTypes -> WriteFixed(type, value)
      [] type \in WordTypes -> Numbers(value, 4)
      [] type = "chrm" -> WriteChromaticity(value)
      [] type = "data" -> U32(value.flag) \o value.data
      [] type = "clro" -> U32(Len(value)) \o value
      [] type = "clrt" -> WriteColorantTable(value)
      [] type = "text" -> WriteText(value)
      [] type = "desc" -> WriteTextDescription(value)
      [] type = "mluc" -> WriteMlu(value)
      [] type = "pseq" -> WritePseq(value, version)
      [] type = "psid" -> WritePsid(value, version)
      [] type = "curv" -> WriteCurv(value)
      [] type = "para" -> WritePara(value)
      [] type = "vcgt" -> WriteVcgt(value)
      [] type = "mft2" -> WriteLut16(value)
      [] type \in {"mAB", "mBA"} -> WriteMab(type, value)
      [] type = "mpet" -> WriteMpe(value)

\* read_tag_value_in: the reader of a type, for a body at `at`.
ReadValue(type, file, at, size) ==
    CASE type = "corbis" -> ReadFields(file, at, Layout("XYZ"))
      [] type \in FixedTypes -> Unless(type = "cicp" /\ size # 4, ReadFields(file, at, Layout(type)))
      [] type \in WordTypes -> ReadNumbers(file, at, size \div 4, 4)
      [] type = "ui08" -> ReadBytes(file, at, size)
      [] type = "chrm" -> ReadChromaticity(file, at, size)
      [] type = "data" -> ReadData(file, at, size)
      [] type = "clro" -> ReadColorantOrder(file, at)
      [] type = "clrt" -> ReadColorantTable(file, at)
      [] type = "ncl2" -> ReadNamedColor2(file, at)
      [] type = "scrn" -> ReadScreening(file, at)
      [] type = "crdi" -> ReadCrdInfo(file, at, size)
      [] type = "text" -> ReadText(file, at, size)
      [] type = "desc" -> ReadTextDescription(file, at, size)
      [] type = "mluc" -> ReadMlu(file, at, size)
      [] type = "pseq" -> ReadPseq(file, at, size)
      [] type = "psid" -> ReadPsid(file, at, size)
      [] type = "dict" -> ReadDictionary(file, at, size)
      [] type = "curv" -> ReadCurv(file, at)
      [] type = "para" -> ReadPara(file, at)
      [] type = "vcgt" -> ReadVcgt(file, at, size)
      [] type = "bfd"  -> ReadUcrBg(file, at, size)
      [] type = "mft1" -> ReadLut8(file, at)
      [] type = "mft2" -> ReadLut16(file, at)
      [] type \in {"mAB", "mBA"} -> ReadMab(type, file, at)
      [] type = "mpet" -> ReadMpe(file, at)

-----------------------------------------------------------------------------
(***************************************************************************)
(* What a type can hold of a value: the reference that the writers and the  *)
(* readers above are checked against, field by field.                       *)
(***************************************************************************)

\* What the types cannot hold: the other languages of a text, the segments of
\* a sampled curve, a fraction of a gamma, the absence of a matrix offset.
AsciiKept(mlu) == UpToNul(PreferredAscii(mlu))
DescriptionKept(mlu) ==
    LET wide == Select(mlu, V2Unicode, V2Unicode)
    IN  FromAscii(AsciiKept(mlu)) \o
        <<MluEntry(V2Unicode, V2Unicode,
             UpToNul([i \in 1..Len(AsciiKept(mlu)) |-> IF i <= Len(wide) THEN wide[i] ELSE 0]))>>
MluKept(mlu) ==
    [i \in DOMAIN mlu |-> IF mlu[i].text = <<>> THEN [mlu[i] EXCEPT !.text = <<0>>] ELSE mlu[i]]
EmbeddedKept(mlu, version) == IF version = "v4" THEN MluKept(mlu) ELSE DescriptionKept(mlu)

TableKept(curve) ==
    IF IsGamma(curve) THEN Gamma(FromU8Fixed8(U8Fixed8(curve.segments[1].params[1])))
    ELSE Tabulated(curve.table)
VcgtKept(curves) ==
    [i \in DOMAIN curves |->
        LET p == curves[i].segments[1].params
        IN  IF \A c \in ToSet(curves) : IsFormula5(c)
            THEN Parametric(5, <<p[1], p[2], 0, 0, 0, p[6], 0>>)
            ELSE Tabulated(Resampled(curves[i].table))]

SetKept(curves) ==
    [i \in DOMAIN curves |-> IF UsesCurv(curves[i]) THEN TableKept(curves[i]) ELSE curves[i]]
StageKept(stage, Curve(_)) ==
    CASE stage.kind = "curves" -> [stage EXCEPT !.curves = Curve(@)]
      [] stage.kind = "matrix" -> [stage EXCEPT !.offset = OffsetOf(stage)]
      [] stage.kind = "clut"   -> stage
StagesKept(lut, Curve(_)) ==
    [lut EXCEPT !.stages = [i \in DOMAIN @ |-> StageKept(@[i], Curve)]]

\* 16-bit tables: every curve set is there and sampled, an identity matrix is not.
Lut16Kept(lut) ==
    LET parts == Disassembled(lut.stages).parts
        curves(part, n) == IF part = <<>> THEN <<CurveSet([i \in 1..n |-> Tabulated(Identity)])>>
                           ELSE <<CurveSet([i \in 1..n |-> Tabulated(part[1].curves[i].table)])>>
        matrix == IF parts[1] = <<>> THEN <<>>
                  ELSE IF IsIdentityMatrix(parts[1][1].m) THEN <<>>
                  ELSE <<MatrixStage(3, 3, parts[1][1].m, <<>>)>>
    IN  [lut EXCEPT !.stages = matrix \o curves(parts[2], lut.inputs) \o parts[3]
                               \o curves(parts[4], lut.outputs)]

Kept(type, value, version) ==
    CASE type = "text" -> FromAscii(AsciiKept(value))
      [] type = "desc" -> DescriptionKept(value)
      [] type = "mluc" -> MluKept(value)
      [] type = "pseq" -> [i \in DOMAIN value |->
             [value[i] EXCEPT !.manufacturer = EmbeddedKept(@, version), !.model = EmbeddedKept(@, version)]]
      [] type = "psid" -> [i \in DOMAIN value |->
             [value[i] EXCEPT !.description = EmbeddedKept(@, version)]]
      [] type = "clrt" -> [i \in DOMAIN value |->
             [value[i] EXCEPT !.name = IF Len(@) > NameLength THEN SubSeq(@, 1, NameLength) ELSE @]]
      [] type = "curv" -> TableKept(value)
      [] type = "vcgt" -> VcgtKept(value)
      [] type = "mft2" -> Lut16Kept(value)
      [] type \in {"mAB", "mBA"} -> StagesKept(value, SetKept)
      [] type = "mpet" -> StagesKept(value, LAMBDA curves : curves)
      [] OTHER -> value

=============================================================================
