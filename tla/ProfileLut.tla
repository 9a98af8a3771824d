------------------------------ MODULE ProfileLut ------------------------------
(***************************************************************************)
(* The pipelines a profile's tags are read as (link/profile_lut.rs), and    *)
(* how pipelines are put together (pipeline/mod.rs).                        *)
(*                                                                         *)
(* What a stage computes is abstracted to the encoding of the numbers it    *)
(* takes and of those it gives:                                            *)
(*   "Lab4", "XYZ"             0..1 numbers of the chain                    *)
(*   "Lab2"                    the older 16-bit Lab of a 'mft2' body        *)
(*   "Lab float", "XYZ float"  the plain values of a 'mpet' body            *)
(*   "RGB", "CMYK", "GRAY"     device values; MCH4 is coded as CMYK         *)
(*   "index"                   the number of a named colour                 *)
(*   "gray light", "L", "3 gray"  between the stages of a gray profile      *)
(* and any other name stands for the linear light of one set of colorants.  *)
(* An offset-free matrix from an encoding to itself is the identity.        *)
(***************************************************************************)
EXTENDS Integers, Sequences

PCS == {"XYZ", "Lab"}

Width(encoding) ==
    CASE encoding \in {"GRAY", "gray light", "L", "index"} -> 1
      [] encoding = "CMYK" -> 4
      [] OTHER -> 3

\* What the numbers of a colour space are coded as in the chain ...
EncodingOf(space) ==
    CASE space = "Lab" -> "Lab4"
      [] space = "MCH4" -> "CMYK"
      [] OTHER -> space

\* ... and in the body of a LUT tag of the given type.
BodyEncoding(type, space) ==
    CASE type = "mft2" /\ space = "Lab" -> "Lab2"
      [] type = "mpet" /\ space = "Lab" -> "Lab float"
      [] type = "mpet" /\ space = "XYZ" -> "XYZ float"
      [] OTHER -> EncodingOf(space)

Stage(op, from, to) == [op |-> op, from |-> from, to |-> to, offset |-> FALSE]
OffsetMatrix(from, to) == [Stage("Matrix", from, to) EXCEPT !.offset = TRUE]

Lab2Xyz == Stage("Lab2Xyz", "Lab4", "XYZ")
Xyz2Lab == Stage("Xyz2Lab", "XYZ", "Lab4")
LabV2ToV4 == Stage("LabV2ToV4", "Lab2", "Lab4")
LabV4ToV2 == Stage("LabV4ToV2", "Lab4", "Lab2")

\* normalize_to_lab_float and its three siblings, at a profile side of a space.
NormalizeToFloat(space) ==
    CASE space = "Lab" -> <<OffsetMatrix("Lab4", "Lab float")>>
      [] space = "XYZ" -> <<Stage("Matrix", "XYZ", "XYZ float")>>
      [] OTHER -> <<>>
NormalizeFromFloat(space) ==
    CASE space = "Lab" -> <<OffsetMatrix("Lab float", "Lab4")>>
      [] space = "XYZ" -> <<Stage("Matrix", "XYZ float", "XYZ")>>
      [] OTHER -> <<>>

-----------------------------------------------------------------------------
(***************************************************************************)
(* A pipeline keeps its declared widths beside its stages: inserting at the *)
(* end never updates `out`, and concatenation takes over the other's.       *)
(* NoPipeline is an error.  (Widths beyond MAX_STAGE_CHANNELS and CLUTs of  *)
(* more than 15 inputs cannot be expressed.)                                *)
(***************************************************************************)
NewPipeline(in, out) == [ok |-> TRUE, stages |-> <<>>, in |-> in, out |-> out]
NoPipeline == [ok |-> FALSE, stages |-> <<>>, in |-> 0, out |-> 0]

First(stages) == stages[1]
Last(stages) == stages[Len(stages)]

\* The width a stage appended next must accept.
OpenWidth(p) == IF p.stages = <<>> THEN p.in ELSE Width(Last(p.stages).to)

InsertStageAtEnd(p, s) ==
    IF p.ok /\ Width(s.from) = OpenWidth(p)
    THEN [p EXCEPT !.stages = Append(@, s)]
    ELSE NoPipeline

PrependStage(p, s) ==
    IF p.ok /\ (p.stages = <<>> \/ Width(First(p.stages).from) = Width(s.to))
    THEN [ok |-> TRUE, stages |-> <<s>> \o p.stages, in |-> Width(s.from),
          out |-> IF p.stages = <<>> THEN Width(s.to) ELSE p.out]
    ELSE NoPipeline

\* The stages of q chain among themselves, so only the junction can fail.
Concat(p, q) ==
    IF p.ok /\ q.ok /\ (p.stages = <<>> \/ q.stages = <<>> \/ Width(First(q.stages).from) = OpenWidth(p))
    THEN [ok |-> TRUE, stages |-> p.stages \o q.stages,
          in |-> IF p.stages = <<>> THEN q.in ELSE p.in, out |-> q.out]
    ELSE NoPipeline

\* At most one stage before and one after.
Around(before, p, after) ==
    LET front == IF before = <<>> THEN p ELSE PrependStage(p, before[1])
    IN  IF after = <<>> THEN front ELSE InsertStageAtEnd(front, after[1])

-----------------------------------------------------------------------------
(***************************************************************************)
(* A profile is a record of                                                *)
(*   class, space, pcs, v4   of its header                                 *)
(*   luts      its LUT tags, each [ok, type, stages, in, out]; ok is FALSE  *)
(*             when the tag does not read as a pipeline                    *)
(*   linear    its linear light, "" without usable colorants and TRCs       *)
(*   gray      it has a gray TRC                                           *)
(*   named     what the colorants of its ncl2 encode, "" without the tag    *)
(*   white     its media white point, as read_media_white_point gives it    *)
(* Intents are 0..3; an intent beyond uses no LUT tag.                      *)
(***************************************************************************)
Device2Pcs16 == <<"A2B0", "A2B1", "A2B2", "A2B1">>
Device2PcsFloat == <<"D2B0", "D2B1", "D2B2", "D2B3">>
Pcs2Device16 == <<"B2A0", "B2A1", "B2A2", "B2A1">>
Pcs2DeviceFloat == <<"B2D0", "B2D1", "B2D2", "B2D3">>

LutTags == {"A2B0", "A2B1", "A2B2", "B2A0", "B2A1", "B2A2",
            "D2B0", "D2B1", "D2B2", "D2B3", "B2D0", "B2D1", "B2D2", "B2D3"}

IccIntent(intent) == intent \in 0..3

HasTag(profile, tag) == tag \in DOMAIN profile.luts

LutPipeline(profile, tag) ==
    LET lut == profile.luts[tag]
    IN  [ok |-> lut.ok, stages |-> lut.stages, in |-> lut.in, out |-> lut.out]

\* Revert to perceptual if the intent's own tag is absent.
Tag16(profile, tags, intent) ==
    IF HasTag(profile, tags[intent + 1]) THEN tags[intent + 1] ELSE tags[1]

IsLut16(profile, tag) == profile.luts[tag].type = "mft2"

When(condition, stage) == IF condition THEN <<stage>> ELSE <<>>

\* read_float_input_tag, read_float_output_tag, read_float_devicelink_tag
FloatTag(profile, tag, in, out) ==
    Around(NormalizeToFloat(in), LutPipeline(profile, tag), NormalizeFromFloat(out))

\* A shaper's stages; the widths are the literals of its Pipeline::new.
Shaper(present, in, out, stages) ==
    IF present
    THEN [ok |-> TRUE, stages |-> stages, in |-> in, out |-> out]
    ELSE NoPipeline

GrayInput(profile) ==
    Shaper(profile.gray, 1, 3,
        IF profile.pcs = "Lab"
        THEN <<Stage("Matrix", "GRAY", "3 gray"), Stage("ToneCurves", "3 gray", "Lab4")>>
        ELSE <<Stage("ToneCurves", "GRAY", "gray light"), Stage("Matrix", "gray light", "XYZ")>>)

RgbInput(profile) ==
    Shaper(profile.linear # "", 3, 3,
        <<Stage("ToneCurves", "RGB", profile.linear), Stage("Matrix", profile.linear, "XYZ")>>
          \o When(profile.pcs = "Lab", Xyz2Lab))

GrayOutput(profile) ==
    LET light == IF profile.pcs = "Lab" THEN "L" ELSE "gray light"
    IN  Shaper(profile.gray, 3, 1,
            <<Stage("Matrix", EncodingOf(profile.pcs), light), Stage("ToneCurves", light, "GRAY")>>)

RgbOutput(profile) ==
    Shaper(profile.linear # "", 3, 3,
        When(profile.pcs = "Lab", Lab2Xyz)
          \o <<Stage("Matrix", "XYZ", profile.linear), Stage("ToneCurves", profile.linear, "RGB")>>)

\* The named-colour stage on an empty pipeline.
NamedStage(profile, to) ==
    IF profile.named = "" THEN NoPipeline
    ELSE PrependStage(NewPipeline(0, 0), Stage("NamedColor", "index", to))

ReadInputLut(profile, intent) ==
    LET float == Device2PcsFloat[intent + 1]
        tag == Tag16(profile, Device2Pcs16, intent)
        adjust == IsLut16(profile, tag) /\ profile.pcs = "Lab"
    IN  IF profile.class = "NamedColor"
        THEN InsertStageAtEnd(NamedStage(profile, "Lab2"), LabV2ToV4)
        ELSE IF IccIntent(intent) /\ HasTag(profile, float)
        THEN FloatTag(profile, float, profile.space, profile.pcs)
        ELSE IF IccIntent(intent) /\ HasTag(profile, tag)
        THEN Around(When(adjust /\ profile.space = "Lab", LabV4ToV2), LutPipeline(profile, tag),
                    When(adjust, LabV2ToV4))
        ELSE IF profile.space = "GRAY" THEN GrayInput(profile)
        ELSE RgbInput(profile)

ReadOutputLut(profile, intent) ==
    LET float == Pcs2DeviceFloat[intent + 1]
        tag == Tag16(profile, Pcs2Device16, intent)
        adjust == IsLut16(profile, tag) /\ profile.pcs = "Lab"
    IN  IF IccIntent(intent) /\ HasTag(profile, float)
        THEN FloatTag(profile, float, profile.pcs, profile.space)
        ELSE IF IccIntent(intent) /\ HasTag(profile, tag)
        THEN Around(When(adjust, LabV4ToV2), LutPipeline(profile, tag),
                    When(adjust /\ profile.space = "Lab", LabV2ToV4))
        ELSE IF profile.space = "GRAY" THEN GrayOutput(profile)
        ELSE RgbOutput(profile)

ReadDevicelinkLut(profile, intent) ==
    LET float == Device2PcsFloat[intent + 1]
        tag == Tag16(profile, Device2Pcs16, intent)
        named == NamedStage(profile, profile.named)
        adjust == IsLut16(profile, tag)
    IN  IF ~IccIntent(intent) THEN NoPipeline
        ELSE IF profile.class = "NamedColor"
        THEN IF profile.space = "Lab" THEN InsertStageAtEnd(named, LabV2ToV4) ELSE named
        ELSE IF HasTag(profile, float)
        THEN FloatTag(profile, float, profile.space, profile.pcs)
        ELSE IF HasTag(profile, "D2B0") THEN LutPipeline(profile, "D2B0")
        ELSE IF HasTag(profile, tag)
        THEN Around(When(adjust /\ profile.space = "Lab", LabV4ToV2), LutPipeline(profile, tag),
                    When(adjust /\ profile.pcs = "Lab", LabV2ToV4))
        ELSE NoPipeline

=============================================================================
