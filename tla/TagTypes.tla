------------------------------ MODULE TagTypes ------------------------------
(***************************************************************************)
(* The concrete tag-descriptor table (profile/descriptor.rs), the type a    *)
(* value is written as (serialize.rs: write_type_for_builtin and the        *)
(* deciders) and the value a type reads back as (types/mod.rs).             *)
(***************************************************************************)
EXTENDS Naturals, Sequences

A2BTags == {"A2B0", "A2B1", "A2B2"}
B2ATags == {"B2A0", "B2A1", "B2A2", "gamt", "pre0", "pre1", "pre2"}
FloatTags == {"D2B0", "D2B1", "D2B2", "D2B3", "B2D0", "B2D1", "B2D2", "B2D3"}
ColorantTags == {"rXYZ", "gXYZ", "bXYZ", "bkpt", "wtpt"}
TrcTags == {"rTRC", "gTRC", "bTRC"}
DescriptionTags == {"dmnd", "dmdd", "desc", "vued"}
PostScriptTags == {"psd0", "psd1", "psd2", "psd3", "ps2s", "ps2i"}
SignatureTags == {"tech", "ciis", "rig0", "rig2"}
\* Tags whose one type has the tag's own name.
NamesakeTags == {"chrm", "clro", "clrt", "ncl2", "pseq", "meas", "bfd ", "crdi", "view",
                 "scrn", "vcgt", "psid", "cicp", "MHC2"}

TagSigs == A2BTags \cup B2ATags \cup FloatTags \cup ColorantTags \cup TrcTags
           \cup DescriptionTags \cup PostScriptTags \cup SignatureTags \cup NamesakeTags
           \cup {"kTRC", "calt", "dtim", "targ", "chad", "arts", "clot", "cprt", "lumi",
                 "scrd", "meta", "dscm"}

SupportedTypes(sig) ==
    CASE sig \in A2BTags -> <<"mft2", "mAB ", "mft1">>
      [] sig \in B2ATags -> <<"mft2", "mBA ", "mft1">>
      [] sig \in FloatTags -> <<"mpet">>
      [] sig \in ColorantTags -> <<"XYZ ", "corbis">>
      [] sig \in TrcTags -> <<"curv", "para", "monaco">>
      [] sig = "kTRC" -> <<"curv", "para">>
      [] sig = "cprt" -> <<"text", "mluc", "desc">>
      [] sig \in DescriptionTags -> <<"desc", "mluc", "text">>
      [] sig \in PostScriptTags -> <<"data">>
      [] sig \in SignatureTags -> <<"sig ">>
      [] sig \in {"calt", "dtim"} -> <<"dtim">>
      [] sig = "targ" -> <<"text">>
      [] sig \in {"chad", "arts"} -> <<"sf32">>
      [] sig = "clot" -> <<"clrt">>
      [] sig = "lumi" -> <<"XYZ ">>
      [] sig = "scrd" -> <<"desc">>
      [] sig = "meta" -> <<"dict">>
      [] sig = "dscm" -> <<"mluc">>
      [] sig \in NamesakeTags -> <<sig>>

SupportedTags ==
    [sig \in TagSigs |-> [elem_count |-> IF sig \in {"chad", "arts"} THEN 9 ELSE 1,
                          allowed_types |-> SupportedTypes(sig)]]

TypeSigs == UNION {{SupportedTypes(s)[i] : i \in DOMAIN SupportedTypes(s)} : s \in TagSigs}
            \cup {"uf32", "ui08", "ui32"}

Table == INSTANCE TagTable WITH
    Sig <- TagSigs, Type <- TypeSigs, NoDescriptor <- [none |-> TRUE], Descriptor <- SupportedTags

-----------------------------------------------------------------------------
\* read_tag_value_in: the Tag variant a type decodes to, "none" for the types
\* that have no builtin arm.
VariantRead(type) ==
    CASE type \in {"XYZ ", "corbis"} -> "Xyz"
      [] type = "text" -> "Text"
      [] type \in {"mluc", "desc"} -> "Mlu"
      [] type \in {"curv", "para"} -> "Curve"
      [] type \in {"mft1", "mft2", "mAB ", "mBA ", "mpet"} -> "Lut"
      [] type \in {"monaco", "MHC2"} -> "none"
      [] OTHER -> type

\* Variants with no writer: everything else that is named after its type has one.
Unwritable == {"scrn", "crdi", "ncl2", "dict", "bfd ", "ui08"}

\* Mutant: version 4 has no plain text.
DecideTextV4(sig, v4) ==
    IF v4 THEN "mluc" ELSE IF sig \in DescriptionTags \cup {"scrd"} THEN "desc" ELSE "text"

\* Mutant: every curve is written sampled.
DecideCurveTable(curve, v4) == "curv"

\* decide_text
DecideText(sig, v4) ==
    CASE sig = "cprt" -> IF v4 THEN "mluc" ELSE "text"
      [] sig \in DescriptionTags -> IF v4 THEN "mluc" ELSE "desc"
      [] sig = "scrd" -> "desc"
      [] OTHER -> "text"

(***************************************************************************)
(* decide_curve.  A curve is a "table", a "gamma" (one segment of type 1)   *)
(* or "parametric" (one segment of types 2 to 5).                           *)
(***************************************************************************)
DecideCurve(curve, v4) ==
    IF v4 /\ curve \in {"gamma", "parametric"} THEN "para" ELSE "curv"

\* decide_lut: version 2 always writes 16-bit tables.
DecideLut(sig, v4) ==
    IF sig \in FloatTags THEN "mpet"
    ELSE IF ~v4 THEN "mft2"
    ELSE IF sig \in B2ATags THEN "mBA "
    ELSE "mAB "

\* Mutant: a type is chosen for a value that has no writer.
WriteTypeForAny(sig, variant, curve, v4) ==
    CASE variant = "Xyz" -> "XYZ "
      [] variant \in {"Text", "Mlu"} -> DecideText(sig, v4)
      [] variant = "Curve" -> DecideCurve(curve, v4)
      [] variant = "Lut" -> DecideLut(sig, v4)
      [] OTHER -> variant
\* write_type_for_builtin, "none" for Unsupported.
WriteTypeFor(sig, variant, curve, v4) ==
    CASE variant = "Xyz" -> "XYZ "
      [] variant \in {"Text", "Mlu"} -> DecideText(sig, v4)
      [] variant = "Curve" -> DecideCurve(curve, v4)
      [] variant = "Lut" -> DecideLut(sig, v4)
      [] variant \in Unwritable -> "none"
      [] OTHER -> variant

=============================================================================
