---------------------------- MODULE MCLinkChain ----------------------------
(***************************************************************************)
(* Instance of LinkChain for TLC: profiles of every class with every kind   *)
(* of LUT tag and shaper, among them the two built-in Lab profiles, a       *)
(* device link without a float tag for its intent, an abstract profile      *)
(* whose float tag is empty, and a tag that does not read as a LUT.         *)
(***************************************************************************)
EXTENDS LinkChain, TLC

NoLuts == [tag \in {} |-> <<>>]

P(class, space, pcs, luts) ==
    [class |-> class, space |-> space, pcs |-> pcs, v4 |-> FALSE, luts |-> luts,
     linear |-> "", gray |-> FALSE, named |-> "", white |-> "D50"]

\* A LUT tag of the given stages between two spaces.
Lut(type, in, out, stages) ==
    [ok |-> TRUE, type |-> type, stages |-> stages,
     in |-> Width(EncodingOf(in)), out |-> Width(EncodingOf(out))]
Table(type, in, out) ==
    Lut(type, in, out, <<Stage("Clut", BodyEncoding(type, in), BodyEncoding(type, out))>>)
Same(type, space, op) ==
    Lut(type, space, space, <<Stage(op, BodyEncoding(type, space), BodyEncoding(type, space))>>)
NotALut == [Table("mAB ", "RGB", "Lab") EXCEPT !.ok = FALSE]

Luts(t1, l1, t2, l2) == t1 :> l1 @@ t2 :> l2

\* Matrix shapers
Srgb == [P("Display", "RGB", "XYZ", NoLuts) EXCEPT !.linear = "sRGB light"]
Wide == [Srgb EXCEPT !.linear = "wide light", !.v4 = TRUE, !.white = "D65"]
SrgbLab == [P("Display", "RGB", "Lab", NoLuts) EXCEPT !.linear = "sRGB light"]
Gray == [P("Input", "GRAY", "XYZ", NoLuts) EXCEPT !.gray = TRUE]
GrayLab == [P("Output", "GRAY", "Lab", NoLuts) EXCEPT !.gray = TRUE, !.white = "paper"]

\* Printers
Press == [P("Output", "CMYK", "Lab", Luts("A2B0", Table("mft2", "CMYK", "Lab"),
                                          "B2A0", Table("mft2", "Lab", "CMYK")))
          EXCEPT !.white = "paper"]
PressV4 == [P("Output", "CMYK", "Lab", Luts("A2B1", Table("mAB ", "CMYK", "Lab"),
                                            "B2A0", Table("mBA ", "Lab", "CMYK")))
            EXCEPT !.v4 = TRUE]
HiFi == P("Output", "MCH4", "Lab", Luts("A2B0", Table("mAB ", "MCH4", "Lab"),
                                        "B2A0", NotALut))

\* Floating-point tags
FloatXyz == P("ColorSpace", "RGB", "XYZ", Luts("D2B0", Table("mpet", "RGB", "XYZ"),
                                               "B2D0", Table("mpet", "XYZ", "RGB")))
FloatLab ==
    P("Output", "RGB", "Lab",
      Luts("D2B1", Table("mpet", "RGB", "Lab"),
           "B2D1", Lut("mpet", "Lab", "RGB", <<OffsetMatrix("Lab float", "RGB"),
                                               Stage("ToneCurves", "RGB", "RGB")>>)))

\* Profiles between two PCS: the built-in Lab ones, and others
Lab2 == P("Abstract", "Lab", "Lab", "A2B0" :> Same("mft2", "Lab", "IdentityClut"))
Lab4 == [P("Abstract", "Lab", "Lab", "A2B0" :> Same("mAB ", "Lab", "ToneCurves"))
         EXCEPT !.v4 = TRUE]
Effect == P("Abstract", "XYZ", "XYZ", "A2B0" :> Table("mft2", "XYZ", "XYZ"))
EmptyFloat == P("Abstract", "XYZ", "XYZ", Luts("D2B0", Lut("mpet", "XYZ", "XYZ", <<>>), "D2B1", Lut("mpet", "XYZ", "XYZ", <<>>)))
LabToXyz == P("ColorSpace", "Lab", "XYZ", Luts("A2B0", Table("mft2", "Lab", "XYZ"),
                                               "B2A0", Table("mft2", "XYZ", "Lab")))
LabSpace == P("ColorSpace", "Lab", "Lab", Luts("A2B0", Table("mft2", "Lab", "Lab"),
                                               "B2A0", Table("mft2", "Lab", "Lab")))
Warp == P("Abstract", "Lab", "XYZ", "A2B0" :> Table("mAB ", "Lab", "XYZ"))

\* Device links
Separation == P("Link", "RGB", "CMYK", "A2B0" :> Table("mft2", "RGB", "CMYK"))
Proof == P("Link", "MCH4", "Lab", "A2B0" :> Table("mft2", "MCH4", "Lab"))
FloatLink == P("Link", "Lab", "XYZ", "D2B0" :> Table("mpet", "Lab", "XYZ"))
Ragged == P("Link", "RGB", "CMYK",
            "D2B0" :> Lut("mpet", "RGB", "CMYK", <<Stage("ToneCurves", "RGB", "RGB")>>))

\* Named colours
Spots == [P("NamedColor", "CMYK", "Lab", NoLuts) EXCEPT !.named = "CMYK"]
SpotsXyz == [P("NamedColor", "CMYK", "XYZ", NoLuts) EXCEPT !.named = "CMYK"]
SpotsLab == [P("NamedColor", "Lab", "Lab", NoLuts) EXCEPT !.named = "Lab2"]
GraySpots == [P("NamedColor", "GRAY", "Lab", NoLuts) EXCEPT !.named = "GRAY"]

Devices == {"Srgb", "Wide", "SrgbLab", "Gray", "GrayLab", "Press", "PressV4", "HiFi",
            "FloatXyz", "FloatLab", "LabToXyz", "LabSpace"}
Between == {"Lab2", "Lab4", "Effect", "EmptyFloat", "Warp", "Separation", "Proof", "FloatLink", "Ragged"}
Named == {"Spots", "SpotsXyz", "SpotsLab", "GraySpots"}
Names == Devices \cup Between \cup Named

MCCatalogue ==
    [Srgb |-> Srgb, Wide |-> Wide, SrgbLab |-> SrgbLab, Gray |-> Gray, GrayLab |-> GrayLab,
     Press |-> Press, PressV4 |-> PressV4, HiFi |-> HiFi, FloatXyz |-> FloatXyz,
     FloatLab |-> FloatLab, LabToXyz |-> LabToXyz, LabSpace |-> LabSpace, Lab2 |-> Lab2,
     Lab4 |-> Lab4, Effect |-> Effect, EmptyFloat |-> EmptyFloat, Warp |-> Warp, Separation |-> Separation,
     Proof |-> Proof, FloatLink |-> FloatLink, Ragged |-> Ragged, Spots |-> Spots,
     SpotsXyz |-> SpotsXyz, SpotsLab |-> SpotsLab, GraySpots |-> GraySpots]

\* Intent, black-point compensation and adaptation state of all legs.
Settings == {<<0, FALSE, "full">>, <<1, FALSE, "full">>, <<1, TRUE, "full">>,
             <<3, TRUE, "full">>, <<3, FALSE, "none">>, <<3, FALSE, "partial">>,
             <<4, FALSE, "full">>}

Legs(profiles, s) ==
    [k \in DOMAIN profiles |->
        [profile |-> profiles[k], intent |-> s[1], bpc |-> s[2], adaptation |-> s[3]]]

Ones == {<<a>> : a \in Names}
Twos == {<<a, b>> : a, b \in Names}
Threes == {<<a, b, c>> : a \in Devices, b \in Between \cup {"Press", "GrayLab"}, c \in Devices \cup {"GraySpots"}}

MCChains ==
    {Legs(profiles, s) : profiles \in Ones \cup Twos, s \in Settings}
      \cup {Legs(profiles, s) : profiles \in Threes, s \in {<<1, FALSE, "full">>, <<0, TRUE, "full">>}}

=============================================================================
