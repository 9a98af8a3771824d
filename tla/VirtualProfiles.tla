--------------------------- MODULE VirtualProfiles ----------------------------
(***************************************************************************)
(* The built-in profiles (profile/virtuals.rs), each a header and the slots *)
(* its constructor adds, in order.  A description is its initial; what the  *)
(* colour formulas give is a number of its own for every input.             *)
(***************************************************************************)
EXTENDS StageBodies, ProfileHeader

\* The tags they use, numbered in place of their signatures.
VirtualTags == <<"desc", "cprt", "wtpt", "chad", "rXYZ", "gXYZ", "bXYZ", "rTRC", "gTRC",
                 "bTRC", "kTRC", "chrm", "A2B0", "B2A0", "pseq", "psid">>

NoTarget == "none"
TagSlot(tag, variant, value) == [tag |-> tag, variant |-> variant, value |-> value, linked |-> NoTarget]
LinkSlot(tag, target) == [tag |-> tag, variant |-> "Linked", value |-> <<>>, linked |-> target]

\* virtual_header
VirtualHeader ==
    [size |-> 0, cmm |-> 0, version |-> <<4, 64, 0, 0>>,
     device_class |-> Known("Display"), color_space |-> Known("Rgb"), pcs |-> Known("XYZ"),
     date |-> <<2026, 6, 15, 12, 34, 56>>, platform |-> 0, flags |-> 0, manufacturer |-> 0,
     model |-> 0, attributes |-> <<0, 0>>, rendering_intent |-> Known("Perceptual"),
     illuminant |-> D50, creator |-> 0, profile_id |-> Zeros(16)]

HeaderOf(class, space, pcs) ==
    [VirtualHeader EXCEPT !.device_class = Known(class), !.color_space = Known(space), !.pcs = Known(pcs)]

English == 25966
UnitedStates == 21843
FromWide(text) == <<MluEntry(English, UnitedStates, text)>>
Copyright == <<78, 111>>

\* set_text_tags
TextSlots(initial) ==
    <<TagSlot("desc", "Mlu", FromWide(<<initial>>)), TagSlot("cprt", "Mlu", FromWide(Copyright))>>

\* chad_tag: nine numbers from the white point.
Adaptation(white) == [i \in 1..9 |-> white[1 + ((i - 1) % 3)] + i]
\* build_rgb2xyz_transfer_matrix: a column for each primary.
Colorant(white, primaries, channel) == <<primaries[2 * channel - 1], white[2], primaries[2 * channel]>>

-----------------------------------------------------------------------------
\* build_rgb_profile: the green and blue curves are links to the red one.
BuildRgb(white, primaries, transfer, initial) ==
    [header |-> HeaderOf("Display", "Rgb", "XYZ"),
     slots |-> TextSlots(initial) \o
        <<TagSlot("wtpt", "Xyz", D50), TagSlot("chad", "sf32", Adaptation(white)),
          TagSlot("rXYZ", "Xyz", Colorant(white, primaries, 1)),
          TagSlot("bXYZ", "Xyz", Colorant(white, primaries, 3)),
          TagSlot("gXYZ", "Xyz", Colorant(white, primaries, 2)),
          TagSlot("rTRC", "Curve", transfer),
          LinkSlot("gTRC", "rTRC"), LinkSlot("bTRC", "rTRC"),
          TagSlot("chrm", "chrm", primaries)>>]

\* build_srgb_profile: D65, Rec. 709, and the curve of build_srgb_gamma.
D65 == <<62289, 65536, 71372>>
Rec709 == <<41943, 21627, 19661, 39322, 9830, 3932>>
SrgbGamma == Parametric(4, <<157286, 62119, 3417, 5072, 2651>>)
BuildSrgb == BuildRgb(D65, Rec709, SrgbGamma, 115)

BuildGray(white, transfer) ==
    [header |-> HeaderOf("Display", "Gray", "XYZ"),
     slots |-> TextSlots(103) \o <<TagSlot("wtpt", "Xyz", white), TagSlot("kTRC", "Curve", transfer)>>]

\* identity_clut_pipeline: two nodes an axis, each its own coordinates, the
\* last axis fastest.
IdentityClut(n) ==
    ClutStage([i \in 1..n |-> 2], n, FALSE,
              [k \in 1..(n * 2^n) |->
                  LET node == (k - 1) \div n
                      axis == 1 + ((k - 1) % n)
                  IN  65535 * ((node \div 2^(n - axis)) % 2)])

\* identity_curves_stage
IdentityCurves(n) == CurveSet([i \in 1..n |-> Gamma(One)])

\* build_lab2_profile: version 2.1, so its table becomes a 16-bit LUT.
BuildLab2 ==
    [header |-> [HeaderOf("Abstract", "Lab", "Lab") EXCEPT !.version = <<2, 16, 0, 0>>],
     slots |-> TextSlots(76) \o
        <<TagSlot("wtpt", "Xyz", D50), TagSlot("chad", "sf32", Adaptation(D50)),
          TagSlot("A2B0", "Lut", Lut(3, 3, <<IdentityClut(3)>>))>>]

BuildLab4 ==
    [header |-> HeaderOf("Abstract", "Lab", "Lab"),
     slots |-> TextSlots(76) \o
        <<TagSlot("wtpt", "Xyz", D50), TagSlot("A2B0", "Lut", Lut(3, 3, <<IdentityCurves(3)>>))>>]

BuildXyz ==
    [header |-> HeaderOf("Abstract", "XYZ", "XYZ"),
     slots |-> TextSlots(88) \o
        <<TagSlot("wtpt", "Xyz", D50), TagSlot("chad", "sf32", Adaptation(D50)),
          TagSlot("A2B0", "Lut", Lut(3, 3, <<IdentityCurves(3)>>))>>]

\* build_null_profile: the lightness alone, and of that nothing.
ZeroCurves(n) == CurveSet([i \in 1..n |-> Tabulated(<<0, 0>>)])
BuildNull ==
    [header |-> HeaderOf("Output", "Gray", "Lab"),
     slots |-> TextSlots(78) \o
        <<TagSlot("B2A0", "Lut", Lut(3, 1, <<ZeroCurves(3), MatrixStage(1, 3, <<One, 0, 0>>, <<>>),
                                             ZeroCurves(1)>>)),
          TagSlot("wtpt", "Xyz", D50)>>]

\* build_linearization_devicelink: one curve a channel, and a sequence of one
\* profile without descriptions.
BuildLinearization(space, transfer) ==
    [header |-> HeaderOf("Link", space, space),
     slots |-> TextSlots(108) \o
        <<TagSlot("A2B0", "Lut", Lut(Len(transfer), Len(transfer), <<CurveSet(transfer)>>)),
          TagSlot("pseq", "pseq", <<[fields |-> Zeros(5), manufacturer |-> <<>>, model |-> <<>>]>>),
          TagSlot("psid", "psid", <<[id |-> Zeros(16), description |-> <<>>]>>)>>]

=============================================================================
