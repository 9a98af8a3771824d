---------------------------- MODULE ProfileHeader -----------------------------
(***************************************************************************)
(* The 128-byte profile header, field by field: read by profile/header.rs   *)
(* and written by profile/serialize.rs.                                     *)
(*                                                                          *)
(* A signature is a number below 2^31; those of the enumerations are their  *)
(* places in a list.  The version is its four bytes, the 64-bit attributes  *)
(* are two words.                                                           *)
(***************************************************************************)
EXTENDS ByteStream

ProfileClasses == <<"Input", "Display", "Output", "Link", "Abstract", "ColorSpace", "NamedColor">>
ColorSpaces ==
    <<"XYZ", "Lab", "Luv", "YCbCr", "Yxy", "Rgb", "Gray", "Hsv", "Hls", "Cmyk", "Cmy",
      "Mch1", "Mch2", "Mch3", "Mch4", "Mch5", "Mch6", "Mch7", "Mch8", "Mch9",
      "MchA", "MchB", "MchC", "MchD", "MchE", "MchF", "Named",
      "Color1", "Color2", "Color3", "Color4", "Color5", "Color6", "Color7", "Color8",
      "Color9", "Color10", "Color11", "Color12", "Color13", "Color14", "Color15", "LuvK">>
RenderingIntents ==
    <<"Perceptual", "RelativeColorimetric", "Saturation", "AbsoluteColorimetric">>

\* from_raw and to_raw: a signature that has no name is kept as it is.
Known(name) == [name |-> name, raw |-> 0]
Other(raw) == [name |-> "Other", raw |-> raw]
FromRaw(names, raw) == IF raw \in DOMAIN names THEN Known(names[raw]) ELSE Other(raw)
ToRaw(names, v) == IF v.name = "Other" THEN v.raw ELSE SelectInSeq(names, LAMBDA n : n = v.name)

Magic == 1633907568                  \* 'acsp'
D50 == <<63190, 65536, 54061>>
Reserved28 == 28

-----------------------------------------------------------------------------
Capped(n, limit) == IF n > limit THEN limit ELSE n

\* validate_version: a major version and two decimal digits, the rest zero.
ValidateVersion(v) ==
    <<Capped(v[1], 9), 16 * Capped(v[2] \div 16, 9) + Capped((v[2] % 16), 9), 0, 0>>

\* The version is above 5.0.
TooNew(v) == v[1] > 5 \/ (v[1] = 5 /\ v[2] > 0)

\* profile_version_float: the digits of the two upper bytes, taken as decimal
\* ones, in hundredths; a digit above nine carries over.
VersionHundredths(v) ==
    1000 * (v[1] \div 16) + 100 * (v[1] % 16) + 10 * (v[2] \div 16) + (v[2] % 16)

VersionOf(header) == IF VersionHundredths(header.version) < 400 THEN "v2" ELSE "v4"

-----------------------------------------------------------------------------
\* write_header: the size is the file's, the illuminant always D50.
WriteHeader(h, used_space) ==
    Numbers(<<used_space, h.cmm>>, 4)
    \o h.version
    \o Numbers(<<ToRaw(ProfileClasses, h.device_class), ToRaw(ColorSpaces, h.color_space),
                 ToRaw(ColorSpaces, h.pcs)>>, 4)
    \o Numbers(h.date, 2)
    \o Numbers(<<Magic, h.platform, h.flags, h.manufacturer, h.model>> \o h.attributes
               \o <<ToRaw(RenderingIntents, h.rendering_intent)>> \o D50 \o <<h.creator>>, 4)
    \o h.profile_id
    \o Zeros(Reserved28)

Fields(n, width) == [i \in 1..n |-> width]
HeaderFields ==
    Fields(2, 4) \o Fields(4, 1) \o Fields(3, 4) \o Fields(6, 2) \o Fields(12, 4) \o Fields(16, 1)
HeaderLength == 128

\* The fields of a header, from the numbers of HeaderFields.
HeaderOfFields(f) ==
    [size             |-> f[1],
     cmm              |-> f[2],
     version          |-> ValidateVersion(SubSeq(f, 3, 6)),
     device_class     |-> FromRaw(ProfileClasses, f[7]),
     color_space      |-> FromRaw(ColorSpaces, f[8]),
     pcs              |-> FromRaw(ColorSpaces, f[9]),
     date             |-> SubSeq(f, 10, 15),
     platform         |-> f[17],
     flags            |-> f[18],
     manufacturer     |-> f[19],
     model            |-> f[20],
     attributes       |-> SubSeq(f, 21, 22),
     rendering_intent |-> FromRaw(RenderingIntents, f[23]),
     illuminant       |-> SubSeq(f, 24, 26),
     creator          |-> f[27],
     profile_id       |-> SubSeq(f, 28, 43)]

\* Header::parse: the cursor has to pass the reserved bytes too.
ReadHeader(image) ==
    Then(ReadFields(image, 0, HeaderFields), LAMBDA f, at :
        Unless(f[16] # Magic \/ TooNew(ValidateVersion(SubSeq(f, 3, 6))),
               As(ReadBytes(image, at, Reserved28), LAMBDA skipped : HeaderOfFields(f))))

=============================================================================
