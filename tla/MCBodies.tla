------------------------------- MODULE MCBodies -------------------------------
(***************************************************************************)
(* Instances of TagBodies for TLC: values of every tag type, at their       *)
(* limits, and the bodies of the types that are only read.                  *)
(***************************************************************************)
EXTENDS TagBodies, TLC

Value(type, value, version) == [type |-> type, value |-> value, version |-> version]
Body(type, bytes, value) == [type |-> type, bytes |-> bytes, value |-> value]
Each(type, values, version) == [i \in DOMAIN values |-> Value(type, values[i], version)]

-----------------------------------------------------------------------------
en == 25966
US == 21843
de == 25701
DE == 17477

Hi == FromAscii(<<72, 105>>)
Localized == <<MluEntry(en, US, <<72>>), MluEntry(None, None, <<80, 81, 82>>), MluEntry(de, DE, <<>>)>>
Wide == <<MluEntry(en, US, <<8364, 255, 65>>), MluEntry(V2Unicode, V2Unicode, <<8364, 66, 0, 67>>)>>
WithNul == FromAscii(<<72, 0, 105>>)
Languages == <<MluEntry(de, DE, <<1000, 0, 300>>), MluEntry(en, de, <<65>>), MluEntry(en, US, <<90, 90>>)>>
Texts == <<Hi, Localized, Wide, WithNul, FromAscii(<<>>), <<>>, Languages>>
Latin1 == FromAscii(<<99, 233>>)

Profiles(version) ==
    <<Value("pseq", <<>>, version),
      Value("psid", <<>>, version),
      Value("psid", <<[id |-> [i \in 1..16 |-> i], description |-> Hi],
                      [id |-> Zeros(16), description |-> Wide]>>, version)>>
Sequence(version) ==
    <<Value("pseq", <<[fields |-> <<1, 2, 0, 4, 5>>, manufacturer |-> Hi, model |-> Localized],
                      [fields |-> <<6, 7, 8, 9, 0>>, manufacturer |-> Wide, model |-> FromAscii(<<>>)]>>,
            version)>>

\* A dictionary: records of 16, 24 or 32 bytes, the texts behind them.
DictFile(length, cells, texts) ==
    U32(Len(cells)) \o U32(length)
    \o FlattenSeq([i \in DOMAIN cells |-> Numbers(cells[i], 4)]) \o texts
Entry(name, value, shown, shownValue) ==
    [name |-> name, value |-> value, display_name |-> shown, display_value |-> shownValue]
Dictionaries ==
    <<Body("dict", DictFile(16, <<<<32, 4, 36, 2>>>>, Numbers(<<78, 77, 86>>, 2)),
           <<Entry(<<78, 77>>, <<86>>, NoText, NoText)>>),
      Body("dict", DictFile(24, <<<<64, 2, 66, 0, 0, 0>>, <<64, 2, 64, 2, 66, 30>>>>,
                            Numbers(<<78>>, 2) \o WriteMlu(FromAscii(<<68>>))),
           <<Entry(<<78>>, <<>>, NoText, NoText), Entry(<<78>>, <<78>>, FromAscii(<<68>>), NoText)>>),
      Body("dict", DictFile(32, <<<<48, 2, 48, 2, 50, 0, 50, 30>>>>,
                            Numbers(<<78>>, 2) \o WriteMlu(FromAscii(<<68>>))),
           <<Entry(<<78>>, <<78>>, NoText, FromAscii(<<68>>))>>)>>

-----------------------------------------------------------------------------
Words7 == <<1, 70000, 65536, 300, 2, 0, 8388608>>
Name(n) == [i \in 1..n |-> 64 + (i % 60)]
Plain ==
    <<Value("XYZ", <<63190, 65536, 54061>>, "v4"), Value("sig", <<1952807028>>, "v4"),
      Value("dtim", <<2024, 12, 31, 23, 59, 58>>, "v4"), Value("meas", Words7, "v4"),
      Value("view", Words7, "v4"), Value("cicp", <<1, 255, 0, 1>>, "v4"),
      Value("chrm", <<1, 2, 65536, 4, 5, 6>>, "v4"),
      Value("sf32", Words7, "v4"), Value("uf32", <<>>, "v4"), Value("ui32", <<1, 2>>, "v4"),
      Value("data", [flag |-> 1, data |-> <<104, 105, 0>>], "v4"),
      Value("data", [flag |-> 0, data |-> <<>>], "v4"),
      Value("clro", <<2, 0, 1>>, "v4"), Value("clro", [i \in 1..16 |-> 16 - i], "v4"),
      Value("clrt", <<[name |-> Name(3), pcs |-> <<1, 2, 3>>], [name |-> Name(40), pcs |-> <<4, 5, 65535>>]>>, "v4"),
      Value("clrt", <<[name |-> <<65, 256>>, pcs |-> <<1, 2, 3>>]>>, "v4"),
      Value("scrn", [flag |-> 0, channels |-> <<>>], "v4")>>

Affix(text) == NameField(text)
Counted(text) == U32(Len(text)) \o text
Foreign ==
    <<Body("corbis", Numbers(<<1, 2, 3>>, 4), <<1, 2, 3>>),
      Body("chrm", U16(0) \o U16(0) \o U16(3) \o U16(1) \o Numbers(<<1, 2, 3, 4, 5, 6>>, 4),
           <<1, 2, 3, 4, 5, 6>>),
      Body("ui08", <<222, 173, 190>>, <<222, 173, 190>>),
      Body("text", <<99, 233, 0, 65>>, FromAscii(<<99, 233>>)),
      Body("text", <<65, 66>>, FromAscii(<<65, 66>>)),
      Body("desc", U32(3) \o <<65, 66, 0>>, FromAscii(<<65, 66>>)),
      Body("desc", U32(0) \o U32(0) \o U32(0) \o U16(0), FromAscii(<<>>)),
      Body("curv", U32(0), Gamma(One)),
      Body("scrn", U32(2) \o U32(17) \o Numbers([i \in 1..45 |-> i], 4),
           [flag |-> 2, channels |-> [i \in 1..15 |-> <<3 * i - 2, 3 * i - 1, 3 * i>>]]),
      Body("crdi", FlattenSeq([i \in 1..5 |-> Counted(SubSeq(<<65, 66, 0, 67>>, 1, i - 1))]),
           <<<<>>, <<65>>, <<65, 66>>, <<65, 66>>, <<65, 66>>>>),
      Body("ncl2", U32(7) \o U32(2) \o U32(1) \o Affix(<<80>>) \o Affix(<<>>)
                   \o Affix(Name(32)) \o Numbers(<<1, 2, 3, 9>>, 2)
                   \o Affix(Name(1)) \o Numbers(<<4, 5, 6, 8>>, 2),
           [vendor_flag |-> 7, colorant_count |-> 1, prefix |-> <<80>>, suffix |-> <<>>,
            colors |-> <<[name |-> Name(32), pcs |-> <<1, 2, 3>>, device |-> <<9>>],
                         [name |-> Name(1), pcs |-> <<4, 5, 6>>, device |-> <<8>>]>>]),
      Body("bfd", U32(2) \o Numbers(<<0, 65535>>, 2) \o U32(1) \o U16(5) \o <<85, 67, 82, 0>>,
           [ucr |-> <<0, 65535>>, bg |-> <<5>>, desc |-> <<85, 67, 82>>])>>

-----------------------------------------------------------------------------
Table3(n) == Tabulated(<<0, n, 65535>>)
Extended == Segmented(<<Formula(6, <<1, 2, 3, 4>>), Sampled(<<1, 5, 7>>), Formula(6, <<2, 2, 2, 2>>)>>)
Inverse1 == Segmented(<<Formula(-1, <<One>>)>>)
Para5(gamma, k, f) == Parametric(5, <<gamma, k * One, 0, 0, 0, f, 0>>)
OneCurves == <<Gamma(One), Gamma(144180), Table3(20000), Tabulated(<<0, 65535>>)>>
CurveItems ==
    Each("curv", OneCurves \o <<Parametric(4, <<1, 2, 3, 4, 5>>), Extended, Inverse1>>, "v2")
    \o Each("para", <<Gamma(144180), Parametric(2, <<1, 2, 3>>), Parametric(3, <<1, 2, 3, 4>>),
                      Parametric(4, <<1, 2, 3, 4, 5>>), Para5(One, 1, 7), Extended, Table3(1)>>, "v4")
    \o Each("vcgt", <<<<Para5(One, 1, 0), Para5(2 * One, 3, 9), Para5(2 * One, 0, 5)>>,
                      <<Table3(1), Table3(2), Table3(3)>>,
                      <<Para5(One, 1, 0), Table3(2), Gamma(One)>>>>, "v4")
    \o <<Body("vcgt", U32(0) \o U16(3) \o U16(2) \o U16(1) \o <<0, 255, 1, 2, 3, 4>>,
              <<Tabulated(<<0, 65535>>), Tabulated(<<257, 514>>), Tabulated(<<771, 1028>>)>>),
         Body("vcgt", U32(0) \o U16(3) \o U16(Entries) \o U16(1)
                      \o Numbers([i \in 1..(3 * Entries) |-> 300 * i], 2) \o Zeros(30),
              [c \in 1..3 |-> Tabulated([i \in 1..Entries |-> 300 * (Entries * (c - 1) + i)])])>>

Matrix(n, offset) == MatrixStage(3, 3, <<One, n, 0, 0, One, 0, n, 0, One>>, offset)
Same(n, curve) == CurveSet([i \in 1..n |-> curve])
Different(n) == CurveSet([i \in 1..n |-> Table3(10 * i)])
Grid(grid, outputs) ==
    ClutStage(grid, outputs, FALSE, [i \in 1..(outputs * Product(grid)) |-> 7 * i])
Float(grid, outputs) == [Grid(grid, outputs) EXCEPT !.float = TRUE]
Three(stages) == Lut(3, 3, stages)

Lut16Items == Each("mft2",
    <<Three(<<Matrix(9, <<>>), Different(3), Grid(<<2, 2, 2>>, 3), Different(3)>>),
      Three(<<Matrix(1, <<>>), Grid(<<2, 2, 2>>, 3)>>),
      Three(<<Matrix(9, <<>>), Same(3, Gamma(One))>>),
      Lut(2, 3, <<Grid(<<3, 3>>, 3), Same(3, Extended)>>),
      Lut(2, 3, <<Grid(<<3, 2>>, 3)>>),
      Lut(2, 1, <<Float(<<2, 2>>, 1)>>),
      Three(<<Different(3), Matrix(9, <<>>)>>),
      Lut(3, 1, <<MatrixStage(1, 3, <<1, 2, 3>>, <<>>), Different(1)>>)>>, "v2")

Lut8File ==
    U8(3) \o U8(1) \o U8(2) \o U8(0) \o Numbers(IdentityMatrix, 4)
    \o FlattenSeq([i \in 1..3 |-> <<0, i, 255>>]) \o [i \in 1..8 |-> 30 * i] \o <<9, 8, 7>>
ByteTable(a, b, c) == Tabulated(<<257 * a, 257 * b, 257 * c>>)
Lut8Items == <<Body("mft1", Lut8File,
    Lut(3, 1, <<CurveSet([i \in 1..3 |-> ByteTable(0, i, 255)]),
                ClutStage(<<2, 2, 2>>, 1, FALSE, [i \in 1..8 |-> 257 * 30 * i]),
                CurveSet(<<ByteTable(9, 8, 7)>>)>>))>>

Mixed(n) == CurveSet([i \in 1..n |->
    CASE i = 1 -> Parametric(2, <<1, 2, 3>>) [] i = 2 -> Table3(5) [] i = 3 -> Extended [] OTHER -> Inverse1])
MabItems ==
    Each("mAB", <<Three(<<Mixed(3)>>),
                  Three(<<Same(3, Gamma(144180)), Matrix(9, <<>>), Mixed(3)>>),
                  Lut(4, 3, <<Mixed(4), Grid(<<2, 3, 2, 2>>, 3), Different(3)>>),
                  Lut(2, 3, <<Different(2), Grid(<<2, 3>>, 3), Mixed(3), Matrix(9, <<1, 2, 3>>),
                              Same(3, Gamma(One))>>),
                  Three(<<Grid(<<2, 2, 2>>, 3)>>),
                  Lut(2, 3, <<Different(2), Float(<<2, 3>>, 3), Different(3)>>),
                  Three(<<Same(3, Segmented(<<Formula(6, <<1, 2, 3, 4>>)>>))>>)>>, "v4")
    \o Each("mBA", <<Three(<<Different(3)>>),
                     Three(<<Mixed(3), Matrix(9, <<4, 5, 6>>), Different(3)>>),
                     Lut(3, 4, <<Different(3), Grid(<<2, 2, 3>>, 4), Mixed(4)>>),
                     Lut(3, 2, <<Different(3), Matrix(9, <<>>), Mixed(3), Grid(<<2, 2, 2>>, 2), Mixed(2)>>)>>,
            "v4")
    \o <<Body("mAB", U8(1) \o U8(1) \o U16(0) \o Numbers(<<0, 0, 0, 32, 0>>, 4)
                     \o GridPoints(<<2>>) \o U8(1) \o Zeros(3) \o <<1, 255>>,
              Lut(1, 1, <<ClutStage(<<2>>, 1, FALSE, <<257, 65535>>)>>))>>

Broken(x, segment) == [segment EXCEPT !.x1 = x]
MpeCurve(k) == Segmented(<<Broken(10, Formula(6, <<k, 2, 3, 4>>)), Broken(20, Sampled(<<k, 5, 7>>)),
                           Broken(30, Sampled(<<7, 8>>)), Formula(8, <<1, 2, 3, 4, 5>>)>>)
MpeItems == Each("mpet",
    <<Three(<<>>),
      Three(<<CurveSet([i \in 1..3 |-> MpeCurve(i)])>>),
      Lut(2, 3, <<CurveSet(<<MpeCurve(1), Segmented(<<Formula(7, <<1, 2, 3, 4, 5>>)>>)>>),
                  MatrixStage(3, 2, <<1, 2, 3, 4, 5, 6>>, <<>>),
                  MatrixStage(3, 3, IdentityMatrix, <<7, 8, 9>>)>>),
      Lut(2, 1, <<Float(<<2, 3>>, 1)>>),
      Lut(2, 1, <<Grid(<<2, 3>>, 1)>>),
      Three(<<Same(3, Gamma(One))>>)>>, "v4")
    \o <<Body("mpet", U16(2) \o U16(2) \o U32(1) \o Numbers(<<24, 8>>, 4)
                      \o U32(ElementSig("bACS")) \o U32(0), Lut(2, 2, <<>>))>>

-----------------------------------------------------------------------------
MCItems ==
    Plain \o Foreign \o Dictionaries
    \o Each("text", Texts, "v2") \o Each("desc", Texts, "v2")
    \o Each("mluc", Append(Texts, Latin1), "v4")
    \o Profiles("v2") \o Profiles("v4") \o Sequence("v4")
    \o CurveItems \o Lut16Items \o Lut8Items \o MabItems \o MpeItems
Latin1Items == <<Value("text", Latin1, "v2"), Value("desc", Latin1, "v2")>>
SequenceV2Items == Sequence("v2")

MCStarts == {0, 128}
MCBehind == <<9, 9, 9, 9, 9, 9, 9, 9, 9, 9, 9, 9, 9, 9, 9, 9>>
MCMaxSaves == 2
=============================================================================
