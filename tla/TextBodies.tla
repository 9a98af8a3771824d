----------------------------- MODULE TextBodies ------------------------------
(***************************************************************************)
(* Texts in tag bodies: the three types of the text family, the profile     *)
(* sequences that embed them, and the dictionary.  Written by               *)
(* profile/serialize.rs, read by profile/types/mlu.rs and types/named.rs.   *)
(*                                                                          *)
(* A text is a sequence of UTF-16 units outside the surrogates; a language  *)
(* and a country are two-byte codes.  Every position is that of the body,   *)
(* eight bytes after the start of its type base.                            *)
(***************************************************************************)
EXTENDS ByteStream

\* The types that have a reader, numbered in place of their signatures; 0 is
\* no signature.  "corbis" is the vendor's own signature for XYZ.
BodyTypes == <<"XYZ", "corbis", "sf32", "uf32", "ui08", "ui32", "sig", "data", "dtim", "chrm",
               "text", "clro", "meas", "view", "scrn", "crdi", "cicp", "clrt", "mluc", "desc",
               "ncl2", "pseq", "psid", "dict", "curv", "para", "vcgt", "bfd", "mft1", "mft2",
               "mAB", "mBA", "mpet">>
SigNumber(type) == SelectInSeq(BodyTypes, LAMBDA t : t = type)

TypeBase(type) == U32(SigNumber(type)) \o U32(0)
BaseLength == 8

None == 0            \* cmsNoLanguage, cmsNoCountry
V2Unicode == 65535   \* cmsV2Unicode
MluEntry(language, country, text) ==
    [language |-> language, country |-> country, text |-> text]
FromAscii(text) == <<MluEntry(None, None, text)>>

-----------------------------------------------------------------------------
\* Mlu::select: an exact match, else the language, else the first entry.
Select(mlu, language, country) ==
    LET Best(ranked) == IF ranked = <<>> THEN <<>> ELSE ranked[1].text
    IN  Best(SelectSeq(mlu, LAMBDA e : e.language = language /\ e.country = country)
             \o SelectSeq(mlu, LAMBDA e : e.language = language) \o mlu)

QuestionMark == 63
PreferredAscii(mlu) ==
    LET Narrow(text) == [i \in DOMAIN text |-> IF text[i] < 255 THEN text[i] ELSE QuestionMark]
    IN  Narrow(Select(mlu, None, None))

\* str::as_bytes: Rust's strings are UTF-8.
AsBytes(text) ==
    FlattenSeq([i \in DOMAIN text |-> IF text[i] < 128 THEN <<text[i]>>
                                      ELSE <<192 + (text[i] \div 64), 128 + (text[i] % 64)>>])

WriteText(mlu) == AsBytes(PreferredAscii(mlu)) \o <<0>>

WideClipped(text, len) ==
    [i \in 1..len |-> IF i < len /\ i <= Len(text) THEN text[i] ELSE 0]

MacBytes == 67
WriteTextDescription(mlu) ==
    LET body(ascii, wide) ==
            U32(Len(ascii) + 1) \o ascii \o <<0>> \o U32(0) \o U32(Len(ascii) + 1)
            \o Numbers(WideClipped(wide, Len(ascii) + 1), 2) \o U16(0) \o U8(0) \o Zeros(MacBytes)
    IN  Padded(body(AsBytes(UpToNul(PreferredAscii(mlu))), Select(mlu, V2Unicode, V2Unicode)))

\* The offset of the first text: type base, count and record length, records.
PoolStart(count) == 12 * count + 8 + BaseLength

WriteMlu(mlu) ==
    LET units  == [i \in DOMAIN mlu |-> IF mlu[i].text = <<>> THEN <<0>> ELSE mlu[i].text]
        before(i) == FoldLeft(LAMBDA n, u : n + Len(u), 0, SubSeq(units, 1, i - 1))
        record(i) == U16(mlu[i].language) \o U16(mlu[i].country) \o U32(2 * Len(units[i]))
                     \o U32(2 * before(i) + PoolStart(Len(mlu)))
    IN  U32(Len(mlu)) \o U32(12) \o FlattenSeq([i \in DOMAIN mlu |-> record(i)])
        \o Numbers(FlattenSeq(units), 2)

\* SaveDescription: a type base of its own, by the version of the profile.
WriteEmbedded(mlu, version) ==
    IF version = "v4" THEN TypeBase("mluc") \o WriteMlu(mlu)
                      ELSE TypeBase("desc") \o WriteTextDescription(mlu)

-----------------------------------------------------------------------------
MaxTextLength == 524287  \* 0x7ffff

ReadText(file, at, size) == As(ReadAscii(file, at, size), FromAscii)

\* The second entry only when the Unicode block is there and fits.
ReadUnicode(file, at, remaining) ==
    LET text(here, count) ==
            IF count # 0 /\ count <= MaxTextLength /\ remaining - 8 >= 2 * count
            THEN As(ReadNumbers(file, here, count, 2),
                    LAMBDA units : <<MluEntry(V2Unicode, V2Unicode, UpToNul(units))>>)
            ELSE Got(<<>>, here)
    IN  IF remaining < 8 THEN Got(<<>>, at)
        ELSE Then(ReadNumbers(file, at, 2, 4), LAMBDA codes, here : text(here, codes[2]))

ReadTextDescription(file, at, size) ==
    Unless(size < 4, Then(ReadNumber(file, at, 4), LAMBDA count, here :
        Unless(count > MaxTextLength \/ size - 4 < count,
            Then(ReadAscii(file, here, count), LAMBDA ascii, end :
                As(ReadUnicode(file, end, size - 4 - count),
                   LAMBDA wide : FromAscii(ascii) \o wide)))))

\* Mutant: the end of a text is compared with the tag, without its type base.
TextFitsLoose(count, size, offset, len) ==
    offset % 2 = 0 /\ offset >= PoolStart(count) /\ offset <= size + 8

\* A text lies behind the records and inside the tag.
TextFits(count, size, offset, len) ==
    offset % 2 = 0 /\ offset >= PoolStart(count) /\ offset + len <= size + 8

\* The cursor ends after the text that ends last, whatever its record.
ReadMlu(file, at, size) ==
    LET record(count, here) ==
            Then(ReadFields(file, here, <<2, 2, 4, 4>>), LAMBDA r, end :
                Unless(~TextFits(count, size, r[4], r[3]), Got(r, end)))
        begin(r) == at - BaseLength + r[4]
        text(r)  == MluEntry(r[1], r[2], ReadNumbers(file, begin(r), r[3] \div 2, 2).value)
        texts(records, pool) ==
            Unless(\E r \in ToSet(records) : begin(r) + r[3] > Len(file),
                   Got([i \in DOMAIN records |-> text(records[i])],
                       Max({begin(r) + r[3] : r \in ToSet(records)} \cup {pool})))
    IN  Then(ReadNumbers(file, at, 2, 4), LAMBDA head, here :
            Unless(head[2] # 12,
                   Then(InTurn(head[1], here, LAMBDA i, next : record(head[1], next)), texts)))

\* ReadEmbeddedText: the type base decides.
ReadEmbedded(file, at, size) ==
    Then(ReadNumbers(file, at, 2, 4), LAMBDA base, here :
        CASE base[1] = SigNumber("text") -> ReadText(file, here, size)
          [] base[1] = SigNumber("desc") -> ReadTextDescription(file, here, size)
          [] base[1] = SigNumber("mluc") -> ReadMlu(file, here, size)
          [] OTHER -> Failed)

-----------------------------------------------------------------------------
\* A profile sequence: signatures and attributes, then two descriptions that
\* follow each other without a size of their own.
PseqFields == <<4, 4, 4, 4, 4>>

WritePseq(items, version) ==
    U32(Len(items)) \o
    FlattenSeq([i \in DOMAIN items |->
        Numbers(items[i].fields, 4) \o WriteEmbedded(items[i].manufacturer, version)
                                    \o WriteEmbedded(items[i].model, version)])

\* The size shrinks by the fixed fields only; both texts are given what is left.
ReadPseqItem(file, at, remaining) ==
    Unless(remaining < 0, Then(ReadFields(file, at, PseqFields), LAMBDA fields, here :
        As(InTurn(2, here, LAMBDA i, next : ReadEmbedded(file, next, remaining)),
           LAMBDA t : [fields |-> fields, manufacturer |-> t[1], model |-> t[2]])))

ReadPseq(file, at, size) ==
    Unless(size < 4, Then(ReadNumber(file, at, 4), LAMBDA count, here :
        InTurn(count, here, LAMBDA i, next : ReadPseqItem(file, next, size - 4 - 20 * i))))

-----------------------------------------------------------------------------
\* A table of positions and sizes, patched in once the elements are written;
\* an element's offset counts from the type base.  `head` is what precedes it.
PositionTable(head, elements) ==
    LET start     == BaseLength + Len(head) + 8 * Len(elements)
        before(i) == Len(FlattenSeq(SubSeq(elements, 1, i - 1)))
    IN  FlattenSeq([i \in DOMAIN elements |-> U32(start + before(i)) \o U32(Len(elements[i]))])

WithPositionTable(head, elements) ==
    head \o PositionTable(head, elements) \o FlattenSeq(elements)

\* The elements read at their positions; the cursor stays after the last.
ReadAtPositions(file, at, base, count, Read(_, _)) ==
    Then(InTurn(count, at, LAMBDA i, here : ReadNumbers(file, here, 2, 4)), LAMBDA table, end :
        InTurn(count, end, LAMBDA i, here :
            Unless(base + table[i][1] > Len(file), Read(base + table[i][1], table[i][2]))))

IdLength == 16
WritePsid(items, version) ==
    WithPositionTable(U32(Len(items)),
        [i \in DOMAIN items |-> items[i].id \o WriteEmbedded(items[i].description, version)])

ReadPsidItem(file, at, size) ==
    Then(ReadBytes(file, at, IdLength), LAMBDA id, here :
        As(ReadEmbedded(file, here, size), LAMBDA t : [id |-> id, description |-> t]))

ReadPsid(file, at, size) ==
    Then(ReadNumber(file, at, 4), LAMBDA count, here :
        Unless(8 * count > (IF size < 4 THEN 0 ELSE size - 4),
               ReadAtPositions(file, here, at - BaseLength, count,
                               LAMBDA next, len : ReadPsidItem(file, next, len))))

-----------------------------------------------------------------------------
\* A dictionary record: two, three or four cells of an offset and a size.  An
\* offset of 0 is no text; a display name of size 0 is none either.
NoText == <<"no text">>
RecordLengths == {16, 24, 32}

ReadWide(file, base, cell) ==
    Unless(cell[1] = 0 \/ cell[2] \div 2 > MaxTextLength,
           ReadNumbers(file, base + cell[1], cell[2] \div 2, 2))

ReadDisplay(file, base, cells, k) ==
    IF k > Len(cells) THEN Got(NoText, base)
    ELSE IF cells[k][1] = 0 \/ cells[k][2] = 0 THEN Got(NoText, base)
    ELSE ReadMlu(file, base + cells[k][1], cells[k][2])

ReadDictEntry(file, base, cells) ==
    LET entry(texts) == [name |-> texts[1], value |-> texts[2],
                         display_name |-> texts[3], display_value |-> texts[4]]
    IN  As(InTurn(4, base, LAMBDA k, here : IF k <= 2 THEN ReadWide(file, base, cells[k])
                                            ELSE ReadDisplay(file, base, cells, k)), entry)

ReadDictionary(file, at, size) ==
    LET cells(length, here) ==
            InTurn(length \div 8, here, LAMBDA k, next : ReadNumbers(file, next, 2, 4))
        records(count, length, here) ==
            InTurn(count, here, LAMBDA i, next : Unless(size - 8 < length * i, cells(length, next)))
        entries(table, end) ==
            InTurn(Len(table), end, LAMBDA i, here : ReadDictEntry(file, at - BaseLength, table[i]))
    IN  Unless(size < 8, Then(ReadNumbers(file, at, 2, 4), LAMBDA head, here :
            Unless(head[2] \notin RecordLengths, Then(records(head[1], head[2], here), entries))))

=============================================================================
