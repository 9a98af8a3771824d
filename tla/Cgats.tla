-------------------------------- MODULE Cgats --------------------------------
(***************************************************************************)
(* A CGATS document (cgats.rs): loaded token by token, edited through the   *)
(* public calls, saved, and loaded again from what was saved.               *)
(***************************************************************************)
EXTENDS CgatsText

CONSTANTS
    Texts,        \* texts that may be given to load_from_mem
    EditKeys,     \* property names, strings and sheet types that callers set
    EditValues,
    Predefined,   \* PREDEFINED_PROPERTIES: name -> how it is written
    MaxTables,    \* MAXTABLES
    MaxFields,    \* 0x7ffe, the limit on fields and on sets
    MaxCells,     \* 200000, the limit on their product
    MaxEdits,     \* bound on the edits between a load and a save
    MaxSaves      \* bound on the saves

ASSUME CgatsAssumption ==
    /\ \A text \in Texts : IsTokens(text)
    /\ \A v \in EditValues : IsValue(v)
    /\ SatoiMax \in Nat /\ MaxFields \in Nat
    /\ FieldCount \in DOMAIN Predefined => Predefined[FieldCount] # "Pair"

VARIABLES
    phase,     \* "given", "loading", "open", "failed"
    source,    \* the text being loaded
    cursor,    \* the position in it that the lexer stands on
    section,   \* "body" (the loop of parse_it8), "format", "data"
    field, set,   \* i_field and i_set of the running section
    nosheet,   \* the first line is no sheet type
    tables,
    current,   \* n_table
    keywords,  \* valid_keywords
    samples,   \* valid_sample_id
    saves, edits,
    saved      \* the tables when they were last saved

docVars == <<tables, current, keywords, samples>>
parseVars == <<cursor, section, field, set, nosheet>>
vars == <<phase, source, docVars, parseVars, saves, edits, saved>>

-----------------------------------------------------------------------------
(* Tables and property lists *)

NewTable == [sheet |-> <<>>, fields |-> 0, sets |-> 0, id |-> 0,
             header |-> <<>>, format |-> <<>>, data |-> <<>>]

KeyValue(key, sub, val, as) == [key |-> key, sub |-> sub, val |-> val, as |-> as]

\* Mutant: the first property of that name, whatever its subkey.
FindAnySubkey(list, key, sub) ==
    LET named == {i \in DOMAIN list : ~IsComment(key) /\ list[i].key = key}
    IN  IF named = {} THEN 0 ELSE CHOOSE i \in named : \A j \in named : i <= j

\* is_available_on_list: the first property of that name, or with that subkey; 0 for none.
Find(list, key, sub) ==
    LET named == {i \in DOMAIN list : /\ ~IsComment(key)
                                      /\ list[i].key = key
                                      /\ sub # NoValue => list[i].sub = sub}
    IN  IF named = {} THEN 0 ELSE CHOOSE i \in named : \A j \in named : i <= j

Counts == {FieldCount, SetCount}

\* add_to_list refuses only to set one of the two counts again.
Refused(list, key, sub) == key \in Counts /\ Find(list, key, sub) # 0
AddToList(list, key, sub, val, as) ==
    LET i == Find(list, key, sub)
    IN  IF i = 0 THEN Append(list, KeyValue(key, sub, val, as))
        ELSE [list EXCEPT ![i].as = as, ![i].val = val]

Property(t, key) ==
    LET i == Find(t.header, key, NoValue) IN IF i = 0 THEN NoValue ELSE t.header[i].val

\* allocate_data_format; set_data_format numbers the fields from 0.
CanFormat(t) == t.format # <<>> \/ Satoi(Property(t, FieldCount)) \in 1..MaxFields
Formatted(t) ==
    IF t.format # <<>> THEN t
    ELSE LET n == Satoi(Property(t, FieldCount))
         IN  [t EXCEPT !.fields = n, !.format = [i \in 1..(n + 1) |-> NoValue]]

\* allocate_data_set, with a row and a column to spare
CanHoldData(t) ==
    LET ns == Satoi(Property(t, FieldCount))
        np == Satoi(Property(t, SetCount))
    IN  \/ t.data # <<>>
        \/ ns \in 0..MaxFields /\ np \in 0..MaxFields /\ ns * np <= MaxCells
WithData(t) ==
    IF t.data # <<>> THEN t
    ELSE LET ns == Satoi(Property(t, FieldCount))
             np == Satoi(Property(t, SetCount))
         IN  [t EXCEPT !.fields = ns, !.sets = np,
                       !.data = [i \in 1..((ns + 1) * (np + 1)) |-> NoValue]]

\* set_data: the last row and column are one past the ones that are read.
CanSet(t, row, col) == CanHoldData(t) /\ row \in 0..WithData(t).sets /\ col \in 0..WithData(t).fields
Cell(t, row, col) == row * t.fields + col + 1
SetData(t, row, col, v) == LET w == WithData(t) IN [w EXCEPT !.data[Cell(w, row, col)] = v]

\* get_data
Data(t, row, col) ==
    IF row \in 0..(t.sets - 1) /\ col \in 0..(t.fields - 1) /\ t.data # <<>>
    THEN t.data[Cell(t, row, col)] ELSE NoValue

-----------------------------------------------------------------------------
(* Loading *)

Table == tables[current]
Edited(t) == [tables EXCEPT ![current] = t]
Tok == TokenAt(source, cursor)
Sym == Tok.sy
Following == InSymbol(source, cursor)
ToNextLine(at) == SkipEoln(source, InSymbol(source, at))
Ended == {"Eof", "SynError"}

DocInit ==
    /\ tables = <<[NewTable EXCEPT !.sheet = <<"CGATS.17">>]>>
    /\ current = 1
    /\ keywords = Predefined
    /\ samples = {}

Init ==
    /\ phase = "given"
    /\ source \in Texts
    /\ cursor = 0
    /\ section = "body" /\ field = 0 /\ set = 0 /\ nosheet = FALSE
    /\ DocInit
    /\ saves = 0 /\ edits = 0 /\ saved = <<>>

LoadFails == phase' = "failed" /\ UNCHANGED <<source, docVars, parseVars, saves, edits, saved>>

\* load_from_mem up to the loop: a line of one word is the sheet type, read raw.
Recognized ==
    LET bare == FirstWords(source) # 1
        skips == IF bare \/ source[1] = Eoln THEN 0 ELSE 1
    IN  /\ phase = "given"
        /\ IsMyBlock(source)
        /\ phase' = "loading"
        /\ nosheet' = bare
        /\ cursor' = ToNextLine(skips)
        /\ tables' = IF bare THEN tables
                     ELSE [tables EXCEPT ![1].sheet = IF skips = 0 THEN <<>> ELSE source[1].val]
        /\ UNCHANGED <<source, section, field, set, current, keywords, samples, saves, edits, saved>>
NotRecognized == phase = "given" /\ ~IsMyBlock(source) /\ LoadFails

Loading == phase = "loading"
InBody == Loading /\ section = "body"
Unchanged == UNCHANGED <<phase, source, nosheet, saves, edits, saved>>

\* Enter a section: its first line holds nothing but the keyword.
Enter(name, t) ==
    /\ TokenAt(source, Following) = Eoln
    /\ section' = name /\ field' = 0 /\ set' = 0
    /\ cursor' = SkipEoln(source, Following)
    /\ tables' = Edited(t)
    /\ Unchanged /\ UNCHANGED <<current, keywords, samples>>

BeginFormat == InBody /\ Sym = "BeginFormat" /\ Enter("format", Table)
BeginData == InBody /\ Sym = "BeginData" /\ CanHoldData(Table) /\ Enter("data", WithData(Table))
BadSection ==
    /\ InBody /\ Sym \in {"BeginFormat", "BeginData"}
    /\ \/ TokenAt(source, Following) # Eoln
       \/ Sym = "BeginData" /\ ~CanHoldData(Table)
    /\ LoadFails

PastEnd(sy) == SkipEoln(source, Skip(source, SkipEoln(source, cursor), sy))
FormatEnds == {"EndFormat", "Eoln"} \cup Ended
Label ==
    /\ Loading /\ section = "format" /\ Sym = "Ident"
    /\ CanFormat(Table) /\ field < Formatted(Table).fields
    /\ tables' = Edited([Formatted(Table) EXCEPT !.format[field + 1] = Tok.val])
    /\ field' = field + 1
    /\ cursor' = ToNextLine(cursor)
    /\ Unchanged /\ UNCHANGED <<section, set, current, keywords, samples>>
BadLabel ==
    /\ Loading /\ section = "format" /\ Sym \notin FormatEnds
    /\ Sym = "Ident" => ~CanFormat(Table) \/ field >= Formatted(Table).fields
    /\ LoadFails
EndFormat ==
    /\ Loading /\ section = "format" /\ Sym \in FormatEnds
    /\ section' = "body"
    /\ cursor' = PastEnd("EndFormat")
    /\ Unchanged /\ UNCHANGED <<field, set, docVars>>

DataEnds == {"EndData"} \cup Ended

\* Mutant: a full row is only noticed one value late.
WrapsRowLate == field > Table.fields

\* Where the next value goes: a full row makes place for another.
WrapsRow == field >= Table.fields

Value ==
    LET col == IF WrapsRow THEN 0 ELSE field
        row == IF WrapsRow THEN set + 1 ELSE set
    IN  /\ Loading /\ section = "data" /\ Sym \notin DataEnds
        /\ HasValue(Tok) /\ CanSet(Table, row, col)
        /\ tables' = Edited(SetData(Table, row, col, Tok.val))
        /\ field' = col + 1 /\ set' = row
        /\ cursor' = ToNextLine(cursor)
        /\ Unchanged /\ UNCHANGED <<section, current, keywords, samples>>
BadValue ==
    /\ Loading /\ section = "data" /\ Sym \notin DataEnds
    /\ HasValue(Tok) => ~CanSet(Table, IF WrapsRow THEN set + 1 ELSE set,
                                      IF WrapsRow THEN 0 ELSE field)
    /\ LoadFails

AfterData == PastEnd("EndData")
RowsAgree == set + 1 = Table.sets

\* The table that follows a data section, unless the text ends there: its first
\* token is the sheet type if nothing else stands on its line.
IsSheetType(at) ==
    /\ ~nosheet
    /\ \/ TokenAt(source, at).sy = "Ident" /\ TokenAt(source, at + 1) = Eoln
       \/ TokenAt(source, at).sy = "Str"
LastData ==
    /\ Loading /\ section = "data" /\ Sym \in DataEnds
    /\ RowsAgree /\ TokenAt(source, AfterData).sy \in Ended
    /\ section' = "body"
    /\ cursor' = AfterData
    /\ Unchanged /\ UNCHANGED <<field, set, docVars>>
EndData ==
    /\ Loading /\ section = "data" /\ Sym \in DataEnds
    /\ RowsAgree /\ TokenAt(source, AfterData).sy \notin Ended /\ Len(tables) < MaxTables - 1
    /\ section' = "body"
    /\ LET sheet == IF IsSheetType(AfterData) THEN TokenAt(source, AfterData).val ELSE <<>>
       IN  tables' = Append(tables, [NewTable EXCEPT !.sheet = sheet])
    /\ cursor' = IF IsSheetType(AfterData) THEN InSymbol(source, AfterData) ELSE AfterData
    /\ current' = Len(tables) + 1
    /\ Unchanged /\ UNCHANGED <<field, set, keywords, samples>>
BadData ==
    /\ Loading /\ section = "data" /\ Sym \in DataEnds
    /\ \/ ~RowsAgree
       \/ TokenAt(source, AfterData).sy \notin Ended /\ Len(tables) >= MaxTables - 1
    /\ LoadFails

(* The statements outside the sections *)
ValueToken == TokenAt(source, Following)
NextStatement == cursor' = ToNextLine(Following)

\* KEYWORD and DATA_FORMAT_IDENTIFIER declare a name; a known name becomes an
\* ordinary one, and a quoted name that is not one word is none of a statement.
Declare ==
    /\ InBody /\ Sym = "Keyword" /\ HasValue(ValueToken)
    /\ LET name == ValueToken.val
       IN  /\ ~(\E c \in Counts : name = <<c>>)
           /\ keywords' = IF Len(name) # 1 THEN keywords
                          ELSE [k \in DOMAIN keywords \cup {name[1]} |->
                                  IF k = name[1] THEN "Uncooked" ELSE keywords[k]]
    /\ NextStatement
    /\ Unchanged /\ UNCHANGED <<section, field, set, tables, current, samples>>
DeclareSample ==
    /\ InBody /\ Sym = "SampleId" /\ HasValue(ValueToken)
    /\ ~(\E c \in Counts : ValueToken.val = <<c>> /\ <<c>> \in samples)
    /\ samples' = samples \cup {ValueToken.val}
    /\ NextStatement
    /\ Unchanged /\ UNCHANGED <<section, field, set, tables, current, keywords>>
BadDeclaration ==
    /\ InBody /\ Sym \in {"Keyword", "SampleId"}
    /\ \/ ~HasValue(ValueToken)
       \/ Sym = "Keyword" /\ \E c \in Counts : ValueToken.val = <<c>>
       \/ Sym = "SampleId" /\ \E c \in Counts : ValueToken.val = <<c>> /\ <<c>> \in samples
    /\ LoadFails

WrittenAs(name) == IF name \in DOMAIN keywords THEN keywords[name] ELSE "Uncooked"

\* What the pairs "subkey,value" of a property are, one or two; none when a
\* chunk is not one.
PairsOf(v) ==
    LET k == <<"k", <<"v">>>>
        m == <<"m", <<"w">>>>
    IN  IF v = <<"k,v">> THEN <<k>> ELSE IF v = <<"m,w">> THEN <<m>>
        ELSE IF v = <<"k,v;m,w">> THEN <<k, m>> ELSE <<>>

WithPairs(list, name, v) ==
    LET pairs == PairsOf(v)
        Add(l, p) == AddToList(l, name, p[1], p[2], "Pair")
    IN  IF Len(pairs) = 1 THEN Add(list, pairs[1]) ELSE Add(Add(list, pairs[1]), pairs[2])

Statement ==
    LET name == Tok.val[1]
        as == IF ValueToken.sy = "Str" THEN "Stringify" ELSE "Uncooked"
    IN  /\ InBody /\ Sym = "Ident" /\ HasValue(ValueToken)
        /\ \/ /\ WrittenAs(name) # "Pair"
              /\ ~Refused(Table.header, name, NoValue)
              /\ tables' = Edited([Table EXCEPT !.header =
                                     AddToList(@, name, NoValue, ValueToken.val, as)])
           \/ /\ WrittenAs(name) = "Pair"
              /\ ValueToken.sy = "Str" /\ PairsOf(ValueToken.val) # <<>>
              /\ tables' = Edited([Table EXCEPT !.header =
                                     WithPairs(@, name, ValueToken.val)])
        /\ keywords' = [k \in DOMAIN keywords \cup {name} |-> WrittenAs(k)]
        /\ NextStatement
        /\ Unchanged /\ UNCHANGED <<section, field, set, current, samples>>
BadStatement ==
    LET name == Tok.val[1]
    IN  /\ InBody /\ Sym = "Ident"
        /\ \/ ~HasValue(ValueToken)
           \/ WrittenAs(name) # "Pair" /\ Refused(Table.header, name, NoValue)
           \/ /\ WrittenAs(name) = "Pair"
              /\ ValueToken.sy # "Str" \/ PairsOf(ValueToken.val) = <<>>
        /\ LoadFails
BlankLines ==
    /\ InBody /\ Sym = "Eoln"
    /\ cursor' = SkipEoln(source, cursor)
    /\ Unchanged /\ UNCHANGED <<section, field, set, docVars>>
Misplaced ==
    /\ InBody /\ Sym \in {"Inum", "Dnum", "Str", "EndData", "EndFormat", "SynError"}
    /\ LoadFails

\* cook_pointers: in the columns LABEL and $..., a value that names a property of
\* some table becomes a reference to it, the last such table winning.
IsReference(label) == label \in {<<"LABEL">>, <<"$TABLE">>}
Naming(ts, label) == {k \in DOMAIN ts : Len(label) = 1 /\ Find(ts[k].header, label[1], NoValue) # 0}
Reference(ts, label) ==
    LET k == CHOOSE k \in Naming(ts, label) : \A m \in Naming(ts, label) : m <= k
    IN  label \o <<ToString(k - 1)>> \o Property(ts[k], label[1])
CookedCell(ts, t, i) ==
    LET row == (i - 1) \div t.fields
        col == (i - 1) % t.fields
        v == t.data[i]
    IN  IF /\ row < t.sets /\ col + 1 \in DOMAIN t.format /\ v # NoValue
           /\ t.format[col + 1] # NoValue /\ IsReference(t.format[col + 1])
           /\ Naming(ts, v) # {}
        THEN Reference(ts, v) ELSE v

Cooked(ts) ==
    [j \in DOMAIN ts |->
       LET t == ts[j]
           ids == {c \in 1..t.fields : c \in DOMAIN t.format /\ t.format[c] = <<"SAMPLE_ID">>}
       IN  [t EXCEPT !.id = IF ids = {} THEN 0
                            ELSE (CHOOSE c \in ids : \A d \in ids : d <= c) - 1,
                     !.data = [i \in DOMAIN t.data |->
                                 IF t.fields = 0 THEN t.data[i] ELSE CookedCell(ts, t, i)]]]

EndOfText ==
    /\ InBody /\ Sym = "Eof"
    /\ phase' = "open"
    /\ tables' = Cooked(tables)
    /\ current' = 1
    /\ UNCHANGED <<source, parseVars, keywords, samples, saves, edits, saved>>

LoadStep ==
    \/ Recognized \/ NotRecognized
    \/ BeginFormat \/ BeginData \/ BadSection
    \/ Label \/ BadLabel \/ EndFormat
    \/ Value \/ BadValue \/ LastData \/ EndData \/ BadData
    \/ Declare \/ DeclareSample \/ BadDeclaration
    \/ Statement \/ BadStatement \/ BlankLines \/ Misplaced
    \/ EndOfText

-----------------------------------------------------------------------------
(* Editing *)

MayEdit == phase = "open" /\ edits < MaxEdits

Edit(t) ==
    /\ edits' = edits + 1
    /\ tables' = Edited(t)
    /\ UNCHANGED <<phase, source, parseVars, current, keywords, samples, saves, saved>>

SetTable ==
    /\ edits' = edits + 1
    /\ \E n \in 1..(Len(tables) + 1) :
         /\ n <= Len(tables) \/ Len(tables) < MaxTables - 1
         /\ current' = n
         /\ tables' = IF n > Len(tables) THEN Append(tables, NewTable) ELSE tables
    /\ UNCHANGED <<phase, source, parseVars, keywords, samples, saves, saved>>
SetSheetType == \E v \in EditValues : Edit([Table EXCEPT !.sheet = v])

\* set_property_str, _dbl and _uncooked, _hex: one rule per way a value is written.
Settable(as, v) ==
    \/ as = "Stringify" /\ v # <<>>
    \/ as = "Uncooked"
    \/ as = "Hexadecimal" /\ Len(v) = 1 /\ v[1] \in DOMAIN Decimal /\ IsInteger(v[1])
SetProperty ==
    \E key \in EditKeys, v \in EditValues, as \in {"Stringify", "Uncooked", "Hexadecimal"} :
       /\ Settable(as, v)
       /\ ~Refused(Table.header, key, NoValue)
       /\ Edit([Table EXCEPT !.header = AddToList(@, key, NoValue, v, as)])
\* set_data allocates before it looks at the row and the column.
SetDataRowCol ==
    \E row, col \in 0..(MaxFields + 1), v \in EditValues :
       \/ CanSet(Table, row, col) /\ Edit(SetData(Table, row, col, v))
       \/ CanHoldData(Table) /\ ~CanSet(Table, row, col) /\ Edit(WithData(Table))

-----------------------------------------------------------------------------
(* Saving *)

\* write_header: a comment property becomes comment lines, and is gone when read.
HeaderLine(p) ==
    LET name == WordToken(Reserved, p.key)
    IN  CASE IsComment(p.key) -> Line(<<name>>) \o Line(<<name>>) \o Line(<<name>>)
          [] ~IsComment(p.key) /\ p.as = "Uncooked" -> Line(<<name>> \o Bare(p.val))
          [] ~IsComment(p.key) /\ p.as = "Stringify" -> Line(<<name, Quoted(p.val)>>)
          [] ~IsComment(p.key) /\ p.as = "Hexadecimal" ->
                Line(<<name>> \o Bare(<<ToString(Satoi(p.val))>>))
          [] ~IsComment(p.key) /\ p.as = "Pair" ->
                Line(<<name, Quoted(<<(IF p.sub = NoValue THEN "" ELSE p.sub) \o "," \o p.val[1]>>)>>)

\* write_data_format and write_data go by the counts of the header, as far as
\* the table reaches.
FormatLines(t) ==
    LET n == Satoi(Property(t, FieldCount))
        labels == IF n > t.fields THEN <<>> ELSE SubSeq(t.format, 1, n)
    IN  IF t.format = <<>> THEN <<>>
        ELSE Line(Bare(<<"BEGIN_DATA_FORMAT">>))
             \o (IF labels = <<>> THEN <<>>
                 ELSE Line(FlattenSeq([i \in DOMAIN labels |->
                                         IF labels[i] = NoValue THEN <<>> ELSE Bare(labels[i])])))
             \o Line(Bare(<<"END_DATA_FORMAT">>))

\* A value is quoted only when it holds a space.
CellTokens(v) ==
    IF v = NoValue THEN <<Quoted(<<>>)>> ELSE IF Len(v) > 1 THEN <<Quoted(v)>> ELSE Bare(v)

Row(t, row) ==
    IF t.fields = 0 THEN <<>>
    ELSE Line(FlattenSeq([c \in 1..t.fields |-> CellTokens(t.data[Cell(t, row, c - 1)])]))
DataLines(t) ==
    LET n == Satoi(Property(t, SetCount))
    IN  IF t.data = <<>> THEN <<>>
        ELSE Line(Bare(<<"BEGIN_DATA">>))
             \o (IF n > t.sets THEN <<>> ELSE FlattenSeq([r \in 1..n |-> Row(t, r - 1)]))
             \o Line(Bare(<<"END_DATA">>))
Written(t) ==
    Line(Bare(t.sheet)) \o FlattenSeq([i \in DOMAIN t.header |-> HeaderLine(t.header[i])])
    \o FormatLines(t) \o DataLines(t)

\* save_to_mem, and what it returns given to load_from_mem.
SaveAndReload ==
    /\ phase = "open" /\ saves < MaxSaves
    /\ phase' = "given"
    /\ source' = FlattenSeq([i \in DOMAIN tables |-> Written(tables[i])])
    /\ saved' = tables
    /\ saves' = saves + 1
    /\ cursor' = 0
    /\ section' = "body" /\ field' = 0 /\ set' = 0 /\ nosheet' = FALSE
    /\ tables' = <<[NewTable EXCEPT !.sheet = <<"CGATS.17">>]>>
    /\ current' = 1 /\ keywords' = Predefined /\ samples' = {}
    /\ edits' = 0

EditStep == MayEdit /\ (SetTable \/ SetSheetType \/ SetProperty \/ SetDataRowCol)
CgatsNext == LoadStep \/ EditStep \/ SaveAndReload

\* Loading runs to its end once called; callers need not do anything.
CgatsSpec == Init /\ [][CgatsNext]_vars /\ WF_vars(LoadStep)

-----------------------------------------------------------------------------
(* Properties *)

\* A string that reads back as itself without quotes.
Plain(v) == Len(v) = 1 /\ LET tok == WordToken(Reserved, v[1])
                          IN  tok.val = v /\ tok.sy \in {"Ident", "Inum", "Dnum"}
Name(v) == Plain(v) /\ WordToken(Reserved, v[1]).sy = "Ident"

Visible(list) == SelectSeq(list, LAMBDA p : ~IsComment(p.key))
PlainProperty(p) ==
    /\ Name(<<p.key>>)
    /\ p.as = "Uncooked" => p.val = <<>> \/ Plain(p.val)
    /\ p.as = "Hexadecimal" => Decimal[p.val[1]] <= SatoiMax
    /\ (p.as = "Pair") = (p.key \in DOMAIN Predefined /\ Predefined[p.key] = "Pair")

(***************************************************************************)
(* What the text of CGATS cannot carry, all of which the writer writes      *)
(* without a word: a value that needs quotes for another reason than a      *)
(* space; an empty value; a sheet type of more than one name, or none before*)
(* a property that could be one; a table in the middle without data; a data *)
(* section without rows or without columns (of values read without columns  *)
(* each counts as a row, and none is written).                              *)
(***************************************************************************)
PlainTable(t, first, last) ==
    /\ \A i \in DOMAIN t.header : IsComment(t.header[i].key) \/ PlainProperty(t.header[i])
    /\ \/ Name(t.sheet)
       \/ /\ t.sheet = <<>> /\ ~first
          /\ Visible(t.header) # <<>>
          /\ Visible(t.header)[1].val # <<>> \/ Visible(t.header)[1].as # "Uncooked"
    /\ t.data = <<>> => last
    /\ t.data # <<>> =>
         /\ t.sets > 0 /\ t.fields > 0
         /\ \A r \in 0..(t.sets - 1), c \in 0..(t.fields - 1) :
              LET v == Data(t, r, c) IN v = NoValue \/ Len(v) > 1 \/ Plain(v)
IsPlain(ts) == \A i \in DOMAIN ts : PlainTable(ts[i], i = 1, i = Len(ts))

Shown(p) == [p EXCEPT !.as = IF @ = "Hexadecimal" THEN "Uncooked" ELSE @]
Blank(v) == IF v = NoValue THEN <<>> ELSE v
SameTable(t, u) ==
    /\ t.sheet = u.sheet /\ t.fields = u.fields /\ t.sets = u.sets /\ t.id = u.id
    /\ t.format = u.format
    /\ (t.data = <<>>) = (u.data = <<>>)
    /\ \A r \in 0..(t.sets - 1), c \in 0..(t.fields - 1) :
         Blank(Data(t, r, c)) = Blank(Data(u, r, c))
    /\ LET h == Visible(t.header)
           k == Visible(u.header)
       IN  Len(h) = Len(k) /\ \A i \in DOMAIN h : Shown(h[i]) = k[i]

\* What save_to_mem writes, load_from_mem reads back (cgats.rs save_to_mem,
\* load_from_mem): a document the format can carry, loaded and edited in any
\* way, is the same document again, its references resolved anew.
ReloadsAsSaved ==
    saves > 0 /\ edits = 0 /\ phase \in {"open", "failed"} /\ IsPlain(saved) =>
        /\ phase = "open"
        /\ Len(tables) = Len(saved)
        /\ \A i \in DOMAIN saved : SameTable(Cooked(saved)[i], tables[i])

\* Where the data sections of a text begin (a first line of one word is the sheet
\* type, whatever the word), and the positions of the values in one: as far as
\* the text goes or the section's end.
Starts(text) == {i \in DOMAIN text : text[i].sy = "BeginData" /\ (i = 1 => FirstWords(text) # 1)}
Inside(text, s) == {j \in (s + 1)..Len(text) : /\ text[j].sy \notin {"Eoln", "Comment"}
                                              /\ \A k \in s..j : text[k].sy # "EndData"}
Before(S, p) == Cardinality({i \in S : i < p})

\* Loading puts the values of each data section into its own table, in order and
\* row by row, and into nothing else (cgats.rs data_section, set_data).
CellsAreTheValues ==
    phase = "open" /\ edits = 0 =>
        /\ Cardinality(Starts(source)) <= Len(tables)
        /\ \A i \in DOMAIN tables : tables[i].data # <<>> <=> i <= Cardinality(Starts(source))
        /\ \A s \in Starts(source) :
             LET t == tables[Before(Starts(source), s) + 1]
                 values == Inside(source, s)
             IN  t.fields > 0 =>
                   /\ Cardinality(values) <= t.fields * t.sets
                   /\ \A j \in values : IsPrefix(source[j].val, t.data[Before(values, j) + 1])
                   /\ \A n \in DOMAIN t.data : n > Cardinality(values) => t.data[n] = NoValue

\* Every load ends, with a document or an error (cgats.rs parse_it8 and the
\* sections: each turn of a loop takes a token).
LoadingEnds == phase \in {"given", "loading"} ~> phase \in {"open", "failed"}
=============================================================================
