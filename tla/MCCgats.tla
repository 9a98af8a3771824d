------------------------------ MODULE MCCgats ------------------------------
(***************************************************************************)
(* Instance of Cgats for TLC: one- and two-table texts with every kind of   *)
(* property, column and value, texts that start without a sheet type, and   *)
(* each text of a few with any one token lost or spoilt; and .cube files    *)
(* with any keywords before their data.  A behaviour reads the one kind or  *)
(* the other.                                                               *)
(***************************************************************************)
EXTENDS Cgats, CubeFile

W(w) == WordToken(Reserved, w)
Words(ws) == Line([i \in DOMAIN ws |-> W(ws[i])])
Begin == Words(<<"BEGIN_DATA">>)
End == Words(<<"END_DATA">>)
Format(labels) == Words(<<"BEGIN_DATA_FORMAT">>) \o Words(labels) \o Words(<<"END_DATA_FORMAT">>)
Counted(nf, ns) == Words(<<FieldCount, nf>>) \o Words(<<SetCount, ns>>)

Sheet == Words(<<"CGATS.17">>)
Openings == {Sheet, <<Eoln>>, Words(<<"ORIGINATOR", "A">>), Words(<<"A", "B", "C">>)}
Origin == Line(<<W("ORIGINATOR"), Quoted(<<"a", "b">>)>>)
Weights == Line(<<W("WEIGHTING"), Quoted(<<"k,v;m,w">>)>>)
Headers ==
    {<<>>, Origin, Weights,
     Words(<<"X">>),
     Words(<<"#", "A", "B">>) \o Line(<<W("X"), Quoted(<<>>)>>),
     Words(<<"KEYWORD", "WEIGHTING">>) \o Line(<<W("WEIGHTING"), Quoted(<<"a", "b">>)>>),
     Line(<<W("KEYWORD"), Quoted(<<FieldCount, "A">>)>>) \o Line(<<W("KEYWORD"), Quoted(<<"WEIGHTING", "A">>)>>) \o Weights,
     Words(<<"DATA_FORMAT_IDENTIFIER", "Y">>) \o Words(<<"ORIGINATOR", "1.50">>) \o Weights,
     Words(<<"DATA_FORMAT_IDENTIFIER", FieldCount>>) \o Words(<<"DATA_FORMAT_IDENTIFIER", FieldCount>>)}

CellTokenSet == {W("A"), W("1"), W("1.50"), Quoted(<<"a", "b">>), Quoted(<<>>),
                 Quoted(<<"END_DATA">>), W("ORIGINATOR"), W("BEGIN_DATA")}
Column == {Line(<<c>>) \o Line(<<W("A")>>) : c \in CellTokenSet}
          \cup {Line(<<W("A")>>) \o Line(<<c>>) : c \in CellTokenSet}
TwoByTwo == Line(<<W("A"), W("1")>>) \o Line(<<W("ORIGINATOR"), W("2")>>)

\* One table
Small == {Counted("1", "2") \o Format(<<l>>) \o Begin \o c \o End :
            l \in {"A", "LABEL"}, c \in Column}
Square == Counted("2", "2") \o Format(<<"SAMPLE_ID", "$TABLE">>) \o Begin \o TwoByTwo \o End
Squares == {Square, Counted("2", "2") \o Begin \o TwoByTwo \o End,
            Counted("2", "2") \o Format(<<"SAMPLE_ID">>) \o Begin \o Words(<<"A">>) \o Words(<<"B">>) \o Words(<<"A">>) \o End}
Odd == {Counted("2", "99") \o Begin \o End, Counted("3", "3") \o Begin \o End,
        Counted("3", "2") \o Begin \o Words(<<"A">>) \o Words(<<"A", "B", "1">>) \o End,
        Counted("0", "2") \o Begin \o Words(<<"A">>) \o Words(<<"A">>) \o End,
        Words(<<SetCount, "2">>) \o Begin \o Words(<<"A">>) \o Words(<<"A">>) \o End,
        Words(<<SetCount, "1">>) \o Begin \o Words(<<"A">>) \o End,
        Words(<<SetCount, "2">>) \o Begin \o Words(<<"A">>) \o End,
        Counted("0", "2") \o Begin \o Words(<<"A">>) \o End, Words(<<SetCount, "1">>) \o Begin \o End,
        Counted("1", "2"), Counted("2", "2") \o Format(<<"A", "B">>),
        Counted("1", "1") \o Begin \o End, Counted("1", "0") \o Begin \o End,
        Counted("1", "1") \o Format(<<"A", "B">>), Format(<<"A">>),
        Counted("1", "1") \o Format(<<"LABEL">>), Counted("1", "1") \o Counted("1", "2"),
        Words(<<"BEGIN_DATA", "A">>)}
One == {Sheet \o h \o Square : h \in Headers}
       \cup {o \o Square : o \in Openings}
       \cup {Sheet \o s : s \in Small \cup Squares \cup Odd}
       \cup {<<W("A")>>}

\* More tables: named, quoted, unnamed, in a text with and without sheet types
Seconds == {Words(<<"IT8">>) \o Origin, Line(<<Quoted(<<"a", "b">>)>>) \o Words(<<"X">>),
            Origin, Words(<<"X">>), Words(<<"X">>) \o Words(<<"X">>), Words(<<"2">>), <<>>}
Two == {o \o Counted("1", "1") \o Format(<<"LABEL">>) \o Begin \o Words(<<"ORIGINATOR">>) \o End \o s \o t :
          o \in {Sheet, Words(<<"ORIGINATOR", "A">>)}, s \in Seconds,
          t \in {<<>>, Counted("1", "1") \o Begin \o Words(<<"A">>) \o End}}
       \cup {Sheet \o FlattenSeq([i \in 1..n |-> Counted("1", "1") \o Begin \o Words(<<"A">>) \o End])
               : n \in 2..4}

\* One token lost, or spoilt
Whole == Sheet \o Origin \o Square
Damaged == {RemoveAt(Whole, i) : i \in 3..Len(Whole)}
           \cup {[Whole EXCEPT ![i] = Garbage] : i \in 3..Len(Whole)}
           \cup {SubSeq(Whole, 1, i) : i \in 3..Len(Whole)}

MCTexts == One \cup Two \cup Damaged

MCPredefined == [w \in {FieldCount, SetCount, "ORIGINATOR", "WEIGHTING"} |->
                   CASE w = "ORIGINATOR" -> "Stringify" [] w = "WEIGHTING" -> "Pair"
                     [] OTHER -> "Uncooked"]
MCEditKeys == {FieldCount, "ORIGINATOR", "WEIGHTING", "A", "#note", "KEYWORD"}
MCEditValues == {<<>>, <<"A">>, <<"a", "b">>, <<"99">>}

\* Cube files: a few keywords in any order, then rows
C(w) == WordToken(CubeReserved, w)
CubeWords(ws) == Line([i \in DOMAIN ws |-> C(ws[i])])
CubeLines == {CubeWords(<<"LUT_3D_SIZE", n>>) : n \in {"0", "1", "2", "3"}}
             \cup {CubeWords(<<"LUT_1D_SIZE", n>>) : n \in {"1", "2", "3", "5", "1.5"}}
             \cup {CubeWords(<<"DOMAIN_MIN", "1", "0", "1">>), CubeWords(<<"DOMAIN_MIN", "1", "0">>),
                   CubeWords(<<"DOMAIN_MAX", "2", "3", "5">>), CubeWords(<<"LUT_IN_VIDEO_RANGE">>),
                   CubeWords(<<"LUT_3D_INPUT_RANGE", "0", "1">>),
                   CubeWords(<<"LUT_1D_INPUT_RANGE", "0", "2">>),
                   Line(<<C("TITLE"), Quoted(<<"a", "b">>)>>), CubeWords(<<"TITLE", "A">>),
                   CubeWords(<<"#note", "A">>), <<Eoln>>, <<Garbage, Eoln>>}
CubeRows(n) == FlattenSeq([i \in 1..n |->
    CubeWords([k \in 1..3 |-> <<"0", "1", "1.5", "2", "3", "5", "8">>[((2 * i + k) % 7) + 1]])])
CubeData == {CubeRows(n) : n \in {0, 2, 8, 10}}
            \cup {CubeRows(8) \o CubeWords(<<"1", "2">>), CubeWords(<<"1">>) \o CubeRows(8),
                  CubeRows(7) \o <<C("0"), C("1"), C("2")>>, CubeRows(2) \o CubeWords(<<"TITLE">>)}
MCCubeTexts == {a \o b \o d : a, b \in CubeLines, d \in CubeData}

\* One reader at a time; the other has nothing to read.
FilesInit ==
    \/ /\ Init
       /\ cube = <<>> /\ at = 1 /\ reading = "refused" /\ domain = <<>>
       /\ shapers = 0 /\ grid = 0 /\ title = <<>> /\ stages = <<>>
    \/ /\ CubeInit
       /\ phase = "failed" /\ source = <<>> /\ cursor = 0 /\ section = "body"
       /\ field = 0 /\ set = 0 /\ nosheet = FALSE /\ saves = 0 /\ edits = 0 /\ saved = <<>>
       /\ DocInit
FilesNext ==
    \/ CgatsNext /\ UNCHANGED cubeVars
    \/ CubeNext /\ UNCHANGED vars
FilesSpec == FilesInit /\ [][FilesNext]_<<vars, cubeVars>>
             /\ WF_<<vars, cubeVars>>(LoadStep /\ UNCHANGED cubeVars)
=============================================================================
