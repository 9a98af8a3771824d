------------------------------ MODULE CgatsText ------------------------------
(***************************************************************************)
(* The text of CGATS and .cube files as the lexer of cgats.rs sees it.      *)
(* A string is the sequence of its words, a text a sequence of tokens; what *)
(* a word is when nothing quotes it is decided by the word alone.  Words    *)
(* are taken up to case, as every comparison of the code takes them.        *)
(***************************************************************************)
EXTENDS Integers, Sequences, FiniteSets, SequencesExt, TLC

CONSTANTS
    NoValue,   \* Rust's None
    SatoiMax   \* 0x7ffffff0, at which satoi clamps

FieldCount == "NUMBER_OF_FIELDS"
SetCount == "NUMBER_OF_SETS"

\* TAB_KEYS_IT8 and the words of a .cube file.
Reserved ==
    [BEGIN_DATA |-> "BeginData", END_DATA |-> "EndData",
     BEGIN_DATA_FORMAT |-> "BeginFormat", END_DATA_FORMAT |-> "EndFormat",
     KEYWORD |-> "Keyword", DATA_FORMAT_IDENTIFIER |-> "SampleId"]
CubeReserved ==
    [TITLE |-> "Title", DOMAIN_MIN |-> "DomainMin", DOMAIN_MAX |-> "DomainMax",
     LUT_1D_SIZE |-> "Lut1d", LUT_3D_SIZE |-> "Lut3d",
     LUT_1D_INPUT_RANGE |-> "InputRange", LUT_3D_INPUT_RANGE |-> "InputRange",
     LUT_IN_VIDEO_RANGE |-> "VideoRange", LUT_OUT_VIDEO_RANGE |-> "VideoRange"]

\* The decimal words, with the integer atoi finds in front of each.
Decimal == [w \in {"0", "1", "2", "3", "5", "8", "99", "1.5", "1.50"} |->
              CASE w = "0" -> 0 [] w = "1" -> 1 [] w = "2" -> 2 [] w = "3" -> 3
                [] w = "5" -> 5 [] w = "8" -> 8 [] w = "99" -> 99 [] OTHER -> 1]
IsInteger(w) == w \notin {"1.5", "1.50"}

\* A number is kept as its value and printed again by "%.10g".
Printed(w) == IF w = "1.50" THEN "1.5" ELSE w

\* A word that starts a comment; what a list never finds, and never stores over.
IsComment(w) == w \in {"#", "#note"}


\* satoi
Satoi(v) ==
    IF v = NoValue \/ v = <<>> \/ v[1] \notin DOMAIN Decimal THEN 0
    ELSE IF Decimal[v[1]] > SatoiMax THEN SatoiMax ELSE Decimal[v[1]]

-----------------------------------------------------------------------------
Token(sy, val) == [sy |-> sy, val |-> val]
Eoln == Token("Eoln", <<>>)
Eof == Token("Eof", <<>>)
Garbage == Token("SynError", <<>>)
Quoted(v) == Token("Str", v)

\* What an unquoted word reads as under a keyword table.
WordToken(keys, w) ==
    IF w \in DOMAIN keys THEN Token(keys[w], <<w>>)
    ELSE IF IsComment(w) THEN Token("Comment", <<w>>)
    ELSE IF w \in DOMAIN Decimal
         THEN Token(IF IsInteger(w) THEN "Inum" ELSE "Dnum", <<Printed(w)>>)
         ELSE Token("Ident", <<w>>)

\* What a string reads as when it is written without quotes.
Bare(v) == [i \in DOMAIN v |-> WordToken(Reserved, v[i])]

\* A line of text: a comment reaches to its end.
Line(toks) ==
    LET comments == {i \in DOMAIN toks : toks[i].sy = "Comment"}
    IN  Append(IF comments = {} THEN toks
               ELSE SubSeq(toks, 1, CHOOSE i \in comments : \A j \in comments : i <= j), Eoln)

\* Tokens as the lexer makes them: a value is a string's words, the end of a line
\* is one token, and the end of the file is none.
IsValue(v) == v \in Seq(Range(v))
IsToken(tok) == tok.sy # "Eof" /\ IsValue(tok.val) /\ (tok.sy = "Eoln" => tok = Eoln)
IsTokens(text) == IsValue(text) /\ \A i \in DOMAIN text : IsToken(text[i])

\* A file: what cannot be read is one token, numbers are decimal words, and a
\* comment reaches to the end of its line.
IsText(text) ==
    /\ text \in Seq([sy : STRING, val : Seq(STRING)]) /\ IsTokens(text)
    /\ \A i \in DOMAIN text :
         /\ text[i].sy = "SynError" => text[i] = Garbage
         /\ text[i].sy \in {"Inum", "Dnum"} => Len(text[i].val) = 1 /\ text[i].val[1] \in DOMAIN Decimal
         /\ text[i].sy = "Comment" /\ i < Len(text) => text[i + 1] = Eoln

\* The lexer stands on the token at a position; past the end is Eof.
TokenAt(text, at) == IF at > Len(text) THEN Eof ELSE text[at]

\* The first position from `at` on that holds none of the kinds.
Seek(text, at, kinds) ==
    CHOOSE i \in at..(Len(text) + 1) :
       /\ TokenAt(text, i).sy \notin kinds
       /\ \A k \in at..(i - 1) : text[k].sy \in kinds

\* Mutant: the end of a line is left standing.
SkipEolnStays(text, at) == at

\* in_symbol and skip_eoln: to the next token, past the ends of lines; comments
\* are never seen.
InSymbol(text, at) == IF at > Len(text) THEN at ELSE Seek(text, at + 1, {"Comment"})
SkipEoln(text, at) ==
    IF TokenAt(text, at) = Eoln THEN Seek(text, at, {"Comment", "Eoln"}) ELSE at

Skip(text, at, sy) == IF TokenAt(text, at).sy = sy THEN InSymbol(text, at) ELSE at

\* get_val: the value of a token, or none for one that has no value.
HasValue(tok) == tok.sy \in {"Eoln", "Ident", "Inum", "Dnum", "Str"}

\* The words of the first line, as IsMyBlock counts them: the scan starts after
\* the first byte, so an empty first line shows it the second.
FirstLine(text) == IF text[1] = Eoln THEN Tail(text) ELSE text
LineEnds(text) == {i \in DOMAIN text : text[i] = Eoln}
FirstWords(text) ==
    LET line == FirstLine(text)
        end == CHOOSE i \in LineEnds(line) : \A j \in LineEnds(line) : i <= j
    IN  IF end = 1 THEN 1 ELSE end - 1
IsMyBlock(text) ==
    /\ LineEnds(FirstLine(text)) # {}
    /\ FirstWords(text) <= 2
=============================================================================
