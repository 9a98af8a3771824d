---------------------------- MODULE Cgats_proofs -----------------------------
(****************************************************************************)
(* Theorems about Cgats and CubeFile, for every text and every limit: a     *)
(* data section of a document is in its own table, value by value, and a    *)
(* .cube file that the parser takes is the whole file.                      *)
(*                                                                          *)
(* The lexer only ever steps over comments and the ends of lines. So what a *)
(* handler of CubeFile leaves behind it is one keyword with its arguments   *)
(* or a block of rows; the rows are met in the order of the text, three     *)
(* numbers each, and the numbers counted up to a row are three times the    *)
(* rows before it. And of a document, what has been put into a table when   *)
(* the lexer stands on p are the values that the section it is in has       *)
(* before p: as many as the rows and columns gone through, counted by       *)
(* Before, and each at the cell of its number.                              *)
(****************************************************************************)
EXTENDS Cgats, CubeFile, SequenceTheorems, IndexLemmas

-----------------------------------------------------------------------------
(* The lexer. *)

Spaces(text, from, to) == \A k \in from..(to - 1) : text[k].sy \in {"Comment", "Eoln"}
Stands(text, p) == p \in 1..(Len(text) + 1) /\ TokenAt(text, p).sy # "Comment"

\* What a text is, position by position.
LEMMA TokensAre ==
    ASSUME NEW text, IsTokens(text)
    PROVE  /\ Len(text) \in Nat /\ DOMAIN text = 1..Len(text)
           /\ \A i \in 1..Len(text) :
                /\ text[i].sy # "Eof" /\ IsValue(text[i].val) /\ TokenAt(text, i) = text[i]
                /\ text[i].sy = "Eoln" => text[i] = Eoln
           /\ TokenAt(text, Len(text) + 1) = Eof
<1>1. text \in Seq(Range(text))  BY DEF IsTokens, IsValue
<1>2. Len(text) \in Nat /\ DOMAIN text = 1..Len(text)  BY <1>1
<1>3. \A i \in 1..Len(text) : TokenAt(text, i) = text[i]  BY <1>2 DEF TokenAt
<1>4. TokenAt(text, Len(text) + 1) = Eof  BY <1>2 DEF TokenAt
<1>5. \A i \in DOMAIN text : /\ text[i].sy # "Eof" /\ IsValue(text[i].val)
                             /\ text[i].sy = "Eoln" => text[i] = Eoln
  BY DEF IsTokens, IsToken
<1>  QED  BY <1>2, <1>3, <1>4, <1>5

LEMMA TextTokens ==
    ASSUME NEW text, IsText(text)
    PROVE  /\ IsTokens(text) /\ Len(text) \in Nat /\ DOMAIN text = 1..Len(text)
           /\ \A i \in 1..Len(text) :
                /\ text[i] \in [sy : STRING, val : Seq(STRING)]
                /\ text[i].sy # "Eof" /\ TokenAt(text, i) = text[i]
                /\ text[i].sy = "Comment" /\ i < Len(text) => text[i + 1] = Eoln
           /\ TokenAt(text, Len(text) + 1) = Eof
<1>1. text \in Seq([sy : STRING, val : Seq(STRING)]) /\ IsTokens(text)  BY DEF IsText
<1>2. Len(text) \in Nat /\ DOMAIN text = 1..Len(text)  BY <1>1, TokensAre
<1>3. \A i \in 1..Len(text) : text[i] \in [sy : STRING, val : Seq(STRING)]
  <2> DEFINE R == [sy : STRING, val : Seq(STRING)]
  <2>1. text \in Seq(R)  BY <1>1
  <2>  HIDE DEF R
  <2>2. \A i \in 1..Len(text) : text[i] \in R  BY <2>1
  <2>  QED  BY <2>2 DEF R
<1>4. \A i \in DOMAIN text : text[i].sy = "Comment" /\ i < Len(text) => text[i + 1] = Eoln
  BY DEF IsText
<1>5. \A i \in 1..Len(text) : text[i].sy # "Eof" /\ TokenAt(text, i) = text[i]  BY <1>1, TokensAre
<1>6. TokenAt(text, Len(text) + 1) = Eof  BY <1>1, TokensAre
<1>  QED  BY <1>1, <1>2, <1>3, <1>4, <1>5, <1>6

\* Seek finds the first position that holds none of the kinds, at the latest the end.
LEMMA SeekFinds ==
    ASSUME NEW text, IsTokens(text), NEW from \in 1..(Len(text) + 1), NEW kinds, "Eof" \notin kinds
    PROVE  /\ Seek(text, from, kinds) \in from..(Len(text) + 1)
           /\ TokenAt(text, Seek(text, from, kinds)).sy \notin kinds
           /\ \A k \in from..(Seek(text, from, kinds) - 1) : text[k].sy \in kinds
<1>0. Len(text) \in Nat  BY TokensAre
<1> DEFINE S == {i \in from..(Len(text) + 1) : TokenAt(text, i).sy \notin kinds}
           P(i) == TokenAt(text, i).sy \notin kinds /\ \A k \in from..(i - 1) : text[k].sy \in kinds
<1>1. Len(text) + 1 \in S
  <2>1. TokenAt(text, Len(text) + 1) = Eof  BY TokensAre
  <2>2. Eof.sy = "Eof"  BY DEF Eof, Token
  <2>3. Len(text) + 1 \in from..(Len(text) + 1)  BY <1>0
  <2>  QED  BY <2>1, <2>2, <2>3
<1>2. PICK m \in S : \A k \in S : m <= k
  <2>1. S \in SUBSET Nat  BY <1>0
  <2>  HIDE DEF S
  <2>  QED  BY <1>1, <2>1, SmallestIn
<1>3. m \in from..(Len(text) + 1) /\ P(m)
  <2>1. ASSUME NEW k \in from..(m - 1)  PROVE text[k].sy \in kinds
    <3>1. m \in from..(Len(text) + 1)  BY <1>2
    <3>2. k \in 1..Len(text) /\ k \in from..(Len(text) + 1) /\ ~(m <= k)  BY <3>1, <1>0
    <3>3. k \notin S  BY <3>2, <1>2
    <3>4. TokenAt(text, k).sy \in kinds  BY <3>2, <3>3
    <3>  QED  BY <3>2, <3>4, TokensAre
  <2>  QED  BY <1>2, <2>1
<1>4. Seek(text, from, kinds) = CHOOSE i \in from..(Len(text) + 1) : P(i)  BY DEF Seek
<1>  HIDE DEF P
<1>5. Seek(text, from, kinds) \in from..(Len(text) + 1) /\ P(Seek(text, from, kinds))  BY <1>3, <1>4
<1>  QED  BY <1>5 DEF P

\* in_symbol goes past one token and the comments after it.
LEMMA InSymbolMoves ==
    ASSUME NEW text, IsTokens(text), NEW p \in 0..Len(text)
    PROVE  /\ InSymbol(text, p) \in (p + 1)..(Len(text) + 1)
           /\ Stands(text, InSymbol(text, p))
           /\ Spaces(text, p + 1, InSymbol(text, p))
<1>0. Len(text) \in Nat  BY TokensAre
<1> DEFINE r == InSymbol(text, p)
<1>1. r = Seek(text, p + 1, {"Comment"})  BY <1>0 DEF InSymbol
<1>2. p + 1 \in 1..(Len(text) + 1)  BY <1>0
<1>  HIDE DEF r
<1>3. /\ r \in (p + 1)..(Len(text) + 1)
      /\ TokenAt(text, r).sy \notin {"Comment"}
      /\ \A k \in (p + 1)..(r - 1) : text[k].sy \in {"Comment"}
  BY <1>1, <1>2, SeekFinds
<1>4. Stands(text, r) /\ Spaces(text, p + 1, r)  BY <1>0, <1>3 DEF Stands, Spaces
<1>  QED  BY <1>3, <1>4 DEF r

LEMMA InSymbolStands ==
    ASSUME NEW text, IsTokens(text), NEW p, Stands(text, p)
    PROVE  Stands(text, InSymbol(text, p)) /\ InSymbol(text, p) >= p
<1>0. Len(text) \in Nat /\ p \in 1..(Len(text) + 1)  BY TokensAre DEF Stands
<1>1. CASE p > Len(text)  BY <1>0, <1>1 DEF InSymbol
<1>2. CASE p <= Len(text)
  <2>1. p \in 0..Len(text)  BY <1>0, <1>2
  <2>  QED  BY <2>1, <1>0, InSymbolMoves
<1>  QED  BY <1>0, <1>1, <1>2

\* What follows on the same line is the next token of the text.
LEMMA SameLine ==
    ASSUME NEW text, IsText(text), NEW p, Stands(text, p),
           TokenAt(text, InSymbol(text, p)).sy \notin {"Eoln", "Eof"}
    PROVE  p \in 1..(Len(text) - 1) /\ InSymbol(text, p) = p + 1
<1>0. Len(text) \in Nat /\ p \in 1..(Len(text) + 1)  BY TextTokens DEF Stands
<1>5. Eof.sy = "Eof" /\ Eoln.sy = "Eoln"  BY DEF Eof, Eoln, Token
<1>1. p <= Len(text)
  <2> SUFFICES ASSUME p > Len(text)  PROVE FALSE  BY <1>0
  <2>1. InSymbol(text, p) = p /\ p = Len(text) + 1  BY <1>0 DEF InSymbol
  <2>  QED  BY <2>1, <1>5, TextTokens
<1> DEFINE r == InSymbol(text, p)
<1>2. r = Seek(text, p + 1, {"Comment"})  BY <1>0, <1>1 DEF InSymbol
<1>  HIDE DEF r
<1>3. r \in (p + 1)..(Len(text) + 1) /\ \A k \in (p + 1)..(r - 1) : text[k].sy \in {"Comment"}
  <2>1. p + 1 \in 1..(Len(text) + 1)  BY <1>0, <1>1
  <2>  QED  BY <1>2, <2>1, SeekFinds, TextTokens
<1>4. r <= Len(text)
  <2> SUFFICES ASSUME r = Len(text) + 1  PROVE FALSE  BY <1>0, <1>3
  <2>  QED  BY <1>5, TextTokens DEF r
<1>6. r = p + 1
  <2> SUFFICES ASSUME r > p + 1  PROVE FALSE  BY <1>0, <1>3
  <2>1. r - 1 \in (p + 1)..(r - 1) /\ r - 1 \in 1..Len(text) /\ r - 1 < Len(text) /\ (r - 1) + 1 = r
    BY <1>0, <1>3, <1>4
  <2>2. text[r - 1].sy = "Comment"  BY <1>3, <2>1
  <2>3. text[r] = Eoln  BY <2>1, <2>2, TextTokens
  <2>4. r \in 1..Len(text)  BY <1>0, <1>3, <1>4
  <2>5. TokenAt(text, r) = Eoln  BY <2>3, <2>4, TextTokens
  <2>  QED  BY <1>5, <2>5 DEF r
<1>  QED  BY <1>0, <1>4, <1>6 DEF r

\* skip_eoln goes past ends of lines and comments.
LEMMA SkipEolnMoves ==
    ASSUME NEW text, IsTokens(text), NEW p, Stands(text, p)
    PROVE  /\ SkipEoln(text, p) \in p..(Len(text) + 1)
           /\ Stands(text, SkipEoln(text, p))
           /\ Spaces(text, p, SkipEoln(text, p))
<1>0. Len(text) \in Nat /\ p \in 1..(Len(text) + 1)  BY TokensAre DEF Stands
<1> DEFINE r == SkipEoln(text, p)
<1>1. CASE TokenAt(text, p) = Eoln
  <2>1. r = Seek(text, p, {"Comment", "Eoln"})  BY <1>1 DEF SkipEoln
  <2>  HIDE DEF r
  <2>2. /\ r \in p..(Len(text) + 1)
        /\ TokenAt(text, r).sy \notin {"Comment", "Eoln"}
        /\ \A k \in p..(r - 1) : text[k].sy \in {"Comment", "Eoln"}
    BY <1>0, <2>1, SeekFinds
  <2>3. Stands(text, r) /\ Spaces(text, p, r)  BY <1>0, <2>2 DEF Stands, Spaces
  <2>  QED  BY <2>2, <2>3 DEF r
<1>2. CASE TokenAt(text, p) # Eoln
  <2>1. r = p  BY <1>2 DEF SkipEoln
  <2>2. Spaces(text, p, p)  BY <1>0 DEF Spaces
  <2>  QED  BY <1>0, <2>1, <2>2
<1>  QED  BY <1>1, <1>2

-----------------------------------------------------------------------------
(* Tokens and rows. *)

LEMMA DecimalNat == ASSUME NEW w \in DOMAIN Decimal  PROVE Decimal[w] \in Nat
<1>1. Decimal[w] = CASE w = "0" -> 0 [] w = "1" -> 1 [] w = "2" -> 2 [] w = "3" -> 3
                     [] w = "5" -> 5 [] w = "8" -> 8 [] w = "99" -> 99 [] OTHER -> 1
  BY DEF Decimal
<1>  QED  BY <1>1

\* An integer of the text is a number.
LEMMA SizeOf ==
    ASSUME NEW text, IsText(text), NEW p, Stands(text, p), TokenAt(text, p).sy = "Inum"
    PROVE  Decimal[TokenAt(text, p).val[1]] \in Nat
<1>0. Len(text) \in Nat /\ p \in 1..(Len(text) + 1)  BY TextTokens DEF Stands
<1>1. p \in 1..Len(text)
  <2> SUFFICES ASSUME p = Len(text) + 1  PROVE FALSE  BY <1>0
  <2>1. TokenAt(text, p) = Eof  BY TextTokens
  <2>  QED  BY <2>1 DEF Eof, Token
<1>2. p \in DOMAIN text /\ TokenAt(text, p) = text[p]  BY <1>1, TextTokens
<1>3. text[p].val[1] \in DOMAIN Decimal  BY <1>2 DEF IsText
<1>  QED  BY <1>2, <1>3, DecimalNat

\* The parser's own text, and where the lexer stands on it.
End == Len(cube) + 1
Words == {"Str", "Inum", "Dnum"}

\* From p on, k tokens of the text are words, and nothing else is until e.
Passes(p, k, e) ==
    /\ e \in (p + k)..End /\ Stands(cube, e) /\ Spaces(cube, p + k, e)
    /\ \A j \in p..(p + k - 1) : j \in 1..Len(cube) /\ cube[j].sy \in Words

\* read_numbers of three takes three tokens side by side, and then blanks.
LEMMA RowTokens ==
    ASSUME IsText(cube), NEW p, Stands(cube, p), IsRow(p)
    PROVE  /\ p + 2 <= Len(cube) /\ p \in 1..Len(cube)
           /\ \A c \in Channels : Next3(p)[c] = p + c - 1 /\ IsNumber(cube[p + c - 1])
           /\ Row3(p) = [c \in Channels |-> Number(cube[p + c - 1])]
           /\ Passes(p, 3, PastRow(p))
<1>0. Len(cube) \in Nat /\ p \in 1..(Len(cube) + 1)  BY TextTokens DEF Stands
<1>1. IsNumber(TokenAt(cube, Next3(p)[1])) /\ IsNumber(TokenAt(cube, Next3(p)[2])) /\ IsNumber(TokenAt(cube, Next3(p)[3]))
  BY DEF IsRow, Channels
<1> DEFINE q == InSymbol(cube, p)
           r == InSymbol(cube, q)
           t == InSymbol(cube, r)
<1>2. Next3(p)[1] = p /\ Next3(p)[2] = q /\ Next3(p)[3] = r  BY DEF Next3
<1>3. Stands(cube, q) /\ Stands(cube, r) /\ Stands(cube, t)  BY InSymbolStands, TextTokens
<1>4. q = p + 1 /\ p \in 1..(Len(cube) - 1)
  <2>1. TokenAt(cube, InSymbol(cube, p)).sy \notin {"Eoln", "Eof"}  BY <1>1, <1>2 DEF IsNumber
  <2>  QED  BY <2>1, SameLine
<1>5. r = q + 1 /\ q \in 1..(Len(cube) - 1)
  <2>1. TokenAt(cube, InSymbol(cube, q)).sy \notin {"Eoln", "Eof"}  BY <1>1, <1>2 DEF IsNumber
  <2>  HIDE DEF q
  <2>  QED  BY <2>1, <1>3, SameLine
<1>  HIDE DEF q, r
<1>6. r \in 0..Len(cube) /\ r = p + 2  BY <1>4, <1>5, <1>0
<1>7. t \in (r + 1)..(Len(cube) + 1) /\ Spaces(cube, r + 1, t)  BY <1>6, InSymbolMoves, TextTokens
<1>  HIDE DEF t
<1> DEFINE e == SkipEoln(cube, t)
<1>8. e \in t..(Len(cube) + 1) /\ Stands(cube, e) /\ Spaces(cube, t, e)  BY <1>3, SkipEolnMoves, TextTokens
<1>9. PastRow(p) = e  BY <1>2 DEF PastRow, t
<1>  HIDE DEF e
<1>10. Spaces(cube, p + 3, e)  BY <1>0, <1>6, <1>7, <1>8 DEF Spaces
<1>11. \A c \in Channels : Next3(p)[c] = p + c - 1  BY <1>0, <1>2, <1>4, <1>6 DEF Channels
<1>12. \A c \in Channels : p + c - 1 \in 1..Len(cube)  BY <1>0, <1>4, <1>5 DEF Channels
<1>13. \A c \in Channels : TokenAt(cube, Next3(p)[c]) = cube[p + c - 1]  BY <1>11, <1>12, TextTokens
<1>14. \A c \in Channels : IsNumber(cube[p + c - 1])  BY <1>13 DEF IsRow
<1>15. Row3(p) = [c \in Channels |-> Number(cube[p + c - 1])]  BY <1>13 DEF Row3
<1>16. e \in (p + 3)..(Len(cube) + 1)  BY <1>0, <1>6, <1>7, <1>8
<1>17. ASSUME NEW j \in p..(p + 3 - 1)  PROVE j \in 1..Len(cube) /\ cube[j].sy \in Words
  <2>1. j - p + 1 \in Channels /\ p + (j - p + 1) - 1 = j  BY <1>0 DEF Channels
  <2>2. IsNumber(cube[j]) /\ j \in 1..Len(cube)  BY <2>1, <1>12, <1>14
  <2>  QED  BY <2>2 DEF IsNumber, Words
<1>18. Passes(p, 3, e)  BY <1>8, <1>10, <1>16, <1>17 DEF Passes, End
<1>  QED  BY <1>0, <1>4, <1>5, <1>9, <1>11, <1>14, <1>15, <1>18

-----------------------------------------------------------------------------
(* Cube files: what has been read up to a position. *)

\* No keyword before it has an argument after it.
KeywordsWhole(p) == \A i \in Keywords : i < p => i + Arity(cube[i].sy) < p
\* Every number before it is an argument.
NumbersTaken(p) == \A i \in DOMAIN cube : i < p /\ IsNumber(cube[i]) => i \in Arguments

LEMMA Arities ==
    ASSUME NEW sy
    PROVE  Arity(sy) \in 1..3
BY DEF Arity

\* A position of the text that is neither a keyword's nor a number's changes nothing.
LEMMA BlanksDeclareNothing ==
    ASSUME IsText(cube), NEW p, NEW e, p \in 1..End, e \in p..End, Spaces(cube, p, e)
    PROVE  /\ KeywordsWhole(p) => KeywordsWhole(e)
           /\ NumbersTaken(p) => NumbersTaken(e)
           /\ \A sy : Declarations(sy, e) = Declarations(sy, p)
<1>0. Len(cube) \in Nat /\ DOMAIN cube = 1..Len(cube)  BY TextTokens
<1>1. \A i \in DOMAIN cube : i < e /\ ~(i < p) => cube[i].sy \in {"Comment", "Eoln"}
  BY <1>0 DEF Spaces, End
<1>2. \A i \in Keywords : i < e => i < p  BY <1>1 DEF Keywords
<1>3. \A i \in Keywords : i \in 1..Len(cube) /\ Arity(cube[i].sy) \in 1..3  BY <1>0, Arities DEF Keywords
<1>4. KeywordsWhole(p) => KeywordsWhole(e)  BY <1>0, <1>2, <1>3 DEF KeywordsWhole, End
<1>5. NumbersTaken(p) => NumbersTaken(e)  BY <1>1 DEF NumbersTaken, IsNumber
<1>6. \A i \in Keywords : i < p => i < e  BY <1>0, <1>3 DEF End
<1>7. \A sy : Declarations(sy, e) = Declarations(sy, p)  BY <1>2, <1>6 DEF Declarations
<1>  QED  BY <1>4, <1>5, <1>7

\* A keyword read with its arguments is the last of its kind.
LEMMA KeywordRead ==
    ASSUME IsText(cube), NEW p \in Keywords, KeywordsWhole(p), NumbersTaken(p),
           NEW e, Passes(p + 1, Arity(cube[p].sy), e)
    PROVE  /\ KeywordsWhole(e) /\ NumbersTaken(e)
           /\ \A sy : sy # cube[p].sy => Declarations(sy, e) = Declarations(sy, p)
           /\ Declarations(cube[p].sy, e) # {} /\ Max(Declarations(cube[p].sy, e)) = p
<1> DEFINE k == Arity(cube[p].sy)
           m == p + 1 + k
<1>0. Len(cube) \in Nat /\ DOMAIN cube = 1..Len(cube) /\ p \in 1..Len(cube) /\ k \in 1..3
  BY TextTokens, Arities DEF Keywords
<1>  HIDE DEF k
<1>1. /\ e \in m..End /\ Spaces(cube, m, e)
      /\ \A j \in (p + 1)..(m - 1) : j \in 1..Len(cube) /\ cube[j].sy \in Words
  <2>1. Passes(p + 1, k, e)  BY DEF k
  <2>2. e \in m..End /\ Spaces(cube, m, e)  BY <2>1 DEF Passes
  <2>3. \A j \in (p + 1)..(p + 1 + k - 1) : j \in 1..Len(cube) /\ cube[j].sy \in Words  BY <2>1 DEF Passes
  <2>4. p + 1 + k - 1 = m - 1  BY <1>0
  <2>  QED  BY <2>2, <2>3, <2>4
<1>2. m \in 1..End
  <2>1. End \in Int  BY <1>0 DEF End
  <2>  QED  BY <1>0, <1>1, <2>1
<1>3. \A i \in Keywords : i < m => i <= p
  <2> SUFFICES ASSUME NEW i \in Keywords, i < m, i > p  PROVE FALSE  BY <1>0 DEF Keywords
  <2>1. i \in (p + 1)..(m - 1)  BY <1>0 DEF Keywords
  <2>2. cube[i].sy \in Words  BY <1>1, <2>1
  <2>  QED  BY <2>2 DEF Keywords, Words
<1>4. KeywordsWhole(m)
  <2> SUFFICES ASSUME NEW i \in Keywords, i < m  PROVE i + Arity(cube[i].sy) < m  BY DEF KeywordsWhole
  <2>1. i \in 1..Len(cube) /\ Arity(cube[i].sy) \in 1..3  BY <1>0, Arities DEF Keywords
  <2>2. CASE i = p  BY <2>2, <1>0 DEF k
  <2>3. CASE i < p
    <3>1. i + Arity(cube[i].sy) < p  BY <2>3 DEF KeywordsWhole
    <3>  QED  BY <3>1, <2>1, <1>0
  <2>  QED  BY <1>3, <2>1, <2>2, <2>3, <1>0
<1>5. NumbersTaken(m)
  <2> SUFFICES ASSUME NEW i \in DOMAIN cube, i < m, IsNumber(cube[i])  PROVE i \in Arguments
    BY DEF NumbersTaken
  <2>1. CASE i < p  BY <2>1 DEF NumbersTaken
  <2>2. CASE i = p  BY <2>2 DEF Keywords, IsNumber
  <2>3. CASE i > p
    <3>1. i \in (p + 1)..(p + k)  BY <2>3, <1>0
    <3>  QED  BY <3>1 DEF Arguments, k
  <2>  QED  BY <2>1, <2>2, <2>3, <1>0
<1>6. \A sy : Declarations(sy, e) = Declarations(sy, m)
      /\ KeywordsWhole(e) /\ NumbersTaken(e)
  <2>  HIDE DEF m
  <2>  QED  BY <1>1, <1>2, <1>4, <1>5, BlanksDeclareNothing
<1>7. \A sy : sy # cube[p].sy => Declarations(sy, m) = Declarations(sy, p)
  <2> SUFFICES ASSUME NEW sy, sy # cube[p].sy  PROVE Declarations(sy, m) = Declarations(sy, p)  OBVIOUS
  <2>1. \A i \in Keywords : cube[i].sy = sy => (i < m <=> i < p)  BY <1>0, <1>3 DEF Keywords
  <2>  HIDE DEF m
  <2>  QED  BY <2>1 DEF Declarations
<1> DEFINE D == Declarations(cube[p].sy, m)
<1>8. p \in D  BY <1>0 DEF Declarations
<1>9. \A i \in D : i \in Int /\ i <= p  BY <1>0, <1>3 DEF Declarations, Keywords
<1>  HIDE DEF D, m
<1>10. Max(D) = p
  <2>1. \A i \in D : p >= i  BY <1>0, <1>9
  <2>2. Max(D) \in D /\ \A i \in D : Max(D) >= i
    <3>1. \E x \in D : \A i \in D : x >= i  BY <1>8, <2>1
    <3>  QED  BY <3>1 DEF Max
  <2> DEFINE x == Max(D)
  <2>3. x \in Int /\ x <= p /\ x >= p /\ p \in Int  BY <1>0, <1>8, <1>9, <2>2
  <2>  HIDE DEF x
  <2>4. x = p  BY <2>3
  <2>  QED  BY <2>4 DEF x
<1>  QED  BY <1>6, <1>7, <1>8, <1>10 DEF D

-----------------------------------------------------------------------------
(* Cube files: the invariant. *)

Sizes == shapers \in Nat /\ grid \in Nat
\* What is behind the lexer has been read: its keywords are declared; its
\* numbers are arguments, until the data is read, and that is all the rest.
ReadSoFar ==
    /\ KeywordsWhole(at) /\ Declared(at)
    /\ IF stages = <<>> THEN NumbersTaken(at)
                        ELSE at = End /\ DataPositions # {} /\ HoldsData
CubeInv ==
    /\ cube \in CubeTexts
    /\ Sizes
    /\ Stands(cube, at)
    /\ ReadSoFar
    /\ reading = "linked" => CubeTok.sy \in {"Eof", "SynError"}

\* The text stays, so what is said of it before a step is said after it.
LEMMA SameText ==
    ASSUME cube' = cube
    PROVE  /\ Keywords' = Keywords /\ Arguments' = Arguments /\ DataPositions' = DataPositions
           /\ End' = End
           /\ Stands(cube, at)' <=> Stands(cube, at')
           /\ KeywordsWhole(at)' <=> KeywordsWhole(at')
           /\ NumbersTaken(at)' <=> NumbersTaken(at')
<1>1. Keywords' = Keywords  BY DEF Keywords
<1>2. Arguments' = Arguments  BY <1>1 DEF Arguments
<1>3. DataPositions' = DataPositions  BY <1>2 DEF DataPositions
<1>4. End' = End  BY DEF End
<1>5. Stands(cube, at)' <=> Stands(cube, at')  BY DEF Stands, TokenAt
<1>6. KeywordsWhole(at)' <=> KeywordsWhole(at')  BY <1>1 DEF KeywordsWhole
<1>7. NumbersTaken(at)' <=> NumbersTaken(at')  BY <1>2 DEF NumbersTaken
<1>  QED  BY <1>1, <1>2, <1>3, <1>4, <1>5, <1>6, <1>7

\* So the declarations that count are those before the lexer's new place.
LEMMA DeclaredNext ==
    ASSUME cube' = cube
    PROVE  Declared(at)' <=>
             /\ domain' = [min |-> DeclaredRow("DomainMin", at', 0), max |-> DeclaredRow("DomainMax", at', 10)]
             /\ shapers' = DeclaredSize("Lut1d", at') /\ grid' = DeclaredSize("Lut3d", at')
<1>1. Keywords' = Keywords  BY SameText
<1>2. Declarations("DomainMin", at)' = Declarations("DomainMin", at')  BY <1>1 DEF Declarations
<1>3. Declarations("DomainMax", at)' = Declarations("DomainMax", at')  BY <1>1 DEF Declarations
<1>4. Declarations("Lut1d", at)' = Declarations("Lut1d", at')  BY <1>1 DEF Declarations
<1>5. Declarations("Lut3d", at)' = Declarations("Lut3d", at')  BY <1>1 DEF Declarations
<1>6. DeclaredRow("DomainMin", at, 0)' = DeclaredRow("DomainMin", at', 0)  BY <1>2 DEF DeclaredRow
<1>7. DeclaredRow("DomainMax", at, 10)' = DeclaredRow("DomainMax", at', 10)  BY <1>3 DEF DeclaredRow
<1>8. DeclaredSize("Lut1d", at)' = DeclaredSize("Lut1d", at')  BY <1>4 DEF DeclaredSize
<1>9. DeclaredSize("Lut3d", at)' = DeclaredSize("Lut3d", at')  BY <1>5 DEF DeclaredSize
<1>  QED  BY <1>6, <1>7, <1>8, <1>9 DEF Declared

\* Where no declaration of a kind is added, its value stays.
LEMMA DeclaredStays ==
    ASSUME NEW sy, NEW p, NEW e, Declarations(sy, e) = Declarations(sy, p)
    PROVE  DeclaredSize(sy, e) = DeclaredSize(sy, p) /\ \A d : DeclaredRow(sy, e, d) = DeclaredRow(sy, p, d)
BY DEF DeclaredSize, DeclaredRow

\* Before the data is read, a step over blanks and arguments that leaves the
\* values as declared keeps the invariant.
LEMMA InvFrom ==
    ASSUME CubeInv, cube' = cube, reading' = reading, reading = "reading", stages' = stages, stages = <<>>,
           Sizes', Stands(cube, at'), KeywordsWhole(at'), NumbersTaken(at'),
           domain' = [min |-> DeclaredRow("DomainMin", at', 0), max |-> DeclaredRow("DomainMax", at', 10)],
           shapers' = DeclaredSize("Lut1d", at'), grid' = DeclaredSize("Lut3d", at')
    PROVE  CubeInv'
<1>1. Stands(cube, at)' /\ KeywordsWhole(at)' /\ NumbersTaken(at)'  BY SameText
<1>2. Declared(at)'  BY DeclaredNext
<1>3. ReadSoFar'  BY <1>1, <1>2 DEF ReadSoFar
<1>  QED  BY <1>1, <1>3 DEF CubeInv

LEMMA Reads ==
    ASSUME CubeInv
    PROVE  /\ IsText(cube) /\ Stands(cube, at) /\ Len(cube) \in Nat /\ at \in 1..End /\ End \in Nat
           /\ DOMAIN cube = 1..Len(cube)
           /\ CubeTok.sy # "Eof" => at \in 1..Len(cube) /\ cube[at] = CubeTok /\ stages = <<>>
<1>1. IsText(cube) /\ Stands(cube, at)  BY CubeAssumption DEF CubeInv
<1>2. Len(cube) \in Nat /\ at \in 1..End /\ End \in Nat /\ DOMAIN cube = 1..Len(cube)
  BY <1>1, TextTokens DEF Stands, End
<1>3. ASSUME CubeTok.sy # "Eof"  PROVE at \in 1..Len(cube) /\ cube[at] = CubeTok /\ stages = <<>>
  <2>1. TokenAt(cube, End) = Eof  BY <1>1, TextTokens DEF End
  <2>2. at # End  BY <1>3, <2>1 DEF CubeTok, Eof, Token
  <2>3. at \in 1..Len(cube)  BY <1>2, <2>2 DEF End
  <2>4. TokenAt(cube, at) = cube[at]  BY <1>1, <2>3, TextTokens
  <2>5. stages = <<>>  BY <2>2 DEF CubeInv, ReadSoFar
  <2>  QED  BY <2>3, <2>4, <2>5 DEF CubeTok
<1>  QED  BY <1>1, <1>2, <1>3

LEMMA InitInv == CubeInit => CubeInv
<1> SUFFICES ASSUME CubeInit  PROVE CubeInv  OBVIOUS
<1>1. cube \in CubeTexts /\ IsText(cube)  BY CubeAssumption DEF CubeInit
<1>2. Len(cube) \in Nat /\ DOMAIN cube = 1..Len(cube)  BY <1>1, TextTokens
<1>3. at \in 1..(Len(cube) + 1) /\ Stands(cube, at) /\ Spaces(cube, 1, at)
  <2>1. 0 \in 0..Len(cube) /\ 0 + 1 = 1  BY <1>2
  <2>  QED  BY <1>1, <2>1, InSymbolMoves, TextTokens DEF CubeInit
<1>4. \A i \in Keywords : ~(i < 1)  BY <1>2 DEF Keywords
<1>5. KeywordsWhole(1) /\ \A sy : Declarations(sy, 1) = {}  BY <1>4 DEF KeywordsWhole, Declarations
<1>6. NumbersTaken(1)  BY <1>2 DEF NumbersTaken
<1>7. KeywordsWhole(at) /\ NumbersTaken(at) /\ \A sy : Declarations(sy, at) = {}
  <2>1. 1 \in 1..End /\ at \in 1..End  BY <1>2, <1>3 DEF End
  <2>  QED  BY <1>1, <1>3, <1>5, <1>6, <2>1, BlanksDeclareNothing
<1>8. Declared(at)  BY <1>7 DEF Declared, DeclaredRow, DeclaredSize, CubeInit
<1>  QED  BY <1>1, <1>3, <1>7, <1>8 DEF CubeInv, Sizes, ReadSoFar, CubeInit

-----------------------------------------------------------------------------
(* A keyword and its arguments. *)

KeywordKinds == {"Title", "DomainMin", "DomainMax", "Lut1d", "Lut3d", "InputRange"}

LEMMA AtKeyword ==
    ASSUME CubeInv, CubeTok.sy \in KeywordKinds
    PROVE  /\ at \in Keywords /\ cube[at] = CubeTok /\ stages = <<>>
           /\ KeywordsWhole(at) /\ NumbersTaken(at) /\ Declared(at) /\ Sizes
           /\ TokenAt(cube, After).sy \in Words => After = at + 1
<1>1. at \in 1..Len(cube) /\ cube[at] = CubeTok /\ stages = <<>> /\ DOMAIN cube = 1..Len(cube)
  <2>1. CubeTok.sy # "Eof"  BY DEF KeywordKinds
  <2>  QED  BY <2>1, Reads
<1>2. at \in Keywords  BY <1>1 DEF Keywords, KeywordKinds
<1>3. KeywordsWhole(at) /\ NumbersTaken(at) /\ Declared(at) /\ Sizes  BY <1>1 DEF CubeInv, ReadSoFar
<1>4. ASSUME TokenAt(cube, After).sy \in Words  PROVE After = at + 1
  <2>1. TokenAt(cube, InSymbol(cube, at)).sy \notin {"Eoln", "Eof"}  BY <1>4 DEF After, Words
  <2>2. InSymbol(cube, at) = at + 1  BY <2>1, Reads, SameLine
  <2>  QED  BY <2>2 DEF After
<1>  QED  BY <1>1, <1>2, <1>3, <1>4

\* A word and then blanks, from a place where the lexer may stand.
LEMMA WordPasses ==
    ASSUME CubeInv, NEW p, Stands(cube, p), TokenAt(cube, p).sy \in Words
    PROVE  Passes(p, 1, SkipEoln(cube, InSymbol(cube, p)))
<1>0. IsText(cube) /\ Len(cube) \in Nat /\ End = Len(cube) + 1 /\ p \in 1..End  BY Reads DEF Stands, End
<1>1. p \in 1..Len(cube) /\ TokenAt(cube, p) = cube[p]
  <2>1. TokenAt(cube, End) = Eof  BY <1>0, TextTokens DEF End
  <2>2. p # End  BY <2>1 DEF Eof, Token, Words
  <2>  QED  BY <1>0, <2>2, TextTokens
<1> DEFINE q == InSymbol(cube, p)
           e == SkipEoln(cube, q)
<1>2. q \in (p + 1)..End /\ Stands(cube, q) /\ Spaces(cube, p + 1, q)
  <2>1. p \in 0..Len(cube)  BY <1>0, <1>1
  <2>  QED  BY <1>0, <2>1, InSymbolMoves, TextTokens
<1>  HIDE DEF q
<1>3. e \in q..End /\ Stands(cube, e) /\ Spaces(cube, q, e)  BY <1>0, <1>2, SkipEolnMoves, TextTokens
<1>  HIDE DEF e
<1>4. Spaces(cube, p + 1, e) /\ e \in (p + 1)..End  BY <1>0, <1>2, <1>3 DEF Spaces
<1>5. \A j \in p..(p + (1 - 1)) : j \in 1..Len(cube) /\ cube[j].sy \in Words  BY <1>0, <1>1
<1>6. Passes(p, 1, e)  BY <1>3, <1>4, <1>5 DEF Passes
<1>  QED  BY <1>6 DEF q, e

\* Reading a keyword with its arguments, when the value is taken as declared.
LEMMA KeywordKeeps ==
    ASSUME CubeInv, reading = "reading", CubeTok.sy \in KeywordKinds,
           cube' = cube, reading' = reading, stages' = stages,
           Passes(at + 1, Arity(CubeTok.sy), at'), Sizes',
           domain' = [min |-> IF CubeTok.sy = "DomainMin" THEN [c \in Channels |-> Number(cube[at + c])] ELSE domain.min,
                      max |-> IF CubeTok.sy = "DomainMax" THEN [c \in Channels |-> Number(cube[at + c])] ELSE domain.max],
           shapers' = IF CubeTok.sy = "Lut1d" THEN Decimal[cube[at + 1].val[1]] ELSE shapers,
           grid' = IF CubeTok.sy = "Lut3d" THEN Decimal[cube[at + 1].val[1]] ELSE grid
    PROVE  CubeInv'
<1>0. at \in Keywords /\ cube[at] = CubeTok /\ stages = <<>> /\ KeywordsWhole(at) /\ NumbersTaken(at) /\ Declared(at)
  BY AtKeyword
<1>1. IsText(cube) /\ Stands(cube, at')  BY Reads DEF Passes
<1>2. /\ KeywordsWhole(at') /\ NumbersTaken(at')
      /\ \A sy : sy # CubeTok.sy => Declarations(sy, at') = Declarations(sy, at)
      /\ Declarations(CubeTok.sy, at') # {} /\ Max(Declarations(CubeTok.sy, at')) = at
  <2> DEFINE e == at'
  <2>1. Passes(at + 1, Arity(cube[at].sy), e)  BY <1>0
  <2>  HIDE DEF e
  <2>2. /\ KeywordsWhole(e) /\ NumbersTaken(e)
        /\ \A sy : sy # cube[at].sy => Declarations(sy, e) = Declarations(sy, at)
        /\ Declarations(cube[at].sy, e) # {} /\ Max(Declarations(cube[at].sy, e)) = at
    BY <1>0, <1>1, <2>1, KeywordRead
  <2>  QED  BY <1>0, <2>2 DEF e
<1>3. \A d : DeclaredRow(CubeTok.sy, at', d) = [c \in Channels |-> Number(cube[at + c])]  BY <1>2 DEF DeclaredRow
<1>4. DeclaredSize(CubeTok.sy, at') = Decimal[cube[at + 1].val[1]]  BY <1>2 DEF DeclaredSize
<1>5. \A sy : sy # CubeTok.sy =>
        DeclaredSize(sy, at') = DeclaredSize(sy, at) /\ \A d : DeclaredRow(sy, at', d) = DeclaredRow(sy, at, d)
  BY <1>2, DeclaredStays
<1>6. /\ domain.min = DeclaredRow("DomainMin", at, 0) /\ domain.max = DeclaredRow("DomainMax", at, 10)
      /\ shapers = DeclaredSize("Lut1d", at) /\ grid = DeclaredSize("Lut3d", at)
  BY <1>0 DEF Declared
<1>7. domain'.min = DeclaredRow("DomainMin", at', 0)
  BY <1>3, <1>5, <1>6
<1>8. domain'.max = DeclaredRow("DomainMax", at', 10)
  BY <1>3, <1>5, <1>6
<1>9. domain' = [min |-> DeclaredRow("DomainMin", at', 0), max |-> DeclaredRow("DomainMax", at', 10)]
  BY <1>7, <1>8
<1>10. shapers' = DeclaredSize("Lut1d", at') /\ grid' = DeclaredSize("Lut3d", at')
  BY <1>4, <1>5, <1>6
<1>  QED  BY <1>0, <1>1, <1>2, <1>9, <1>10, InvFrom

-----------------------------------------------------------------------------
(* The steps that read a keyword or nothing. *)

LEMMA AfterStands == ASSUME CubeInv  PROVE Stands(cube, After)
BY Reads, InSymbolStands, TextTokens DEF After

LEMMA OneArgument ==
    ASSUME CubeInv, CubeTok.sy \in KeywordKinds, Arity(CubeTok.sy) = 1, TokenAt(cube, After).sy \in Words,
           Goto(InSymbol(cube, After))
    PROVE  /\ Passes(at + 1, Arity(CubeTok.sy), at')
           /\ After = at + 1 /\ TokenAt(cube, After) = cube[at + 1]
<1>1. After = at + 1  BY AtKeyword
<1>2. Passes(After, 1, at')  BY AfterStands, WordPasses DEF Goto
<1>3. After \in 1..Len(cube)
  <2>1. Len(cube) \in Nat /\ at \in 1..Len(cube)  BY AtKeyword, Reads DEF KeywordKinds
  <2>2. After \in After..(After + (1 - 1))  BY <1>1, <2>1
  <2>  QED  BY <1>2, <2>2 DEF Passes
<1>4. TokenAt(cube, After) = cube[After]  BY <1>3, Reads, TextTokens
<1>  QED  BY <1>1, <1>2, <1>4

LEMMA TitleInv == ASSUME CubeInv, ReadTitle  PROVE CubeInv'
<1>1. reading = "reading" /\ CubeTok.sy = "Title"  BY DEF ReadTitle, Reading
<1>2. CubeTok.sy \in KeywordKinds /\ Arity(CubeTok.sy) = 1  BY <1>1 DEF KeywordKinds, Arity
<1>3. Passes(at + 1, Arity(CubeTok.sy), at')  BY <1>2, OneArgument DEF ReadTitle, Words
<1>4. Sizes'  BY DEF CubeInv, Sizes, ReadTitle
<1>5. domain = [min |-> domain.min, max |-> domain.max]  BY <1>2, AtKeyword DEF Declared
<1>6. domain' = domain /\ shapers' = shapers /\ grid' = grid /\ cube' = cube /\ reading' = reading /\ stages' = stages
  BY DEF ReadTitle, Goto
<1>  QED  BY <1>1, <1>2, <1>3, <1>4, <1>5, <1>6, KeywordKeeps

LEMMA DomainInv == ASSUME CubeInv, ReadDomain  PROVE CubeInv'
<1>1. reading = "reading" /\ CubeTok.sy \in {"DomainMin", "DomainMax"} /\ IsRow(After)  BY DEF ReadDomain
<1>2. CubeTok.sy \in KeywordKinds /\ Arity(CubeTok.sy) = 3  BY <1>1 DEF KeywordKinds, Arity
<1>3. IsText(cube) /\ Stands(cube, After) /\ Len(cube) \in Nat /\ at \in 1..End  BY Reads, AfterStands
<1>4. /\ After \in 1..Len(cube) /\ IsNumber(cube[After])
      /\ Row3(After) = [c \in Channels |-> Number(cube[After + c - 1])]
      /\ Passes(After, 3, PastRow(After))
  <2> DEFINE p == After
  <2>1. IsRow(p) /\ Stands(cube, p)  BY <1>1, <1>3
  <2>  HIDE DEF p
  <2>2. /\ p \in 1..Len(cube) /\ \A c \in Channels : IsNumber(cube[p + c - 1])
        /\ Row3(p) = [c \in Channels |-> Number(cube[p + c - 1])]
        /\ Passes(p, 3, PastRow(p))
    BY <1>3, <2>1, RowTokens
  <2>3. 1 \in Channels /\ p + (1 - 1) = p  BY <1>3, <2>2 DEF Channels
  <2>  QED  BY <2>2, <2>3 DEF p
<1>5. After = at + 1
  <2>1. TokenAt(cube, After) = cube[After]  BY <1>3, <1>4, TextTokens
  <2>2. TokenAt(cube, After).sy \in Words  BY <1>4, <2>1 DEF IsNumber, Words
  <2>  QED  BY <1>2, <2>2, AtKeyword
<1>6. PastRow(After) = at'
  <2>1. Goto(PastRow(After))  BY DEF ReadDomain
  <2>2. SkipEoln(cube, PastRow(After)) = PastRow(After)
    <3> DEFINE t == InSymbol(cube, Next3(After)[3])
               e == PastRow(After)
    <3>1. TokenAt(cube, t) = Eoln  BY <1>1 DEF IsRow
    <3>2. e = Seek(cube, t, {"Comment", "Eoln"})  BY <3>1 DEF PastRow, SkipEoln
    <3>3. Stands(cube, Next3(After)[3])
      <4>1. Next3(After)[3] = InSymbol(cube, InSymbol(cube, After))  BY DEF Next3
      <4>  QED  BY <1>3, <4>1, InSymbolStands, TextTokens
    <3>4. t \in 1..(Len(cube) + 1)  BY <1>3, <3>3, InSymbolStands, TextTokens DEF Stands
    <3>  HIDE DEF t, e
    <3>5. TokenAt(cube, e).sy \notin {"Comment", "Eoln"}  BY <1>3, <3>2, <3>4, SeekFinds, TextTokens
    <3>6. TokenAt(cube, e) # Eoln  BY <3>5 DEF Eoln, Token
    <3>7. SkipEoln(cube, e) = e  BY <3>6 DEF SkipEoln
    <3>  QED  BY <3>7 DEF e
  <2>  QED  BY <2>1, <2>2 DEF Goto
<1>7. Passes(at + 1, Arity(CubeTok.sy), at')  BY <1>2, <1>4, <1>5, <1>6
<1>8. Row3(After) = [c \in Channels |-> Number(cube[at + c])]
  <2>1. \A c \in Channels : After + c - 1 = at + c  BY <1>3, <1>5 DEF Channels
  <2>  QED  BY <1>4, <2>1
<1>9. domain = [min |-> domain.min, max |-> domain.max]  BY <1>2, AtKeyword DEF Declared
<1>10. domain' = [min |-> IF CubeTok.sy = "DomainMin" THEN Row3(After) ELSE domain.min,
                  max |-> IF CubeTok.sy = "DomainMax" THEN Row3(After) ELSE domain.max]
  BY <1>1, <1>9 DEF ReadDomain
<1>11. shapers' = shapers /\ grid' = grid /\ cube' = cube /\ reading' = reading /\ stages' = stages
  BY DEF ReadDomain, Goto
<1>12. Sizes'  BY <1>11 DEF CubeInv, Sizes
<1>  QED  BY <1>1, <1>2, <1>7, <1>8, <1>10, <1>11, <1>12, KeywordKeeps

LEMMA ShaperSizeInv == ASSUME CubeInv, ReadShaperSize  PROVE CubeInv'
<1>1. reading = "reading" /\ CubeTok.sy = "Lut1d"  BY DEF ReadShaperSize, Reading
<1>2. CubeTok.sy \in KeywordKinds /\ Arity(CubeTok.sy) = 1  BY <1>1 DEF KeywordKinds, Arity
<1>3. Passes(at + 1, Arity(CubeTok.sy), at') /\ TokenAt(cube, After) = cube[at + 1]
  BY <1>2, OneArgument DEF ReadShaperSize, Words
<1>4. shapers' = Decimal[cube[at + 1].val[1]] /\ shapers' \in 2..MaxShaper  BY <1>3 DEF ReadShaperSize
<1>5. domain = [min |-> domain.min, max |-> domain.max]  BY <1>2, AtKeyword DEF Declared
<1>6. domain' = domain /\ grid' = grid /\ cube' = cube /\ reading' = reading /\ stages' = stages
  BY DEF ReadShaperSize, Goto
<1>7. Sizes'  BY <1>4, <1>6, CubeAssumption DEF CubeInv, Sizes
<1>  QED  BY <1>1, <1>2, <1>3, <1>4, <1>5, <1>6, <1>7, KeywordKeeps

LEMMA GridSizeInv == ASSUME CubeInv, ReadGridSize  PROVE CubeInv'
<1>1. reading = "reading" /\ CubeTok.sy = "Lut3d" /\ TokenAt(cube, After).sy = "Inum"
  BY DEF ReadGridSize, Reading
<1>2. CubeTok.sy \in KeywordKinds /\ Arity(CubeTok.sy) = 1  BY <1>1 DEF KeywordKinds, Arity
<1>3. Passes(at + 1, Arity(CubeTok.sy), at') /\ TokenAt(cube, After) = cube[at + 1]
  BY <1>2, OneArgument DEF ReadGridSize, Words
<1>4. grid' = Decimal[cube[at + 1].val[1]]  BY <1>3 DEF ReadGridSize
<1>5. grid' \in Nat  BY <1>1, <1>3, <1>4, Reads, AfterStands, SizeOf
<1>6. domain = [min |-> domain.min, max |-> domain.max]  BY <1>2, AtKeyword DEF Declared
<1>7. domain' = domain /\ shapers' = shapers /\ cube' = cube /\ reading' = reading /\ stages' = stages
  BY DEF ReadGridSize, Goto
<1>8. Sizes'  BY <1>5, <1>7 DEF CubeInv, Sizes
<1>  QED  BY <1>1, <1>2, <1>3, <1>4, <1>6, <1>7, <1>8, KeywordKeeps

LEMMA InputRangeInv == ASSUME CubeInv, ReadInputRange  PROVE CubeInv'
<1>1. reading = "reading" /\ CubeTok.sy = "InputRange" /\ IsUnitRange(After)  BY DEF ReadInputRange, Reading
<1>2. CubeTok.sy \in KeywordKinds /\ Arity(CubeTok.sy) = 2  BY <1>1 DEF KeywordKinds, Arity
<1> DEFINE q == InSymbol(cube, After)
<1>3. TokenAt(cube, After).sy \in Words /\ TokenAt(cube, q).sy \in Words
  BY <1>1 DEF IsUnitRange, IsNumber, Words
<1>4. IsText(cube) /\ Stands(cube, After) /\ Stands(cube, q) /\ Len(cube) \in Nat /\ at \in 1..End
  BY Reads, AfterStands, InSymbolStands, TextTokens
<1>5. After = at + 1  BY <1>2, <1>3, AtKeyword
<1>6. After \in 1..(Len(cube) - 1) /\ q = After + 1
  <2>1. TokenAt(cube, InSymbol(cube, After)).sy \notin {"Eoln", "Eof"}  BY <1>3 DEF Words
  <2>  QED  BY <1>4, <2>1, SameLine
<1>7. at' = SkipEoln(cube, InSymbol(cube, q))  BY DEF ReadInputRange, Goto
<1>  HIDE DEF q
<1>8. Passes(q, 1, at')  BY <1>3, <1>4, <1>7, WordPasses
<1>9. Passes(at + 1, 2, at')
  <2>1. q = at + 2  BY <1>4, <1>5, <1>6
  <2>2. at + 1 + 2 = q + 1 /\ at + 1 + (2 - 1) = q /\ q + (1 - 1) = q  BY <1>4, <2>1
  <2>3. TokenAt(cube, After) = cube[at + 1] /\ at + 1 \in 1..Len(cube)  BY <1>4, <1>5, <1>6, TextTokens
  <2>4. q \in 1..Len(cube) /\ cube[q].sy \in Words  BY <1>4, <1>6, <1>3, TextTokens
  <2>5. \A j \in (at + 1)..q : j = at + 1 \/ j = q  BY <1>4, <2>1
  <2>6. \A j \in (at + 1)..q : j \in 1..Len(cube) /\ cube[j].sy \in Words  BY <1>3, <2>3, <2>4, <2>5
  <2>7. at' \in (q + 1)..End /\ Stands(cube, at') /\ Spaces(cube, q + 1, at')  BY <1>8 DEF Passes
  <2>  QED  BY <2>2, <2>6, <2>7 DEF Passes
<1>10. domain = [min |-> domain.min, max |-> domain.max]  BY <1>2, AtKeyword DEF Declared
<1>11. domain' = domain /\ shapers' = shapers /\ grid' = grid /\ cube' = cube /\ reading' = reading /\ stages' = stages
  BY DEF ReadInputRange, Goto
<1>12. Sizes'  BY <1>11 DEF CubeInv, Sizes
<1>  QED  BY <1>1, <1>2, <1>9, <1>10, <1>11, <1>12, KeywordKeeps

LEMMA BlankInv == ASSUME CubeInv, SkipBlank  PROVE CubeInv'
<1>1. reading = "reading" /\ CubeTok.sy = "Eoln"  BY DEF SkipBlank, Reading
<1>2. /\ IsText(cube) /\ Stands(cube, at) /\ Len(cube) \in Nat /\ at \in 1..Len(cube) /\ End = Len(cube) + 1
      /\ cube[at] = CubeTok /\ stages = <<>>
  BY <1>1, Reads DEF End
<1> DEFINE q == After
           e == at'
<1>3. q \in (at + 1)..End /\ Stands(cube, q) /\ Spaces(cube, at + 1, q)
  <2>1. at \in 0..Len(cube)  BY <1>2
  <2>  QED  BY <1>2, <2>1, InSymbolMoves, TextTokens DEF After
<1>4. e = SkipEoln(cube, q)  BY DEF SkipBlank, Goto
<1>  HIDE DEF q, e
<1>5. e \in q..End /\ Stands(cube, e) /\ Spaces(cube, q, e)  BY <1>2, <1>3, <1>4, SkipEolnMoves, TextTokens
<1>6. Spaces(cube, at, e) /\ e \in at..End
  <2>1. \A j \in at..(e - 1) : j = at \/ j \in (at + 1)..(q - 1) \/ j \in q..(e - 1)  BY <1>2, <1>3, <1>5
  <2>2. cube[at].sy \in {"Comment", "Eoln"}  BY <1>1, <1>2
  <2>  QED  BY <1>2, <1>3, <1>5, <2>1, <2>2 DEF Spaces
<1>7. KeywordsWhole(at) /\ NumbersTaken(at) /\ Declared(at)  BY <1>2 DEF CubeInv, ReadSoFar
<1>8. KeywordsWhole(e) /\ NumbersTaken(e) /\ \A sy : Declarations(sy, e) = Declarations(sy, at)
  <2>1. at \in 1..End  BY <1>2
  <2>  QED  BY <1>2, <1>6, <1>7, <2>1, BlanksDeclareNothing
<1>9. \A sy : DeclaredSize(sy, e) = DeclaredSize(sy, at) /\ \A d : DeclaredRow(sy, e, d) = DeclaredRow(sy, at, d)
  BY <1>8, DeclaredStays
<1>10. domain' = domain /\ shapers' = shapers /\ grid' = grid /\ cube' = cube /\ reading' = reading /\ stages' = stages
  BY DEF SkipBlank, Goto
<1>11. Sizes'  BY <1>10 DEF CubeInv, Sizes
<1>12. Stands(cube, at') /\ KeywordsWhole(at') /\ NumbersTaken(at')  BY <1>5, <1>8 DEF e
<1>13. /\ domain' = [min |-> DeclaredRow("DomainMin", e, 0), max |-> DeclaredRow("DomainMax", e, 10)]
       /\ shapers' = DeclaredSize("Lut1d", e) /\ grid' = DeclaredSize("Lut3d", e)
  BY <1>7, <1>9, <1>10 DEF Declared
<1>  QED  BY <1>1, <1>2, <1>10, <1>11, <1>12, <1>13, InvFrom DEF e

LEMMA StoppedInv ==
    ASSUME CubeInv, UNCHANGED <<cube, at, domain, shapers, grid, title, stages>>,
           reading' = "linked" => CubeTok.sy \in {"Eof", "SynError"}
    PROVE  CubeInv'
<1>1. Stands(cube, at)' /\ (KeywordsWhole(at)' <=> KeywordsWhole(at)) /\ (NumbersTaken(at)' <=> NumbersTaken(at))
      /\ DataPositions' = DataPositions /\ End' = End
  BY SameText DEF CubeInv
<1>2. Declared(at)'  BY DeclaredNext DEF CubeInv, ReadSoFar, Declared
<1>3. CubeTok' = CubeTok  BY DEF CubeTok, TokenAt
<1>4. HoldsData' <=> HoldsData
  <2>1. GridNodes' = GridNodes  BY DEF GridNodes
  <2>2. \A i : DataBefore(i)' = DataBefore(i)  BY <1>1 DEF DataBefore
  <2>  QED  BY <1>1, <2>1, <2>2 DEF HoldsData
<1>5. ReadSoFar'  BY <1>1, <1>2, <1>4 DEF CubeInv, ReadSoFar
<1>  QED  BY <1>1, <1>3, <1>5 DEF CubeInv, Sizes

-----------------------------------------------------------------------------
(* The rows of the data. *)

LEMMA DataFinite ==
    ASSUME IsText(cube)
    PROVE  /\ DataPositions \subseteq 1..Len(cube) /\ IsFiniteSet(DataPositions)
           /\ \A e : IsFiniteSet({j \in DataPositions : j < e}) /\ DataBefore(e) \in Nat
<1>1. Len(cube) \in Nat /\ DataPositions \subseteq 1..Len(cube)  BY TextTokens DEF DataPositions
<1>2. IsFiniteSet(1..Len(cube))  BY <1>1, FS_Interval
<1>3. IsFiniteSet(DataPositions)  BY <1>1, <1>2, FS_Subset
<1>4. ASSUME NEW e  PROVE IsFiniteSet({j \in DataPositions : j < e}) /\ DataBefore(e) \in Nat
  <2> DEFINE D == {j \in DataPositions : j < e}
  <2>1. D \subseteq DataPositions  OBVIOUS
  <2>2. IsFiniteSet(D)
    <3>  HIDE DEF D
    <3>  QED  BY <1>3, <2>1, FS_Subset
  <2>3. Cardinality(D) \in Nat
    <3>  HIDE DEF D
    <3>  QED  BY <2>2, FS_CardinalityType
  <2>  QED  BY <2>2, <2>3 DEF DataBefore
<1>  QED  BY <1>1, <1>3, <1>4

\* A number of the data counts once.
LEMMA CountsOne ==
    ASSUME IsText(cube), NEW j \in DataPositions
    PROVE  DataBefore(j + 1) = DataBefore(j) + 1
<1> DEFINE D == {i \in DataPositions : i < j}
<1>1. {i \in DataPositions : i < j + 1} = D \cup {j}  BY DataFinite, TextTokens
<1>2. IsFiniteSet(D) /\ j \notin D
  <2>1. IsFiniteSet(D)  BY DataFinite
  <2>2. ~(j < j)  BY DataFinite, TextTokens
  <2>  QED  BY <2>1, <2>2
<1>3. DataBefore(j + 1) = Cardinality(D \cup {j}) /\ DataBefore(j) = Cardinality(D)  BY <1>1 DEF DataBefore
<1>  HIDE DEF D
<1>  QED  BY <1>2, <1>3, FS_AddElement

LEMMA CountsNone ==
    ASSUME IsText(cube), NEW p \in Int, NEW e \in Int, p <= e, \A j \in DataPositions : j < e => j < p
    PROVE  DataBefore(e) = DataBefore(p)
<1>1. {j \in DataPositions : j < e} = {j \in DataPositions : j < p}  BY DataFinite, TextTokens
<1>  QED  BY <1>1 DEF DataBefore

NoKeywordFrom(p, e) == \A i \in Keywords : i < e => i < p

\* A row past the keywords is three numbers of the data.
LEMMA RowCounts ==
    ASSUME IsText(cube), NEW p \in 1..End, KeywordsWhole(p),
           NEW q, q >= p, Stands(cube, q), IsRow(q), NoKeywordFrom(p, q), NEW n \in Int, DataBefore(q) = n
    PROVE  /\ NoKeywordFrom(p, PastRow(q)) /\ PastRow(q) \in (q + 3)..End
           /\ DataBefore(q + 1) = n + 1 /\ DataBefore(q + 2) = n + 2 /\ DataBefore(PastRow(q)) = n + 3
           /\ \A j \in DataPositions : j < PastRow(q) => j < q \/ j = q \/ j = q + 1 \/ j = q + 2
<1>0. Len(cube) \in Nat /\ DOMAIN cube = 1..Len(cube) /\ End = Len(cube) + 1 /\ End \in Nat
  BY TextTokens DEF End
<1> DEFINE e == PastRow(q)
<1>1. /\ q \in 1..Len(cube) /\ q + 2 <= Len(cube)
      /\ \A c \in Channels : IsNumber(cube[q + c - 1])
      /\ e \in (q + 3)..End /\ Spaces(cube, q + 3, e)
  BY RowTokens DEF Passes
<1>  HIDE DEF e
<1>2. IsNumber(cube[q]) /\ IsNumber(cube[q + 1]) /\ IsNumber(cube[q + 2])
  <2>1. 1 \in Channels /\ 2 \in Channels /\ 3 \in Channels  BY DEF Channels
  <2>2. q + 1 - 1 = q /\ q + 2 - 1 = q + 1 /\ q + 3 - 1 = q + 2  BY <1>1
  <2>3. IsNumber(cube[q + 1 - 1]) /\ IsNumber(cube[q + 2 - 1]) /\ IsNumber(cube[q + 3 - 1])  BY <1>1, <2>1
  <2>  QED  BY <2>2, <2>3
<1>3. \A i \in 1..Len(cube) : i < e => i < q \/ i = q \/ i = q + 1 \/ i = q + 2 \/ i \in (q + 3)..(e - 1)
  BY <1>0, <1>1
<1>4. \A i \in (q + 3)..(e - 1) : cube[i].sy \in {"Comment", "Eoln"}  BY <1>1 DEF Spaces
<1>5. NoKeywordFrom(q, e)
  <2> SUFFICES ASSUME NEW i \in Keywords, i < e, ~(i < q)  PROVE FALSE  BY DEF NoKeywordFrom
  <2>1. i \in 1..Len(cube)  BY <1>0 DEF Keywords
  <2>2. IsNumber(cube[i]) \/ cube[i].sy \in {"Comment", "Eoln"}  BY <1>2, <1>3, <1>4, <2>1
  <2>  QED  BY <2>2 DEF Keywords, IsNumber
<1>6. NoKeywordFrom(p, e)  BY <1>5 DEF NoKeywordFrom
<1>7. \A i \in 1..Len(cube) : i >= q /\ i < e => i \notin Arguments
  <2> SUFFICES ASSUME NEW i \in 1..Len(cube), i >= q, i < e, i \in Arguments  PROVE FALSE  OBVIOUS
  <2>1. PICK k \in Keywords : i \in (k + 1)..(k + Arity(cube[k].sy))  BY DEF Arguments
  <2>2. k \in 1..Len(cube) /\ Arity(cube[k].sy) \in 1..3  BY <1>0, Arities DEF Keywords
  <2>3. k < e  BY <2>1, <2>2, <1>0, <1>1
  <2>4. k < p  BY <1>6, <2>3 DEF NoKeywordFrom
  <2>5. k + Arity(cube[k].sy) < p  BY <2>4 DEF KeywordsWhole
  <2>  QED  BY <2>1, <2>2, <2>5, <1>0, <1>1
<1>8. q \in DataPositions /\ q + 1 \in DataPositions /\ q + 2 \in DataPositions
  <2>1. q \in 1..Len(cube) /\ q + 1 \in 1..Len(cube) /\ q + 2 \in 1..Len(cube)  BY <1>0, <1>1
  <2>2. q < e /\ q + 1 < e /\ q + 2 < e  BY <1>0, <1>1
  <2>3. q >= q /\ q + 1 >= q /\ q + 2 >= q  BY <1>1
  <2>4. q \notin Arguments /\ q + 1 \notin Arguments /\ q + 2 \notin Arguments  BY <1>7, <2>1, <2>2, <2>3
  <2>  QED  BY <1>0, <1>2, <2>1, <2>4 DEF DataPositions
<1>9. \A j \in DataPositions : j < e => j < q \/ j = q \/ j = q + 1 \/ j = q + 2
  <2> SUFFICES ASSUME NEW j \in DataPositions, j < e, j \in (q + 3)..(e - 1)  PROVE FALSE
    BY <1>3, DataFinite
  <2>1. cube[j].sy \in {"Comment", "Eoln"}  BY <1>4
  <2>  QED  BY <2>1 DEF DataPositions, IsNumber
<1>10. DataBefore(q + 1) = n + 1  BY <1>8, CountsOne
<1>11. DataBefore(q + 2) = n + 2
  <2>1. DataBefore((q + 1) + 1) = DataBefore(q + 1) + 1  BY <1>8, CountsOne
  <2>2. (q + 1) + 1 = q + 2  BY <1>1
  <2>  QED  BY <1>10, <2>1, <2>2
<1>12. DataBefore(q + 3) = n + 3
  <2>1. DataBefore((q + 2) + 1) = DataBefore(q + 2) + 1  BY <1>8, CountsOne
  <2>2. (q + 2) + 1 = q + 3  BY <1>1
  <2>  QED  BY <1>11, <2>1, <2>2
<1>13. DataBefore(e) = DataBefore(q + 3)
  <2>1. \A j \in DataPositions : j < e => j < q + 3  BY <1>1, <1>9, DataFinite
  <2>2. q + 3 \in Int /\ e \in Int /\ q + 3 <= e  BY <1>0, <1>1
  <2>  QED  BY <2>1, <2>2, CountsNone
<1>  QED  BY <1>1, <1>6, <1>9, <1>10, <1>11, <1>12, <1>13 DEF e

\* Where the rows of a block start: one after the other, and all of them rows.
IsBlock(s, p, n) ==
    /\ s \in [0..n -> 0..End] /\ s[0] = p
    /\ \A k \in 1..n : Stands(cube, s[k - 1]) /\ IsRow(s[k - 1]) /\ s[k] = PastRow(s[k - 1])

LEMMA RowStartsSteps ==
    ASSUME IsText(cube), NEW p, Stands(cube, p), NEW n \in Nat
    PROVE  /\ RowStarts(p, n) \in [0..n -> 0..End] /\ RowStarts(p, n)[0] = p
           /\ \A k \in 1..n : RowStarts(p, n)[k] =
                IF RowStarts(p, n)[k - 1] # 0 /\ IsRow(RowStarts(p, n)[k - 1])
                THEN PastRow(RowStarts(p, n)[k - 1]) ELSE 0
<1>0. Len(cube) \in Nat /\ End = Len(cube) + 1 /\ p \in 0..End  BY TextTokens DEF Stands, End
<1> DEFINE next(v) == IF v # 0 /\ IsRow(v) THEN PastRow(v) ELSE 0
           V == 0..End
           step == [k \in 1..n |-> [v \in V |-> next(v)]]
           P(s) == s = [k \in 0..n |-> IF k = 0 THEN p ELSE next(s[k - 1])]
<1>1. ASSUME NEW v \in V  PROVE next(v) \in V
  <2>1. CASE v # 0 /\ IsRow(v)
    <3>1. v \in 1..End  BY <1>0, <2>1
    <3>2. IsNumber(TokenAt(cube, v))
      <4>1. 1 \in Channels /\ Next3(v)[1] = v  BY DEF Channels, Next3
      <4>  QED  BY <2>1, <4>1 DEF IsRow
    <3>3. Stands(cube, v)  BY <1>0, <3>1, <3>2 DEF Stands, IsNumber
    <3>4. PastRow(v) \in (v + 3)..End  BY <2>1, <3>3, RowTokens DEF Passes
    <3>  QED  BY <1>0, <2>1, <3>1, <3>4
  <2>2. CASE ~(v # 0 /\ IsRow(v))  BY <1>0, <2>2
  <2>  QED  BY <2>1, <2>2
<1>2. step \in [1..n -> [V -> V]] /\ \A k \in 1..n, v \in V : step[k][v] = next(v)
  <2>  HIDE DEF next, V
  <2>  QED  BY <1>1
<1>  HIDE DEF next, step
<1>3. PICK g \in [0..n -> V] : g[0] = p /\ \A k \in 1..n : g[k] = step[k][g[k - 1]]
  <2>  HIDE DEF P
  <2>1. p \in V  BY <1>0
  <2>  HIDE DEF V
  <2>2. Iterates(n, V, p, step)  BY <1>2, <2>1, IterationExists, Zenon
  <2>  QED  BY <2>2 DEF Iterates
<1>4. P(g)
  <2>1. \A k \in 1..n : g[k - 1] \in V  BY <1>3
  <2>  HIDE DEF V
  <2>2. \A k \in 1..n : g[k] = next(g[k - 1])  BY <1>2, <1>3, <2>1
  <2>3. \A k \in 0..n : k = 0 \/ k \in 1..n  OBVIOUS
  <2>  QED  BY <2>2, <2>3, <1>3
<1> DEFINE h == CHOOSE s : P(s)
<1>5. P(h)
  <2>  HIDE DEF P
  <2>  QED  BY <1>4
<1>6. RowStarts(p, n) = h  BY DEF RowStarts, next
<1>  HIDE DEF h, V
<1>7. h[0] = p /\ \A k \in 1..n : h[k] = next(h[k - 1])
  <2>1. \A k \in 1..n : k \in 0..n /\ k # 0  OBVIOUS
  <2>2. 0 \in 0..n  OBVIOUS
  <2>  QED  BY <1>5, <2>1, <2>2
<1>8. \A k \in 0..n : h[k] \in V
  <2> DEFINE S == {k \in 0..n : h[k] \in V}
  <2>1. 0 \in S  BY <1>0, <1>7 DEF V
  <2>2. \A k \in 0..n : k # n /\ k \in S => k + 1 \in S
    <3> SUFFICES ASSUME NEW k \in 0..n, k # n, k \in S  PROVE k + 1 \in S  OBVIOUS
    <3>1. k + 1 \in 1..n /\ (k + 1) - 1 = k  OBVIOUS
    <3>2. h[k + 1] = next(h[k])  BY <1>7, <3>1
    <3>3. h[k + 1] \in V  BY <1>1, <3>2
    <3>  QED  BY <3>1, <3>3
  <2>3. 0..n \subseteq S
    <3>  HIDE DEF S
    <3>  QED  BY <2>1, <2>2, IntervalInduction
  <2>  QED  BY <2>3
<1>9. h \in [0..n -> V]  BY <1>5, <1>8
<1>  QED  BY <1>6, <1>7, <1>9 DEF V, next

\* A block that does not end in 0 has no bad row.
LEMMA BlockOfRows ==
    ASSUME IsText(cube), NEW p, Stands(cube, p), NEW n \in Nat, RowStarts(p, n)[n] # 0
    PROVE  IsBlock(RowStarts(p, n), p, n)
<1> DEFINE s == RowStarts(p, n)
<1>0. s \in [0..n -> 0..End] /\ s[0] = p
  BY RowStartsSteps
<1>1. \A k \in 1..n : s[k] = IF s[k - 1] # 0 /\ IsRow(s[k - 1]) THEN PastRow(s[k - 1]) ELSE 0
  BY RowStartsSteps
<1>  HIDE DEF s
<1>2. \A k \in 0..n : s[k] # 0
  <2> DEFINE S == {j \in 0..n : s[n - j] # 0}
  <2>1. 0 \in S
    <3>1. n - 0 = n /\ 0 \in 0..n  OBVIOUS
    <3>  QED  BY <3>1 DEF s
  <2>2. \A j \in 0..n : j # n /\ j \in S => j + 1 \in S
    <3> SUFFICES ASSUME NEW j \in 0..n, j # n, j \in S  PROVE j + 1 \in S  OBVIOUS
    <3>1. n - j \in 1..n /\ (n - j) - 1 = n - (j + 1) /\ j + 1 \in 0..n  OBVIOUS
    <3>2. s[n - j] # 0  OBVIOUS
    <3>3. s[(n - j) - 1] # 0  BY <1>1, <3>1, <3>2
    <3>  QED  BY <3>1, <3>3
  <2>3. 0..n \subseteq S
    <3>  HIDE DEF S
    <3>  QED  BY <2>1, <2>2, IntervalInduction
  <2>4. \A k \in 0..n : n - k \in 0..n /\ n - (n - k) = k  OBVIOUS
  <2>5. \A k \in 0..n : n - k \in S  BY <2>3, <2>4
  <2>  QED  BY <2>4, <2>5
<1>3. ASSUME NEW k \in 1..n  PROVE Stands(cube, s[k - 1]) /\ IsRow(s[k - 1]) /\ s[k] = PastRow(s[k - 1])
  <2>1. k \in 0..n /\ k - 1 \in 0..n  OBVIOUS
  <2>2. IsRow(s[k - 1]) /\ s[k] = PastRow(s[k - 1])  BY <1>1, <1>2, <2>1
  <2> DEFINE v == s[k - 1]
  <2>3. v \in 0..End /\ v # 0  BY <1>0, <1>2, <2>1
  <2>4. 1 \in Channels /\ Next3(v)[1] = v  BY DEF Channels, Next3
  <2>5. IsNumber(TokenAt(cube, v))  BY <2>2, <2>4 DEF IsRow
  <2>  HIDE DEF v
  <2>6. Stands(cube, v)  BY <2>3, <2>5, TextTokens DEF Stands, IsNumber, End
  <2>  QED  BY <2>2, <2>6 DEF v
<1>4. IsBlock(s, p, n)  BY <1>0, <1>3 DEF IsBlock
<1>  QED  BY <1>4 DEF s

\* The numbers before a row are three for each row before it, each at its place.
Counted(s, p, k) ==
    /\ s[k] \in p..End /\ NoKeywordFrom(p, s[k]) /\ DataBefore(s[k]) = 3 * k
    /\ \A j \in DataPositions : j < s[k] =>
         \E r \in 1..k, c \in Channels : j = s[r - 1] + (c - 1) /\ DataBefore(j) = 3 * (r - 1) + (c - 1)

LEMMA BlockCounted ==
    ASSUME IsText(cube), NEW p \in 1..End, KeywordsWhole(p), NumbersTaken(p), NEW n \in Nat,
           NEW s, IsBlock(s, p, n)
    PROVE  \A k \in 0..n : Counted(s, p, k)
<1>0. Len(cube) \in Nat /\ End \in Nat /\ p \in Int  BY TextTokens DEF End
<1> DEFINE S == {k \in 0..n : Counted(s, p, k)}
<1>1. 0 \in S
  <2>1. \A j \in DataPositions : ~(j < p)  BY DEF DataPositions, NumbersTaken
  <2>2. {j \in DataPositions : j < p} = {}  BY <2>1
  <2>3. DataBefore(p) = 0  BY <2>2, FS_EmptySet DEF DataBefore
  <2>4. s[0] = p  BY DEF IsBlock
  <2>5. Counted(s, p, 0)  BY <1>0, <2>1, <2>3, <2>4 DEF Counted, NoKeywordFrom
  <2>  QED  BY <2>5
<1>2. \A k \in 0..n : k # n /\ k \in S => k + 1 \in S
  <2> SUFFICES ASSUME NEW k \in 0..n, k # n, Counted(s, p, k)  PROVE Counted(s, p, k + 1)  OBVIOUS
  <2>1. k + 1 \in 1..n /\ (k + 1) - 1 = k  OBVIOUS
  <2> DEFINE q == s[k]
             e == s[k + 1]
  <2>2. Stands(cube, q) /\ IsRow(q) /\ e = PastRow(q)  BY <2>1 DEF IsBlock
  <2>3. q \in p..End /\ NoKeywordFrom(p, q) /\ DataBefore(q) = 3 * k  BY DEF Counted
  <2>4. \A j \in DataPositions : j < q =>
          \E r \in 1..k, c \in Channels : j = s[r - 1] + (c - 1) /\ DataBefore(j) = 3 * (r - 1) + (c - 1)
    BY DEF Counted
  <2>9. s[(k + 1) - 1] = q  BY <2>1
  <2>  HIDE DEF q, e
  <2>5. 3 * k \in Int /\ q >= p  BY <1>0, <2>3
  <2>6. /\ NoKeywordFrom(p, e) /\ e \in (q + 3)..End
        /\ DataBefore(q + 1) = 3 * k + 1 /\ DataBefore(q + 2) = 3 * k + 2 /\ DataBefore(e) = 3 * k + 3
        /\ \A j \in DataPositions : j < e => j < q \/ j = q \/ j = q + 1 \/ j = q + 2
    BY <2>2, <2>3, <2>5, RowCounts
  <2>7. e \in p..End /\ 3 * k + 3 = 3 * (k + 1)  BY <1>0, <2>3, <2>6
  <2>8. ASSUME NEW j \in DataPositions, j < e
        PROVE  \E r \in 1..(k + 1), c \in Channels : j = s[r - 1] + (c - 1) /\ DataBefore(j) = 3 * (r - 1) + (c - 1)
    <3>1. CASE j < q
      <4>1. PICK r \in 1..k, c \in Channels : j = s[r - 1] + (c - 1) /\ DataBefore(j) = 3 * (r - 1) + (c - 1)
        BY <2>4, <3>1
      <4>2. r \in 1..(k + 1)  OBVIOUS
      <4>  QED  BY <4>1, <4>2
    <3>2. ASSUME NEW c \in Channels, j = q + (c - 1)
          PROVE  \E r \in 1..(k + 1), d \in Channels : j = s[r - 1] + (d - 1) /\ DataBefore(j) = 3 * (r - 1) + (d - 1)
      <4>1. DataBefore(j) = 3 * k + (c - 1)
        <5>1. c = 1 \/ c = 2 \/ c = 3  BY DEF Channels
        <5>2. CASE c = 1
          <6>1. j = q /\ 3 * k + (c - 1) = 3 * k  BY <1>0, <2>3, <3>2, <5>2
          <6>  QED  BY <2>3, <6>1
        <5>3. CASE c = 2
          <6>1. j = q + 1 /\ 3 * k + (c - 1) = 3 * k + 1  BY <1>0, <2>3, <3>2, <5>3
          <6>  QED  BY <2>6, <6>1
        <5>4. CASE c = 3
          <6>1. j = q + 2 /\ 3 * k + (c - 1) = 3 * k + 2  BY <1>0, <2>3, <3>2, <5>4
          <6>  QED  BY <2>6, <6>1
        <5>  QED  BY <5>1, <5>2, <5>3, <5>4
      <4>2. k + 1 \in 1..(k + 1) /\ 3 * ((k + 1) - 1) + (c - 1) = 3 * k + (c - 1)  BY <2>1 DEF Channels
      <4>3. j = s[(k + 1) - 1] + (c - 1)  BY <2>9, <3>2
      <4>  QED  BY <4>1, <4>2, <4>3
    <3>3. 1 \in Channels /\ 2 \in Channels /\ 3 \in Channels  BY DEF Channels
    <3>4. q + (1 - 1) = q /\ q + (2 - 1) = q + 1 /\ q + (3 - 1) = q + 2  BY <1>0, <2>3
    <3>5. j < q \/ j = q \/ j = q + 1 \/ j = q + 2  BY <2>6, <2>8
    <3>  QED  BY <3>1, <3>2, <3>3, <3>4, <3>5
  <2>  QED  BY <2>6, <2>7, <2>8 DEF Counted, e
<1>3. 0..n \subseteq S
  <2>  HIDE DEF S
  <2>  QED  BY <1>1, <1>2, IntervalInduction
<1>  QED  BY <1>3

-----------------------------------------------------------------------------
(* Reading the data. *)

LEMMA NodeCount ==
    ASSUME Sizes
    PROVE  GridNodes \in Nat /\ (GridNodes > 0 => grid > 0)
<1>1. CASE grid > 0
  <2>1. GridNodes = grid * grid * grid  BY <1>1 DEF GridNodes
  <2>2. grid \in Nat /\ grid * grid \in Nat  BY DEF Sizes
  <2>3. grid * grid * grid \in Nat  BY <2>2
  <2>  QED  BY <1>1, <2>1, <2>3
<1>2. CASE ~(grid > 0)  BY <1>2 DEF GridNodes
<1>  QED  BY <1>1, <1>2

\* The pipeline of a link: a shaper, then a CLUT.
Pipeline(a, b) == (IF shapers > 0 THEN <<a>> ELSE <<>>) \o (IF grid > 0 THEN <<b>> ELSE <<>>)
Staged(st, a, b) ==
    /\ Len(st) = (IF shapers > 0 THEN 1 ELSE 0) + (IF grid > 0 THEN 1 ELSE 0)
    /\ DOMAIN st = 1..Len(st)
    /\ \A i \in DOMAIN st : (shapers > 0 /\ st[i] = a) \/ (grid > 0 /\ st[i] = b)
    /\ shapers > 0 => st[1] = a
    /\ grid > 0 => st[Len(st)] = b

LEMMA PipelineStaged == ASSUME NEW a, NEW b  PROVE Staged(Pipeline(a, b), a, b)
<1> DEFINE st == Pipeline(a, b)
<1>1. CASE shapers > 0 /\ grid > 0
  <2> DEFINE S == {a, b}
             x == <<a>>
             y == <<b>>
  <2>1. x \in Seq(S) /\ y \in Seq(S) /\ Len(x) = 1 /\ Len(y) = 1 /\ x[1] = a /\ y[1] = b  OBVIOUS
  <2>2. st = x \o y  BY <1>1 DEF Pipeline
  <2>  HIDE DEF S, x, y
  <2>3. /\ x \o y \in Seq(S) /\ Len(x \o y) = 1 + 1
        /\ \A i \in 1..(1 + 1) : (x \o y)[i] = IF i <= 1 THEN x[i] ELSE y[i - 1]
    BY <2>1, ConcatProperties
  <2>  HIDE DEF st
  <2>4. st \in Seq(S) /\ Len(st) = 2 /\ st[1] = x[1] /\ st[2] = y[1]  BY <2>2, <2>3
  <2>5. DOMAIN st = 1..2 /\ \A i \in 1..2 : i = 1 \/ i = 2  BY <2>4
  <2>  QED  BY <1>1, <2>1, <2>4, <2>5 DEF Staged, st
<1>2. CASE shapers > 0 /\ ~(grid > 0)
  <2>1. st = <<a>>  BY <1>2 DEF Pipeline
  <2>  QED  BY <1>2, <2>1 DEF Staged
<1>3. CASE ~(shapers > 0) /\ grid > 0
  <2>1. st = <<b>>  BY <1>3 DEF Pipeline
  <2>  QED  BY <1>3, <2>1 DEF Staged
<1>4. CASE ~(shapers > 0) /\ ~(grid > 0)
  <2>1. st = <<>>  BY <1>4 DEF Pipeline
  <2>  QED  BY <1>4, <2>1 DEF Staged
<1>  QED  BY <1>1, <1>2, <1>3, <1>4

\* Division by the channels of a row.
LEMMA RowAndChannel ==
    ASSUME NEW r \in Nat, NEW c \in Channels
    PROVE  (3 * r + (c - 1)) \div 3 = r /\ (3 * r + (c - 1)) % 3 = c - 1
BY DEF Channels

LEMMA ReadDataInv == ASSUME CubeInv, ReadData  PROVE CubeInv'
<1> DEFINE N == shapers + GridNodes
           s == RowStarts(at, N)
           shaper == [c \in Channels |-> [i \in 1..shapers |-> Scaled(Row3(s[i - 1]), c)]]
           nodes == [i \in 1..GridNodes |-> Node(Row3(s[shapers + i - 1]))]
           A == [kind |-> "Shaper", table |-> shaper]
           B == [kind |-> "Clut", table |-> nodes]
<1>1. /\ reading = "reading" /\ IsNumber(CubeTok) /\ s[N] # 0 /\ TokenAt(cube, s[N]).sy = "Eof"
      /\ stages' = (IF shapers > 0 THEN <<A>> ELSE <<>>) \o (IF grid > 0 THEN <<B>> ELSE <<>>)
      /\ at' = s[N] /\ UNCHANGED <<cube, reading, domain, shapers, grid, title>>
  BY DEF ReadData, IsDataBlock
<1>2. /\ IsText(cube) /\ Stands(cube, at) /\ Len(cube) \in Nat /\ at \in 1..End /\ End \in Nat /\ stages = <<>>
      /\ Sizes
  <2>1. CubeTok.sy # "Eof"  BY <1>1 DEF IsNumber
  <2>  QED  BY <2>1, Reads DEF CubeInv
<1>3. KeywordsWhole(at) /\ NumbersTaken(at) /\ Declared(at)  BY <1>2 DEF CubeInv, ReadSoFar
<1>4. GridNodes \in Nat /\ N \in Nat /\ shapers \in Nat /\ (GridNodes > 0 => grid > 0)
  BY <1>2, NodeCount DEF Sizes
<1>  HIDE DEF s
<1>5. IsBlock(s, at, N)
  <2>  HIDE DEF N
  <2>  QED  BY <1>1, <1>2, <1>4, BlockOfRows DEF s
<1>6. \A k \in 0..N : Counted(s, at, k)
  <2>  HIDE DEF N
  <2>  QED  BY <1>2, <1>3, <1>4, <1>5, BlockCounted
<1>7. s[N] = End
  <2>1. s[N] \in at..End
    <3>1. N \in 0..N  BY <1>4
    <3>  QED  BY <1>6, <3>1 DEF Counted
  <2>2. \A i \in 1..Len(cube) : TokenAt(cube, i).sy # "Eof"  BY <1>2, TextTokens
  <2>  QED  BY <1>1, <1>2, <2>1, <2>2 DEF End
<1>8. /\ NoKeywordFrom(at, End) /\ DataBefore(End) = 3 * N
      /\ \A j \in DataPositions :
           \E r \in 1..N, c \in Channels : j = s[r - 1] + (c - 1) /\ DataBefore(j) = 3 * (r - 1) + (c - 1)
  <2>1. Counted(s, at, N)
    <3>1. N \in 0..N  BY <1>4
    <3>  QED  BY <1>6, <3>1
  <2>2. \A j \in DataPositions : j < End  BY <1>2, DataFinite DEF End
  <2>  HIDE DEF N
  <2>  QED  BY <1>7, <2>1, <2>2 DEF Counted
<1>9. Cardinality(DataPositions) = 3 * N
  <2>1. {j \in DataPositions : j < End} = DataPositions  BY <1>2, DataFinite DEF End
  <2>  QED  BY <1>8, <2>1 DEF DataBefore
<1>10. N > 0
  <2> SUFFICES ASSUME N = 0  PROVE FALSE  BY <1>4
  <2>1. s[N] = at  BY <1>5 DEF IsBlock
  <2>2. CubeTok.sy = "Eof"  BY <1>1, <2>1 DEF CubeTok
  <2>  QED  BY <1>1, <2>2 DEF IsNumber
<1>11. DataPositions # {}
  <2>1. 3 * N # 0  BY <1>4, <1>10
  <2>  QED  BY <1>9, <2>1, FS_EmptySet
<1>  HIDE DEF A, B
<1>12. /\ Len(stages') = (IF shapers > 0 THEN 1 ELSE 0) + (IF grid > 0 THEN 1 ELSE 0)
       /\ DOMAIN stages' = 1..Len(stages')
       /\ \A i \in DOMAIN stages' : (shapers > 0 /\ stages'[i] = A) \/ (grid > 0 /\ stages'[i] = B)
       /\ shapers > 0 => stages'[1] = A
       /\ grid > 0 => stages'[Len(stages')] = B
  <2>1. stages' = Pipeline(A, B)  BY <1>1 DEF Pipeline
  <2>2. Staged(stages', A, B)  BY <2>1, PipelineStaged
  <2>  QED  BY <2>2 DEF Staged
<1>13. A.kind = "Shaper" /\ A.table = shaper /\ B.kind = "Clut" /\ B.table = nodes  BY DEF A, B
<1>14. stages' # <<>>
  <2>1. shapers > 0 \/ grid > 0  BY <1>4, <1>10
  <2>2. Len(stages') # 0  BY <1>12, <2>1
  <2>  QED  BY <2>2
<1> DEFINE value(j, c) == <<Number(cube[j]) - domain.min[c], domain.max[c] - domain.min[c]>>
<1>15. ASSUME NEW r \in 1..N, NEW c \in Channels
       PROVE  Scaled(Row3(s[r - 1]), c) = value(s[r - 1] + (c - 1), c)
  <2>1. Stands(cube, s[r - 1]) /\ IsRow(s[r - 1])  BY <1>5 DEF IsBlock
  <2> DEFINE p == s[r - 1]
  <2>  HIDE DEF p
  <2>2. Stands(cube, p) /\ IsRow(p)  BY <2>1 DEF p
  <2>3. Row3(p) = [d \in Channels |-> Number(cube[p + d - 1])] /\ p \in 1..Len(cube)  BY <1>2, <2>2, RowTokens
  <2>4. p + c - 1 = p + (c - 1)  BY <2>3 DEF Channels
  <2>5. Row3(p)[c] = Number(cube[p + (c - 1)])  BY <2>3, <2>4
  <2>6. Scaled(Row3(p), c) = value(p + (c - 1), c)  BY <2>5 DEF Scaled
  <2>  QED  BY <2>6 DEF p
<1>  HIDE DEF value
<1>16. ASSUME NEW j \in DataPositions, NEW row, NEW c, row = DataBefore(j) \div 3, c = (DataBefore(j) % 3) + 1
       PROVE  IF row < shapers
              THEN stages'[1].kind = "Shaper" /\ stages'[1].table[c][row + 1] = value(j, c)
              ELSE /\ stages'[Len(stages')].kind = "Clut"
                   /\ stages'[Len(stages')].table[row - shapers + 1][4 - c] = value(j, c)
  <2>1. PICK r \in 1..N, d \in Channels : j = s[r - 1] + (d - 1) /\ DataBefore(j) = 3 * (r - 1) + (d - 1)
    BY <1>8
  <2>2. row = r - 1 /\ c = d /\ c \in Channels
    <3>1. r - 1 \in Nat  BY <1>4
    <3> DEFINE q == r - 1
    <3>  HIDE DEF q
    <3>2. q \in Nat /\ DataBefore(j) = 3 * q + (d - 1)  BY <2>1, <3>1 DEF q
    <3>3. row = q /\ c = d - 1 + 1  BY <1>16, <3>2, RowAndChannel
    <3>4. c = d  BY <3>3 DEF Channels
    <3>  QED  BY <3>3, <3>4 DEF q
  <2>3. Scaled(Row3(s[row]), c) = value(j, c)
    <3>1. Scaled(Row3(s[r - 1]), d) = value(s[r - 1] + (d - 1), d)  BY <1>15
    <3>  QED  BY <2>1, <2>2, <3>1
  <2>4. row \in Nat /\ row < N  BY <1>4, <2>2
  <2>5. CASE row < shapers
    <3>1. shapers > 0 /\ row + 1 \in 1..shapers /\ (row + 1) - 1 = row  BY <1>4, <2>4, <2>5
    <3>2. stages'[1] = A  BY <1>12, <3>1
    <3>3. shaper[c][row + 1] = Scaled(Row3(s[row]), c)  BY <2>2, <3>1
    <3>  QED  BY <1>13, <2>3, <2>5, <3>2, <3>3
  <2>6. CASE ~(row < shapers)
    <3>1. GridNodes > 0 /\ row - shapers + 1 \in 1..GridNodes /\ shapers + (row - shapers + 1) - 1 = row
      BY <1>4, <2>4, <2>6
    <3>2. stages'[Len(stages')] = B  BY <1>4, <1>12, <3>1
    <3>3. nodes[row - shapers + 1] = Node(Row3(s[row]))  BY <3>1
    <3>4. 4 - c \in Channels /\ 4 - (4 - c) = c  BY <2>2 DEF Channels
    <3>5. Node(Row3(s[row]))[4 - c] = Scaled(Row3(s[row]), c)  BY <3>4 DEF Node
    <3>  QED  BY <1>13, <2>3, <2>6, <3>2, <3>3, <3>5
  <2>  QED  BY <2>5, <2>6
<1>17. \A i \in DOMAIN stages' :
         IF stages'[i].kind = "Shaper" THEN \A c \in Channels : DOMAIN stages'[i].table[c] = 1..shapers
                                       ELSE DOMAIN stages'[i].table = 1..GridNodes
  <2>1. \A c \in Channels : DOMAIN shaper[c] = 1..shapers  OBVIOUS
  <2>2. DOMAIN nodes = 1..GridNodes  OBVIOUS
  <2>  HIDE DEF shaper, nodes
  <2>  QED  BY <1>12, <1>13, <2>1, <2>2
<1>18. HoldsData'
  <2>1. DataPositions' = DataPositions  BY <1>1, SameText
  <2>2. \A i : DataBefore(i)' = DataBefore(i)  BY <2>1 DEF DataBefore
  <2>3. GridNodes' = GridNodes  BY <1>1 DEF GridNodes
  <2>  HIDE DEF shaper, nodes, N
  <2>4. Cardinality(DataPositions)' = 3 * (shapers + GridNodes)'  BY <1>1, <1>9, <2>1, <2>3 DEF N
  <2>5. \A j \in DataPositions :
          LET row == DataBefore(j) \div 3
              c == (DataBefore(j) % 3) + 1
          IN  IF row < shapers
              THEN stages'[1].kind = "Shaper" /\ stages'[1].table[c][row + 1] = value(j, c)
              ELSE /\ stages'[Len(stages')].kind = "Clut"
                   /\ stages'[Len(stages')].table[row - shapers + 1][4 - c] = value(j, c)
    BY <1>16
  <2>  QED  BY <1>1, <1>12, <1>17, <2>1, <2>2, <2>3, <2>4, <2>5 DEF HoldsData, value
<1>19. KeywordsWhole(End)
  <2> SUFFICES ASSUME NEW i \in Keywords, i < End  PROVE i + Arity(cube[i].sy) < End  BY DEF KeywordsWhole
  <2>1. i + Arity(cube[i].sy) < at  BY <1>3, <1>8 DEF NoKeywordFrom, KeywordsWhole
  <2>2. i \in 1..Len(cube) /\ Arity(cube[i].sy) \in 1..3  BY <1>2, TextTokens, Arities DEF Keywords
  <2>  QED  BY <1>2, <2>1, <2>2
<1>20. \A sy : Declarations(sy, End) = Declarations(sy, at)
  <2>1. \A i \in Keywords : i < End <=> i < at
    <3>1. \A i \in Keywords : i \in 1..Len(cube)  BY <1>2, TextTokens DEF Keywords
    <3>  QED  BY <1>2, <1>8, <3>1 DEF NoKeywordFrom, End
  <2>  QED  BY <2>1 DEF Declarations
<1>21. Declared(at)'
  <2>1. \A sy : DeclaredSize(sy, End) = DeclaredSize(sy, at) /\ \A d : DeclaredRow(sy, End, d) = DeclaredRow(sy, at, d)
    BY <1>20, DeclaredStays
  <2>2. at' = End  BY <1>1, <1>7
  <2>  QED  BY <1>1, <1>3, <2>1, <2>2, DeclaredNext DEF Declared
<1>22. KeywordsWhole(at)' /\ at' = End' /\ DataPositions' # {} /\ Stands(cube, at)'
  <2>1. at' = End  BY <1>1, <1>7
  <2>2. Stands(cube, End)  BY <1>2, TextTokens DEF Stands, End, Eof, Token
  <2>  QED  BY <1>1, <1>11, <1>19, <2>1, <2>2, SameText
<1>23. ReadSoFar'  BY <1>14, <1>18, <1>21, <1>22 DEF ReadSoFar
<1>  QED  BY <1>1, <1>2, <1>22, <1>23 DEF CubeInv, Sizes

-----------------------------------------------------------------------------
(* Cube files: the theorems. *)

\* What is behind the parser is read and declared, at every step of every text.
THEOREM CubeInvariant == CubeSpec => []CubeInv
<1>1. CubeInit => CubeInv  BY InitInv
<1>2. CubeInv /\ [CubeNext]_cubeVars => CubeInv'
  <2> SUFFICES ASSUME CubeInv, [CubeNext]_cubeVars  PROVE CubeInv'  OBVIOUS
  <2>1. CASE ReadTitle  BY <2>1, TitleInv
  <2>2. CASE ReadDomain  BY <2>2, DomainInv
  <2>3. CASE ReadShaperSize  BY <2>3, ShaperSizeInv
  <2>4. CASE ReadGridSize  BY <2>4, GridSizeInv
  <2>5. CASE ReadInputRange  BY <2>5, InputRangeInv
  <2>6. CASE SkipBlank  BY <2>6, BlankInv
  <2>7. CASE ReadData  BY <2>7, ReadDataInv
  <2>8. CASE RefuseCube
    <3>1. reading' = "refused" /\ UNCHANGED <<cube, at, domain, shapers, grid, title, stages>>
      BY <2>8 DEF RefuseCube, Refuse
    <3>  QED  BY <3>1, StoppedInv
  <2>9. CASE Link
    <3>1. CubeTok.sy \in {"Eof", "SynError"} /\ UNCHANGED <<cube, at, domain, shapers, grid, title, stages>>
      BY <2>9 DEF Link
    <3>  QED  BY <3>1, StoppedInv
  <2>10. CASE UNCHANGED cubeVars
    <3>1. reading' = reading /\ UNCHANGED <<cube, at, domain, shapers, grid, title, stages>>  BY <2>10 DEF cubeVars
    <3>2. reading' = "linked" => CubeTok.sy \in {"Eof", "SynError"}  BY <3>1 DEF CubeInv
    <3>  QED  BY <3>1, <3>2, StoppedInv
  <2>  QED  BY <2>1, <2>2, <2>3, <2>4, <2>5, <2>6, <2>7, <2>8, <2>9, <2>10 DEF CubeNext
<1>  QED  BY <1>1, <1>2, PTL DEF CubeSpec

\* A file taken as a link is the whole file (cgats.rs parse_cube), whatever the
\* text and the limits: the sizes and the domain are the declared ones, every
\* number of the data is in the pipeline once, at its row and channel, and
\* nothing else is in it.
THEOREM CubeLinkAlwaysTheFile == CubeSpec => []CubeLinkIsTheFile
<1>1. CubeInv => CubeLinkIsTheFile
  <2> SUFFICES ASSUME CubeInv, reading = "linked", \A i \in DOMAIN cube : cube[i] # Garbage
               PROVE  /\ Declared(Len(cube) + 1)
                      /\ IF DataPositions = {} THEN stages = <<>> ELSE HoldsData
    BY DEF CubeLinkIsTheFile
  <2>1. CubeTok.sy \in {"Eof", "SynError"}  BY DEF CubeInv
  <2>2. /\ IsText(cube) /\ Len(cube) \in Nat /\ at \in 1..End /\ DOMAIN cube = 1..Len(cube)
        /\ CubeTok.sy # "Eof" => at \in 1..Len(cube) /\ cube[at] = CubeTok
    BY Reads
  <2>3. at = Len(cube) + 1
    <3> SUFFICES ASSUME at \in 1..Len(cube)  PROVE FALSE  BY <2>2 DEF End
    <3>1. CubeTok = cube[at] /\ cube[at].sy # "Eof"  BY <2>2, TextTokens DEF CubeTok
    <3>2. cube[at].sy = "SynError"  BY <2>1, <3>1
    <3>  QED  BY <2>2, <3>2 DEF IsText
  <2>4. Declared(Len(cube) + 1)  BY <2>3 DEF CubeInv, ReadSoFar
  <2>5. CASE stages = <<>>
    <3>1. NumbersTaken(at)  BY <2>5 DEF CubeInv, ReadSoFar
    <3>2. \A i \in DOMAIN cube : i < at  BY <2>2, <2>3
    <3>3. DataPositions = {}  BY <3>1, <3>2 DEF DataPositions, NumbersTaken
    <3>  QED  BY <2>4, <2>5, <3>3
  <2>6. CASE stages # <<>>
    <3>1. DataPositions # {} /\ HoldsData  BY <2>6 DEF CubeInv, ReadSoFar
    <3>  QED  BY <2>4, <3>1
  <2>  QED  BY <2>5, <2>6
<1>2. CubeSpec => []CubeInv  BY CubeInvariant
<1>  QED  BY <1>1, <1>2, PTL

-----------------------------------------------------------------------------
(* Documents: values and texts put together from parts. *)

LEMMA ValueIs == ASSUME NEW v, IsValue(v)  PROVE Len(v) \in Nat /\ DOMAIN v = 1..Len(v) /\ v \in Seq(Range(v))
BY DEF IsValue

LEMMA ValueOf == ASSUME NEW S, NEW v, v \in Seq(S)  PROVE IsValue(v)
BY SeqOfRange DEF IsValue

LEMMA ValueBuilt ==
    ASSUME NEW n \in Nat, NEW v, DOMAIN v = 1..n, v = [i \in 1..n |-> v[i]]
    PROVE  IsValue(v) /\ Len(v) = n
<1> DEFINE R == {v[i] : i \in 1..n}
<1>1. v \in [1..n -> R]
  <2>1. \A i \in 1..n : v[i] \in R  OBVIOUS
  <2>  HIDE DEF R
  <2>  QED  BY <2>1, Zenon
<1>2. v \in Seq(R)  BY <1>1, SeqDef
<1>  QED  BY <1>1, <1>2, ValueOf

LEMMA ValueConcat ==
    ASSUME NEW a, NEW b, IsValue(a), IsValue(b)
    PROVE  /\ IsValue(a \o b) /\ Len(a \o b) = Len(a) + Len(b)
           /\ \A i \in 1..(Len(a) + Len(b)) : (a \o b)[i] = IF i <= Len(a) THEN a[i] ELSE b[i - Len(a)]
<1> DEFINE S == Range(a) \cup Range(b)
<1>1. a \in Seq(S) /\ b \in Seq(S)
  <2>1. a \in Seq(Range(a)) /\ b \in Seq(Range(b))  BY DEF IsValue
  <2>  QED  BY <2>1, SeqMonotonic
<1>  HIDE DEF S
<1>  QED  BY <1>1, ConcatProperties, ValueOf

LEMMA ValueAppend ==
    ASSUME NEW a, NEW x, IsValue(a)
    PROVE  /\ IsValue(Append(a, x)) /\ Len(Append(a, x)) = Len(a) + 1
           /\ \A i \in 1..Len(a) : Append(a, x)[i] = a[i]
           /\ Append(a, x)[Len(a) + 1] = x
<1> DEFINE S == Range(a) \cup {x}
<1>1. a \in Seq(S) /\ x \in S
  <2>1. a \in Seq(Range(a))  BY DEF IsValue
  <2>  QED  BY <2>1, SeqMonotonic
<1>  HIDE DEF S
<1>2. /\ Append(a, x) \in Seq(S) /\ Len(Append(a, x)) = Len(a) + 1
      /\ \A i \in 1..Len(a) : Append(a, x)[i] = a[i]
      /\ Append(a, x)[Len(a) + 1] = x
  BY <1>1, AppendProperties
<1>3. IsValue(Append(a, x))  BY <1>2, ValueOf
<1>  QED  BY <1>2, <1>3

LEMMA ValueExcept ==
    ASSUME NEW a, NEW k, NEW x, IsValue(a), k \in 1..Len(a)
    PROVE  /\ IsValue([a EXCEPT ![k] = x]) /\ Len([a EXCEPT ![k] = x]) = Len(a)
           /\ [a EXCEPT ![k] = x][k] = x
           /\ \A i \in 1..Len(a) : i # k => [a EXCEPT ![k] = x][i] = a[i]
<1> DEFINE S == Range(a) \cup {x}
<1>1. a \in Seq(S) /\ x \in S
  <2>1. a \in Seq(Range(a))  BY DEF IsValue
  <2>  QED  BY <2>1, SeqMonotonic
<1>  HIDE DEF S
<1>2. /\ [a EXCEPT ![k] = x] \in Seq(S)
      /\ Len([a EXCEPT ![k] = x]) = Len(a)
      /\ \A j \in 1..Len(a) : [a EXCEPT ![k] = x][j] = IF j = k THEN x ELSE a[j]
  BY <1>1, ExceptSeq
<1>  QED  BY <1>2, ValueOf

LEMMA ValueSub ==
    ASSUME NEW a, IsValue(a), NEW n \in 0..Len(a)
    PROVE  /\ IsValue(SubSeq(a, 1, n)) /\ Len(SubSeq(a, 1, n)) = n
           /\ \A i \in 1..n : SubSeq(a, 1, n)[i] = a[i]
<1>1. Len(a) \in Nat /\ \A i \in 1..n : a[i] \in Range(a)
  <2>1. a \in Seq(Range(a))  BY DEF IsValue
  <2>2. \A i \in 1..Len(a) : a[i] \in Range(a)  BY <2>1, ElementOfSeq
  <2>  QED  BY <2>1, <2>2
<1>2. /\ SubSeq(a, 1, n) \in Seq(Range(a))
      /\ Len(SubSeq(a, 1, n)) = (IF 1 <= n THEN n - 1 + 1 ELSE 0)
      /\ \A i \in 1..(n - 1 + 1) : SubSeq(a, 1, n)[i] = a[1 + i - 1]
  BY <1>1, SubSeqProperties
<1>3. IsValue(SubSeq(a, 1, n))  BY <1>2, ValueOf
<1>4. n \in Nat /\ \A i \in 1..n : i \in 1..(n - 1 + 1) /\ 1 + i - 1 = i  BY <1>1
<1>5. Len(SubSeq(a, 1, n)) = n  BY <1>2, <1>4
<1>6. \A i \in 1..n : SubSeq(a, 1, n)[i] = a[i]
  <2> DEFINE b == SubSeq(a, 1, n)
  <2>1. \A i \in 1..(n - 1 + 1) : b[i] = a[1 + i - 1]  BY <1>2
  <2>  HIDE DEF b
  <2>2. \A i \in 1..n : b[i] = a[i]
    <3> SUFFICES ASSUME NEW i \in 1..n  PROVE b[i] = a[i]  OBVIOUS
    <3>1. i \in 1..(n - 1 + 1) /\ 1 + i - 1 = i  BY <1>4
    <3>2. b[i] = a[1 + i - 1]  BY <2>1, <3>1
    <3>  QED  BY <3>1, <3>2
  <2>  QED  BY <2>2 DEF b
<1>  QED  BY <1>3, <1>5, <1>6

LEMMA TokensConcat ==
    ASSUME NEW a, NEW b, IsTokens(a), IsTokens(b)  PROVE IsTokens(a \o b)
<1>1. IsValue(a) /\ IsValue(b) /\ Len(a) \in Nat /\ Len(b) \in Nat
  BY ValueIs DEF IsTokens
<1>2. /\ IsValue(a \o b) /\ Len(a \o b) = Len(a) + Len(b)
      /\ \A i \in 1..(Len(a) + Len(b)) : (a \o b)[i] = IF i <= Len(a) THEN a[i] ELSE b[i - Len(a)]
  BY <1>1, ValueConcat
<1>3. DOMAIN (a \o b) = 1..(Len(a) + Len(b))  BY <1>2, ValueIs
<1>4. DOMAIN a = 1..Len(a) /\ DOMAIN b = 1..Len(b)  BY <1>1, ValueIs
<1>5. ASSUME NEW i \in 1..(Len(a) + Len(b))  PROVE IsToken((a \o b)[i])
  <2>1. CASE i <= Len(a)
    <3>1. i \in DOMAIN a /\ (a \o b)[i] = a[i]  BY <1>1, <1>2, <1>4, <2>1
    <3>  QED  BY <3>1 DEF IsTokens
  <2>2. CASE ~(i <= Len(a))
    <3>1. i - Len(a) \in DOMAIN b /\ (a \o b)[i] = b[i - Len(a)]  BY <1>1, <1>2, <1>4, <2>2
    <3>  QED  BY <3>1 DEF IsTokens
  <2>  QED  BY <2>1, <2>2
<1>  QED  BY <1>2, <1>3, <1>5 DEF IsTokens

LEMMA TokensAppend ==
    ASSUME NEW a, NEW x, IsTokens(a), IsToken(x)  PROVE IsTokens(Append(a, x))
<1>1. IsValue(a) /\ Len(a) \in Nat /\ DOMAIN a = 1..Len(a)  BY ValueIs DEF IsTokens
<1>2. /\ IsValue(Append(a, x)) /\ Len(Append(a, x)) = Len(a) + 1
      /\ \A i \in 1..Len(a) : Append(a, x)[i] = a[i]
      /\ Append(a, x)[Len(a) + 1] = x
  BY <1>1, ValueAppend
<1>3. DOMAIN Append(a, x) = 1..(Len(a) + 1)  BY <1>2, ValueIs
<1>4. ASSUME NEW i \in 1..(Len(a) + 1)  PROVE IsToken(Append(a, x)[i])
  <2>1. CASE i \in 1..Len(a)  BY <1>1, <1>2, <2>1 DEF IsTokens
  <2>2. CASE i = Len(a) + 1  BY <1>2, <2>2
  <2>  QED  BY <1>1, <2>1, <2>2
<1>  QED  BY <1>2, <1>3, <1>4 DEF IsTokens

LEMMA TokensSub ==
    ASSUME NEW a, IsTokens(a), NEW n \in 0..Len(a)  PROVE IsTokens(SubSeq(a, 1, n))
<1>1. IsValue(a) /\ Len(a) \in Nat /\ DOMAIN a = 1..Len(a)  BY ValueIs DEF IsTokens
<1>2. /\ IsValue(SubSeq(a, 1, n)) /\ Len(SubSeq(a, 1, n)) = n
      /\ \A i \in 1..n : SubSeq(a, 1, n)[i] = a[i]
  BY <1>1, ValueSub
<1>3. DOMAIN SubSeq(a, 1, n) = 1..n  BY <1>2, ValueIs
<1>  QED  BY <1>1, <1>2, <1>3 DEF IsTokens

LEMMA NoTokens == IsTokens(<<>>)
<1>1. IsValue(<<>>)  BY EmptySeq, ValueOf
<1>  QED  BY <1>1 DEF IsTokens

\* Texts one behind the other are a text: FlattenSeq, recursive along its parts.
LEMMA TokensFlatten ==
    ASSUME NEW seqs, IsValue(seqs), \A i \in DOMAIN seqs : IsTokens(seqs[i])
    PROVE  IsTokens(FlattenSeq(seqs))
<1> DEFINE n == Len(seqs)
           T == UNION {Range(seqs[i]) : i \in 1..n}
           V == Seq(T)
<1>1. n \in Nat /\ DOMAIN seqs = 1..n  BY ValueIs
<1>2. CASE n = 0
  <2>1. FlattenSeq(seqs) = seqs  BY <1>2 DEF FlattenSeq
  <2>2. DOMAIN seqs = {}  BY <1>1, <1>2
  <2>  QED  BY <2>1, <2>2 DEF IsTokens
<1>3. CASE n # 0
  <2>1. \A i \in 1..n : seqs[i] \in V
    <3> SUFFICES ASSUME NEW i \in 1..n  PROVE seqs[i] \in V  OBVIOUS
    <3>1. seqs[i] \in Seq(Range(seqs[i]))  BY <1>1 DEF IsTokens, IsValue
    <3>2. Range(seqs[i]) \subseteq T  OBVIOUS
    <3>  HIDE DEF T
    <3>  QED  BY <3>1, <3>2, SeqMonotonic
  <2>2. \A t \in T : IsToken(t)
    <3> SUFFICES ASSUME NEW i \in 1..n, NEW t \in Range(seqs[i])  PROVE IsToken(t)  OBVIOUS
    <3>1. IsTokens(seqs[i])  BY <1>1
    <3>2. PICK k \in DOMAIN seqs[i] : t = seqs[i][k]  BY DEF Range
    <3>  QED  BY <3>1, <3>2 DEF IsTokens
  <2>3. <<>> \in V  BY EmptySeq
  <2> DEFINE step == [i \in 1..n |-> [v \in V |-> v \o seqs[i]]]
             P(f) == f = [i \in 1..n |-> IF i = 1 THEN seqs[i] ELSE f[i - 1] \o seqs[i]]
             flatten == CHOOSE f : P(f)
  <2>4. step \in [1..n -> [V -> V]]
    <3>1. \A i \in 1..n, v \in V : v \o seqs[i] \in V
      <4> SUFFICES ASSUME NEW i \in 1..n, NEW v \in V  PROVE v \o seqs[i] \in V  OBVIOUS
      <4>1. seqs[i] \in V  BY <2>1
      <4>  HIDE DEF T
      <4>  QED  BY <4>1, ConcatProperties
    <3>  HIDE DEF V
    <3>  QED  BY <3>1, Zenon
  <2>  HIDE DEF V
  <2>5. Iterates(n, V, <<>>, step)  BY <1>1, <2>3, <2>4, IterationExists
  <2>6. PICK g \in [0..n -> V] : g[0] = <<>> /\ \A k \in 1..n : g[k] = step[k][g[k - 1]]
    BY <2>5 DEF Iterates
  <2>7. \A k \in 1..n : g[k] = g[k - 1] \o seqs[k] /\ g[k - 1] \in V /\ g[k] \in V
    <3> SUFFICES ASSUME NEW k \in 1..n  PROVE g[k] = g[k - 1] \o seqs[k] /\ g[k - 1] \in V /\ g[k] \in V  OBVIOUS
    <3>1. k - 1 \in 0..n /\ k \in 0..n  BY <1>1
    <3>2. g[k - 1] \in V /\ g[k] \in V  BY <3>1
    <3>3. g[k] = step[k][g[k - 1]]  BY <2>6
    <3>  QED  BY <3>2, <3>3
  <2>8. P([i \in 1..n |-> g[i]])
    <3> DEFINE f == [i \in 1..n |-> g[i]]
    <3>1. ASSUME NEW i \in 1..n  PROVE f[i] = IF i = 1 THEN seqs[i] ELSE f[i - 1] \o seqs[i]
      <4>1. CASE i = 1
        <5>0. 1 \in 1..n /\ 1 - 1 = 0  BY <1>1, <4>1
        <5>1. g[1] = <<>> \o seqs[1]
          <6>1. g[1] = g[1 - 1] \o seqs[1]  BY <2>7, <5>0
          <6>  QED  BY <2>6, <5>0, <6>1
        <5>2. <<>> \o seqs[1] = seqs[1]
          <6>1. seqs[1] \in Seq(Range(seqs[1]))  BY <1>1, <4>1 DEF IsTokens, IsValue
          <6>  QED  BY <6>1, ConcatEmptySeq
        <5>  QED  BY <4>1, <5>1, <5>2
      <4>2. CASE i # 1
        <5>1. i - 1 \in 1..n  BY <1>1, <4>2
        <5>  QED  BY <2>7, <4>2, <5>1
      <4>  QED  BY <4>1, <4>2
    <3>  QED  BY <3>1, Zenon
  <2>9. P(flatten)
    <3>  HIDE DEF P
    <3>  QED  BY <2>8, Zenon
  <2>10. FlattenSeq(seqs) = flatten[n]  BY <1>3 DEF FlattenSeq
  <2>  HIDE DEF flatten, P
  <2>11. flatten = [i \in 1..n |-> IF i = 1 THEN seqs[i] ELSE flatten[i - 1] \o seqs[i]]  BY <2>9 DEF P
  <2>12. \A k \in 0..n : k = 0 \/ flatten[k] \in V
    <3> DEFINE S == {k \in 0..n : k = 0 \/ flatten[k] \in V}
    <3>1. 0 \in S  BY <1>1
    <3>2. \A k \in 0..n : k # n /\ k \in S => k + 1 \in S
      <4> SUFFICES ASSUME NEW k \in 0..n, k # n, k \in S  PROVE k + 1 \in S  OBVIOUS
      <4>0. n \in Nat /\ k \in 0..n /\ k # n  BY <1>1
      <4>1. k + 1 \in 1..n /\ (k + 1) - 1 = k
        <5>  HIDE DEF n, S
        <5>  QED  BY <4>0
      <4>2. flatten[k + 1] = IF k + 1 = 1 THEN seqs[k + 1] ELSE flatten[k] \o seqs[k + 1]  BY <2>11, <4>1
      <4>3. seqs[k + 1] \in V  BY <2>1, <4>1
      <4>4. CASE k = 0  BY <4>1, <4>2, <4>3, <4>4
      <4>5. CASE k # 0
        <5>1. flatten[k] \in V  BY <4>5
        <5>2. flatten[k] \o seqs[k + 1] \in V  BY <4>3, <5>1, ConcatProperties DEF V
        <5>3. k + 1 # 1  BY <4>0, <4>5
        <5>4. flatten[k + 1] \in V  BY <4>2, <5>2, <5>3
        <5>  QED  BY <4>1, <5>4
      <4>  QED  BY <4>4, <4>5
    <3>  HIDE DEF S
    <3>3. 0..n \subseteq S  BY <1>1, <3>1, <3>2, IntervalInduction
    <3>  QED  BY <3>3 DEF S
  <2>13. flatten[n] \in V  BY <1>1, <1>3, <2>12
  <2> DEFINE x == FlattenSeq(seqs)
  <2>14. x \in Seq(T)  BY <2>10, <2>13 DEF V
  <2>  HIDE DEF x, T
  <2>15. IsValue(x) /\ \A i \in DOMAIN x : x[i] \in T  BY <2>14, ValueOf, LenProperties, ElementOfSeq
  <2>  QED  BY <2>2, <2>15 DEF IsTokens, x
<1>  QED  BY <1>2, <1>3

-----------------------------------------------------------------------------
(* What save_to_mem writes is a text. *)

Ways == {"Uncooked", "Stringify", "Hexadecimal", "Pair"}
IsProperty(p) == p \in [key : {p.key}, sub : {p.sub}, val : {p.val}, as : Ways] /\ IsValue(p.val)
IsHeader(h) == IsValue(h) /\ \A i \in DOMAIN h : IsProperty(h[i])
IsCells(c) == IsValue(c) /\ \A i \in DOMAIN c : c[i] = NoValue \/ IsValue(c[i])
Labelled(t) == Find(t.header, FieldCount, NoValue) # 0 /\ t.fields = Satoi(Property(t, FieldCount))
\* The cells are as many as the counts ask for, and one row and column more.
IsTable(t) ==
    /\ t = [sheet |-> t.sheet, fields |-> t.fields, sets |-> t.sets, id |-> t.id,
            header |-> t.header, format |-> t.format, data |-> t.data]
    /\ IsValue(t.sheet) /\ t.fields \in Nat /\ t.sets \in Nat
    /\ IsHeader(t.header) /\ IsCells(t.format) /\ IsCells(t.data)
    /\ t.format # <<>> => Len(t.format) = t.fields + 1 /\ Labelled(t)
    /\ t.data # <<>> => Len(t.data) = (t.fields + 1) * (t.sets + 1)

LEMMA OneValue == ASSUME NEW x  PROVE IsValue(<<x>>)
<1>1. <<x>> \in Seq({x})  OBVIOUS
<1>  QED  BY <1>1, ValueOf

LEMMA OneToken == ASSUME NEW x, IsToken(x)  PROVE IsTokens(<<x>>)
<1>1. DOMAIN <<x>> = 1..1 /\ <<x>>[1] = x  OBVIOUS
<1>  QED  BY <1>1, OneValue DEF IsTokens

LEMMA TwoTokens == ASSUME NEW x, NEW y, IsToken(x), IsToken(y)  PROVE IsTokens(<<x, y>>)
<1>1. <<x, y>> \in Seq({x, y})  OBVIOUS
<1>2. IsValue(<<x, y>>)  BY <1>1, ValueOf
<1>3. DOMAIN <<x, y>> = 1..2 /\ <<x, y>>[1] = x /\ <<x, y>>[2] = y  OBVIOUS
<1>4. \A i \in 1..2 : i = 1 \/ i = 2  OBVIOUS
<1>  QED  BY <1>2, <1>3, <1>4 DEF IsTokens

LEMMA QuotedIsToken == ASSUME NEW v, IsValue(v)  PROVE IsToken(Quoted(v))
BY DEF IsToken, Quoted, Token

LEMMA WordIsToken == ASSUME NEW w  PROVE IsToken(WordToken(Reserved, w))
<1> DEFINE Kinds == {"BeginData", "EndData", "BeginFormat", "EndFormat", "Keyword", "SampleId"}
                    \cup {"Comment", "Inum", "Dnum", "Ident"}
<1>1. ASSUME NEW sy \in Kinds, NEW x  PROVE IsToken(Token(sy, <<x>>))
  BY OneValue DEF IsToken, Token
<1>2. CASE w \in DOMAIN Reserved
  <2>1. Reserved[w] \in Kinds  BY <1>2 DEF Reserved
  <2>2. WordToken(Reserved, w) = Token(Reserved[w], <<w>>)  BY <1>2 DEF WordToken
  <2>  HIDE DEF Kinds
  <2>  QED  BY <1>1, <2>1, <2>2
<1>3. CASE w \notin DOMAIN Reserved
  <2>1. \E sy \in Kinds : \E x : WordToken(Reserved, w) = Token(sy, <<x>>)
    <3>1. \/ WordToken(Reserved, w) = Token("Comment", <<w>>)
          \/ WordToken(Reserved, w) = Token("Inum", <<Printed(w)>>)
          \/ WordToken(Reserved, w) = Token("Dnum", <<Printed(w)>>)
          \/ WordToken(Reserved, w) = Token("Ident", <<w>>)
      BY <1>3 DEF WordToken
    <3>2. "Comment" \in Kinds /\ "Inum" \in Kinds /\ "Dnum" \in Kinds /\ "Ident" \in Kinds  OBVIOUS
    <3>  HIDE DEF Kinds
    <3>  QED  BY <3>1, <3>2, Zenon
  <2>  HIDE DEF Kinds
  <2>  QED  BY <1>1, <2>1
<1>  QED  BY <1>2, <1>3

LEMMA EolnIsToken == IsToken(Eoln)
<1>1. IsValue(<<>>)  BY EmptySeq, ValueOf
<1>  QED  BY <1>1 DEF IsToken, Eoln, Token

LEMMA BareTokens == ASSUME NEW v, IsValue(v)  PROVE IsTokens(Bare(v))
<1>1. Len(v) \in Nat /\ DOMAIN v = 1..Len(v)  BY ValueIs
<1> DEFINE b == [i \in 1..Len(v) |-> WordToken(Reserved, v[i])]
<1>2. Bare(v) = b  BY <1>1 DEF Bare
<1>3. DOMAIN b = 1..Len(v) /\ b = [i \in 1..Len(v) |-> b[i]]  OBVIOUS
<1>4. \A i \in 1..Len(v) : IsToken(b[i])  BY WordIsToken
<1>  HIDE DEF b
<1>5. IsValue(b)  BY <1>1, <1>3, ValueBuilt
<1>  QED  BY <1>2, <1>3, <1>4, <1>5 DEF IsTokens

LEMMA LineTokens == ASSUME NEW toks, IsTokens(toks)  PROVE IsTokens(Line(toks))
<1>1. Len(toks) \in Nat /\ DOMAIN toks = 1..Len(toks)  BY ValueIs DEF IsTokens
<1> DEFINE comments == {i \in DOMAIN toks : toks[i].sy = "Comment"}
           first == CHOOSE i \in comments : \A j \in comments : i <= j
           shown == IF comments = {} THEN toks ELSE SubSeq(toks, 1, first)
<1>2. IsTokens(shown)
  <2>1. CASE comments = {}  BY <2>1
  <2>2. CASE comments # {}
    <3>1. comments \in SUBSET Nat  BY <1>1
    <3>2. first \in comments
      <4>  HIDE DEF comments
      <4>1. \E i \in comments : \A j \in comments : i <= j  BY <2>2, <3>1, SmallestIn
      <4>  QED  BY <4>1
    <3>3. first \in 0..Len(toks)  BY <1>1, <3>2
    <3>  HIDE DEF first
    <3>  QED  BY <2>2, <3>3, TokensSub
  <2>  QED  BY <2>1, <2>2
<1>3. Line(toks) = Append(shown, Eoln)  BY DEF Line
<1>  HIDE DEF shown
<1>  QED  BY <1>2, <1>3, TokensAppend, EolnIsToken

LEMMA FlattenTokens ==
    ASSUME NEW n \in Nat, NEW f, DOMAIN f = 1..n, f = [i \in 1..n |-> f[i]], \A i \in 1..n : IsTokens(f[i])
    PROVE  IsTokens(FlattenSeq(f))
BY ValueBuilt, TokensFlatten

LEMMA HeaderTokens == ASSUME NEW p, IsProperty(p)  PROVE IsTokens(HeaderLine(p))
<1> DEFINE name == WordToken(Reserved, p.key)
<1>1. IsToken(name) /\ IsTokens(<<name>>)  BY WordIsToken, OneToken
<1>2. IsValue(p.val) /\ p.as \in Ways  BY DEF IsProperty
<1>3. CASE IsComment(p.key)
  <2>1. HeaderLine(p) = Line(<<name>>) \o Line(<<name>>) \o Line(<<name>>)  BY <1>3, Zenon DEF HeaderLine
  <2>2. IsTokens(Line(<<name>>))  BY <1>1, LineTokens
  <2>  HIDE DEF name
  <2>3. IsTokens(Line(<<name>>) \o Line(<<name>>))  BY <2>2, TokensConcat
  <2>  QED  BY <2>1, <2>2, <2>3, TokensConcat
<1>4. CASE ~IsComment(p.key) /\ p.as = "Uncooked"
  <2>1. HeaderLine(p) = Line(<<name>> \o Bare(p.val))
    <3>1. p.as # "Stringify" /\ p.as # "Hexadecimal" /\ p.as # "Pair"  BY <1>4
    <3>  QED  BY <1>4, <3>1, Zenon DEF HeaderLine
  <2>  HIDE DEF name
  <2>  QED  BY <1>1, <1>2, <2>1, BareTokens, TokensConcat, LineTokens
<1>5. CASE ~IsComment(p.key) /\ p.as = "Stringify"
  <2>1. HeaderLine(p) = Line(<<name, Quoted(p.val)>>)
    <3>1. p.as # "Uncooked" /\ p.as # "Hexadecimal" /\ p.as # "Pair"  BY <1>5
    <3>  QED  BY <1>5, <3>1, Zenon DEF HeaderLine
  <2>  HIDE DEF name
  <2>2. IsTokens(<<name, Quoted(p.val)>>)  BY <1>1, <1>2, QuotedIsToken, TwoTokens
  <2>  QED  BY <2>1, <2>2, LineTokens
<1>6. CASE ~IsComment(p.key) /\ p.as = "Hexadecimal"
  <2>1. HeaderLine(p) = Line(<<name>> \o Bare(<<ToString(Satoi(p.val))>>))
    <3>1. p.as # "Uncooked" /\ p.as # "Stringify" /\ p.as # "Pair"  BY <1>6
    <3>  QED  BY <1>6, <3>1, Zenon DEF HeaderLine
  <2>2. IsTokens(Bare(<<ToString(Satoi(p.val))>>))  BY OneValue, BareTokens
  <2>  HIDE DEF name
  <2>  QED  BY <1>1, <2>1, <2>2, TokensConcat, LineTokens
<1>7. CASE ~IsComment(p.key) /\ p.as = "Pair"
  <2> DEFINE w == (IF p.sub = NoValue THEN "" ELSE p.sub) \o "," \o p.val[1]
  <2>1. HeaderLine(p) = Line(<<name, Quoted(<<w>>)>>)
    <3>1. p.as # "Uncooked" /\ p.as # "Stringify" /\ p.as # "Hexadecimal"  BY <1>7
    <3>  QED  BY <1>7, <3>1, Zenon DEF HeaderLine
  <2>  HIDE DEF name, w
  <2>2. IsTokens(<<name, Quoted(<<w>>)>>)  BY <1>1, OneValue, QuotedIsToken, TwoTokens
  <2>  QED  BY <2>1, <2>2, LineTokens
<1>  QED  BY <1>2, <1>3, <1>4, <1>5, <1>6, <1>7 DEF Ways

LEMMA FormatTokens == ASSUME NEW t, IsTable(t)  PROVE IsTokens(FormatLines(t))
<1> DEFINE n == Satoi(Property(t, FieldCount))
           labels == IF n > t.fields THEN <<>> ELSE SubSeq(t.format, 1, n)
           row == FlattenSeq([i \in DOMAIN labels |-> IF labels[i] = NoValue THEN <<>> ELSE Bare(labels[i])])
           begin == Line(Bare(<<"BEGIN_DATA_FORMAT">>))
           middle == IF labels = <<>> THEN <<>> ELSE Line(row)
           finish == Line(Bare(<<"END_DATA_FORMAT">>))
<1>1. CASE t.format = <<>>  BY <1>1, NoTokens DEF FormatLines
<1>2. CASE t.format # <<>>
  <2>1. FormatLines(t) = begin \o middle \o finish  BY <1>2 DEF FormatLines
  <2>2. IsTokens(begin) /\ IsTokens(finish)  BY OneValue, BareTokens, LineTokens
  <2>3. IsTokens(middle)
    <3>1. CASE labels = <<>>  BY <3>1, NoTokens
    <3>2. CASE labels # <<>>
      <4>1. n = t.fields /\ n \in Nat /\ Len(t.format) = n + 1  BY <1>2 DEF IsTable, Labelled
      <4>2. IsCells(t.format)  BY DEF IsTable
      <4>  HIDE DEF n
      <4>3. labels = SubSeq(t.format, 1, n)  BY <4>1
      <4>4. IsValue(t.format) /\ DOMAIN t.format = 1..(n + 1)  BY <4>1, <4>2, ValueIs DEF IsCells
      <4>5. n \in 0..Len(t.format)  BY <4>1
      <4>6. IsValue(labels) /\ Len(labels) = n /\ \A i \in 1..n : labels[i] = t.format[i]
        <5>  HIDE DEF labels
        <5>  QED  BY <4>3, <4>4, <4>5, ValueSub
      <4>7. \A i \in 1..n : labels[i] = NoValue \/ IsValue(labels[i])
        <5>1. \A i \in 1..n : i \in DOMAIN t.format  BY <4>1, <4>4
        <5>  HIDE DEF labels
        <5>  QED  BY <4>2, <4>6, <5>1 DEF IsCells
      <4>8. DOMAIN labels = 1..n
        <5>  HIDE DEF labels
        <5>  QED  BY <4>6, ValueIs
      <4>  HIDE DEF labels
      <4> DEFINE f == [i \in 1..n |-> IF labels[i] = NoValue THEN <<>> ELSE Bare(labels[i])]
      <4>9. DOMAIN f = 1..n /\ f = [i \in 1..n |-> f[i]]  OBVIOUS
      <4>10. \A i \in 1..n : IsTokens(f[i])  BY <4>7, NoTokens, BareTokens
      <4>11. row = FlattenSeq(f)  BY <4>8
      <4>  HIDE DEF f, row
      <4>12. IsTokens(row)  BY <4>1, <4>9, <4>10, <4>11, FlattenTokens
      <4>  QED  BY <3>2, <4>12, LineTokens
    <3>  QED  BY <3>1, <3>2
  <2>  HIDE DEF begin, middle, finish
  <2>4. IsTokens(begin \o middle)  BY <2>2, <2>3, TokensConcat
  <2>  QED  BY <2>1, <2>2, <2>4, TokensConcat
<1>  QED  BY <1>1, <1>2

\* A cell inside the counts is among the cells there are.
LEMMA CellInside ==
    ASSUME NEW fields \in Nat, NEW sets \in Nat, NEW row \in 0..sets, NEW col \in 0..fields
    PROVE  row * fields + col + 1 \in 1..((fields + 1) * (sets + 1))
<1>1. row * fields <= sets * fields  BY ProductGrows
<1>2. (fields + 1) * (sets + 1) = sets * fields + fields + sets + 1  OBVIOUS
<1>3. row * fields \in Nat /\ sets * fields \in Nat  OBVIOUS
<1> DEFINE a == row * fields
           b == sets * fields
<1>4. a \in Nat /\ b \in Nat /\ a <= b /\ (fields + 1) * (sets + 1) = b + fields + sets + 1
  BY <1>1, <1>2, <1>3
<1>  HIDE DEF a, b
<1>5. a + col + 1 \in 1..(b + fields + sets + 1)  BY <1>4
<1>  QED  BY <1>4, <1>5 DEF a

LEMMA CellsTokens ==
    ASSUME NEW v, v = NoValue \/ IsValue(v)  PROVE IsTokens(CellTokens(v))
<1>1. IsTokens(<<Quoted(<<>>)>>)
  <2>1. IsValue(<<>>)  BY EmptySeq, ValueOf
  <2>  QED  BY <2>1, QuotedIsToken, OneToken
<1>2. IsValue(v) => IsTokens(<<Quoted(v)>>)  BY QuotedIsToken, OneToken
<1>  QED  BY <1>1, <1>2, BareTokens DEF CellTokens

LEMMA RowIsTokens ==
    ASSUME NEW t, IsTable(t), t.data # <<>>, NEW row \in 0..t.sets
    PROVE  IsTokens(Row(t, row))
<1>1. t.fields \in Nat /\ t.sets \in Nat /\ IsCells(t.data) /\ Len(t.data) = (t.fields + 1) * (t.sets + 1)
  BY DEF IsTable
<1>2. CASE t.fields = 0  BY <1>2, NoTokens DEF Row
<1>3. CASE t.fields # 0
  <2> DEFINE f == [c \in 1..t.fields |-> CellTokens(t.data[Cell(t, row, c - 1)])]
  <2>1. DOMAIN f = 1..t.fields /\ f = [c \in 1..t.fields |-> f[c]]  OBVIOUS
  <2>2. ASSUME NEW c \in 1..t.fields  PROVE IsTokens(f[c])
    <3>1. c - 1 \in 0..t.fields  BY <1>1
    <3>2. Cell(t, row, c - 1) \in 1..((t.fields + 1) * (t.sets + 1))
      BY <1>1, <3>1, CellInside DEF Cell
    <3>3. Cell(t, row, c - 1) \in DOMAIN t.data  BY <1>1, <3>2, ValueIs DEF IsCells
    <3> DEFINE v == t.data[Cell(t, row, c - 1)]
    <3>4. v = NoValue \/ IsValue(v)  BY <1>1, <3>3 DEF IsCells
    <3>5. f[c] = CellTokens(v)  OBVIOUS
    <3>  HIDE DEF v, f
    <3>  QED  BY <3>4, <3>5, CellsTokens
  <2>3. Row(t, row) = Line(FlattenSeq(f))  BY <1>3 DEF Row
  <2>  HIDE DEF f
  <2>4. IsTokens(FlattenSeq(f))  BY <1>1, <2>1, <2>2, FlattenTokens
  <2>  QED  BY <2>3, <2>4, LineTokens
<1>  QED  BY <1>2, <1>3

LEMMA SatoiNat == ASSUME NEW v  PROVE Satoi(v) \in Nat
<1>1. CASE v = NoValue \/ v = <<>> \/ v[1] \notin DOMAIN Decimal  BY <1>1 DEF Satoi
<1>2. CASE ~(v = NoValue \/ v = <<>> \/ v[1] \notin DOMAIN Decimal)
  <2>1. Decimal[v[1]] \in Nat /\ SatoiMax \in Nat  BY <1>2, DecimalNat, CgatsAssumption
  <2>2. Satoi(v) = IF Decimal[v[1]] > SatoiMax THEN SatoiMax ELSE Decimal[v[1]]
    BY <1>2, Zenon DEF Satoi
  <2>  QED  BY <2>1, <2>2
<1>  QED  BY <1>1, <1>2

LEMMA DataTokens == ASSUME NEW t, IsTable(t)  PROVE IsTokens(DataLines(t))
<1> DEFINE n == Satoi(Property(t, SetCount))
           f == [r \in 1..n |-> Row(t, r - 1)]
           begin == Line(Bare(<<"BEGIN_DATA">>))
           middle == IF n > t.sets THEN <<>> ELSE FlattenSeq(f)
           finish == Line(Bare(<<"END_DATA">>))
<1>1. CASE t.data = <<>>  BY <1>1, NoTokens DEF DataLines
<1>2. CASE t.data # <<>>
  <2>1. DataLines(t) = begin \o middle \o finish  BY <1>2 DEF DataLines
  <2>2. IsTokens(begin) /\ IsTokens(finish)  BY OneValue, BareTokens, LineTokens
  <2>3. IsTokens(middle)
    <3>1. n \in Nat /\ t.sets \in Nat  BY SatoiNat DEF IsTable
    <3>  HIDE DEF n
    <3>2. CASE n > t.sets  BY <3>2, NoTokens
    <3>3. CASE ~(n > t.sets)
      <4>1. \A r \in 1..n : IsTokens(f[r])
        <5> SUFFICES ASSUME NEW r \in 1..n  PROVE IsTokens(f[r])  OBVIOUS
        <5>1. r - 1 \in 0..t.sets  BY <3>1, <3>3
        <5>2. IsTokens(Row(t, r - 1))  BY <1>2, <5>1, RowIsTokens
        <5>  QED  BY <5>2
      <4>2. DOMAIN f = 1..n /\ f = [r \in 1..n |-> f[r]]  OBVIOUS
      <4>  HIDE DEF f
      <4>3. IsTokens(FlattenSeq(f))  BY <3>1, <4>1, <4>2, FlattenTokens
      <4>  QED  BY <3>3, <4>3
    <3>  QED  BY <3>2, <3>3
  <2>  HIDE DEF begin, middle, finish
  <2>4. IsTokens(begin \o middle)  BY <2>2, <2>3, TokensConcat
  <2>  QED  BY <2>1, <2>2, <2>4, TokensConcat
<1>  QED  BY <1>1, <1>2

LEMMA WrittenTokens == ASSUME NEW t, IsTable(t)  PROVE IsTokens(Written(t))
<1> DEFINE n == Len(t.header)
           f == [i \in 1..n |-> HeaderLine(t.header[i])]
           sheet == Line(Bare(t.sheet))
           lines == FlattenSeq(f)
<1>1. IsTokens(sheet)  BY BareTokens, LineTokens DEF IsTable
<1>2. IsTokens(lines)
  <2>1. n \in Nat /\ DOMAIN t.header = 1..n  BY ValueIs DEF IsTable, IsHeader
  <2>2. \A i \in 1..n : IsTokens(f[i])
    <3>1. \A i \in 1..n : IsProperty(t.header[i])  BY <2>1 DEF IsTable, IsHeader
    <3>  QED  BY <3>1, HeaderTokens
  <2>3. DOMAIN f = 1..n /\ f = [i \in 1..n |-> f[i]]  OBVIOUS
  <2>  HIDE DEF f, n
  <2>  QED  BY <2>1, <2>2, <2>3, FlattenTokens
<1>3. IsTokens(FormatLines(t)) /\ IsTokens(DataLines(t))  BY FormatTokens, DataTokens
<1>4. Written(t) = sheet \o lines \o FormatLines(t) \o DataLines(t)
  <2>1. DOMAIN t.header = 1..n  BY ValueIs DEF IsTable, IsHeader
  <2>  QED  BY <2>1 DEF Written
<1>  HIDE DEF sheet, lines
<1>5. IsTokens(sheet \o lines)  BY <1>1, <1>2, TokensConcat
<1>6. IsTokens(sheet \o lines \o FormatLines(t))  BY <1>3, <1>5, TokensConcat
<1>  QED  BY <1>3, <1>4, <1>6, TokensConcat

-----------------------------------------------------------------------------
(* Lists of properties. *)

NamedIn(list, key, sub) == {i \in DOMAIN list : /\ ~IsComment(key)
                                                /\ list[i].key = key
                                                /\ sub # NoValue => list[i].sub = sub}

LEMMA FindIs ==
    ASSUME NEW list, IsValue(list), NEW key, NEW sub
    PROVE  \/ Find(list, key, sub) = 0 /\ NamedIn(list, key, sub) = {}
           \/ Find(list, key, sub) \in 1..Len(list) /\ Find(list, key, sub) \in NamedIn(list, key, sub)
<1> DEFINE named == NamedIn(list, key, sub)
<1>1. Find(list, key, sub) = IF named = {} THEN 0 ELSE CHOOSE i \in named : \A j \in named : i <= j
  BY DEF Find, NamedIn
<1>2. Len(list) \in Nat /\ DOMAIN list = 1..Len(list)  BY ValueIs
<1>3. named \in SUBSET (1..Len(list))  BY <1>2 DEF NamedIn
<1>  HIDE DEF named
<1>4. CASE named = {}  BY <1>1, <1>4 DEF named
<1>5. CASE named # {}
  <2>1. named \in SUBSET Nat  BY <1>2, <1>3
  <2>2. \E i \in named : \A j \in named : i <= j  BY <1>5, <2>1, SmallestIn
  <2>3. Find(list, key, sub) \in named  BY <1>1, <1>5, <2>2
  <2>  QED  BY <1>3, <2>3 DEF named
<1>  QED  BY <1>4, <1>5

\* Where two lists name a property at the same places, it is found at the same place.
LEMMA SameFind ==
    ASSUME NEW list, NEW more, NEW key, NEW sub, NamedIn(list, key, sub) = NamedIn(more, key, sub)
    PROVE  Find(list, key, sub) = Find(more, key, sub)
<1> DEFINE First(named) == IF named = {} THEN 0 ELSE CHOOSE i \in named : \A j \in named : i <= j
<1>1. Find(list, key, sub) = First(NamedIn(list, key, sub))  BY DEF Find, NamedIn
<1>2. Find(more, key, sub) = First(NamedIn(more, key, sub))  BY DEF Find, NamedIn
<1>  HIDE DEF First
<1>  QED  BY <1>1, <1>2

Changed(p, as, val) == [p EXCEPT !.as = as, !.val = val]
LEMMA EntryChanged ==
    ASSUME NEW p, IsProperty(p), NEW x, NEW v
    PROVE  Changed(p, x, v) = KeyValue(p.key, p.sub, v, x)
<1> DEFINE z == [p EXCEPT !.as = x]
<1>1. p \in [key : {p.key}, sub : {p.sub}, val : {p.val}, as : Ways]  BY DEF IsProperty
<1>2. z = [key |-> p.key, sub |-> p.sub, val |-> p.val, as |-> x]  BY <1>1
<1>3. [p EXCEPT !.as = x, !.val = v] = [z EXCEPT !.val = v]  OBVIOUS
<1>  HIDE DEF z
<1>4. [z EXCEPT !.val = v] = [key |-> p.key, sub |-> p.sub, val |-> v, as |-> x]  BY <1>2
<1>  QED  BY <1>3, <1>4 DEF Changed, KeyValue

LEMMA AddToListIs ==
    ASSUME NEW list, IsHeader(list), NEW key, NEW sub, NEW val, IsValue(val), NEW as \in Ways
    PROVE  /\ IsHeader(AddToList(list, key, sub, val, as))
           /\ key # FieldCount /\ Find(list, FieldCount, NoValue) # 0 =>
                /\ Find(AddToList(list, key, sub, val, as), FieldCount, NoValue) = Find(list, FieldCount, NoValue)
                /\ AddToList(list, key, sub, val, as)[Find(list, FieldCount, NoValue)].val
                     = list[Find(list, FieldCount, NoValue)].val
<1> DEFINE i == Find(list, key, sub)
           new == AddToList(list, key, sub, val, as)
           c == Find(list, FieldCount, NoValue)
           entry == [key |-> IF i = 0 THEN key ELSE list[i].key, sub |-> IF i = 0 THEN sub ELSE list[i].sub,
                     val |-> val, as |-> as]
           k == IF i = 0 THEN Len(list) + 1 ELSE i
<1>1. IsValue(list) /\ Len(list) \in Nat /\ DOMAIN list = 1..Len(list) /\ (i = 0 \/ i \in 1..Len(list))
  BY ValueIs, FindIs DEF IsHeader
<1>2. c = 0 \/ (c \in 1..Len(list) /\ list[c].key = FieldCount)
  BY <1>1, FindIs DEF NamedIn
<1>3. i # 0 => list[i].key = key
  BY <1>1, FindIs DEF NamedIn
<1>4. /\ IsValue(new) /\ Len(new) >= Len(list) /\ Len(new) \in Nat
      /\ k \in 1..Len(new) /\ new[k] = entry /\ entry.key = key
      /\ \A j \in 1..Len(new) : j # k => j \in 1..Len(list) /\ new[j] = list[j]
      /\ \A j \in 1..Len(list) : j # k => new[j] = list[j]
  <2>1. CASE i = 0
    <3>1. new = Append(list, entry)  BY <2>1 DEF AddToList, KeyValue
    <3>2. k = Len(list) + 1 /\ entry.key = key  BY <2>1
    <3>  HIDE DEF new, entry, k
    <3>3. /\ IsValue(new) /\ Len(new) = Len(list) + 1
          /\ \A j \in 1..Len(list) : new[j] = list[j]
          /\ new[Len(list) + 1] = entry
      BY <1>1, <3>1, ValueAppend
    <3>4. \A j \in 1..Len(new) : j # k => j \in 1..Len(list)  BY <1>1, <3>2, <3>3
    <3>  QED  BY <1>1, <3>2, <3>3, <3>4
  <2>2. CASE i # 0
    <3>0. i \in DOMAIN list  BY <1>1, <2>2
    <3>1. new = [list EXCEPT ![i] = entry]
      <4>1. IsProperty(list[i])  BY <3>0 DEF IsHeader
      <4>2. Changed(list[i], as, val) = entry
        <5>1. Changed(list[i], as, val) = KeyValue(list[i].key, list[i].sub, val, as)  BY <4>1, EntryChanged
        <5>  QED  BY <2>2, <5>1 DEF KeyValue
      <4>3. new = [list EXCEPT ![i] = Changed(list[i], as, val)]
        BY <1>1, <2>2, <3>0 DEF AddToList, Changed
      <4>  QED  BY <4>2, <4>3
    <3>2. k = i /\ entry.key = key  BY <1>3, <2>2
    <3>  HIDE DEF new, entry, k, i
    <3>3. /\ IsValue(new) /\ Len(new) = Len(list) /\ new[i] = entry
          /\ \A j \in 1..Len(list) : j # i => new[j] = list[j]
      BY <1>1, <2>2, <3>1, ValueExcept
    <3>  QED  BY <1>1, <2>2, <3>2, <3>3
  <2>  QED  BY <2>1, <2>2
<1>5. IsProperty(entry)  BY DEF IsProperty
<1>  HIDE DEF new, entry, k
<1>6. DOMAIN new = 1..Len(new)  BY <1>4, ValueIs
<1>7. IsHeader(new)
  <2>1. \A j \in 1..Len(list) : IsProperty(list[j])  BY <1>1 DEF IsHeader
  <2>2. \A j \in 1..Len(new) : IsProperty(new[j])  BY <1>4, <1>5, <2>1
  <2>  QED  BY <1>4, <1>6, <2>2 DEF IsHeader
<1>8. ASSUME key # FieldCount, c # 0
      PROVE  Find(new, FieldCount, NoValue) = c /\ new[c].val = list[c].val
  <2>1. c # k
    <3>1. CASE i = 0  BY <1>1, <1>2, <1>8, <3>1 DEF k
    <3>2. CASE i # 0  BY <1>2, <1>3, <1>8, <3>2 DEF k
    <3>  QED  BY <3>1, <3>2
  <2>2. NamedIn(list, FieldCount, NoValue) = NamedIn(new, FieldCount, NoValue)
    <3>1. ASSUME NEW j \in 1..Len(list), list[j].key = FieldCount  PROVE j \in 1..Len(new) /\ new[j].key = FieldCount
      <4>1. j # k
        <5>1. CASE i = 0  BY <1>1, <5>1 DEF k
        <5>2. CASE i # 0  BY <1>3, <1>8, <3>1, <5>2 DEF k
        <5>  QED  BY <5>1, <5>2
      <4>  QED  BY <1>1, <1>4, <3>1, <4>1
    <3>2. ASSUME NEW j \in 1..Len(new), new[j].key = FieldCount  PROVE j \in 1..Len(list) /\ list[j].key = FieldCount
      <4>1. j # k  BY <1>4, <1>8, <3>2
      <4>  QED  BY <1>4, <3>2, <4>1
    <3>  QED  BY <1>1, <1>6, <3>1, <3>2 DEF NamedIn
  <2>3. Find(new, FieldCount, NoValue) = c  BY <2>2, SameFind
  <2>4. c \in 1..Len(list)  BY <1>2, <1>8
  <2>  QED  BY <1>4, <2>1, <2>3, <2>4
<1>  QED  BY <1>7, <1>8 DEF new

-----------------------------------------------------------------------------
(* Tables. *)

\* A table whose properties change keeps its format's count.
LEMMA HeaderChanged ==
    ASSUME NEW t, IsTable(t), NEW h, IsHeader(h),
           Find(t.header, FieldCount, NoValue) # 0 =>
              /\ Find(h, FieldCount, NoValue) = Find(t.header, FieldCount, NoValue)
              /\ h[Find(h, FieldCount, NoValue)].val = t.header[Find(t.header, FieldCount, NoValue)].val
    PROVE  IsTable([t EXCEPT !.header = h])
<1> DEFINE u == [t EXCEPT !.header = h]
<1>1. u = [sheet |-> t.sheet, fields |-> t.fields, sets |-> t.sets, id |-> t.id,
           header |-> h, format |-> t.format, data |-> t.data]
  BY DEF IsTable
<1>2. /\ u.sheet = t.sheet /\ u.fields = t.fields /\ u.sets = t.sets /\ u.header = h /\ u.id = t.id
      /\ u.format = t.format /\ u.data = t.data
  BY <1>1
<1>  HIDE DEF u
<1>3. Labelled(t) => Labelled(u)
  BY <1>2 DEF Labelled, Property
<1>  QED  BY <1>1, <1>2, <1>3 DEF IsTable, u

LEMMA PropertyAdded ==
    ASSUME NEW t, IsTable(t), NEW key, NEW sub, NEW val, IsValue(val), NEW as \in Ways,
           key = FieldCount => ~Refused(t.header, key, NoValue)
    PROVE  IsTable([t EXCEPT !.header = AddToList(@, key, sub, val, as)])
<1>1. IsHeader(t.header)  BY DEF IsTable
<1>2. key = FieldCount => Find(t.header, FieldCount, NoValue) = 0  BY DEF Refused, Counts
<1>3. [t EXCEPT !.header = AddToList(@, key, sub, val, as)]
        = [t EXCEPT !.header = AddToList(t.header, key, sub, val, as)]
  BY DEF IsTable
<1> DEFINE l == t.header
           h == AddToList(l, key, sub, val, as)
<1>4. IsHeader(l)  BY <1>1
<1>  HIDE DEF l
<1>5. /\ IsHeader(h)
      /\ key # FieldCount /\ Find(l, FieldCount, NoValue) # 0 =>
           /\ Find(h, FieldCount, NoValue) = Find(l, FieldCount, NoValue)
           /\ h[Find(l, FieldCount, NoValue)].val = l[Find(l, FieldCount, NoValue)].val
  BY <1>4, AddToListIs
<1>  HIDE DEF h
<1>6. IsTable([t EXCEPT !.header = h])  BY <1>2, <1>5, HeaderChanged DEF l
<1>  QED  BY <1>3, <1>6 DEF h, l

LEMMA PairsAdded ==
    ASSUME NEW t, IsTable(t), NEW key, key # FieldCount, NEW v, PairsOf(v) # <<>>
    PROVE  IsTable([t EXCEPT !.header = WithPairs(@, key, v)])
<1> DEFINE k == <<"k", <<"v">>>>
           m == <<"m", <<"w">>>>
<1>1. "Pair" \in Ways /\ IsValue(<<"v">>) /\ IsValue(<<"w">>)  BY OneValue DEF Ways
<1> DEFINE Kept(h) == /\ IsHeader(h)
                      /\ Find(t.header, FieldCount, NoValue) # 0 =>
                           /\ Find(h, FieldCount, NoValue) = Find(t.header, FieldCount, NoValue)
                           /\ h[Find(h, FieldCount, NoValue)].val
                                = t.header[Find(t.header, FieldCount, NoValue)].val
           Add(l, p) == AddToList(l, key, p[1], p[2], "Pair")
<1>2. Kept(t.header)  BY DEF IsTable
<1>3. ASSUME NEW h, Kept(h), NEW sub, NEW val, IsValue(val)  PROVE Kept(AddToList(h, key, sub, val, "Pair"))
  <2> DEFINE g == AddToList(h, key, sub, val, "Pair")
  <2>1. /\ IsHeader(g)
        /\ key # FieldCount /\ Find(h, FieldCount, NoValue) # 0 =>
             /\ Find(g, FieldCount, NoValue) = Find(h, FieldCount, NoValue)
             /\ g[Find(h, FieldCount, NoValue)].val = h[Find(h, FieldCount, NoValue)].val
    BY <1>1, <1>3, AddToListIs
  <2>  HIDE DEF g
  <2>2. Kept(g)  BY <1>3, <2>1
  <2>  QED  BY <2>2 DEF g
<1>4. \/ PairsOf(v) = <<k>> \/ PairsOf(v) = <<m>> \/ PairsOf(v) = <<k, m>>  BY DEF PairsOf
<1>5. Kept(WithPairs(t.header, key, v))
  <2>1. WithPairs(t.header, key, v)
          = IF Len(PairsOf(v)) = 1 THEN Add(t.header, PairsOf(v)[1])
            ELSE Add(Add(t.header, PairsOf(v)[1]), PairsOf(v)[2])
    BY DEF WithPairs
  <2>2. CASE PairsOf(v) = <<k>>
    <3>1. WithPairs(t.header, key, v) = AddToList(t.header, key, "k", <<"v">>, "Pair")  BY <2>1, <2>2
    <3>  HIDE DEF Kept
    <3>  QED  BY <1>1, <1>2, <1>3, <3>1
  <2>3. CASE PairsOf(v) = <<m>>
    <3>1. WithPairs(t.header, key, v) = AddToList(t.header, key, "m", <<"w">>, "Pair")  BY <2>1, <2>3
    <3>  HIDE DEF Kept
    <3>  QED  BY <1>1, <1>2, <1>3, <3>1
  <2>4. CASE PairsOf(v) = <<k, m>>
    <3>1. WithPairs(t.header, key, v)
            = AddToList(AddToList(t.header, key, "k", <<"v">>, "Pair"), key, "m", <<"w">>, "Pair")
      BY <2>1, <2>4
    <3>  HIDE DEF Kept
    <3>2. Kept(AddToList(t.header, key, "k", <<"v">>, "Pair"))  BY <1>1, <1>2, <1>3
    <3>  QED  BY <1>1, <1>3, <3>1, <3>2
  <2>  QED  BY <1>4, <2>2, <2>3, <2>4
<1>6. [t EXCEPT !.header = WithPairs(@, key, v)] = [t EXCEPT !.header = WithPairs(t.header, key, v)]
  BY DEF IsTable
<1> DEFINE h == WithPairs(t.header, key, v)
<1>7. Kept(h)  BY <1>5
<1>  HIDE DEF h
<1>8. IsTable([t EXCEPT !.header = h])  BY <1>7, HeaderChanged
<1>  QED  BY <1>6, <1>8 DEF h

-----------------------------------------------------------------------------
(* What the handlers do to a table. *)

DocTables(ts) == IsValue(ts) /\ \A i \in DOMAIN ts : IsTable(ts[i])

LEMMA NoCells == IsCells(<<>>) /\ IsHeader(<<>>) /\ IsValue(<<>>)
<1>1. IsValue(<<>>)  BY EmptySeq, ValueOf
<1>  QED  BY <1>1 DEF IsCells, IsHeader

LEMMA NewIsTable ==
    ASSUME NEW v, IsValue(v)
    PROVE  IsTable([NewTable EXCEPT !.sheet = v]) /\ [NewTable EXCEPT !.sheet = v].data = <<>>
<1> DEFINE u == [NewTable EXCEPT !.sheet = v]
<1>1. u = [sheet |-> v, fields |-> 0, sets |-> 0, id |-> 0, header |-> <<>>, format |-> <<>>, data |-> <<>>]
  BY DEF NewTable
<1>2. u = [sheet |-> u.sheet, fields |-> u.fields, sets |-> u.sets, id |-> u.id,
           header |-> u.header, format |-> u.format, data |-> u.data]
  BY <1>1
<1>3. u.sheet = v /\ u.fields = 0 /\ u.sets = 0 /\ u.header = <<>> /\ u.format = <<>> /\ u.data = <<>>
  BY <1>1
<1>  HIDE DEF u
<1>4. IsTable(u)  BY <1>2, <1>3, NoCells DEF IsTable
<1>  QED  BY <1>3, <1>4 DEF u

LEMMA BlankTable == IsTable(NewTable) /\ NewTable.data = <<>>
<1>1. NewTable = [NewTable EXCEPT !.sheet = <<>>]  BY DEF NewTable
<1>  QED  BY <1>1, NewIsTable, NoCells

LEMMA SheetChanged ==
    ASSUME NEW t, IsTable(t), NEW v, IsValue(v)
    PROVE  IsTable([t EXCEPT !.sheet = v]) /\ [t EXCEPT !.sheet = v].data = t.data
<1> DEFINE u == [t EXCEPT !.sheet = v]
<1>1. u = [sheet |-> v, fields |-> t.fields, sets |-> t.sets, id |-> t.id,
           header |-> t.header, format |-> t.format, data |-> t.data]
  BY DEF IsTable
<1>2. /\ u.sheet = v /\ u.fields = t.fields /\ u.sets = t.sets /\ u.id = t.id
      /\ u.header = t.header /\ u.format = t.format /\ u.data = t.data
  BY <1>1
<1>  HIDE DEF u
<1>3. Labelled(t) => Labelled(u)  BY <1>2 DEF Labelled, Property
<1>4. IsTable(u)  BY <1>1, <1>2, <1>3 DEF IsTable
<1>  QED  BY <1>2, <1>4 DEF u

\* n copies of None
LEMMA Nones ==
    ASSUME NEW n \in Nat
    PROVE  /\ IsCells([i \in 1..n |-> NoValue]) /\ Len([i \in 1..n |-> NoValue]) = n
           /\ n > 0 => [i \in 1..n |-> NoValue] # <<>>
<1> DEFINE c == [i \in 1..n |-> NoValue]
<1>1. DOMAIN c = 1..n /\ c = [i \in 1..n |-> c[i]] /\ \A i \in DOMAIN c : c[i] = NoValue  OBVIOUS
<1>  HIDE DEF c
<1>2. IsValue(c) /\ Len(c) = n  BY <1>1, ValueBuilt
<1>3. n > 0 => c # <<>>  BY <1>2
<1>4. IsCells(c)  BY <1>1, <1>2 DEF IsCells
<1>  QED  BY <1>2, <1>3, <1>4 DEF c

LEMMA CellPut ==
    ASSUME NEW c, IsCells(c), NEW k \in 1..Len(c), NEW v, v = NoValue \/ IsValue(v)
    PROVE  /\ IsCells([c EXCEPT ![k] = v]) /\ Len([c EXCEPT ![k] = v]) = Len(c)
           /\ [c EXCEPT ![k] = v][k] = v
           /\ \A i \in 1..Len(c) : i # k => [c EXCEPT ![k] = v][i] = c[i]
           /\ DOMAIN [c EXCEPT ![k] = v] = 1..Len(c)
           /\ [c EXCEPT ![k] = v] # <<>>
<1> DEFINE d == [c EXCEPT ![k] = v]
<1>1. IsValue(c) /\ DOMAIN c = 1..Len(c) /\ Len(c) \in Nat  BY ValueIs DEF IsCells
<1>2. IsValue(d) /\ Len(d) = Len(c) /\ d[k] = v /\ \A i \in 1..Len(c) : i # k => d[i] = c[i]
  BY <1>1, ValueExcept
<1>  HIDE DEF d
<1>3. DOMAIN d = 1..Len(c)  BY <1>2, ValueIs
<1>4. \A i \in 1..Len(c) : c[i] = NoValue \/ IsValue(c[i])  BY <1>1 DEF IsCells
<1>5. \A i \in DOMAIN d : d[i] = NoValue \/ IsValue(d[i])  BY <1>2, <1>3, <1>4
<1>6. d # <<>>
  <2>1. Len(d) # 0  BY <1>1, <1>2
  <2>  QED  BY <2>1
<1>  QED  BY <1>2, <1>3, <1>5, <1>6 DEF d, IsCells

LEMMA FormatMade ==
    ASSUME NEW t, IsTable(t), t.data = <<>>, CanFormat(t)
    PROVE  /\ IsTable(Formatted(t)) /\ Formatted(t).data = <<>> /\ Formatted(t).header = t.header
           /\ Formatted(t).format # <<>>
<1> DEFINE n == Satoi(Property(t, FieldCount))
           u == Formatted(t)
<1>1. CASE t.format # <<>>  BY <1>1 DEF Formatted
<1>2. CASE t.format = <<>>
  <2>1. n \in Nat /\ n > 0
    <3>1. n \in 1..MaxFields  BY <1>2 DEF CanFormat
    <3>  HIDE DEF n
    <3>  QED  BY <3>1, CgatsAssumption
  <2>2. Find(t.header, FieldCount, NoValue) # 0
    <3> SUFFICES ASSUME Find(t.header, FieldCount, NoValue) = 0  PROVE FALSE  OBVIOUS
    <3>1. Property(t, FieldCount) = NoValue  BY DEF Property
    <3>2. n = 0  BY <3>1 DEF Satoi
    <3>  HIDE DEF n
    <3>  QED  BY <2>1, <3>2
  <2> DEFINE c == [i \in 1..(n + 1) |-> NoValue]
  <2>3. IsCells(c) /\ Len(c) = n + 1 /\ c # <<>>
    <3>  HIDE DEF n
    <3>  QED  BY <2>1, Nones
  <2>4. u = [t EXCEPT !.fields = n, !.format = c]  BY <1>2 DEF Formatted
  <2>  HIDE DEF n, c, u
  <2>5. u = [sheet |-> t.sheet, fields |-> n, sets |-> t.sets, id |-> t.id,
             header |-> t.header, format |-> c, data |-> t.data]
    <3> DEFINE w == [t EXCEPT !.fields = n]
    <3>1. w = [sheet |-> t.sheet, fields |-> n, sets |-> t.sets, id |-> t.id,
               header |-> t.header, format |-> t.format, data |-> t.data]
      BY DEF IsTable
    <3>2. u = [w EXCEPT !.format = c]  BY <2>4
    <3>  HIDE DEF w
    <3>  QED  BY <3>1, <3>2
  <2>6. /\ u.sheet = t.sheet /\ u.fields = n /\ u.sets = t.sets /\ u.id = t.id
        /\ u.header = t.header /\ u.format = c /\ u.data = <<>>
    BY <2>5
  <2>7. Labelled(u)  BY <2>2, <2>6 DEF Labelled, Property, n
  <2>8. IsTable(u)  BY <2>1, <2>3, <2>5, <2>6, <2>7, NoCells DEF IsTable
  <2>  QED  BY <2>3, <2>6, <2>8 DEF u
<1>  QED  BY <1>1, <1>2

LEMMA LabelPut ==
    ASSUME NEW t, IsTable(t), t.data = <<>>, t.format # <<>>, NEW k \in 1..(t.fields + 1), NEW v, IsValue(v)
    PROVE  IsTable([t EXCEPT !.format[k] = v]) /\ [t EXCEPT !.format[k] = v].data = <<>>
<1> DEFINE c == [t.format EXCEPT ![k] = v]
           u == [t EXCEPT !.format[k] = v]
<1>1. IsCells(t.format) /\ Len(t.format) = t.fields + 1 /\ Labelled(t)  BY DEF IsTable
<1>2. IsCells(c) /\ Len(c) = Len(t.format)  BY <1>1, CellPut
<1>3. u = [t EXCEPT !.format = c]  OBVIOUS
<1>  HIDE DEF c, u
<1>4. u = [sheet |-> t.sheet, fields |-> t.fields, sets |-> t.sets, id |-> t.id,
           header |-> t.header, format |-> c, data |-> t.data]
  BY <1>3 DEF IsTable
<1>5. /\ u.sheet = t.sheet /\ u.fields = t.fields /\ u.sets = t.sets /\ u.id = t.id
      /\ u.header = t.header /\ u.format = c /\ u.data = <<>>
  BY <1>4
<1>6. Labelled(u)  BY <1>1, <1>5 DEF Labelled, Property
<1>7. IsTable(u)  BY <1>1, <1>2, <1>4, <1>5, <1>6, NoCells DEF IsTable
<1>  QED  BY <1>5, <1>7 DEF u

LEMMA DataMade ==
    ASSUME NEW t, IsTable(t), CanHoldData(t)
    PROVE  /\ IsTable(WithData(t)) /\ WithData(t).data # <<>>
           /\ t.data = <<>> => \A i \in DOMAIN WithData(t).data : WithData(t).data[i] = NoValue
<1> DEFINE ns == Satoi(Property(t, FieldCount))
           np == Satoi(Property(t, SetCount))
           u == WithData(t)
<1>1. CASE t.data # <<>>  BY <1>1 DEF WithData
<1>2. CASE t.data = <<>>
  <2>1. ns \in Nat /\ np \in Nat  BY SatoiNat
  <2> DEFINE c == [i \in 1..((ns + 1) * (np + 1)) |-> NoValue]
  <2>2. /\ IsCells(c) /\ Len(c) = (ns + 1) * (np + 1) /\ c # <<>>
        /\ \A i \in DOMAIN c : c[i] = NoValue
    <3>  HIDE DEF ns, np
    <3> DEFINE n == (ns + 1) * (np + 1)
    <3>1. n \in Nat /\ n > 0
      <4>1. n = ns * np + ns + np + 1 /\ ns * np \in Nat  BY <2>1
      <4> DEFINE m == ns * np
      <4>2. m \in Nat /\ n = m + ns + np + 1  BY <4>1
      <4>  HIDE DEF m, n
      <4>  QED  BY <2>1, <4>2
    <3>2. c = [i \in 1..n |-> NoValue]  OBVIOUS
    <3>3. \A i \in DOMAIN c : c[i] = NoValue  OBVIOUS
    <3>4. IsCells(c) /\ Len(c) = n /\ c # <<>>
      <4>  HIDE DEF c, n
      <4>  QED  BY <3>1, <3>2, Nones
    <3>  QED  BY <3>3, <3>4
  <2>3. u = [t EXCEPT !.fields = ns, !.sets = np, !.data = c]  BY <1>2 DEF WithData
  <2>4. t.format # <<>> => t.fields = ns  BY DEF IsTable, Labelled
  <2>  HIDE DEF ns, np, c, u
  <2>5. u = [sheet |-> t.sheet, fields |-> ns, sets |-> np, id |-> t.id,
             header |-> t.header, format |-> t.format, data |-> c]
    <3> DEFINE w == [t EXCEPT !.fields = ns]
               x == [w EXCEPT !.sets = np]
    <3>1. w = [sheet |-> t.sheet, fields |-> ns, sets |-> t.sets, id |-> t.id,
               header |-> t.header, format |-> t.format, data |-> t.data]
      BY DEF IsTable
    <3>2. u = [x EXCEPT !.data = c]  BY <2>3
    <3>  HIDE DEF w
    <3>3. x = [sheet |-> t.sheet, fields |-> ns, sets |-> np, id |-> t.id,
               header |-> t.header, format |-> t.format, data |-> t.data]
      BY <3>1
    <3>  HIDE DEF x
    <3>  QED  BY <3>2, <3>3
  <2>6. /\ u.sheet = t.sheet /\ u.fields = ns /\ u.sets = np /\ u.id = t.id
        /\ u.header = t.header /\ u.format = t.format /\ u.data = c
    BY <2>5
  <2>7. t.format # <<>> => Len(u.format) = u.fields + 1 /\ Labelled(u)
    BY <2>4, <2>6 DEF Labelled, Property, IsTable
  <2>8. IsTable(u)  BY <2>1, <2>2, <2>5, <2>6, <2>7 DEF IsTable
  <2>9. u.data # <<>> /\ \A i \in DOMAIN u.data : u.data[i] = NoValue  BY <2>2, <2>6
  <2>  QED  BY <2>8, <2>9 DEF u
<1>  QED  BY <1>1, <1>2

\* set_data puts one value into one cell.
LEMMA DataSet ==
    ASSUME NEW t, IsTable(t), NEW row, NEW col, CanSet(t, row, col), NEW v, IsValue(v)
    PROVE  /\ IsTable(SetData(t, row, col, v)) /\ SetData(t, row, col, v).data # <<>>
           /\ SetData(t, row, col, v).fields = WithData(t).fields
           /\ SetData(t, row, col, v).sets = WithData(t).sets
           /\ DOMAIN SetData(t, row, col, v).data = DOMAIN WithData(t).data
           /\ Cell(WithData(t), row, col) \in DOMAIN WithData(t).data
           /\ SetData(t, row, col, v).data[Cell(WithData(t), row, col)] = v
           /\ \A i \in DOMAIN WithData(t).data : i # Cell(WithData(t), row, col) =>
                SetData(t, row, col, v).data[i] = WithData(t).data[i]
<1> DEFINE w == WithData(t)
           k == Cell(w, row, col)
           c == [w.data EXCEPT ![k] = v]
           u == SetData(t, row, col, v)
<1>1. IsTable(w) /\ w.data # <<>>  BY DataMade DEF CanSet
<1>2. row \in 0..w.sets /\ col \in 0..w.fields  BY DEF CanSet
<1>3. u = [w EXCEPT !.data[k] = v]  BY DEF SetData
<1>4. u = [w EXCEPT !.data = c]  BY <1>3
<1>  HIDE DEF w
<1>5. w.fields \in Nat /\ w.sets \in Nat /\ IsCells(w.data) /\ Len(w.data) = (w.fields + 1) * (w.sets + 1)
  BY <1>1 DEF IsTable
<1>6. k \in 1..Len(w.data)  BY <1>2, <1>5, CellInside DEF Cell
<1>7. DOMAIN w.data = 1..Len(w.data)  BY <1>5, ValueIs DEF IsCells
<1>  HIDE DEF k
<1>8. /\ IsCells(c) /\ Len(c) = Len(w.data) /\ c[k] = v /\ DOMAIN c = 1..Len(w.data) /\ c # <<>>
      /\ \A i \in 1..Len(w.data) : i # k => c[i] = w.data[i]
  BY <1>5, <1>6, CellPut
<1>  HIDE DEF c, u
<1>9. u = [sheet |-> w.sheet, fields |-> w.fields, sets |-> w.sets, id |-> w.id,
           header |-> w.header, format |-> w.format, data |-> c]
  BY <1>1, <1>4 DEF IsTable
<1>10. /\ u.sheet = w.sheet /\ u.fields = w.fields /\ u.sets = w.sets /\ u.id = w.id
       /\ u.header = w.header /\ u.format = w.format /\ u.data = c
  BY <1>9
<1>11. Labelled(w) => Labelled(u)  BY <1>10 DEF Labelled, Property
<1>12. IsTable(u)  BY <1>1, <1>5, <1>8, <1>9, <1>10, <1>11 DEF IsTable
<1>  QED  BY <1>6, <1>7, <1>8, <1>10, <1>12 DEF u, k, w

\* The table a handler changes is the only one that changes.
LEMMA TableEdited ==
    ASSUME DocTables(tables), current \in 1..Len(tables), NEW t, IsTable(t)
    PROVE  /\ DocTables(Edited(t)) /\ Len(Edited(t)) = Len(tables) /\ Edited(t)[current] = t
           /\ \A i \in 1..Len(tables) : i # current => Edited(t)[i] = tables[i]
<1> DEFINE ts == Edited(t)
<1>1. IsValue(tables) /\ Len(tables) \in Nat /\ DOMAIN tables = 1..Len(tables)  BY ValueIs DEF DocTables
<1>2. ts = [tables EXCEPT ![current] = t]  BY DEF Edited
<1>  HIDE DEF ts
<1>3. /\ IsValue(ts) /\ Len(ts) = Len(tables) /\ ts[current] = t
      /\ \A i \in 1..Len(tables) : i # current => ts[i] = tables[i]
  BY <1>1, <1>2, ValueExcept
<1>4. DOMAIN ts = 1..Len(tables)  BY <1>3, ValueIs
<1>5. \A i \in 1..Len(tables) : IsTable(tables[i])  BY <1>1 DEF DocTables
<1>6. \A i \in DOMAIN ts : IsTable(ts[i])  BY <1>3, <1>4, <1>5
<1>  QED  BY <1>3, <1>6 DEF DocTables, ts

LEMMA TableAppended ==
    ASSUME DocTables(tables), NEW t, IsTable(t)
    PROVE  /\ DocTables(Append(tables, t)) /\ Len(Append(tables, t)) = Len(tables) + 1
           /\ Append(tables, t)[Len(tables) + 1] = t
           /\ \A i \in 1..Len(tables) : Append(tables, t)[i] = tables[i]
<1> DEFINE ts == Append(tables, t)
<1>1. IsValue(tables) /\ Len(tables) \in Nat /\ DOMAIN tables = 1..Len(tables)  BY ValueIs DEF DocTables
<1>2. /\ IsValue(ts) /\ Len(ts) = Len(tables) + 1 /\ ts[Len(tables) + 1] = t
      /\ \A i \in 1..Len(tables) : ts[i] = tables[i]
  BY <1>1, ValueAppend
<1>  HIDE DEF ts
<1>3. DOMAIN ts = 1..(Len(tables) + 1)  BY <1>2, ValueIs
<1>4. \A i \in 1..Len(tables) : IsTable(tables[i])  BY <1>1 DEF DocTables
<1>5. \A i \in 1..(Len(tables) + 1) : i \in 1..Len(tables) \/ i = Len(tables) + 1  BY <1>1
<1>6. \A i \in DOMAIN ts : IsTable(ts[i])  BY <1>2, <1>3, <1>4, <1>5
<1>  QED  BY <1>2, <1>6 DEF DocTables, ts

-----------------------------------------------------------------------------
(* cook_pointers only lets values grow. *)

\* The table with some of its values longer.
Grown(t, u) ==
    /\ u.fields = t.fields /\ u.sets = t.sets /\ DOMAIN u.data = DOMAIN t.data
    /\ (u.data = <<>>) = (t.data = <<>>)
    /\ \A i \in DOMAIN t.data : /\ IsPrefix(t.data[i], u.data[i]) \/ ~IsValue(t.data[i])
                                /\ t.data[i] = NoValue => u.data[i] = NoValue

LEMMA PrefixItself == ASSUME NEW v, IsValue(v)  PROVE IsPrefix(v, v)
BY ValueIs DEF IsPrefix

LEMMA PrefixLonger == ASSUME NEW v, NEW w, IsValue(v), IsValue(w)  PROVE IsPrefix(v, v \o w)
<1> DEFINE x == v \o w
           n == Len(v)
<1>1. n \in Nat /\ Len(w) \in Nat /\ IsValue(x) /\ Len(x) = n + Len(w)  BY ValueIs, ValueConcat
<1>2. \A i \in 1..n : x[i] = v[i]
  <2>1. \A i \in 1..(Len(v) + Len(w)) : (v \o w)[i] = IF i <= Len(v) THEN v[i] ELSE w[i - Len(v)]
    BY ValueConcat
  <2>2. \A i \in 1..n : i \in 1..(Len(v) + Len(w)) /\ i <= Len(v)  BY <1>1
  <2>  QED  BY <2>1, <2>2
<1>  HIDE DEF x
<1>3. n \in 0..Len(v) /\ n \in 0..Len(x)  BY <1>1
<1> DEFINE a == SubSeq(v, 1, n)
           b == SubSeq(x, 1, n)
<1>4. IsValue(a) /\ Len(a) = n /\ \A i \in 1..n : a[i] = v[i]  BY <1>3, ValueSub
<1>5. IsValue(b) /\ Len(b) = n /\ \A i \in 1..n : b[i] = x[i]  BY <1>1, <1>3, ValueSub
<1>  HIDE DEF a, b
<1>6. a = b
  <2>1. a \in Seq(Range(a) \cup Range(b)) /\ b \in Seq(Range(a) \cup Range(b))
    <3>1. a \in Seq(Range(a)) /\ b \in Seq(Range(b))  BY <1>4, <1>5 DEF IsValue
    <3>  QED  BY <3>1, SeqMonotonic
  <2>2. \A i \in 1..n : a[i] = b[i]  BY <1>2, <1>4, <1>5
  <2>  QED  BY <1>4, <1>5, <2>1, <2>2, SeqEqual
<1>7. n <= Len(x)  BY <1>3, <1>1
<1>  QED  BY <1>6, <1>7 DEF IsPrefix, a, b, x, n

\* A reference is the name it refers to, and more.
LEMMA Refers ==
    ASSUME NEW ts, DocTables(ts), NEW v, IsValue(v), Naming(ts, v) # {}
    PROVE  IsValue(Reference(ts, v)) /\ IsPrefix(v, Reference(ts, v))
<1> DEFINE N == Naming(ts, v)
           k == CHOOSE i \in N : \A m \in N : m <= i
<1>1. Len(ts) \in Nat /\ DOMAIN ts = 1..Len(ts)  BY ValueIs DEF DocTables
<1>2. N \in SUBSET (1..Len(ts)) /\ N # {}  BY <1>1 DEF Naming
<1>3. k \in N
  <2>  HIDE DEF N
  <2>1. Max(N) \in N /\ \A m \in N : m <= Max(N)  BY <1>1, <1>2, LastIndex
  <2>2. \E i \in N : \A m \in N : m <= i  BY <2>1
  <2>  QED  BY <2>2
<1>4. Reference(ts, v) = v \o <<ToString(k - 1)>> \o Property(ts[k], v[1])  BY DEF Reference
<1>5. k \in DOMAIN ts /\ Find(ts[k].header, v[1], NoValue) # 0  BY <1>3 DEF Naming
<1>  HIDE DEF k, N
<1>6. IsTable(ts[k])  BY <1>5 DEF DocTables
<1> DEFINE h == ts[k].header
           i == Find(h, v[1], NoValue)
           w == Property(ts[k], v[1])
<1>7. IsHeader(h)  BY <1>6 DEF IsTable
<1>8. i \in 1..Len(h)
  <2>1. IsValue(h) /\ i # 0  BY <1>5, <1>7 DEF IsHeader
  <2>  HIDE DEF h
  <2>  QED  BY <2>1, FindIs
<1>9. IsValue(w)
  <2>1. w = h[i].val  BY <1>5 DEF Property
  <2>  HIDE DEF i, h
  <2>2. i \in DOMAIN h  BY <1>7, <1>8, ValueIs DEF IsHeader
  <2>  QED  BY <1>7, <2>1, <2>2 DEF IsHeader, IsProperty
<1>  HIDE DEF w
<1> DEFINE a == <<ToString(k - 1)>>
<1>10. IsValue(a)  BY OneValue
<1>11. Reference(ts, v) = (v \o a) \o w  BY <1>4 DEF w
<1>  HIDE DEF a
<1>12. IsValue(v \o a) /\ IsValue(a \o w)  BY <1>9, <1>10, ValueConcat
<1>13. (v \o a) \o w = v \o (a \o w)
  <2> DEFINE S == Range(v) \cup Range(a) \cup Range(w)
  <2>1. v \in Seq(S) /\ a \in Seq(S) /\ w \in Seq(S)
    <3>1. v \in Seq(Range(v)) /\ a \in Seq(Range(a)) /\ w \in Seq(Range(w))  BY <1>9, <1>10 DEF IsValue
    <3>  QED  BY <3>1, SeqMonotonic
  <2>  HIDE DEF S
  <2>  QED  BY <2>1, ConcatAssociative
<1>14. IsPrefix(v, v \o (a \o w))  BY <1>12, PrefixLonger
<1>15. IsValue((v \o a) \o w)  BY <1>9, <1>12, ValueConcat
<1>  QED  BY <1>11, <1>13, <1>14, <1>15

LEMMA CookedCellGrows ==
    ASSUME NEW ts, DocTables(ts), NEW t, IsTable(t), NEW i \in DOMAIN t.data
    PROVE  /\ CookedCell(ts, t, i) = NoValue \/ IsValue(CookedCell(ts, t, i))
           /\ IsPrefix(t.data[i], CookedCell(ts, t, i)) \/ ~IsValue(t.data[i])
           /\ t.data[i] = NoValue => CookedCell(ts, t, i) = NoValue
<1> DEFINE v == t.data[i]
<1>1. v = NoValue \/ IsValue(v)  BY DEF IsTable, IsCells
<1>2. \/ CookedCell(ts, t, i) = v
      \/ v # NoValue /\ Naming(ts, v) # {} /\ CookedCell(ts, t, i) = Reference(ts, v)
  BY DEF CookedCell
<1>  HIDE DEF v
<1>3. IsValue(v) => IsPrefix(v, v)  BY PrefixItself
<1>4. IsValue(v) /\ Naming(ts, v) # {} => IsValue(Reference(ts, v)) /\ IsPrefix(v, Reference(ts, v))  BY Refers
<1>  QED  BY <1>1, <1>2, <1>3, <1>4 DEF v

LEMMA CookedTable ==
    ASSUME NEW ts, DocTables(ts), NEW t, IsTable(t), NEW id,
           NEW c, c = [i \in DOMAIN t.data |-> IF t.fields = 0 THEN t.data[i] ELSE CookedCell(ts, t, i)]
    PROVE  IsTable([t EXCEPT !.id = id, !.data = c]) /\ Grown(t, [t EXCEPT !.id = id, !.data = c])
<1> DEFINE u == [t EXCEPT !.id = id, !.data = c]
           n == Len(t.data)
<1>1. IsCells(t.data) /\ n \in Nat /\ DOMAIN t.data = 1..n  BY ValueIs DEF IsTable, IsCells
<1>2. \A i \in DOMAIN t.data : /\ c[i] = NoValue \/ IsValue(c[i])
                               /\ IsPrefix(t.data[i], c[i]) \/ ~IsValue(t.data[i])
                               /\ t.data[i] = NoValue => c[i] = NoValue
  <2> SUFFICES ASSUME NEW i \in DOMAIN t.data
               PROVE  /\ c[i] = NoValue \/ IsValue(c[i])
                      /\ IsPrefix(t.data[i], c[i]) \/ ~IsValue(t.data[i])
                      /\ t.data[i] = NoValue => c[i] = NoValue
    OBVIOUS
  <2>1. CASE t.fields = 0
    <3>1. c[i] = t.data[i]  BY <2>1
    <3>2. t.data[i] = NoValue \/ IsValue(t.data[i])  BY <1>1 DEF IsCells
    <3>3. IsValue(t.data[i]) => IsPrefix(t.data[i], t.data[i])  BY PrefixItself
    <3>  QED  BY <3>1, <3>2, <3>3
  <2>2. CASE t.fields # 0
    <3>1. c[i] = CookedCell(ts, t, i)  BY <2>2
    <3>  QED  BY <3>1, CookedCellGrows
  <2>  QED  BY <2>1, <2>2
<1>3. DOMAIN c = 1..n /\ c = [i \in 1..n |-> c[i]]  BY <1>1
<1>4. IsValue(c) /\ Len(c) = n
  <2>  HIDE DEF n
  <2>  QED  BY <1>1, <1>3, ValueBuilt
<1>5. IsCells(c)  BY <1>1, <1>2, <1>3, <1>4 DEF IsCells
<1>6. (c = <<>>) = (t.data = <<>>)
  <2>1. IsValue(t.data)  BY <1>1 DEF IsCells
  <2>2. t.data = <<>> <=> n = 0  BY <2>1 DEF IsValue
  <2>3. c = <<>> <=> Len(c) = 0  BY <1>4 DEF IsValue
  <2>  QED  BY <1>4, <2>2, <2>3
<1>7. u = [sheet |-> t.sheet, fields |-> t.fields, sets |-> t.sets, id |-> id,
           header |-> t.header, format |-> t.format, data |-> c]
  <2> DEFINE w == [t EXCEPT !.id = id]
  <2>1. w = [sheet |-> t.sheet, fields |-> t.fields, sets |-> t.sets, id |-> id,
             header |-> t.header, format |-> t.format, data |-> t.data]
    BY DEF IsTable
  <2>2. u = [w EXCEPT !.data = c]  OBVIOUS
  <2>  HIDE DEF w, u
  <2>  QED  BY <2>1, <2>2
<1>  HIDE DEF u
<1>8. /\ u.sheet = t.sheet /\ u.fields = t.fields /\ u.sets = t.sets /\ u.id = id
      /\ u.header = t.header /\ u.format = t.format /\ u.data = c
  BY <1>7
<1>9. Labelled(t) => Labelled(u)  BY <1>8 DEF Labelled, Property
<1>10. IsTable(u)  BY <1>4, <1>5, <1>6, <1>7, <1>8, <1>9 DEF IsTable
<1>11. Grown(t, u)  BY <1>1, <1>2, <1>3, <1>6, <1>8 DEF Grown
<1>  QED  BY <1>10, <1>11 DEF u

LEMMA CookedIs ==
    ASSUME NEW ts, DocTables(ts)
    PROVE  /\ DocTables(Cooked(ts)) /\ Len(Cooked(ts)) = Len(ts)
           /\ \A j \in 1..Len(ts) : Grown(ts[j], Cooked(ts)[j])
<1> DEFINE n == Len(ts)
           Id(t) == LET ids == {c \in 1..t.fields : c \in DOMAIN t.format /\ t.format[c] = <<"SAMPLE_ID">>}
                    IN  IF ids = {} THEN 0 ELSE (CHOOSE c \in ids : \A d \in ids : d <= c) - 1
           Values(t) == [i \in DOMAIN t.data |-> IF t.fields = 0 THEN t.data[i] ELSE CookedCell(ts, t, i)]
           cooked == Cooked(ts)
<1>1. n \in Nat /\ DOMAIN ts = 1..n  BY ValueIs DEF DocTables
<1>2. cooked = [j \in DOMAIN ts |-> [ts[j] EXCEPT !.id = Id(ts[j]), !.data = Values(ts[j])]]
  BY DEF Cooked
<1>3. \A j \in 1..n : cooked[j] = [ts[j] EXCEPT !.id = Id(ts[j]), !.data = Values(ts[j])]
  <2>  HIDE DEF Id, Values, cooked
  <2>  QED  BY <1>1, <1>2
<1>4. DOMAIN cooked = 1..n /\ cooked = [j \in 1..n |-> cooked[j]]
  <2>  HIDE DEF Id, Values, cooked
  <2>  QED  BY <1>1, <1>2
<1>5. ASSUME NEW j \in 1..n  PROVE IsTable(cooked[j]) /\ Grown(ts[j], cooked[j])
  <2> DEFINE t == ts[j]
             id == Id(t)
             c == Values(t)
  <2>1. IsTable(t)  BY <1>1 DEF DocTables
  <2>2. c = [i \in DOMAIN t.data |-> IF t.fields = 0 THEN t.data[i] ELSE CookedCell(ts, t, i)]  OBVIOUS
  <2>3. cooked[j] = [t EXCEPT !.id = id, !.data = c]  BY <1>3
  <2>  HIDE DEF Id, Values, t, id, c, cooked
  <2>4. IsTable([t EXCEPT !.id = id, !.data = c]) /\ Grown(t, [t EXCEPT !.id = id, !.data = c])
    BY <2>1, <2>2, CookedTable
  <2>  QED  BY <2>3, <2>4 DEF t
<1>  HIDE DEF cooked, n
<1>6. IsValue(cooked) /\ Len(cooked) = n  BY <1>1, <1>4, ValueBuilt
<1>7. DocTables(cooked)  BY <1>4, <1>5, <1>6 DEF DocTables
<1>  QED  BY <1>5, <1>6, <1>7 DEF cooked, n

-----------------------------------------------------------------------------
(* How many of a set of positions are before another. *)

LEMMA CountType ==
    ASSUME NEW n \in Nat, NEW S \in SUBSET (1..n), NEW p
    PROVE  /\ IsFiniteSet(S) /\ IsFiniteSet({i \in S : i < p}) /\ Cardinality(S) \in Nat
           /\ Before(S, p) \in Nat /\ Before(S, p) <= Cardinality(S)
<1>1. IsFiniteSet(1..n)  BY FS_Interval
<1>2. IsFiniteSet(S)  BY <1>1, FS_Subset
<1> DEFINE D == {i \in S : i < p}
<1>3. D \in SUBSET S  OBVIOUS
<1>4. IsFiniteSet(D) /\ Cardinality(D) <= Cardinality(S)
  <2>  HIDE DEF D
  <2>  QED  BY <1>2, <1>3, FS_Subset
<1>5. Cardinality(D) \in Nat /\ Cardinality(S) \in Nat
  <2>  HIDE DEF D
  <2>  QED  BY <1>2, <1>4, FS_CardinalityType
<1>  QED  BY <1>2, <1>4, <1>5 DEF Before

LEMMA CountSame ==
    ASSUME NEW n \in Nat, NEW S \in SUBSET (1..n), NEW p, NEW q, \A i \in S : i < p <=> i < q
    PROVE  Before(S, p) = Before(S, q)
<1>1. {i \in S : i < p} = {i \in S : i < q}  OBVIOUS
<1>  QED  BY <1>1 DEF Before

LEMMA CountAll ==
    ASSUME NEW n \in Nat, NEW S \in SUBSET (1..n), NEW p, \A i \in S : i < p
    PROVE  Before(S, p) = Cardinality(S)
<1>1. {i \in S : i < p} = S  OBVIOUS
<1>  QED  BY <1>1 DEF Before

LEMMA CountZero ==
    ASSUME NEW n \in Nat, NEW S \in SUBSET (1..n), NEW p, \A i \in S : ~(i < p)
    PROVE  Before(S, p) = 0
<1>1. {i \in S : i < p} = {}  OBVIOUS
<1>  QED  BY <1>1, FS_EmptySet DEF Before

\* One of them counts once.
LEMMA CountOne ==
    ASSUME NEW n \in Nat, NEW S \in SUBSET (1..n), NEW p \in S, NEW q, \A i \in S : i < q <=> i <= p
    PROVE  Before(S, q) = Before(S, p) + 1
<1> DEFINE D == {i \in S : i < p}
<1>0. \A i \in S : i \in Int  OBVIOUS
<1>1. {i \in S : i < q} = D \cup {p}
  <2>1. \A i \in S : i < q <=> i < p \/ i = p  BY <1>0
  <2>  QED  BY <2>1, Zenon
<1>2. IsFiniteSet(D) /\ p \notin D
  <2>1. ~(p < p)  BY <1>0
  <2>  QED  BY <2>1, CountType
<1>3. Before(S, q) = Cardinality(D \cup {p}) /\ Before(S, p) = Cardinality(D)  BY <1>1 DEF Before
<1>  HIDE DEF D
<1>  QED  BY <1>2, <1>3, FS_AddElement

LEMMA CountGrows ==
    ASSUME NEW n \in Nat, NEW S \in SUBSET (1..n), NEW p \in S, NEW q \in Int, p < q
    PROVE  Before(S, p) < Before(S, q)
<1> DEFINE D == {i \in S : i < p}
           E == {i \in S : i < q}
<1>0. \A i \in S : i \in Int  OBVIOUS
<1>1. D \cup {p} \in SUBSET E
  <2>1. \A i \in S : i < p \/ i = p => i < q  BY <1>0
  <2>  QED  BY <2>1, Zenon
<1>2. IsFiniteSet(D) /\ p \notin D /\ IsFiniteSet(E)
  <2>1. ~(p < p)  BY <1>0
  <2>2. IsFiniteSet(D) /\ IsFiniteSet(E)  BY CountType
  <2>  QED  BY <2>1, <2>2
<1>3. Before(S, q) = Cardinality(E) /\ Before(S, p) = Cardinality(D)  BY DEF Before
<1>4. Before(S, p) \in Nat /\ Before(S, q) \in Nat  BY CountType
<1>  HIDE DEF D, E
<1>5. Cardinality(D \cup {p}) = Cardinality(D) + 1  BY <1>2, FS_AddElement
<1>6. Cardinality(D \cup {p}) <= Cardinality(E)  BY <1>1, <1>2, FS_Subset
<1>  QED  BY <1>3, <1>4, <1>5, <1>6

LEMMA CountInside ==
    ASSUME NEW n \in Nat, NEW S \in SUBSET (1..n), NEW p \in S
    PROVE  Before(S, p) < Cardinality(S)
<1>1. Before(S, n + 1) = Cardinality(S)  BY CountAll
<1>2. p < n + 1 /\ n + 1 \in Int  OBVIOUS
<1>  QED  BY <1>1, <1>2, CountGrows

\* And no two have as many before them.
LEMMA CountApart ==
    ASSUME NEW n \in Nat, NEW S \in SUBSET (1..n), NEW p \in S, NEW q \in S, Before(S, p) = Before(S, q)
    PROVE  p = q
<1>1. p \in Int /\ q \in Int  OBVIOUS
<1>2. Before(S, p) \in Nat  BY CountType
<1>3. ~(p < q)  BY <1>1, <1>2, CountGrows
<1>4. ~(q < p)
  <2> SUFFICES ASSUME q < p  PROVE FALSE  OBVIOUS
  <2>1. Before(S, q) < Before(S, p)  BY <1>1, CountGrows
  <2>  QED  BY <1>2, <2>1
<1>  QED  BY <1>1, <1>3, <1>4

-----------------------------------------------------------------------------
(* What of a text has been put into tables when the lexer stands on p. *)

\* The table holds the data section that begins at s.
Holds(text, t, s) ==
    t.fields > 0 =>
      /\ Cardinality(Inside(text, s)) <= t.fields * t.sets
      /\ \A j \in Inside(text, s) : t.data[Before(Inside(text, s), j) + 1] = text[j].val
      /\ \A n \in DOMAIN t.data : n > Cardinality(Inside(text, s)) => t.data[n] = NoValue

\* The table that a data section is for; the sections of the first n tables are done.
Nth(text, s) == Before(Starts(text), s) + 1
Done(text, ts, p, n) ==
    \A s \in Starts(text) : s < p /\ Nth(text, s) <= n => Holds(text, ts[Nth(text, s)], s)

\* The last table has no data yet.
Unfilled(text, ts, p, cur) ==
    /\ ts[cur].data = <<>>
    /\ Before(Starts(text), p) = cur - 1
    /\ Done(text, ts, p, cur - 1)

\* Between the sections; nothing follows an unreadable token but an error.
Between(text, ts, p, cur) ==
    \/ TokenAt(text, p).sy = "SynError"
    \/ /\ Before(Starts(text), p) = IF ts[cur].data = <<>> THEN cur - 1 ELSE cur
       /\ ts[cur].data # <<>> => TokenAt(text, p).sy = "Eof"
       /\ Done(text, ts, p, cur)

\* The values of the section at s up to p are in the table, f in row r.
Fills(text, t, p, f, r, s) ==
    /\ \A k \in s..(p - 1) : text[k].sy # "EndData"
    /\ t.fields > 0 =>
         /\ f \in 0..t.fields
         /\ Before(Inside(text, s), p) = r * t.fields + f
         /\ \A j \in Inside(text, s) : j < p => t.data[Before(Inside(text, s), j) + 1] = text[j].val
         /\ \A n \in DOMAIN t.data : n > r * t.fields + f => t.data[n] = NoValue
Filling(text, ts, p, cur, f, r) ==
    /\ ts[cur].data # <<>>
    /\ Before(Starts(text), p) = cur
    /\ Done(text, ts, p, cur - 1)
    /\ f \in Nat /\ r \in Nat /\ TokenAt(text, p).sy # "Eoln"
    /\ \E s \in Starts(text) : s < p /\ Nth(text, s) = cur /\ Fills(text, ts[cur], p, f, r, s)

\* Only the last table may be without data.
Placed(text, ts, p, cur) ==
    /\ Stands(text, p)
    /\ FirstWords(text) = 1 => p > 1
    /\ DocTables(ts) /\ cur = Len(ts) /\ cur \in Nat \ {0}
    /\ \A i \in 1..(cur - 1) : ts[i].data # <<>>

LoadInv ==
    /\ Placed(source, tables, cursor, current)
    /\ section = "body" => Between(source, tables, cursor, current)
    /\ section = "format" => Unfilled(source, tables, cursor, current)
    /\ section = "data" => Filling(source, tables, cursor, current, field, set)

\* A document not yet loaded
Fresh == tables = <<[NewTable EXCEPT !.sheet = <<"CGATS.17">>]>> /\ current = 1 /\ section = "body"

CgatsInv ==
    /\ IsTokens(source) /\ DocTables(tables) /\ current \in 1..Len(tables)
    /\ FieldCount \in DOMAIN keywords => keywords[FieldCount] # "Pair"
    /\ edits \in Nat /\ field \in Nat
    /\ section \in {"body", "format", "data"}
    /\ phase = "given" => Fresh
    /\ phase = "loading" => LoadInv
    /\ CellsAreTheValues

-----------------------------------------------------------------------------
(* The lexer goes from p on to q, and no data section begins between them. *)

Onward(text, p, q) ==
    /\ p \in 1..(Len(text) + 1) /\ q \in p..(Len(text) + 1) /\ Stands(text, q)
    /\ \A k \in p..(q - 1) : text[k].sy # "BeginData"

LEMMA OnwardThrough ==
    ASSUME NEW text, IsTokens(text), NEW p, NEW q, NEW r, Onward(text, p, q), Onward(text, q, r)
    PROVE  Onward(text, p, r)
<1>1. Len(text) \in Nat  BY TokensAre
<1>2. \A k \in p..(r - 1) : k \in p..(q - 1) \/ k \in q..(r - 1)  BY <1>1 DEF Onward
<1>3. \A k \in p..(r - 1) : text[k].sy # "BeginData"  BY <1>2 DEF Onward
<1>4. r \in p..(Len(text) + 1) /\ p \in 1..(Len(text) + 1) /\ Stands(text, r)  BY <1>1 DEF Onward
<1>  QED  BY <1>3, <1>4 DEF Onward

LEMMA OneTokenOn ==
    ASSUME NEW text, IsTokens(text), NEW p, Stands(text, p), TokenAt(text, p).sy # "BeginData"
    PROVE  Onward(text, p, InSymbol(text, p))
<1>0. Len(text) \in Nat /\ p \in 1..(Len(text) + 1)  BY TokensAre DEF Stands
<1> DEFINE q == InSymbol(text, p)
<1>1. CASE p > Len(text)
  <2>1. q = p /\ p = Len(text) + 1  BY <1>0, <1>1 DEF InSymbol
  <2>  QED  BY <1>0, <2>1 DEF Onward
<1>2. CASE p <= Len(text)
  <2>1. p \in 0..Len(text) /\ p \in 1..Len(text)  BY <1>0, <1>2
  <2>2. q \in (p + 1)..(Len(text) + 1) /\ Stands(text, q) /\ Spaces(text, p + 1, q)  BY <2>1, InSymbolMoves
  <2>3. text[p].sy # "BeginData"  BY <2>1, TokensAre
  <2>  HIDE DEF q
  <2>4. \A k \in p..(q - 1) : k = p \/ k \in (p + 1)..(q - 1)  BY <1>0, <2>2
  <2>5. \A k \in p..(q - 1) : text[k].sy # "BeginData"  BY <2>2, <2>3, <2>4 DEF Spaces
  <2>6. q \in p..(Len(text) + 1)  BY <1>0, <2>2
  <2>  QED  BY <1>0, <2>2, <2>5, <2>6 DEF Onward, q
<1>  QED  BY <1>0, <1>1, <1>2

LEMMA LinesOn ==
    ASSUME NEW text, IsTokens(text), NEW p, Stands(text, p)
    PROVE  /\ Onward(text, p, SkipEoln(text, p)) /\ Spaces(text, p, SkipEoln(text, p))
           /\ TokenAt(text, SkipEoln(text, p)).sy # "Eoln"
           /\ TokenAt(text, p).sy # "Eoln" => SkipEoln(text, p) = p
<1>0. Len(text) \in Nat /\ p \in 1..(Len(text) + 1)  BY TokensAre DEF Stands
<1> DEFINE q == SkipEoln(text, p)
<1>1. q \in p..(Len(text) + 1) /\ Stands(text, q) /\ Spaces(text, p, q)  BY SkipEolnMoves
<1>2. Onward(text, p, q)
  <2>  HIDE DEF q
  <2>  QED  BY <1>0, <1>1 DEF Onward, Spaces
<1>3. TokenAt(text, q).sy # "Eoln"
  <2>1. CASE TokenAt(text, p) = Eoln
    <3>1. q = Seek(text, p, {"Comment", "Eoln"})  BY <2>1 DEF SkipEoln
    <3>2. TokenAt(text, q).sy \notin {"Comment", "Eoln"}
      <4>  HIDE DEF q
      <4>  QED  BY <1>0, <3>1, SeekFinds
    <3>  QED  BY <3>2
  <2>2. CASE TokenAt(text, p) # Eoln
    <3>1. q = p  BY <2>2 DEF SkipEoln
    <3>2. p = Len(text) + 1 \/ p \in 1..Len(text)  BY <1>0
    <3>3. Eof.sy # "Eoln"  BY DEF Eof, Token
    <3>4. TokenAt(text, p).sy # "Eoln"
      <4>1. CASE p = Len(text) + 1  BY <4>1, <3>3, TokensAre
      <4>2. CASE p \in 1..Len(text)
        <5>1. TokenAt(text, p) = text[p] /\ (text[p].sy = "Eoln" => text[p] = Eoln)  BY <4>2, TokensAre
        <5>  QED  BY <2>2, <5>1
      <4>  QED  BY <3>2, <4>1, <4>2
    <3>  QED  BY <3>1, <3>4
  <2>  QED  BY <2>1, <2>2
<1>4. TokenAt(text, p).sy # "Eoln" => q = p
  <2>1. Eoln.sy = "Eoln"  BY DEF Eoln, Token
  <2>  QED  BY <2>1 DEF SkipEoln
<1>  QED  BY <1>1, <1>2, <1>3, <1>4

\* in_symbol and then skip_eoln
LEMMA LineOn ==
    ASSUME NEW text, IsTokens(text), NEW p, Stands(text, p), TokenAt(text, p).sy # "BeginData"
    PROVE  /\ Onward(text, p, SkipEoln(text, InSymbol(text, p)))
           /\ TokenAt(text, SkipEoln(text, InSymbol(text, p))).sy # "Eoln"
<1> DEFINE q == InSymbol(text, p)
<1>1. Onward(text, p, q) /\ Stands(text, q)  BY OneTokenOn DEF Onward
<1>  HIDE DEF q
<1>2. Onward(text, q, SkipEoln(text, q)) /\ TokenAt(text, SkipEoln(text, q)).sy # "Eoln"  BY <1>1, LinesOn
<1>  QED  BY <1>1, <1>2, OnwardThrough DEF q

\* The ends of lines, and the word that ends a section.
LEMMA EndOn ==
    ASSUME NEW text, IsTokens(text), NEW p, Stands(text, p), NEW sy, sy # "BeginData"
    PROVE  /\ Onward(text, p, SkipEoln(text, Skip(text, SkipEoln(text, p), sy)))
           /\ TokenAt(text, p).sy \in {"Eof", "SynError"} /\ sy \notin {"Eof", "SynError"} =>
                SkipEoln(text, Skip(text, SkipEoln(text, p), sy)) = p
<1> DEFINE q == SkipEoln(text, p)
           r == Skip(text, q, sy)
           e == SkipEoln(text, r)
<1>1. Onward(text, p, q) /\ Stands(text, q) /\ (TokenAt(text, p).sy # "Eoln" => q = p)  BY LinesOn DEF Onward
<1>  HIDE DEF q
<1>2. Onward(text, q, r)
  <2>1. CASE TokenAt(text, q).sy = sy
    <3>1. r = InSymbol(text, q)  BY <2>1 DEF Skip
    <3>  QED  BY <1>1, <2>1, <3>1, OneTokenOn
  <2>2. CASE TokenAt(text, q).sy # sy
    <3>1. r = q  BY <2>2 DEF Skip
    <3>2. Onward(text, q, q)
      <4>1. Len(text) \in Nat  BY TokensAre
      <4>  QED  BY <1>1, <4>1 DEF Onward
    <3>  QED  BY <3>1, <3>2
  <2>  QED  BY <2>1, <2>2
<1>3. Stands(text, r)  BY <1>2 DEF Onward
<1>4. ASSUME TokenAt(text, p).sy \in {"Eof", "SynError"}, sy \notin {"Eof", "SynError"}
      PROVE  e = p
  <2>1. q = p  BY <1>1, <1>4
  <2>2. r = p  BY <1>4, <2>1 DEF Skip
  <2>3. TokenAt(text, p).sy # "Eoln"  BY <1>4
  <2>4. e = SkipEoln(text, p)  BY <2>2
  <2>  QED  BY <1>3, <2>2, <2>3, <2>4, LinesOn
<1>  HIDE DEF r
<1>5. Onward(text, r, e)  BY <1>3, LinesOn
<1>  HIDE DEF e
<1>6. Onward(text, p, e)  BY <1>1, <1>2, <1>5, OnwardThrough
<1>  QED  BY <1>4, <1>6 DEF e, r, q

-----------------------------------------------------------------------------
(* What stays when the lexer goes on. *)

LEMMA StartsAre ==
    ASSUME NEW text, IsTokens(text)
    PROVE  /\ Len(text) \in Nat /\ Starts(text) \in SUBSET (1..Len(text))
           /\ \A s : Inside(text, s) \in SUBSET (1..Len(text)) \/ s \notin Starts(text)
<1>1. Len(text) \in Nat /\ DOMAIN text = 1..Len(text)  BY TokensAre
<1>2. Starts(text) \in SUBSET (1..Len(text))  BY <1>1 DEF Starts
<1>3. \A s \in Starts(text) : Inside(text, s) \in SUBSET (1..Len(text))  BY <1>1, <1>2 DEF Inside
<1>  QED  BY <1>1, <1>2, <1>3

LEMMA StartsPassed ==
    ASSUME NEW text, IsTokens(text), NEW p, NEW q, Onward(text, p, q)
    PROVE  /\ Before(Starts(text), q) = Before(Starts(text), p)
           /\ \A s \in Starts(text) : s < q => s < p
<1>1. Len(text) \in Nat /\ Starts(text) \in SUBSET (1..Len(text))  BY StartsAre
<1>2. p \in Int /\ q \in Int /\ p <= q  BY <1>1 DEF Onward
<1>3. \A s \in Starts(text) : s < q => s < p
  <2> SUFFICES ASSUME NEW s \in Starts(text), s < q, ~(s < p)  PROVE FALSE  OBVIOUS
  <2>1. s \in p..(q - 1)  BY <1>1, <1>2
  <2>2. text[s].sy # "BeginData"  BY <2>1 DEF Onward
  <2>  QED  BY <2>2 DEF Starts
<1>4. \A s \in Starts(text) : s < p <=> s < q  BY <1>1, <1>2, <1>3
<1>  HIDE DEF Starts
<1>5. Before(Starts(text), p) = Before(Starts(text), q)  BY <1>1, <1>4, CountSame
<1>  QED  BY <1>3, <1>5

LEMMA NthIs ==
    ASSUME NEW text, IsTokens(text), NEW s \in Starts(text)
    PROVE  /\ Nth(text, s) \in Nat \ {0} /\ Nth(text, s) <= Cardinality(Starts(text))
           /\ \A p \in Int : s < p => Nth(text, s) <= Before(Starts(text), p)
<1>1. Len(text) \in Nat /\ Starts(text) \in SUBSET (1..Len(text))  BY StartsAre
<1> DEFINE S == Starts(text)
<1>2. S \in SUBSET (1..Len(text)) /\ s \in S  BY <1>1
<1>  HIDE DEF S
<1>3. Before(S, s) \in Nat /\ Cardinality(S) \in Nat  BY <1>1, <1>2, CountType
<1>4. Before(S, s) < Cardinality(S)  BY <1>1, <1>2, CountInside
<1>5. \A p \in Int : s < p => Before(S, s) < Before(S, p) /\ Before(S, p) \in Nat
  BY <1>1, <1>2, CountGrows, CountType
<1>6. \A p \in Int : s < p => Before(S, s) + 1 <= Before(S, p)  BY <1>3, <1>5
<1>  QED  BY <1>3, <1>4, <1>6 DEF Nth, S

\* Sections done stay done, in tables that do not change.
LEMMA DoneStays ==
    ASSUME NEW text, IsTokens(text), NEW ts, NEW us, NEW p, NEW q, NEW n \in Int, Done(text, ts, p, n),
           \A s \in Starts(text) : s < q /\ Nth(text, s) <= n => s < p,
           \A i \in 1..n : us[i] = ts[i]
    PROVE  Done(text, us, q, n)
<1> SUFFICES ASSUME NEW s \in Starts(text), s < q, Nth(text, s) <= n
             PROVE  Holds(text, us[Nth(text, s)], s)
  BY DEF Done
<1> DEFINE k == Nth(text, s)
<1>1. k \in Nat \ {0}  BY NthIs
<1>2. k <= n /\ s < p  OBVIOUS
<1>3. Holds(text, ts[k], s)  BY <1>2 DEF Done
<1>  HIDE DEF k
<1>4. k \in 1..n  BY <1>1, <1>2
<1>5. us[k] = ts[k]  BY <1>4
<1>  QED  BY <1>3, <1>5 DEF k

LEMMA UnfilledStays ==
    ASSUME NEW text, IsTokens(text), NEW ts, NEW us, NEW p, NEW q, Onward(text, p, q),
           NEW cur \in Nat \ {0}, Unfilled(text, ts, p, cur),
           us[cur].data = <<>>, \A i \in 1..(cur - 1) : us[i] = ts[i]
    PROVE  Unfilled(text, us, q, cur)
<1>1. Before(Starts(text), q) = cur - 1 /\ \A s \in Starts(text) : s < q => s < p
  BY StartsPassed DEF Unfilled
<1>2. Done(text, us, q, cur - 1)
  <2> DEFINE n == cur - 1
  <2>1. n \in Int /\ Done(text, ts, p, n) /\ \A i \in 1..n : us[i] = ts[i]  BY DEF Unfilled
  <2>  HIDE DEF n
  <2>2. Done(text, us, q, n)  BY <1>1, <2>1, DoneStays
  <2>  QED  BY <2>2 DEF n
<1>  QED  BY <1>1, <1>2 DEF Unfilled

\* A table without data is all that is undone.
LEMMA UnfilledBetween ==
    ASSUME NEW text, IsTokens(text), NEW ts, NEW p \in Int, NEW cur, Unfilled(text, ts, p, cur)
    PROVE  Between(text, ts, p, cur)
<1>1. \A s \in Starts(text) : s < p => Nth(text, s) <= cur - 1  BY NthIs DEF Unfilled
<1>2. Done(text, ts, p, cur)  BY <1>1 DEF Unfilled, Done
<1>  QED  BY <1>2 DEF Unfilled, Between

LEMMA BetweenUnfilled ==
    ASSUME NEW text, IsTokens(text), NEW ts, NEW p \in Int, NEW cur \in Nat \ {0}, Between(text, ts, p, cur),
           TokenAt(text, p).sy \notin {"SynError", "Eof"}
    PROVE  Unfilled(text, ts, p, cur)
<1>1. ts[cur].data = <<>> /\ Before(Starts(text), p) = cur - 1 /\ Done(text, ts, p, cur)  BY DEF Between
<1>2. \A s \in Starts(text) : s < p => Nth(text, s) <= cur - 1 /\ Nth(text, s) \in Nat  BY <1>1, NthIs
<1>3. Done(text, ts, p, cur - 1)  BY <1>1, <1>2 DEF Done
<1>  QED  BY <1>1, <1>3 DEF Unfilled

LEMMA PlacedOn ==
    ASSUME NEW text, IsTokens(text), NEW ts, NEW us, NEW p, NEW q, Onward(text, p, q), NEW cur, Placed(text, ts, p, cur),
           DocTables(us), Len(us) = Len(ts), \A i \in 1..(cur - 1) : us[i] = ts[i]
    PROVE  Placed(text, us, q, cur)
<1>1. Len(text) \in Nat  BY TokensAre
<1>2. Stands(text, q) /\ (p > 1 => q > 1)  BY <1>1 DEF Onward
<1>3. \A i \in 1..(cur - 1) : us[i].data # <<>>  BY DEF Placed
<1>  QED  BY <1>2, <1>3 DEF Placed

-----------------------------------------------------------------------------
(* A data section: its beginning, its values, its end. *)

LEMMA PastToken ==
    ASSUME NEW text, IsTokens(text), NEW p \in 1..Len(text), NEW q, q = SkipEoln(text, InSymbol(text, p))
    PROVE  /\ q \in (p + 1)..(Len(text) + 1) /\ Stands(text, q) /\ Spaces(text, p + 1, q)
           /\ TokenAt(text, q).sy # "Eoln"
<1>0. Len(text) \in Nat /\ p \in 0..Len(text)  BY TokensAre
<1> DEFINE r == InSymbol(text, p)
<1>1. r \in (p + 1)..(Len(text) + 1) /\ Stands(text, r) /\ Spaces(text, p + 1, r)  BY <1>0, InSymbolMoves
<1>2. q = SkipEoln(text, r)  OBVIOUS
<1>  HIDE DEF r
<1>3. Onward(text, r, q) /\ Spaces(text, r, q) /\ TokenAt(text, q).sy # "Eoln"  BY <1>1, <1>2, LinesOn
<1>4. q \in r..(Len(text) + 1) /\ Stands(text, q)  BY <1>3 DEF Onward
<1>5. Spaces(text, p + 1, q)  BY <1>0, <1>1, <1>3, <1>4 DEF Spaces
<1>6. q \in (p + 1)..(Len(text) + 1)  BY <1>0, <1>1, <1>4
<1>  QED  BY <1>3, <1>4, <1>5, <1>6

LEMMA SectionBegins ==
    ASSUME NEW text, IsTokens(text), NEW ts, NEW us, NEW cur \in Nat \ {0},
           NEW p, Placed(text, ts, p, cur), Unfilled(text, ts, p, cur), TokenAt(text, p).sy = "BeginData",
           NEW q, q = SkipEoln(text, InSymbol(text, p)),
           us[cur].data # <<>>, \A n \in DOMAIN us[cur].data : us[cur].data[n] = NoValue,
           us[cur].fields \in Nat, \A i \in 1..(cur - 1) : us[i] = ts[i]
    PROVE  Filling(text, us, q, cur, 0, 0)
<1>0. Len(text) \in Nat /\ DOMAIN text = 1..Len(text)  BY TokensAre
<1>1. p \in 1..Len(text) /\ text[p].sy = "BeginData"
  <2>1. p \in 1..(Len(text) + 1)  BY DEF Placed, Stands
  <2>2. p # Len(text) + 1
    <3>1. Eof.sy # "BeginData"  BY DEF Eof, Token
    <3>  QED  BY <3>1, TokensAre
  <2>3. p \in 1..Len(text)  BY <1>0, <2>1, <2>2
  <2>  QED  BY <2>3, TokensAre
<1>2. p \in Starts(text)
  <2>1. p = 1 => FirstWords(text) # 1  BY DEF Placed
  <2>  QED  BY <1>0, <1>1, <2>1 DEF Starts
<1>3. q \in (p + 1)..(Len(text) + 1) /\ Spaces(text, p + 1, q) /\ TokenAt(text, q).sy # "Eoln"  BY <1>1, PastToken
<1>4. Starts(text) \in SUBSET (1..Len(text)) /\ Before(Starts(text), p) = cur - 1  BY StartsAre DEF Unfilled
<1>5. \A s \in Starts(text) : s < q <=> s <= p
  <2> SUFFICES ASSUME NEW s \in Starts(text)  PROVE s < q <=> s <= p  OBVIOUS
  <2>1. s \in Int /\ p \in Int /\ q \in Int /\ p < q  BY <1>0, <1>1, <1>3, <1>4
  <2>2. s < q /\ s > p => FALSE
    <3> SUFFICES ASSUME s < q, s > p  PROVE FALSE  OBVIOUS
    <3>1. s \in (p + 1)..(q - 1)  BY <2>1
    <3>2. text[s].sy \in {"Comment", "Eoln"}  BY <1>3, <3>1 DEF Spaces
    <3>  QED  BY <3>2 DEF Starts
  <2>  QED  BY <2>1, <2>2
<1>6. Before(Starts(text), q) = cur /\ Nth(text, p) = cur
  <2> DEFINE S == Starts(text)
  <2>1. S \in SUBSET (1..Len(text)) /\ p \in S /\ \A s \in S : s < q <=> s <= p  BY <1>2, <1>4, <1>5
  <2>2. Before(S, p) = cur - 1 /\ Nth(text, p) = Before(S, p) + 1  BY <1>4 DEF Nth
  <2>  HIDE DEF S
  <2>3. Before(S, q) = Before(S, p) + 1  BY <1>0, <2>1, CountOne
  <2>4. Before(S, q) = cur /\ Nth(text, p) = cur  BY <2>2, <2>3
  <2>  QED  BY <2>4 DEF S
<1>7. Done(text, us, q, cur - 1)
  <2> DEFINE n == cur - 1
  <2>1. n \in Int /\ Done(text, ts, p, n) /\ \A i \in 1..n : us[i] = ts[i]  BY DEF Unfilled
  <2>2. \A s \in Starts(text) : s < q /\ Nth(text, s) <= n => s < p
    <3> SUFFICES ASSUME NEW s \in Starts(text), s < q, Nth(text, s) <= n  PROVE s < p  OBVIOUS
    <3>1. s <= p /\ s \in Int /\ p \in Int  BY <1>1, <1>4, <1>5
    <3>2. s # p  BY <1>6
    <3>  QED  BY <3>1, <3>2
  <2>  HIDE DEF n
  <2>3. Done(text, us, q, n)  BY <2>1, <2>2, DoneStays
  <2>  QED  BY <2>3 DEF n
<1>8. Fills(text, us[cur], q, 0, 0, p)
  <2>1. \A k \in p..(q - 1) : text[k].sy # "EndData"
    <3>1. \A k \in p..(q - 1) : k = p \/ k \in (p + 1)..(q - 1)  BY <1>1, <1>3
    <3>  QED  BY <1>1, <1>3, <3>1 DEF Spaces
  <2>2. \A j \in Inside(text, p) : ~(j < q)
    <3> SUFFICES ASSUME NEW j \in Inside(text, p), j < q  PROVE FALSE  OBVIOUS
    <3>1. j \in (p + 1)..(q - 1) /\ text[j].sy \notin {"Eoln", "Comment"}
      <4>1. j \in (p + 1)..Len(text) /\ text[j].sy \notin {"Eoln", "Comment"}  BY DEF Inside
      <4>  QED  BY <1>0, <1>1, <1>3, <4>1
    <3>  QED  BY <1>3, <3>1 DEF Spaces
  <2>3. Before(Inside(text, p), q) = 0
    <3> DEFINE J == Inside(text, p)
    <3>1. J \in SUBSET (1..Len(text)) /\ \A j \in J : ~(j < q)  BY <1>2, <2>2, StartsAre
    <3>  HIDE DEF J
    <3>2. Before(J, q) = 0  BY <1>0, <3>1, CountZero
    <3>  QED  BY <3>2 DEF J
  <2>4. 0 * us[cur].fields + 0 = 0 /\ 0 \in 0..us[cur].fields  OBVIOUS
  <2>  QED  BY <2>1, <2>2, <2>3, <2>4 DEF Fills
<1>9. p < q  BY <1>1, <1>3
<1>  QED  BY <1>2, <1>3, <1>6, <1>7, <1>8, <1>9 DEF Filling

\* Where the next value goes, a full row making place for another: the next cell.
GoesTo(fields, f, r, col, row) ==
    col = (IF f >= fields THEN 0 ELSE f) /\ row = (IF f >= fields THEN r + 1 ELSE r)
NextCell(fields, f, r, col, row) ==
    /\ row * fields + col = r * fields + f /\ col + 1 \in 0..fields
    /\ row * fields + (col + 1) = r * fields + f + 1

LEMMA ToNextCell ==
    ASSUME NEW fields \in Nat, fields > 0, NEW f \in 0..fields, NEW r \in Nat, NEW col, NEW row,
           GoesTo(fields, f, r, col, row)
    PROVE  NextCell(fields, f, r, col, row)
<1> USE DEF GoesTo, NextCell
<1> DEFINE a == r * fields
<1>1. a \in Nat /\ (r + 1) * fields = a + fields  OBVIOUS
<1>2. CASE f >= fields
  <2>1. f = fields /\ col = 0 /\ row * fields = (r + 1) * fields  BY <1>2
  <2> DEFINE b == row * fields
  <2>2. b = a + fields  BY <1>1, <2>1
  <2>  HIDE DEF a, b
  <2>3. b + col = a + f /\ col + 1 \in 0..fields /\ b + (col + 1) = a + f + 1  BY <1>1, <2>1, <2>2
  <2>  QED  BY <2>3 DEF a, b
<1>3. CASE ~(f >= fields)
  <2>1. col = f /\ row = r /\ f + 1 \in 0..fields  BY <1>3
  <2>  HIDE DEF a
  <2>2. a + (f + 1) = a + f + 1  BY <1>1
  <2>3. row * fields = a  BY <2>1 DEF a
  <2>  QED  BY <2>1, <2>2, <2>3 DEF a
<1>  QED  BY <1>2, <1>3

LEMMA ValuePut ==
    ASSUME NEW text, IsTokens(text), NEW s \in Starts(text), NEW p \in 1..Len(text), s < p,
           text[p].sy \notin {"Eoln", "Comment", "EndData"},
           NEW q, q \in (p + 1)..(Len(text) + 1), Spaces(text, p + 1, q),
           NEW t, IsTable(t), t.data # <<>>, NEW f, NEW r \in Nat, Fills(text, t, p, f, r, s),
           NEW col, NEW row, GoesTo(t.fields, f, r, col, row),
           CanSet(t, row, col), NEW u, u = SetData(t, row, col, text[p].val)
    PROVE  Fills(text, u, q, col + 1, row, s)
<1>0. Len(text) \in Nat /\ DOMAIN text = 1..Len(text) /\ s \in 1..Len(text)  BY TokensAre, StartsAre
<1> DEFINE J == Inside(text, s)
           k == row * t.fields + col + 1
<1>1. J \in SUBSET (1..Len(text))  BY StartsAre
<1>2. \A i \in s..(q - 1) : text[i].sy # "EndData"
  <2>1. \A i \in s..(p - 1) : text[i].sy # "EndData"  BY DEF Fills
  <2>2. \A i \in s..(q - 1) : i \in s..(p - 1) \/ i = p \/ i \in (p + 1)..(q - 1)  BY <1>0
  <2>  QED  BY <2>1, <2>2 DEF Spaces
<1>3. p \in J
  <2>1. p \in (s + 1)..Len(text)  BY <1>0
  <2>2. \A i \in s..p : i \in s..(q - 1)  BY <1>0
  <2>3. \A i \in s..p : text[i].sy # "EndData"  BY <1>2, <2>2
  <2>  QED  BY <2>1, <2>3 DEF Inside
<1>4. \A j \in J : j < q <=> j <= p
  <2> SUFFICES ASSUME NEW j \in J  PROVE j < q <=> j <= p  OBVIOUS
  <2>1. j \in Int /\ text[j].sy \notin {"Eoln", "Comment"}  BY <1>0, <1>1 DEF Inside
  <2>2. j \in (p + 1)..(q - 1) => FALSE  BY <2>1 DEF Spaces
  <2>  HIDE DEF J
  <2>  QED  BY <1>0, <2>1, <2>2
<1>5. WithData(t) = t  BY DEF WithData
<1>6. IsValue(text[p].val)  BY TokensAre
<1> DEFINE c == Cell(WithData(t), row, col)
<1>7. /\ u.fields = t.fields /\ u.sets = t.sets /\ DOMAIN u.data = DOMAIN t.data
      /\ k \in DOMAIN t.data /\ u.data[k] = text[p].val
      /\ \A i \in DOMAIN t.data : i # k => u.data[i] = t.data[i]
  <2>1. /\ u.fields = t.fields /\ u.sets = t.sets /\ DOMAIN u.data = DOMAIN t.data
        /\ Cell(t, row, col) \in DOMAIN t.data /\ u.data[Cell(t, row, col)] = text[p].val
        /\ \A i \in DOMAIN t.data : i # Cell(t, row, col) => u.data[i] = t.data[i]
    BY <1>5, <1>6, DataSet
  <2>2. Cell(t, row, col) = k  BY DEF Cell
  <2>  HIDE DEF k
  <2>  QED  BY <2>1, <2>2
<1>8. DOMAIN t.data = 1..Len(t.data) /\ Len(t.data) \in Nat /\ t.fields \in Nat
  BY ValueIs DEF IsTable, IsCells
<1>9. CASE t.fields = 0
  <2>1. ~(u.fields > 0)  BY <1>7, <1>9
  <2>  QED  BY <1>2, <2>1 DEF Fills
<1>10. CASE t.fields # 0
  <2> DEFINE n == r * t.fields + f
  <2>1. t.fields > 0  BY <1>8, <1>10
  <2>2. /\ f \in 0..t.fields /\ Before(J, p) = n
        /\ \A j \in J : j < p => t.data[Before(J, j) + 1] = text[j].val
        /\ \A i \in DOMAIN t.data : i > n => t.data[i] = NoValue
    BY <2>1 DEF Fills
  <2>3. row * t.fields + col = n /\ col + 1 \in 0..t.fields /\ row * t.fields + (col + 1) = n + 1
    <3> DEFINE m == t.fields
    <3>1. m \in Nat /\ m > 0 /\ f \in 0..m /\ GoesTo(m, f, r, col, row)  BY <1>8, <2>1, <2>2
    <3>  HIDE DEF m
    <3>2. NextCell(m, f, r, col, row)  BY <3>1, ToNextCell
    <3>  QED  BY <3>2 DEF n, m, NextCell
  <2>4. k = n + 1
    <3> DEFINE a == row * t.fields
    <3>1. a + col = n /\ a \in Int /\ col \in Int
      <4>1. col \in 0..t.fields /\ row \in 0..t.sets  BY <1>5 DEF CanSet
      <4>2. row \in Int /\ t.fields \in Int /\ col \in Int  BY <1>8, <4>1 DEF IsTable
      <4>  HIDE DEF n
      <4>  QED  BY <2>3, <4>2
    <3>2. k = a + col + 1  OBVIOUS
    <3>  HIDE DEF a, k, n
    <3>  QED  BY <3>1, <3>2
  <2>5. n \in Nat
    <3>  HIDE DEF J, n
    <3>  QED  BY <1>0, <1>1, <2>2, CountType
  <2>6. Before(J, q) = n + 1
    <3>1. p \in J /\ Before(J, p) = n /\ \A j \in J : j < q <=> j <= p  BY <1>3, <1>4, <2>2
    <3>  HIDE DEF J, n
    <3>  QED  BY <1>0, <1>1, <3>1, CountOne
  <2>7. \A j \in J : j < q => u.data[Before(J, j) + 1] = text[j].val
    <3> SUFFICES ASSUME NEW j \in J, j < q  PROVE u.data[Before(J, j) + 1] = text[j].val  OBVIOUS
    <3>1. j <= p /\ j \in Int /\ p \in Int  BY <1>1, <1>4
    <3>2. CASE j = p
      <4>1. Before(J, j) + 1 = k  BY <2>2, <2>4, <3>2
      <4>  QED  BY <1>7, <3>2, <4>1
    <3>3. CASE j < p
      <4>1. Before(J, j) \in Nat /\ Before(J, j) < n
        <5>1. j \in J /\ p \in Int /\ Before(J, p) = n  BY <2>2, <3>1
        <5>  HIDE DEF J, n
        <5>  QED  BY <1>0, <1>1, <3>3, <5>1, CountType, CountGrows
      <4>2. t.data[Before(J, j) + 1] = text[j].val  BY <2>2, <3>3
      <4> DEFINE b == Before(J, j)
      <4>3. b \in Nat /\ b < n /\ t.data[b + 1] = text[j].val  BY <4>1, <4>2
      <4>4. b + 1 \in DOMAIN t.data /\ b + 1 # k
        <5>1. n + 1 \in 1..Len(t.data)  BY <1>7, <1>8, <2>4
        <5>  HIDE DEF b, n, k
        <5>  QED  BY <1>8, <2>4, <2>5, <4>3, <5>1
      <4>5. u.data[b + 1] = t.data[b + 1]
        <5>  HIDE DEF b, k
        <5>  QED  BY <1>7, <4>4
      <4>  QED  BY <4>3, <4>5
    <3>  QED  BY <3>1, <3>2, <3>3
  <2>8. \A i \in DOMAIN u.data : i > n + 1 => u.data[i] = NoValue
    <3> SUFFICES ASSUME NEW i \in DOMAIN u.data, i > n + 1  PROVE u.data[i] = NoValue  OBVIOUS
    <3>1. i \in DOMAIN t.data /\ i \in Int  BY <1>7, <1>8
    <3>2. i > n /\ i # k
      <4>  HIDE DEF n, k
      <4>  QED  BY <2>4, <2>5, <3>1
    <3>  HIDE DEF k, n
    <3>  QED  BY <1>7, <2>2, <3>1, <3>2
  <2>9. row * u.fields + (col + 1) = n + 1 /\ col + 1 \in 0..u.fields  BY <1>7, <2>3
  <2>  HIDE DEF n, k
  <2>  QED  BY <1>2, <2>6, <2>7, <2>8, <2>9 DEF Fills
<1>  QED  BY <1>9, <1>10

LEMMA ValueTaken ==
    ASSUME NEW text, IsTokens(text), NEW ts, NEW us, NEW cur \in Nat \ {0},
           NEW p \in 1..Len(text), NEW f, NEW r, Filling(text, ts, p, cur, f, r),
           text[p].sy \notin {"BeginData", "EndData", "Eoln", "Comment"},
           NEW q, q = SkipEoln(text, InSymbol(text, p)),
           IsTable(ts[cur]), NEW col, NEW row, GoesTo(ts[cur].fields, f, r, col, row),
           CanSet(ts[cur], row, col), us[cur] = SetData(ts[cur], row, col, text[p].val),
           \A i \in 1..(cur - 1) : us[i] = ts[i]
    PROVE  Filling(text, us, q, cur, col + 1, row)
<1>0. Len(text) \in Nat /\ Starts(text) \in SUBSET (1..Len(text))  BY StartsAre
<1>1. q \in (p + 1)..(Len(text) + 1) /\ Stands(text, q) /\ Spaces(text, p + 1, q) /\ TokenAt(text, q).sy # "Eoln"
  BY PastToken
<1>2. Onward(text, p, q)
  <2>1. \A k \in p..(q - 1) : k = p \/ k \in (p + 1)..(q - 1)  BY <1>0, <1>1
  <2>2. \A k \in p..(q - 1) : text[k].sy # "BeginData"  BY <1>1, <2>1 DEF Spaces
  <2>3. p \in 1..(Len(text) + 1) /\ q \in p..(Len(text) + 1)  BY <1>0, <1>1
  <2>  QED  BY <1>1, <2>2, <2>3 DEF Onward
<1>3. Before(Starts(text), q) = cur /\ \A s \in Starts(text) : s < q => s < p
  BY <1>2, StartsPassed DEF Filling
<1>4. Done(text, us, q, cur - 1)
  <2> DEFINE n == cur - 1
  <2>1. n \in Int /\ Done(text, ts, p, n) /\ \A i \in 1..n : us[i] = ts[i]  BY DEF Filling
  <2>  HIDE DEF n
  <2>2. Done(text, us, q, n)  BY <1>3, <2>1, DoneStays
  <2>  QED  BY <2>2 DEF n
<1>5. ts[cur].data # <<>> /\ f \in Nat /\ r \in Nat  BY DEF Filling
<1>6. PICK s \in Starts(text) : s < p /\ Nth(text, s) = cur /\ Fills(text, ts[cur], p, f, r, s)
  BY DEF Filling
<1>7. Fills(text, us[cur], q, col + 1, row, s) /\ us[cur].data # <<>>
  <2> DEFINE t == ts[cur]
             u == us[cur]
  <2>1. /\ IsTable(t) /\ t.data # <<>> /\ GoesTo(t.fields, f, r, col, row) /\ CanSet(t, row, col)
        /\ u = SetData(t, row, col, text[p].val) /\ Fills(text, t, p, f, r, s) /\ s < p
    BY <1>5, <1>6
  <2>2. text[p].sy \notin {"Eoln", "Comment", "EndData"} /\ IsValue(text[p].val)  BY TokensAre
  <2>  HIDE DEF t, u
  <2>3. Fills(text, u, q, col + 1, row, s)  BY <1>1, <1>5, <2>1, <2>2, ValuePut
  <2>4. u.data # <<>>  BY <2>1, <2>2, DataSet
  <2>  QED  BY <2>3, <2>4 DEF u
<1>8. col + 1 \in Nat /\ row \in Nat
  <2>1. IsTable(WithData(ts[cur]))  BY DataMade DEF CanSet
  <2>2. WithData(ts[cur]).sets \in Nat /\ WithData(ts[cur]).fields \in Nat  BY <2>1 DEF IsTable
  <2>  QED  BY <2>2 DEF CanSet
<1>9. s < q  BY <1>0, <1>1, <1>6
<1>  QED  BY <1>1, <1>3, <1>4, <1>6, <1>7, <1>8, <1>9 DEF Filling

\* A section that ends with all its rows is done.
LEMMA SectionDone ==
    ASSUME NEW text, IsTokens(text), NEW ts, NEW cur \in Nat \ {0}, NEW p, Stands(text, p),
           NEW f, NEW r, Filling(text, ts, p, cur, f, r), IsTable(ts[cur]), r + 1 = ts[cur].sets,
           TokenAt(text, p).sy \in {"EndData", "Eof"}
    PROVE  Done(text, ts, p, cur)
<1>0. Len(text) \in Nat /\ DOMAIN text = 1..Len(text) /\ p \in 1..(Len(text) + 1)  BY TokensAre DEF Stands
<1>1. PICK s \in Starts(text) : s < p /\ Nth(text, s) = cur /\ Fills(text, ts[cur], p, f, r, s)
  BY DEF Filling
<1> DEFINE t == ts[cur]
           J == Inside(text, s)
<1>2. J \in SUBSET (1..Len(text)) /\ s \in 1..Len(text)  BY <1>1, StartsAre
<1>3. \A j \in J : j < p
  <2> SUFFICES ASSUME NEW j \in J, ~(j < p)  PROVE FALSE  OBVIOUS
  <2>1. j \in 1..Len(text) /\ p \in s..j  BY <1>0, <1>1, <1>2
  <2>2. p \in 1..Len(text)  BY <1>0, <1>2, <2>1
  <2>3. TokenAt(text, p) = text[p] /\ text[p].sy # "Eof"  BY <2>2, TokensAre
  <2>4. text[p].sy = "EndData"  BY <2>3
  <2>  QED  BY <2>1, <2>4 DEF Inside
<1>4. Holds(text, t, s)
  <2> SUFFICES ASSUME t.fields > 0
               PROVE  /\ Cardinality(J) <= t.fields * t.sets
                      /\ \A j \in J : t.data[Before(J, j) + 1] = text[j].val
                      /\ \A n \in DOMAIN t.data : n > Cardinality(J) => t.data[n] = NoValue
    BY DEF Holds
  <2> DEFINE n == r * t.fields + f
  <2>1. /\ f \in 0..t.fields /\ Before(J, p) = n
        /\ \A j \in J : j < p => t.data[Before(J, j) + 1] = text[j].val
        /\ \A i \in DOMAIN t.data : i > n => t.data[i] = NoValue
    BY <1>1 DEF Fills
  <2>2. Cardinality(J) = n
    <3>1. Before(J, p) = n  BY <2>1
    <3>  HIDE DEF J, n
    <3>  QED  BY <1>0, <1>2, <1>3, <3>1, CountAll
  <2>3. n <= t.fields * t.sets
    <3> DEFINE m == t.fields
               a == r * m
    <3>1. m \in Nat /\ r \in Nat /\ t.sets = r + 1 /\ f <= m /\ f \in Int  BY <2>1 DEF IsTable, Filling
    <3>2. m * t.sets = a + m /\ a \in Int
      <4> DEFINE ns == t.sets
      <4>1. ns = r + 1 /\ m \in Nat /\ r \in Nat  BY <3>1
      <4>  HIDE DEF m, ns
      <4>2. m * (r + 1) = r * m + m /\ r * m \in Int  BY <4>1
      <4>3. m * ns = r * m + m  BY <4>1, <4>2
      <4>  QED  BY <4>2, <4>3 DEF ns
    <3>3. n = a + f  OBVIOUS
    <3>  HIDE DEF a, n
    <3>  QED  BY <3>1, <3>2, <3>3
  <2>  HIDE DEF n
  <2>4. \A j \in J : t.data[Before(J, j) + 1] = text[j].val  BY <1>3, <2>1
  <2>  QED  BY <2>1, <2>2, <2>3, <2>4
<1> SUFFICES ASSUME NEW z \in Starts(text), z < p, Nth(text, z) <= cur
             PROVE  Holds(text, ts[Nth(text, z)], z)
  BY DEF Done
<1>5. CASE Nth(text, z) = cur
  <2> DEFINE S == Starts(text)
  <2>1. S \in SUBSET (1..Len(text)) /\ z \in S /\ s \in S  BY StartsAre
  <2>2. Before(S, z) + 1 = Before(S, s) + 1  BY <1>1, <1>5 DEF Nth
  <2>  HIDE DEF S
  <2>3. Before(S, z) \in Nat /\ Before(S, s) \in Nat  BY <1>0, <2>1, CountType
  <2>4. Before(S, z) = Before(S, s)
    <3> DEFINE a == Before(S, z)
               b == Before(S, s)
    <3>1. a \in Nat /\ b \in Nat /\ a + 1 = b + 1  BY <2>2, <2>3
    <3>  HIDE DEF a, b
    <3>2. a = b  BY <3>1
    <3>  QED  BY <3>2 DEF a, b
  <2>5. z = s  BY <1>0, <2>1, <2>4, CountApart
  <2>  QED  BY <1>4, <1>5, <2>5
<1>6. CASE Nth(text, z) # cur
  <2>1. Nth(text, z) \in Nat /\ Nth(text, z) <= cur - 1  BY <1>6, NthIs
  <2>  QED  BY <2>1 DEF Filling, Done
<1>  QED  BY <1>5, <1>6

-----------------------------------------------------------------------------
(* The handlers. *)

\* What holds of a document as it is loaded, step by step.
LEMMA StillLoading ==
    ASSUME CgatsInv, source' = source, edits' = edits, phase' = "loading",
           field' \in Nat, section' \in {"body", "format", "data"}, DocTables(tables'), current' \in 1..Len(tables'),
           FieldCount \in DOMAIN keywords' => keywords'[FieldCount] # "Pair", LoadInv'
    PROVE  CgatsInv'
BY DEF CgatsInv, CellsAreTheValues

LEMMA LoadFailed == ASSUME CgatsInv, LoadFails  PROVE CgatsInv'
BY DEF CgatsInv, LoadFails, CellsAreTheValues, docVars, parseVars

LEMMA Loads ==
    ASSUME CgatsInv, phase = "loading"
    PROVE  /\ IsTokens(source) /\ DocTables(tables) /\ Placed(source, tables, cursor, current)
           /\ Stands(source, cursor) /\ cursor \in 1..(Len(source) + 1) /\ cursor \in Int /\ Len(source) \in Nat
           /\ current \in Nat \ {0} /\ current = Len(tables) /\ current \in 1..Len(tables) /\ IsTable(Table)
           /\ section = "body" => Between(source, tables, cursor, current)
           /\ section = "format" => Unfilled(source, tables, cursor, current)
           /\ section = "data" => Filling(source, tables, cursor, current, field, set)
           /\ Sym # "Eof" => cursor \in 1..Len(source) /\ Tok = source[cursor] /\ IsValue(Tok.val)
<1>1. IsTokens(source) /\ DocTables(tables) /\ LoadInv  BY DEF CgatsInv
<1>2. Placed(source, tables, cursor, current)  BY <1>1 DEF LoadInv
<1>3. Stands(source, cursor) /\ current \in Nat \ {0} /\ current = Len(tables)  BY <1>2 DEF Placed
<1>4. Len(source) \in Nat /\ cursor \in 1..(Len(source) + 1)  BY <1>1, <1>3, TokensAre DEF Stands
<1>5. current \in 1..Len(tables) /\ DOMAIN tables = 1..Len(tables)  BY <1>1, <1>3, ValueIs DEF DocTables
<1>6. IsTable(Table)  BY <1>1, <1>5 DEF DocTables, Table
<1>7. Sym # "Eof" => cursor \in 1..Len(source) /\ Tok = source[cursor] /\ IsValue(Tok.val)
  <2> SUFFICES ASSUME Sym # "Eof"  PROVE cursor \in 1..Len(source) /\ Tok = source[cursor] /\ IsValue(Tok.val)
    OBVIOUS
  <2>1. cursor # Len(source) + 1
    <3>1. Eof.sy = "Eof"  BY DEF Eof, Token
    <3>  QED  BY <1>1, <3>1, TokensAre DEF Sym, Tok
  <2>2. cursor \in 1..Len(source)  BY <1>4, <2>1
  <2>  QED  BY <1>1, <2>2, TokensAre DEF Tok
<1>8. cursor \in Int  BY <1>4
<1>  QED  BY <1>1, <1>2, <1>3, <1>4, <1>5, <1>6, <1>7, <1>8 DEF LoadInv

\* Outside a data section the last table stays without data.
LEMMA UnfilledGoesOn ==
    ASSUME CgatsInv, phase = "loading", Unfilled(source, tables, cursor, current),
           source' = source, edits' = edits, phase' = "loading", section' \in {"body", "format"},
           current' = current, field' \in Nat, Onward(source, cursor, cursor'),
           NEW t, IsTable(t), t.data = <<>>, tables' = Edited(t),
           FieldCount \in DOMAIN keywords' => keywords'[FieldCount] # "Pair"
    PROVE  CgatsInv'
<1> DEFINE us == Edited(t)
           q == cursor'
<1>1. /\ IsTokens(source) /\ DocTables(tables) /\ Placed(source, tables, cursor, current)
      /\ current \in Nat \ {0} /\ current = Len(tables) /\ current \in 1..Len(tables) /\ Len(source) \in Nat
  BY Loads
<1>2. /\ DocTables(us) /\ Len(us) = Len(tables) /\ us[current] = t
      /\ \A i \in 1..Len(tables) : i # current => us[i] = tables[i]
  BY <1>1, TableEdited
<1>3. tables' = us /\ Onward(source, cursor, q)  OBVIOUS
<1>  HIDE DEF us, q
<1>4. us[current].data = <<>> /\ \A i \in 1..(current - 1) : us[i] = tables[i]  BY <1>1, <1>2
<1>5. Unfilled(source, us, q, current)  BY <1>1, <1>3, <1>4, UnfilledStays
<1>6. Placed(source, us, q, current)  BY <1>1, <1>2, <1>3, <1>4, PlacedOn
<1>7. q \in Int  BY <1>1, <1>3 DEF Onward
<1>8. Between(source, us, q, current)  BY <1>1, <1>5, <1>7, UnfilledBetween
<1>9. LoadInv'
  <2>1. cursor' = q  BY DEF q
  <2>2. section' # "data"  OBVIOUS
  <2>  QED  BY <1>3, <1>5, <1>6, <1>8, <2>1, <2>2 DEF LoadInv
<1>10. DocTables(tables') /\ current' \in 1..Len(tables')  BY <1>1, <1>2, <1>3
<1>11. section' \in {"body", "format", "data"}  OBVIOUS
<1>  QED  BY <1>9, <1>10, <1>11, StillLoading

LEMMA SameTables ==
    ASSUME DocTables(tables), current \in 1..Len(tables)
    PROVE  tables = Edited(Table)
<1>1. Len(tables) \in Nat /\ DOMAIN tables = 1..Len(tables) /\ tables \in Seq(Range(tables))  BY ValueIs DEF DocTables
<1>2. tables = [i \in 1..Len(tables) |-> tables[i]]  BY <1>1
<1>3. Edited(Table) = [i \in 1..Len(tables) |-> IF i = current THEN tables[current] ELSE tables[i]]
  BY <1>1 DEF Edited, Table
<1>4. [i \in 1..Len(tables) |-> IF i = current THEN tables[current] ELSE tables[i]]
        = [i \in 1..Len(tables) |-> tables[i]]
  OBVIOUS
<1>  QED  BY <1>2, <1>3, <1>4

LEMMA InBodyUnfilled ==
    ASSUME CgatsInv, InBody, Sym \notin {"SynError", "Eof"}
    PROVE  Unfilled(source, tables, cursor, current) /\ phase = "loading" /\ Table.data = <<>>
<1>1. phase = "loading" /\ section = "body"  BY DEF InBody, Loading
<1>2. TokenAt(source, cursor).sy \notin {"SynError", "Eof"}  BY DEF Sym, Tok
<1>3. /\ IsTokens(source) /\ cursor \in Int /\ current \in Nat \ {0}
      /\ Between(source, tables, cursor, current)
  BY <1>1, Loads
<1>4. Unfilled(source, tables, cursor, current)  BY <1>2, <1>3, BetweenUnfilled
<1>  QED  BY <1>1, <1>4 DEF Unfilled, Table

\* A token and its value: two tokens, and the ends of lines.
LEMMA ValueOn ==
    ASSUME CgatsInv, phase = "loading", Sym # "BeginData", HasValue(ValueToken)
    PROVE  Onward(source, cursor, ToNextLine(Following)) /\ IsValue(ValueToken.val)
<1>1. IsTokens(source) /\ Stands(source, cursor) /\ TokenAt(source, cursor).sy # "BeginData"
  BY Loads DEF Sym, Tok
<1>2. Onward(source, cursor, Following)  BY <1>1, OneTokenOn DEF Following
<1>3. Stands(source, Following) /\ TokenAt(source, Following).sy \notin {"BeginData", "Eof"}
  BY <1>2 DEF Onward, HasValue, ValueToken
<1>4. Onward(source, Following, ToNextLine(Following))  BY <1>1, <1>3, LineOn DEF ToNextLine
<1>5. Onward(source, cursor, ToNextLine(Following))  BY <1>1, <1>2, <1>4, OnwardThrough
<1>6. IsValue(ValueToken.val)
  <2>1. Eof.sy = "Eof"  BY DEF Eof, Token
  <2>2. Following # Len(source) + 1  BY <1>1, <1>3, <2>1, TokensAre
  <2>3. Following \in 1..Len(source)  BY <1>1, <1>3, <2>2, TokensAre DEF Stands
  <2>  QED  BY <1>1, <2>3, TokensAre DEF ValueToken
<1>  QED  BY <1>5, <1>6

LEMMA DeclareInv == ASSUME CgatsInv, Declare  PROVE CgatsInv'
<1>1. /\ InBody /\ Sym = "Keyword" /\ HasValue(ValueToken) /\ cursor' = ToNextLine(Following)
      /\ source' = source /\ edits' = edits /\ phase' = phase /\ section' = section
      /\ tables' = tables /\ current' = current /\ field' = field
  BY DEF Declare, NextStatement, Unchanged
<1>2. Sym \notin {"SynError", "Eof", "BeginData"}  BY <1>1
<1>3. Unfilled(source, tables, cursor, current) /\ phase = "loading" /\ Table.data = <<>>
  BY <1>1, <1>2, InBodyUnfilled
<1>4. Onward(source, cursor, cursor')  BY <1>1, <1>2, <1>3, ValueOn
<1>5. FieldCount \in DOMAIN keywords' => keywords'[FieldCount] # "Pair"
  <2>1. FieldCount \in DOMAIN keywords => keywords[FieldCount] # "Pair"  BY DEF CgatsInv
  <2> DEFINE name == ValueToken.val
  <2>2. keywords' = IF Len(name) # 1 THEN keywords
                    ELSE [k \in DOMAIN keywords \cup {name[1]} |->
                            IF k = name[1] THEN "Uncooked" ELSE keywords[k]]
    BY DEF Declare
  <2>  HIDE DEF name
  <2>3. CASE Len(name) # 1  BY <2>1, <2>2, <2>3
  <2>4. CASE Len(name) = 1
    <3>1. keywords' = [k \in DOMAIN keywords \cup {name[1]} |-> IF k = name[1] THEN "Uncooked" ELSE keywords[k]]
      BY <2>2, <2>4
    <3>2. FieldCount = name[1] => keywords'[FieldCount] = "Uncooked"  BY <3>1
    <3>3. FieldCount \in DOMAIN keywords' /\ FieldCount # name[1] =>
            FieldCount \in DOMAIN keywords /\ keywords'[FieldCount] = keywords[FieldCount]
      BY <3>1
    <3>  QED  BY <2>1, <3>2, <3>3
  <2>  QED  BY <2>3, <2>4
<1>6. IsTable(Table) /\ tables' = Edited(Table)  BY <1>1, <1>3, Loads, SameTables
<1>7. section' \in {"body", "format"} /\ field' \in Nat  BY <1>1 DEF InBody, CgatsInv
<1>  QED  BY <1>1, <1>3, <1>4, <1>5, <1>6, <1>7, UnfilledGoesOn

LEMMA DeclareSampleInv == ASSUME CgatsInv, DeclareSample  PROVE CgatsInv'
<1>1. /\ InBody /\ Sym = "SampleId" /\ HasValue(ValueToken) /\ cursor' = ToNextLine(Following)
      /\ source' = source /\ edits' = edits /\ phase' = phase /\ section' = section
      /\ tables' = tables /\ current' = current /\ keywords' = keywords /\ field' = field
  BY DEF DeclareSample, NextStatement, Unchanged
<1>2. Sym \notin {"SynError", "Eof", "BeginData"}  BY <1>1
<1>3. Unfilled(source, tables, cursor, current) /\ phase = "loading" /\ Table.data = <<>>
  BY <1>1, <1>2, InBodyUnfilled
<1>4. Onward(source, cursor, cursor')  BY <1>1, <1>2, <1>3, ValueOn
<1>5. FieldCount \in DOMAIN keywords' => keywords'[FieldCount] # "Pair"  BY <1>1 DEF CgatsInv
<1>6. IsTable(Table) /\ tables' = Edited(Table)  BY <1>1, <1>3, Loads, SameTables
<1>7. section' \in {"body", "format"} /\ field' \in Nat  BY <1>1 DEF InBody, CgatsInv
<1>  QED  BY <1>1, <1>3, <1>4, <1>5, <1>6, <1>7, UnfilledGoesOn

LEMMA BlankLinesInv == ASSUME CgatsInv, BlankLines  PROVE CgatsInv'
<1>1. /\ InBody /\ Sym = "Eoln" /\ cursor' = SkipEoln(source, cursor)
      /\ source' = source /\ edits' = edits /\ phase' = phase /\ section' = section
      /\ tables' = tables /\ current' = current /\ keywords' = keywords /\ field' = field
  BY DEF BlankLines, Unchanged, docVars
<1>2. Sym \notin {"SynError", "Eof"}  BY <1>1
<1>3. Unfilled(source, tables, cursor, current) /\ phase = "loading" /\ Table.data = <<>>
  BY <1>1, <1>2, InBodyUnfilled
<1>4. Onward(source, cursor, cursor')  BY <1>1, <1>3, Loads, LinesOn
<1>5. FieldCount \in DOMAIN keywords' => keywords'[FieldCount] # "Pair"  BY <1>1 DEF CgatsInv
<1>6. IsTable(Table) /\ tables' = Edited(Table)  BY <1>1, <1>3, Loads, SameTables
<1>7. section' \in {"body", "format"} /\ field' \in Nat  BY <1>1 DEF InBody, CgatsInv
<1>  QED  BY <1>1, <1>3, <1>4, <1>5, <1>6, <1>7, UnfilledGoesOn

LEMMA HeaderOnly ==
    ASSUME NEW t, IsTable(t), NEW h  PROVE [t EXCEPT !.header = h].data = t.data
<1>1. [t EXCEPT !.header = h] = [sheet |-> t.sheet, fields |-> t.fields, sets |-> t.sets, id |-> t.id,
                                 header |-> h, format |-> t.format, data |-> t.data]
  BY DEF IsTable
<1>  QED  BY <1>1

LEMMA StatementInv == ASSUME CgatsInv, Statement  PROVE CgatsInv'
<1> DEFINE name == Tok.val[1]
           as == IF ValueToken.sy = "Str" THEN "Stringify" ELSE "Uncooked"
           v == ValueToken.val
           t == [Table EXCEPT !.header = AddToList(@, name, NoValue, v, as)]
           u == [Table EXCEPT !.header = WithPairs(@, name, v)]
<1>1. /\ InBody /\ Sym = "Ident" /\ HasValue(ValueToken) /\ cursor' = ToNextLine(Following)
      /\ source' = source /\ edits' = edits /\ phase' = phase /\ section' = section
      /\ current' = current /\ field' = field
  BY DEF Statement, NextStatement, Unchanged
<1>2. Sym \notin {"SynError", "Eof", "BeginData"}  BY <1>1
<1>3. Unfilled(source, tables, cursor, current) /\ phase = "loading" /\ Table.data = <<>>
  BY <1>1, <1>2, InBodyUnfilled
<1>4. Onward(source, cursor, cursor') /\ IsValue(v)  BY <1>1, <1>2, <1>3, ValueOn
<1>5. IsTable(Table)  BY <1>3, Loads
<1>6. FieldCount \in DOMAIN keywords => keywords[FieldCount] # "Pair"  BY DEF CgatsInv
<1>7. keywords' = [k \in DOMAIN keywords \cup {name} |-> WrittenAs(k)]  BY DEF Statement
<1>8. WrittenAs(FieldCount) # "Pair"  BY <1>6 DEF WrittenAs
<1>9. FieldCount \in DOMAIN keywords' => keywords'[FieldCount] # "Pair"
  <2>  HIDE DEF name
  <2>  QED  BY <1>7, <1>8
<1>10. section' \in {"body", "format"} /\ phase' = "loading" /\ field' \in Nat  BY <1>1, <1>3 DEF InBody, CgatsInv
<1>11. \/ ~Refused(Table.header, name, NoValue) /\ tables' = Edited(t)
       \/ WrittenAs(name) = "Pair" /\ PairsOf(v) # <<>> /\ tables' = Edited(u)
  BY DEF Statement
<1>12. CASE ~Refused(Table.header, name, NoValue) /\ tables' = Edited(t)
  <2>1. as \in Ways  BY DEF Ways
  <2>2. t.data = <<>>
    <3>1. t = [Table EXCEPT !.header = AddToList(Table.header, name, NoValue, v, as)]  BY <1>5 DEF IsTable
    <3>  QED  BY <1>3, <1>5, <3>1, HeaderOnly
  <2>3. IsTable(t)
    <3> DEFINE z == Table
    <3>1. IsTable(z) /\ ~Refused(z.header, name, NoValue)  BY <1>5, <1>12
    <3>  HIDE DEF name, as, v, z
    <3>2. IsTable([z EXCEPT !.header = AddToList(@, name, NoValue, v, as)])  BY <1>4, <2>1, <3>1, PropertyAdded
    <3>  QED  BY <3>2 DEF z
  <2>  HIDE DEF t
  <2>  QED  BY <1>1, <1>3, <1>4, <1>9, <1>10, <1>12, <2>2, <2>3, UnfilledGoesOn
<1>13. CASE WrittenAs(name) = "Pair" /\ PairsOf(v) # <<>> /\ tables' = Edited(u)
  <2>1. name # FieldCount  BY <1>8, <1>13
  <2>2. u.data = <<>>
    <3>1. u = [Table EXCEPT !.header = WithPairs(Table.header, name, v)]  BY <1>5 DEF IsTable
    <3>  QED  BY <1>3, <1>5, <3>1, HeaderOnly
  <2>3. IsTable(u)
    <3> DEFINE z == Table
    <3>1. IsTable(z)  BY <1>5
    <3>2. PairsOf(v) # <<>>  BY <1>13
    <3>  HIDE DEF name, as, v, z
    <3>3. IsTable([z EXCEPT !.header = WithPairs(@, name, v)])  BY <2>1, <3>1, <3>2, PairsAdded
    <3>  QED  BY <3>3 DEF z
  <2>  HIDE DEF u
  <2>  QED  BY <1>1, <1>3, <1>4, <1>9, <1>10, <1>13, <2>2, <2>3, UnfilledGoesOn
<1>  QED  BY <1>11, <1>12, <1>13

LEMMA BeginFormatInv == ASSUME CgatsInv, BeginFormat  PROVE CgatsInv'
<1>1. /\ InBody /\ Sym = "BeginFormat" /\ cursor' = SkipEoln(source, Following) /\ section' = "format"
      /\ source' = source /\ edits' = edits /\ phase' = phase
      /\ tables' = Edited(Table) /\ current' = current /\ keywords' = keywords /\ field' = 0
  BY DEF BeginFormat, Enter, Unchanged
<1>2. Sym \notin {"SynError", "Eof"} /\ TokenAt(source, cursor).sy # "BeginData"  BY <1>1 DEF Sym, Tok
<1>3. Unfilled(source, tables, cursor, current) /\ phase = "loading" /\ Table.data = <<>>
  BY <1>1, <1>2, InBodyUnfilled
<1>4. Onward(source, cursor, cursor')  BY <1>1, <1>2, <1>3, Loads, LineOn DEF Following
<1>5. FieldCount \in DOMAIN keywords' => keywords'[FieldCount] # "Pair"  BY <1>1 DEF CgatsInv
<1>6. IsTable(Table)  BY <1>3, Loads
<1>7. section' \in {"body", "format"} /\ field' \in Nat  BY <1>1 DEF CgatsInv
<1>  QED  BY <1>1, <1>3, <1>4, <1>5, <1>6, <1>7, UnfilledGoesOn

LEMMA LabelInv == ASSUME CgatsInv, Label  PROVE CgatsInv'
<1> DEFINE w == Formatted(Table)
           t == [w EXCEPT !.format[field + 1] = Tok.val]
<1>1. /\ phase = "loading" /\ section = "format" /\ Sym = "Ident" /\ CanFormat(Table) /\ field < w.fields
      /\ cursor' = ToNextLine(cursor) /\ section' = section
      /\ source' = source /\ edits' = edits /\ phase' = phase
      /\ tables' = Edited(t) /\ current' = current /\ keywords' = keywords /\ field' = field + 1
  BY DEF Label, Loading, Unchanged
<1>2. Sym # "Eof" /\ TokenAt(source, cursor).sy # "BeginData"  BY <1>1 DEF Sym, Tok
<1>3. Unfilled(source, tables, cursor, current) /\ Table.data = <<>> /\ IsTable(Table) /\ IsValue(Tok.val)
  BY <1>1, <1>2, Loads DEF Unfilled, Table
<1>4. Onward(source, cursor, cursor')  BY <1>1, <1>2, Loads, LineOn DEF ToNextLine
<1>5. FieldCount \in DOMAIN keywords' => keywords'[FieldCount] # "Pair"  BY <1>1 DEF CgatsInv
<1>6. IsTable(w) /\ w.data = <<>> /\ w.format # <<>>  BY <1>1, <1>3, FormatMade
<1>7. field \in Nat  BY <1>1 DEF CgatsInv
<1>8. IsTable(t) /\ t.data = <<>>
  <2>1. w.fields \in Nat  BY <1>6 DEF IsTable
  <2>2. field + 1 \in 1..(w.fields + 1)  BY <1>1, <1>7, <2>1
  <2>  HIDE DEF w
  <2>  QED  BY <1>3, <1>6, <2>2, LabelPut
<1>9. section' \in {"body", "format"} /\ field' \in Nat  BY <1>1, <1>7
<1>  HIDE DEF t, w
<1>  QED  BY <1>1, <1>3, <1>4, <1>5, <1>8, <1>9, UnfilledGoesOn

LEMMA EndFormatInv == ASSUME CgatsInv, EndFormat  PROVE CgatsInv'
<1>1. /\ phase = "loading" /\ section = "format"
      /\ cursor' = PastEnd("EndFormat") /\ section' = "body"
      /\ source' = source /\ edits' = edits /\ phase' = phase
      /\ tables' = tables /\ current' = current /\ keywords' = keywords /\ field' = field
  BY DEF EndFormat, Loading, Unchanged, docVars
<1>2. "EndFormat" # "BeginData"  OBVIOUS
<1>3. Unfilled(source, tables, cursor, current) /\ Table.data = <<>> /\ IsTable(Table)
  BY <1>1, Loads DEF Unfilled, Table
<1>4. Onward(source, cursor, cursor')
  <2>1. IsTokens(source) /\ Stands(source, cursor)  BY <1>1, Loads
  <2>2. Onward(source, cursor, PastEnd("EndFormat"))  BY <1>2, <2>1, EndOn DEF PastEnd
  <2>  QED  BY <1>1, <2>2
<1>5. FieldCount \in DOMAIN keywords' => keywords'[FieldCount] # "Pair"  BY <1>1 DEF CgatsInv
<1>6. tables' = Edited(Table)  BY <1>1, Loads, SameTables
<1>7. section' \in {"body", "format"} /\ field' \in Nat  BY <1>1 DEF CgatsInv
<1>  QED  BY <1>1, <1>3, <1>4, <1>5, <1>6, <1>7, UnfilledGoesOn

\* A section of data goes on, or begins: the last table has data.
LEMMA FillingGoesOn ==
    ASSUME CgatsInv, phase = "loading",
           source' = source, edits' = edits, phase' = "loading", section' = "data", field' \in Nat,
           current' = current, keywords' = keywords, Stands(source, cursor'), cursor' > cursor,
           NEW t, IsTable(t), tables' = Edited(t), Filling(source, tables', cursor', current, field', set')
    PROVE  CgatsInv'
<1> DEFINE us == Edited(t)
<1>1. /\ IsTokens(source) /\ DocTables(tables) /\ Placed(source, tables, cursor, current)
      /\ current \in Nat \ {0} /\ current = Len(tables) /\ current \in 1..Len(tables)
      /\ cursor \in 1..(Len(source) + 1) /\ Len(source) \in Nat
  BY Loads
<1>2. /\ DocTables(us) /\ Len(us) = Len(tables)
      /\ \A i \in 1..Len(tables) : i # current => us[i] = tables[i]
  BY <1>1, TableEdited
<1>3. tables' = us  OBVIOUS
<1>  HIDE DEF us
<1>4. \A i \in 1..(current - 1) : us[i] = tables[i]  BY <1>1, <1>2
<1>5. \A i \in 1..(current - 1) : us[i].data # <<>>  BY <1>1, <1>4 DEF Placed
<1>6. cursor' > 1
  <2>1. cursor' \in 1..(Len(source) + 1)  BY DEF Stands
  <2>  QED  BY <1>1, <2>1
<1>7. Placed(source, us, cursor', current)  BY <1>1, <1>2, <1>5, <1>6 DEF Placed
<1>8. LoadInv'  BY <1>3, <1>7 DEF LoadInv
<1>9. DocTables(tables') /\ current' \in 1..Len(tables')  BY <1>1, <1>2, <1>3
<1>10. FieldCount \in DOMAIN keywords' => keywords'[FieldCount] # "Pair"  BY DEF CgatsInv
<1>11. section' \in {"body", "format", "data"}  OBVIOUS
<1>  QED  BY <1>8, <1>9, <1>10, <1>11, StillLoading

LEMMA BeginDataInv == ASSUME CgatsInv, BeginData  PROVE CgatsInv'
<1> DEFINE t == WithData(Table)
           us == Edited(t)
           q == cursor'
<1>1. /\ InBody /\ Sym = "BeginData" /\ CanHoldData(Table)
      /\ cursor' = SkipEoln(source, Following) /\ section' = "data" /\ field' = 0 /\ set' = 0
      /\ source' = source /\ edits' = edits /\ phase' = phase
      /\ tables' = us /\ current' = current /\ keywords' = keywords
  BY DEF BeginData, Enter, Unchanged
<1>2. Sym \notin {"SynError", "Eof"} /\ TokenAt(source, cursor).sy = "BeginData"  BY <1>1 DEF Sym, Tok
<1>3. Unfilled(source, tables, cursor, current) /\ phase = "loading" /\ Table.data = <<>>
  BY <1>1, <1>2, InBodyUnfilled
<1>4. /\ IsTokens(source) /\ DocTables(tables) /\ Placed(source, tables, cursor, current) /\ IsTable(Table)
      /\ current \in Nat \ {0} /\ current = Len(tables) /\ current \in 1..Len(tables)
      /\ cursor \in 1..Len(source) /\ Len(source) \in Nat
  BY <1>1, <1>3, Loads
<1>5. IsTable(t) /\ t.data # <<>> /\ \A n \in DOMAIN t.data : t.data[n] = NoValue
  BY <1>1, <1>3, <1>4, DataMade
<1>  HIDE DEF t
<1>6. /\ us[current] = t /\ \A i \in 1..Len(tables) : i # current => us[i] = tables[i]
  BY <1>4, <1>5, TableEdited
<1>7. q = SkipEoln(source, InSymbol(source, cursor))  BY <1>1 DEF Following
<1>8. tables' = us /\ cursor' = q  BY <1>1
<1>  HIDE DEF us, q
<1>9. q \in (cursor + 1)..(Len(source) + 1) /\ Stands(source, q)  BY <1>4, <1>7, PastToken
<1>10. \A i \in 1..(current - 1) : us[i] = tables[i]  BY <1>4, <1>6
<1>11. us[current].data # <<>> /\ us[current].fields \in Nat
       /\ \A n \in DOMAIN us[current].data : us[current].data[n] = NoValue
  BY <1>5, <1>6 DEF IsTable
<1>12. Filling(source, us, q, current, 0, 0)
  BY <1>2, <1>3, <1>4, <1>7, <1>10, <1>11, SectionBegins
<1>13. q > cursor /\ field' \in Nat  BY <1>1, <1>4, <1>9
<1>14. Filling(source, tables', cursor', current, field', set')  BY <1>1, <1>8, <1>12
<1>15. phase' = "loading"  BY <1>1, <1>3
<1>  QED  BY <1>1, <1>3, <1>5, <1>8, <1>9, <1>13, <1>14, <1>15, FillingGoesOn DEF us

LEMMA ValueInv == ASSUME CgatsInv, Value  PROVE CgatsInv'
<1> DEFINE col == IF WrapsRow THEN 0 ELSE field
           row == IF WrapsRow THEN set + 1 ELSE set
           t == SetData(Table, row, col, Tok.val)
           us == Edited(t)
           q == cursor'
<1>1. /\ phase = "loading" /\ section = "data" /\ Sym \notin DataEnds /\ HasValue(Tok) /\ CanSet(Table, row, col)
      /\ tables' = us /\ field' = col + 1 /\ set' = row /\ cursor' = ToNextLine(cursor) /\ section' = section
      /\ source' = source /\ edits' = edits /\ phase' = phase /\ current' = current /\ keywords' = keywords
  BY DEF Value, Loading, Unchanged
<1>2. /\ IsTokens(source) /\ DocTables(tables) /\ Placed(source, tables, cursor, current) /\ IsTable(Table)
      /\ current \in Nat \ {0} /\ current = Len(tables) /\ current \in 1..Len(tables)
      /\ cursor \in 1..(Len(source) + 1) /\ Len(source) \in Nat
      /\ Filling(source, tables, cursor, current, field, set)
  BY <1>1, Loads
<1>3. Sym # "Eof" /\ cursor \in 1..Len(source) /\ Tok = source[cursor] /\ IsValue(Tok.val)
  <2>1. Sym # "Eof"  BY <1>1 DEF HasValue, Sym
  <2>  QED  BY <1>1, <2>1, Loads
<1>4. source[cursor].sy \notin {"BeginData", "EndData", "Eoln", "Comment"}
  <2>1. TokenAt(source, cursor).sy # "Eoln"  BY <1>2 DEF Filling
  <2>2. Tok.sy # "Eoln"  BY <2>1 DEF Tok
  <2>3. Tok.sy \in {"Ident", "Inum", "Dnum", "Str"}  BY <1>1, <2>2 DEF HasValue
  <2>4. Tok.sy \notin {"BeginData", "EndData", "Eoln", "Comment"}  BY <2>3
  <2>  QED  BY <1>3, <2>4
<1>5. GoesTo(Table.fields, field, set, col, row)  BY DEF GoesTo, WrapsRow
<1>6. IsTable(t)
  <2> DEFINE z == Table
             v == Tok.val
  <2>1. IsTable(z) /\ CanSet(z, row, col) /\ IsValue(v)  BY <1>1, <1>2, <1>3
  <2>  HIDE DEF row, col, z, v
  <2>2. IsTable(SetData(z, row, col, v))  BY <2>1, DataSet
  <2>  QED  BY <2>2 DEF z, v
<1>7. t = SetData(Table, row, col, source[cursor].val)  BY <1>3
<1>  HIDE DEF t, row, col
<1>8. us[current] = t /\ \A i \in 1..Len(tables) : i # current => us[i] = tables[i]
  BY <1>2, <1>6, TableEdited
<1>9. q = SkipEoln(source, InSymbol(source, cursor))  BY <1>1 DEF ToNextLine
<1>10. tables' = us /\ cursor' = q  BY <1>1
<1>  HIDE DEF us, q
<1>11. q \in (cursor + 1)..(Len(source) + 1) /\ Stands(source, q)  BY <1>2, <1>3, <1>9, PastToken
<1>12. \A i \in 1..(current - 1) : us[i] = tables[i]  BY <1>2, <1>8
<1>13. Filling(source, us, q, current, col + 1, row)
  <2>1. /\ IsTable(tables[current]) /\ GoesTo(tables[current].fields, field, set, col, row)
        /\ CanSet(tables[current], row, col)
        /\ us[current] = SetData(tables[current], row, col, source[cursor].val)
    BY <1>1, <1>2, <1>5, <1>7, <1>8 DEF Table
  <2>  QED  BY <1>2, <1>3, <1>4, <1>9, <1>12, <2>1, ValueTaken
<1>14. col + 1 \in Nat  BY <1>13 DEF Filling
<1>15. q > cursor  BY <1>2, <1>11
<1>16. Filling(source, tables', cursor', current, field', set') /\ field' \in Nat  BY <1>1, <1>10, <1>13, <1>14
<1>17. phase' = "loading" /\ section' = "data"  BY <1>1
<1>  QED  BY <1>1, <1>6, <1>10, <1>11, <1>15, <1>16, <1>17, FillingGoesOn DEF us

-----------------------------------------------------------------------------
(* The end of a data section. *)

LEMMA DataEnded ==
    ASSUME CgatsInv, phase = "loading", section = "data", Sym \in DataEnds, RowsAgree
    PROVE  /\ Onward(source, cursor, AfterData)
           /\ Before(Starts(source), AfterData) = current
           /\ TokenAt(source, AfterData).sy = "SynError" \/ Done(source, tables, AfterData, current)
           /\ Table.data # <<>>
<1>1. /\ IsTokens(source) /\ Stands(source, cursor) /\ IsTable(Table) /\ current \in Nat \ {0}
      /\ cursor \in 1..(Len(source) + 1) /\ Len(source) \in Nat
      /\ Filling(source, tables, cursor, current, field, set)
  BY Loads
<1>2. "EndData" # "BeginData" /\ "EndData" \notin {"Eof", "SynError"}  OBVIOUS
<1>3. /\ Onward(source, cursor, AfterData)
      /\ TokenAt(source, cursor).sy \in {"Eof", "SynError"} => AfterData = cursor
  BY <1>1, <1>2, EndOn DEF AfterData, PastEnd
<1>4. /\ Before(Starts(source), AfterData) = Before(Starts(source), cursor)
      /\ \A s \in Starts(source) : s < AfterData => s < cursor
  BY <1>1, <1>3, StartsPassed
<1>5. Before(Starts(source), cursor) = current /\ Table.data # <<>>  BY <1>1 DEF Filling, Table
<1>6. CASE TokenAt(source, cursor).sy = "SynError"
  <2>1. AfterData = cursor  BY <1>3, <1>6
  <2>  QED  BY <1>3, <1>4, <1>5, <1>6, <2>1
<1>7. CASE TokenAt(source, cursor).sy # "SynError"
  <2>1. TokenAt(source, cursor).sy \in {"EndData", "Eof"}  BY <1>7 DEF Sym, Tok, DataEnds, Ended
  <2>2. set + 1 = tables[current].sets /\ IsTable(tables[current])  BY <1>1 DEF RowsAgree, Table
  <2>3. Done(source, tables, cursor, current)  BY <1>1, <2>1, <2>2, SectionDone
  <2>4. Done(source, tables, AfterData, current)  BY <1>4, <2>3 DEF Done
  <2>  QED  BY <1>3, <1>4, <1>5, <2>4
<1>  QED  BY <1>6, <1>7

LEMMA LastDataInv == ASSUME CgatsInv, LastData  PROVE CgatsInv'
<1>1. /\ phase = "loading" /\ section = "data" /\ Sym \in DataEnds /\ RowsAgree
      /\ TokenAt(source, AfterData).sy \in {"Eof", "SynError"}
      /\ section' = "body" /\ cursor' = AfterData /\ field' = field
      /\ source' = source /\ edits' = edits /\ phase' = phase
      /\ tables' = tables /\ current' = current /\ keywords' = keywords
  BY DEF LastData, Loading, Unchanged, docVars, Ended
<1>2. /\ IsTokens(source) /\ DocTables(tables) /\ Placed(source, tables, cursor, current)
      /\ current \in Nat \ {0} /\ current = Len(tables) /\ current \in 1..Len(tables)
  BY <1>1, Loads
<1> DEFINE q == AfterData
<1>3. /\ Onward(source, cursor, q) /\ Before(Starts(source), q) = current
      /\ TokenAt(source, q).sy = "SynError" \/ Done(source, tables, q, current)
      /\ tables[current].data # <<>>
  BY <1>1, DataEnded DEF Table
<1>4. TokenAt(source, q).sy \in {"Eof", "SynError"}  BY <1>1
<1>5. cursor' = q  BY <1>1
<1>  HIDE DEF q
<1>6. Between(source, tables, q, current)  BY <1>3, <1>4 DEF Between
<1>7. Placed(source, tables, q, current)  BY <1>2, <1>3, PlacedOn
<1>8. LoadInv'  BY <1>1, <1>5, <1>6, <1>7 DEF LoadInv
<1>9. FieldCount \in DOMAIN keywords' => keywords'[FieldCount] # "Pair"  BY <1>1 DEF CgatsInv
<1>10. DocTables(tables') /\ current' \in 1..Len(tables') /\ phase' = "loading"
       /\ section' \in {"body", "format", "data"} /\ field' \in Nat
  BY <1>1, <1>2 DEF CgatsInv
<1>  QED  BY <1>1, <1>8, <1>9, <1>10, StillLoading

LEMMA EndDataInv == ASSUME CgatsInv, EndData  PROVE CgatsInv'
<1> DEFINE a == AfterData
           sheet == IF IsSheetType(a) THEN TokenAt(source, a).val ELSE <<>>
           q == IF IsSheetType(a) THEN InSymbol(source, a) ELSE a
           t == [NewTable EXCEPT !.sheet = sheet]
           us == Append(tables, t)
           n == current + 1
<1>1. /\ phase = "loading" /\ section = "data" /\ Sym \in DataEnds /\ RowsAgree
      /\ TokenAt(source, a).sy \notin {"Eof", "SynError"}
      /\ section' = "body" /\ cursor' = q /\ field' = field
      /\ source' = source /\ edits' = edits /\ phase' = phase
      /\ tables' = us /\ current' = Len(tables) + 1 /\ keywords' = keywords
  BY DEF EndData, Loading, Unchanged, Ended
<1>2. /\ IsTokens(source) /\ DocTables(tables) /\ Placed(source, tables, cursor, current)
      /\ current \in Nat \ {0} /\ current = Len(tables) /\ current \in 1..Len(tables)
      /\ Len(source) \in Nat
  BY <1>1, Loads
<1>3. /\ Onward(source, cursor, a) /\ Before(Starts(source), a) = current
      /\ Done(source, tables, a, current) /\ tables[current].data # <<>>
  BY <1>1, DataEnded DEF Table
<1>4. IsValue(sheet) /\ Onward(source, a, q)
  <2>  HIDE DEF a
  <2>1. Stands(source, a) /\ a \in 1..(Len(source) + 1)  BY <1>3 DEF Onward, Stands
  <2>2. CASE IsSheetType(a)
    <3>1. TokenAt(source, a).sy \in {"Ident", "Str"}  BY <2>2 DEF IsSheetType
    <3>2. a # Len(source) + 1
      <4>1. Eof.sy = "Eof"  BY DEF Eof, Token
      <4>  QED  BY <1>1, <1>2, <4>1, TokensAre
    <3>3. a \in 1..Len(source)  BY <1>2, <2>1, <3>2
    <3>4. IsValue(TokenAt(source, a).val)  BY <1>2, <3>3, TokensAre
    <3>5. TokenAt(source, a).sy # "BeginData"  BY <3>1
    <3>6. Onward(source, a, InSymbol(source, a))  BY <1>2, <2>1, <3>5, OneTokenOn
    <3>  QED  BY <2>2, <3>4, <3>6
  <2>3. CASE ~IsSheetType(a)
    <3>1. Onward(source, a, a)  BY <1>2, <2>1 DEF Onward
    <3>  QED  BY <2>3, <3>1, NoCells
  <2>  QED  BY <2>2, <2>3
<1>  HIDE DEF sheet, q
<1>5. IsTable(t) /\ t.data = <<>>  BY <1>4, NewIsTable
<1>  HIDE DEF t
<1>6. /\ DocTables(us) /\ Len(us) = n /\ us[n] = t
      /\ \A i \in 1..current : us[i] = tables[i]
  BY <1>2, <1>5, TableAppended
<1>7. tables' = us /\ cursor' = q /\ current' = n  BY <1>1, <1>2
<1>  HIDE DEF us, a
<1>8. Before(Starts(source), q) = current /\ \A s \in Starts(source) : s < q => s < a
  BY <1>2, <1>3, <1>4, StartsPassed
<1>9. Done(source, us, q, current)  BY <1>2, <1>3, <1>6, <1>8, DoneStays
<1>10. n \in Nat \ {0} /\ n - 1 = current  BY <1>2
<1>11. q \in Int /\ Stands(source, q)  BY <1>2, <1>4 DEF Onward
<1>12. Between(source, us, q, n)
  <2>1. Unfilled(source, us, q, n)  BY <1>5, <1>6, <1>8, <1>9, <1>10 DEF Unfilled
  <2>  HIDE DEF n
  <2>  QED  BY <1>2, <1>11, <2>1, UnfilledBetween
<1>13. Placed(source, us, q, n)
  <2>1. \A i \in 1..current : us[i].data # <<>>
    <3>1. \A i \in 1..current : i \in 1..(current - 1) \/ i = current  BY <1>2
    <3>2. \A i \in 1..current : tables[i].data # <<>>  BY <1>2, <1>3, <3>1 DEF Placed
    <3>  QED  BY <1>6, <3>2
  <2>2. FirstWords(source) = 1 => q > 1
    <3>1. FirstWords(source) = 1 => cursor > 1  BY <1>2 DEF Placed
    <3>2. cursor \in Int /\ a \in Int /\ q \in Int /\ cursor <= a /\ a <= q  BY <1>2, <1>3, <1>4 DEF Onward
    <3>  QED  BY <3>1, <3>2
  <2>  HIDE DEF n
  <2>  QED  BY <1>6, <1>10, <1>11, <2>1, <2>2 DEF Placed
<1>14. LoadInv'  BY <1>1, <1>7, <1>12, <1>13 DEF LoadInv
<1>15. FieldCount \in DOMAIN keywords' => keywords'[FieldCount] # "Pair"  BY <1>1 DEF CgatsInv
<1>16. DocTables(tables') /\ current' \in 1..Len(tables') /\ phase' = "loading"
       /\ section' \in {"body", "format", "data"} /\ field' \in Nat
  BY <1>1, <1>6, <1>7, <1>10 DEF CgatsInv
<1>  QED  BY <1>1, <1>14, <1>15, <1>16, StillLoading

-----------------------------------------------------------------------------
(* The beginning of a text. *)

\* Before the first section one table without data has been made.
LEMMA BeginsUnfilled ==
    ASSUME NEW text, IsTokens(text), NEW q, Stands(text, q), FirstWords(text) = 1 => q > 1,
           \A s \in Starts(text) : ~(s < q),
           NEW ts, DocTables(ts), Len(ts) = 1, ts[1].data = <<>>
    PROVE  Placed(text, ts, q, 1) /\ Between(text, ts, q, 1)
<1>1. Len(text) \in Nat /\ Starts(text) \in SUBSET (1..Len(text)) /\ q \in 1..(Len(text) + 1)
  BY StartsAre DEF Stands
<1>2. Before(Starts(text), q) = 0
  <2> DEFINE S == Starts(text)
  <2>1. S \in SUBSET (1..Len(text)) /\ \A s \in S : ~(s < q)  BY <1>1
  <2>  HIDE DEF S
  <2>2. Before(S, q) = 0  BY <1>1, <2>1, CountZero
  <2>  QED  BY <2>2 DEF S
<1>3. Done(text, ts, q, 1)  BY DEF Done
<1>4. Between(text, ts, q, 1)  BY <1>2, <1>3 DEF Between
<1>5. \A i \in 1..(1 - 1) : ts[i].data # <<>>  OBVIOUS
<1>  QED  BY <1>4, <1>5 DEF Placed

LEMMA FreshIs ==
    ASSUME Fresh
    PROVE  DocTables(tables) /\ Len(tables) = 1 /\ tables[1].data = <<>> /\ current \in 1..Len(tables)
<1> DEFINE t == [NewTable EXCEPT !.sheet = <<"CGATS.17">>]
<1>1. IsTable(t) /\ t.data = <<>>  BY NewIsTable, OneValue
<1>2. tables = <<t>> /\ current = 1  BY DEF Fresh
<1>  HIDE DEF t
<1>3. IsValue(<<t>>) /\ Len(<<t>>) = 1 /\ <<t>>[1] = t /\ DOMAIN <<t>> = 1..1  BY OneValue
<1>4. DocTables(tables)  BY <1>1, <1>2, <1>3 DEF DocTables
<1>  QED  BY <1>1, <1>2, <1>3, <1>4

LEMMA RecognizedInv == ASSUME CgatsInv, Recognized  PROVE CgatsInv'
<1> DEFINE bare == FirstWords(source) # 1
           skips == IF bare \/ source[1] = Eoln THEN 0 ELSE 1
           q == cursor'
           us == tables'
           sheet == IF skips = 0 THEN <<>> ELSE source[1].val
<1>1. /\ phase = "given" /\ IsMyBlock(source) /\ phase' = "loading" /\ cursor' = ToNextLine(skips)
      /\ us = IF bare THEN tables ELSE [tables EXCEPT ![1].sheet = sheet]
      /\ source' = source /\ section' = section /\ field' = field /\ current' = current
      /\ keywords' = keywords /\ edits' = edits
  BY DEF Recognized
<1>2. IsTokens(source) /\ Fresh /\ field \in Nat  BY <1>1 DEF CgatsInv
<1>3. Len(source) \in Nat /\ DOMAIN source = 1..Len(source)  BY <1>2, TokensAre
<1>4. Len(source) >= 1
  <2> SUFFICES ASSUME Len(source) = 0  PROVE FALSE  BY <1>3
  <2>1. source \in Seq(Range(source))  BY <1>2 DEF IsTokens, IsValue
  <2>2. DOMAIN source = {}  BY <1>3
  <2>3. DOMAIN Tail(source) = {}  BY <2>1, <1>3
  <2>4. LineEnds(FirstLine(source)) # {}  BY <1>1 DEF IsMyBlock
  <2>5. LineEnds(source) = {} /\ LineEnds(Tail(source)) = {}  BY <2>2, <2>3 DEF LineEnds
  <2>  QED  BY <2>4, <2>5 DEF FirstLine
<1>5. skips \in {0, 1} /\ skips \in 0..Len(source)  BY <1>3, <1>4
<1>6. q = SkipEoln(source, InSymbol(source, skips))  BY <1>1 DEF ToNextLine
<1> DEFINE r == InSymbol(source, skips)
<1>7. r \in (skips + 1)..(Len(source) + 1) /\ Stands(source, r) /\ Spaces(source, skips + 1, r)
  <2>  HIDE DEF skips
  <2>  QED  BY <1>2, <1>5, InSymbolMoves
<1>8. q = SkipEoln(source, r)  BY <1>6
<1>  HIDE DEF r, q
<1>9. Onward(source, r, q) /\ Spaces(source, r, q) /\ TokenAt(source, q).sy # "Eoln"  BY <1>2, <1>7, <1>8, LinesOn
<1>10. Stands(source, q) /\ q \in r..(Len(source) + 1)  BY <1>9 DEF Onward
<1>11. \A k \in (skips + 1)..(q - 1) : source[k].sy \in {"Comment", "Eoln"}
  <2>  HIDE DEF skips
  <2>1. \A k \in (skips + 1)..(q - 1) : k \in (skips + 1)..(r - 1) \/ k \in r..(q - 1)  BY <1>3, <1>5, <1>7, <1>10
  <2>  QED  BY <1>7, <1>9, <2>1 DEF Spaces
<1>12. FirstWords(source) = 1 => q > 1
  <2> SUFFICES ASSUME FirstWords(source) = 1  PROVE q > 1  OBVIOUS
  <2>1. q \in 1..(Len(source) + 1)  BY <1>10 DEF Stands
  <2>2. CASE source[1] = Eoln
    <3>1. TokenAt(source, 1) = Eoln  BY <1>2, <1>3, <1>4, <2>2, TokensAre
    <3>2. Eoln.sy = "Eoln"  BY DEF Eoln, Token
    <3>3. q # 1  BY <1>9, <3>1, <3>2
    <3>  QED  BY <2>1, <3>3
  <2>3. CASE source[1] # Eoln
    <3>1. skips = 1  BY <2>3
    <3>2. r > 1  BY <1>3, <1>7, <3>1
    <3>  QED  BY <1>3, <1>7, <1>10, <3>2
  <2>  QED  BY <2>2, <2>3
<1>13. \A s \in Starts(source) : ~(s < q)
  <2> SUFFICES ASSUME NEW s \in Starts(source), s < q  PROVE FALSE  OBVIOUS
  <2>1. s \in 1..Len(source) /\ source[s].sy = "BeginData" /\ (s = 1 => bare)  BY <1>3 DEF Starts
  <2>2. CASE s \in (skips + 1)..(q - 1)  BY <1>11, <2>1, <2>2
  <2>3. CASE s \notin (skips + 1)..(q - 1)
    <3>1. q \in Int  BY <1>3, <1>7, <1>10
    <3>2. s = 1 /\ skips = 1
      <4>1. skips \in {0, 1}  BY <1>5
      <4>  HIDE DEF skips
      <4>  QED  BY <1>3, <2>1, <2>3, <3>1, <4>1
    <3>3. ~bare  BY <3>2
    <3>  QED  BY <2>1, <3>2, <3>3
  <2>  QED  BY <2>2, <2>3
<1>14. DocTables(tables) /\ Len(tables) = 1 /\ tables[1].data = <<>> /\ current = 1 /\ section = "body"
  BY <1>2, FreshIs DEF Fresh
<1>15. DocTables(us) /\ Len(us) = 1 /\ us[1].data = <<>>
  <2>1. CASE bare  BY <1>1, <1>14, <2>1
  <2>2. CASE ~bare
    <3>1. IsValue(sheet)
      <4>1. 1 \in 1..Len(source)  BY <1>3, <1>4
      <4>  QED  BY <1>2, <4>1, NoCells, TokensAre
    <3>  HIDE DEF sheet
    <3> DEFINE t == [tables[1] EXCEPT !.sheet = sheet]
    <3>2. IsTable(tables[1]) /\ DOMAIN tables = 1..1  BY <1>14, ValueIs DEF DocTables
    <3>3. IsTable(t) /\ t.data = <<>>  BY <1>14, <3>1, <3>2, SheetChanged
    <3>4. us = [tables EXCEPT ![1].sheet = sheet]  BY <1>1, <2>2
    <3>5. us = [tables EXCEPT ![1] = t]  BY <3>2, <3>4
    <3>6. us = Edited(t)  BY <1>14, <3>5 DEF Edited
    <3>  HIDE DEF t, us
    <3>7. DocTables(us) /\ Len(us) = Len(tables) /\ us[1] = t  BY <1>14, <3>3, <3>6, TableEdited
    <3>  QED  BY <1>14, <3>3, <3>7
  <2>  QED  BY <2>1, <2>2
<1>16. Placed(source, us, q, 1) /\ Between(source, us, q, 1)
  <2>  HIDE DEF us
  <2>  QED  BY <1>2, <1>10, <1>12, <1>13, <1>15, BeginsUnfilled
<1>17. LoadInv'  BY <1>1, <1>14, <1>16 DEF LoadInv, q
<1>18. FieldCount \in DOMAIN keywords' => keywords'[FieldCount] # "Pair"  BY <1>1 DEF CgatsInv
<1>19. DocTables(tables') /\ current' \in 1..Len(tables') /\ section' \in {"body", "format", "data"} /\ field' \in Nat
  BY <1>1, <1>2, <1>14, <1>15
<1>  QED  BY <1>1, <1>17, <1>18, <1>19, StillLoading

-----------------------------------------------------------------------------
(* The end of a text. *)

\* The section's values as they are in the table, longer where they are references.
AreValues(text, t, s) ==
    t.fields > 0 =>
      /\ Cardinality(Inside(text, s)) <= t.fields * t.sets
      /\ \A j \in Inside(text, s) : IsPrefix(text[j].val, t.data[Before(Inside(text, s), j) + 1])
      /\ \A n \in DOMAIN t.data : n > Cardinality(Inside(text, s)) => t.data[n] = NoValue

LEMMA HoldsGrown ==
    ASSUME NEW text, IsTokens(text), NEW s \in Starts(text),
           NEW t, IsTable(t), t.data # <<>>, Holds(text, t, s), NEW u, Grown(t, u)
    PROVE  AreValues(text, u, s)
<1> DEFINE J == Inside(text, s)
<1> SUFFICES ASSUME u.fields > 0
             PROVE  /\ Cardinality(J) <= u.fields * u.sets
                    /\ \A j \in J : IsPrefix(text[j].val, u.data[Before(J, j) + 1])
                    /\ \A n \in DOMAIN u.data : n > Cardinality(J) => u.data[n] = NoValue
  BY DEF AreValues
<1>1. u.fields = t.fields /\ u.sets = t.sets /\ DOMAIN u.data = DOMAIN t.data  BY DEF Grown
<1>2. /\ Cardinality(J) <= t.fields * t.sets
      /\ \A j \in J : t.data[Before(J, j) + 1] = text[j].val
      /\ \A n \in DOMAIN t.data : n > Cardinality(J) => t.data[n] = NoValue
  BY <1>1 DEF Holds
<1>3. Len(text) \in Nat /\ J \in SUBSET (1..Len(text))  BY StartsAre
<1>4. DOMAIN t.data = 1..Len(t.data) /\ Len(t.data) = (t.fields + 1) * (t.sets + 1) /\ t.fields \in Nat /\ t.sets \in Nat
  BY ValueIs DEF IsTable, IsCells
<1>5. ASSUME NEW j \in J  PROVE Before(J, j) + 1 \in DOMAIN t.data
  <2> DEFINE c == Cardinality(J)
             b == Before(J, j)
             m == t.fields * t.sets
  <2>1. b \in Nat /\ b < c /\ c \in Nat
    <3>1. j \in J  BY <1>5
    <3>  HIDE DEF J
    <3>  QED  BY <1>3, <3>1, CountType, CountInside
  <2>2. c <= m  BY <1>2
  <2>3. m \in Nat /\ Len(t.data) = m + t.fields + t.sets + 1
    <3> DEFINE x == t.fields
               y == t.sets
    <3>1. x \in Nat /\ y \in Nat  BY <1>4
    <3>  HIDE DEF x, y
    <3>2. x * y \in Nat /\ (x + 1) * (y + 1) = x * y + x + y + 1  BY <3>1
    <3>  QED  BY <1>4, <3>2 DEF x, y
  <2>  HIDE DEF b, c, m
  <2>4. b + 1 \in 1..Len(t.data)  BY <1>4, <2>1, <2>2, <2>3
  <2>  QED  BY <1>4, <2>4 DEF b
<1>6. ASSUME NEW j \in J  PROVE IsPrefix(text[j].val, u.data[Before(J, j) + 1])
  <2> DEFINE k == Before(J, j) + 1
  <2>1. k \in DOMAIN t.data /\ t.data[k] = text[j].val  BY <1>2, <1>5
  <2>2. j \in 1..Len(text)  BY <1>3
  <2>3. IsValue(text[j].val)  BY <2>2, TokensAre
  <2>  HIDE DEF k
  <2>4. IsPrefix(t.data[k], u.data[k])  BY <2>1, <2>3 DEF Grown
  <2>  QED  BY <2>1, <2>4 DEF k
<1>7. \A n \in DOMAIN u.data : n > Cardinality(J) => u.data[n] = NoValue  BY <1>1, <1>2 DEF Grown
<1>8. Cardinality(J) <= u.fields * u.sets  BY <1>1, <1>2
<1>  HIDE DEF J
<1>  QED  BY <1>6, <1>7, <1>8

LEMMA EndOfTextInv == ASSUME CgatsInv, EndOfText  PROVE CgatsInv'
<1> DEFINE us == Cooked(tables)
           S == Starts(source)
<1>1. /\ phase = "loading" /\ section = "body" /\ Sym = "Eof" /\ phase' = "open" /\ tables' = us /\ current' = 1
      /\ source' = source /\ section' = section /\ field' = field /\ keywords' = keywords /\ edits' = edits
  BY DEF EndOfText, InBody, Loading, parseVars
<1>2. /\ IsTokens(source) /\ DocTables(tables) /\ Placed(source, tables, cursor, current)
      /\ current \in Nat \ {0} /\ current = Len(tables)
      /\ cursor \in 1..(Len(source) + 1) /\ Len(source) \in Nat
      /\ Between(source, tables, cursor, current)
  BY <1>1, Loads
<1>3. TokenAt(source, cursor).sy = "Eof"  BY <1>1 DEF Sym, Tok
<1>4. cursor = Len(source) + 1
  <2> SUFFICES ASSUME cursor # Len(source) + 1  PROVE FALSE  OBVIOUS
  <2>1. cursor \in 1..Len(source)  BY <1>2
  <2>  QED  BY <1>2, <1>3, <2>1, TokensAre
<1>5. /\ Before(S, cursor) = IF tables[current].data = <<>> THEN current - 1 ELSE current
      /\ Done(source, tables, cursor, current)
  <2>1. TokenAt(source, cursor).sy # "SynError"  BY <1>3
  <2>2. Between(source, tables, cursor, current)  BY <1>2
  <2>  QED  BY <2>1, <2>2, Zenon DEF Between
<1>6. S \in SUBSET (1..Len(source)) /\ \A s \in S : s < cursor  BY <1>2, <1>4, StartsAre
<1>7. Before(S, cursor) = Cardinality(S)
  <2>  HIDE DEF S
  <2>  QED  BY <1>2, <1>6, CountAll
<1>8. DocTables(us) /\ Len(us) = Len(tables) /\ \A i \in 1..Len(tables) : Grown(tables[i], us[i])
  BY <1>2, CookedIs
<1>9. DOMAIN us = 1..current  BY <1>2, <1>8, ValueIs DEF DocTables
<1>  HIDE DEF us
<1>10. Cardinality(S) <= Len(us)  BY <1>2, <1>5, <1>7, <1>8
<1>11. \A i \in DOMAIN us : us[i].data # <<>> <=> i <= Cardinality(S)
  <2> SUFFICES ASSUME NEW i \in 1..current  PROVE us[i].data # <<>> <=> i <= Cardinality(S)  BY <1>9
  <2>1. us[i].data # <<>> <=> tables[i].data # <<>>  BY <1>2, <1>8 DEF Grown
  <2>2. CASE i = current
    <3>1. CASE tables[current].data = <<>>
      <4>1. Cardinality(S) = current - 1  BY <1>5, <1>7, <3>1
      <4>  HIDE DEF S
      <4>  QED  BY <1>2, <2>1, <2>2, <3>1, <4>1
    <3>2. CASE tables[current].data # <<>>
      <4>1. Cardinality(S) = current  BY <1>5, <1>7, <3>2
      <4>  HIDE DEF S
      <4>  QED  BY <1>2, <2>1, <2>2, <3>2, <4>1
    <3>  QED  BY <3>1, <3>2
  <2>3. CASE i # current
    <3>1. i \in 1..(current - 1)  BY <1>2, <2>3
    <3>2. tables[i].data # <<>>  BY <1>2, <3>1 DEF Placed
    <3>3. Cardinality(S) = current - 1 \/ Cardinality(S) = current  BY <1>5, <1>7
    <3>4. i <= Cardinality(S)
      <4>  HIDE DEF S
      <4>  QED  BY <1>2, <3>1, <3>3
    <3>  QED  BY <2>1, <3>2, <3>4
  <2>  QED  BY <2>2, <2>3
<1>12. \A s \in S : AreValues(source, us[Before(S, s) + 1], s)
  <2> SUFFICES ASSUME NEW s \in S  PROVE AreValues(source, us[Before(S, s) + 1], s)  OBVIOUS
  <2> DEFINE k == Nth(source, s)
  <2>1. k \in Nat \ {0} /\ k <= Cardinality(S)  BY <1>2, NthIs
  <2>2. k \in 1..current
    <3>1. Cardinality(S) <= current  BY <1>2, <1>8, <1>10
    <3>2. Cardinality(S) \in Nat
      <4>  HIDE DEF S
      <4>  QED  BY <1>2, <1>6, CountType
    <3>  HIDE DEF S, k
    <3>  QED  BY <1>2, <2>1, <3>1, <3>2
  <2>3. k = Before(S, s) + 1  BY DEF Nth
  <2>4. s < cursor  BY <1>6
  <2>5. k <= current  BY <2>2
  <2>6. Holds(source, tables[k], s)  BY <1>5, <2>4, <2>5 DEF Done
  <2>7. us[k].data # <<>>
    <3>1. k \in DOMAIN us /\ k <= Cardinality(S)  BY <1>9, <2>1, <2>2
    <3>  HIDE DEF S, k
    <3>  QED  BY <1>11, <3>1
  <2>  HIDE DEF k
  <2>8. IsTable(tables[k]) /\ Grown(tables[k], us[k])
    <3>1. k \in DOMAIN tables /\ k \in 1..Len(tables)  BY <1>2, <2>2, ValueIs DEF DocTables
    <3>  QED  BY <1>2, <1>8, <3>1 DEF DocTables
  <2>9. tables[k].data # <<>>  BY <2>7, <2>8 DEF Grown
  <2>10. s \in Starts(source)  OBVIOUS
  <2>11. AreValues(source, us[k], s)  BY <1>2, <2>6, <2>8, <2>9, <2>10, HoldsGrown
  <2>  QED  BY <2>3, <2>11
<1>13. CellsAreTheValues'
  <2>1. /\ Cardinality(Starts(source)) <= Len(us)
        /\ \A i \in DOMAIN us : us[i].data # <<>> <=> i <= Cardinality(Starts(source))
        /\ \A s \in Starts(source) : AreValues(source, us[Before(Starts(source), s) + 1], s)
    BY <1>10, <1>11, <1>12
  <2>  QED  BY <1>1, <2>1 DEF CellsAreTheValues, AreValues
<1>14. current' \in 1..Len(tables') /\ DocTables(tables')  BY <1>1, <1>2, <1>8
<1>15. phase' # "given" /\ phase' # "loading"  BY <1>1
<1>  QED  BY <1>1, <1>13, <1>14, <1>15 DEF CgatsInv

-----------------------------------------------------------------------------
(* Editing and saving. *)

LEMMA EditedInv ==
    ASSUME CgatsInv, phase = "open", edits' = edits + 1, DocTables(tables'), current' \in 1..Len(tables'),
           UNCHANGED <<phase, source, parseVars, keywords>>
    PROVE  CgatsInv'
<1>1. /\ phase' = "open" /\ source' = source /\ section' = section /\ field' = field /\ keywords' = keywords
  BY DEF parseVars
<1>2. edits \in Nat  BY DEF CgatsInv
<1>3. edits' \in Nat /\ edits' # 0  BY <1>2
<1>4. CellsAreTheValues'  BY <1>3 DEF CellsAreTheValues
<1>  QED  BY <1>1, <1>3, <1>4 DEF CgatsInv

LEMMA EditInv ==
    ASSUME CgatsInv, phase = "open", NEW t, IsTable(t), Edit(t)
    PROVE  CgatsInv'
<1>1. /\ edits' = edits + 1 /\ tables' = Edited(t) /\ current' = current
      /\ UNCHANGED <<phase, source, parseVars, keywords>>
  BY DEF Edit
<1>2. DocTables(tables) /\ current \in 1..Len(tables)  BY DEF CgatsInv
<1>3. DocTables(tables') /\ Len(tables') = Len(tables)  BY <1>1, <1>2, TableEdited
<1>  QED  BY <1>1, <1>2, <1>3, EditedInv

LEMMA EditStepInv == ASSUME CgatsInv, EditStep  PROVE CgatsInv'
<1>1. phase = "open"  BY DEF EditStep, MayEdit
<1>2. DocTables(tables) /\ current \in 1..Len(tables) /\ IsTable(Table)
  <2>1. DocTables(tables) /\ current \in 1..Len(tables)  BY DEF CgatsInv
  <2>2. current \in DOMAIN tables  BY <2>1, ValueIs DEF DocTables
  <2>  QED  BY <2>1, <2>2 DEF DocTables, Table
<1>3. \A v \in EditValues : IsValue(v)  BY CgatsAssumption
<1>4. CASE SetTable
  <2>1. PICK n \in 1..(Len(tables) + 1) :
          current' = n /\ tables' = IF n > Len(tables) THEN Append(tables, NewTable) ELSE tables
    BY <1>4 DEF SetTable
  <2>2. edits' = edits + 1 /\ UNCHANGED <<phase, source, parseVars, keywords>>  BY <1>4 DEF SetTable
  <2>3. Len(tables) \in Nat  BY <1>2, ValueIs DEF DocTables
  <2>4. DocTables(Append(tables, NewTable)) /\ Len(Append(tables, NewTable)) = Len(tables) + 1
    BY <1>2, BlankTable, TableAppended
  <2>5. DocTables(tables') /\ current' \in 1..Len(tables')
    <3>1. CASE n > Len(tables)  BY <2>1, <2>4, <3>1
    <3>2. CASE ~(n > Len(tables))  BY <1>2, <2>1, <2>3, <3>2
    <3>  QED  BY <3>1, <3>2
  <2>  QED  BY <1>1, <2>2, <2>5, EditedInv
<1>5. CASE SetSheetType
  <2>1. PICK v \in EditValues : Edit([Table EXCEPT !.sheet = v])  BY <1>5 DEF SetSheetType
  <2>2. IsTable([Table EXCEPT !.sheet = v])  BY <1>2, <1>3, SheetChanged
  <2>  QED  BY <1>1, <2>1, <2>2, EditInv
<1>6. CASE SetProperty
  <2>1. PICK key \in EditKeys, v \in EditValues, as \in {"Stringify", "Uncooked", "Hexadecimal"} :
          /\ ~Refused(Table.header, key, NoValue)
          /\ Edit([Table EXCEPT !.header = AddToList(@, key, NoValue, v, as)])
    BY <1>6 DEF SetProperty
  <2>2. as \in Ways /\ IsValue(v)  BY <1>3 DEF Ways
  <2> DEFINE z == Table
             t == [z EXCEPT !.header = AddToList(@, key, NoValue, v, as)]
  <2>3. IsTable(z) /\ ~Refused(z.header, key, NoValue) /\ Edit(t)  BY <1>2, <2>1
  <2>  HIDE DEF z
  <2>4. IsTable(t)  BY <2>2, <2>3, PropertyAdded
  <2>  HIDE DEF t
  <2>  QED  BY <1>1, <2>3, <2>4, EditInv
<1>7. CASE SetDataRowCol
  <2> DEFINE z == Table
             w == WithData(z)
  <2>1. PICK row \in 0..(MaxFields + 1), col \in 0..(MaxFields + 1), v \in EditValues :
          \/ CanSet(z, row, col) /\ Edit(SetData(z, row, col, v))
          \/ CanHoldData(z) /\ Edit(w)
    BY <1>7 DEF SetDataRowCol
  <2> DEFINE t == SetData(z, row, col, v)
  <2>2. IsTable(z) /\ IsValue(v)  BY <1>2, <1>3
  <2>  HIDE DEF z
  <2>3. CanHoldData(z) => IsTable(w)  BY <2>2, DataMade
  <2>4. CanSet(z, row, col) => IsTable(t)  BY <2>2, DataSet
  <2>  HIDE DEF t, w
  <2>5. \/ IsTable(t) /\ Edit(t)
        \/ IsTable(w) /\ Edit(w)
    BY <2>1, <2>3, <2>4 DEF t, w
  <2>  QED  BY <1>1, <2>5, EditInv
<1>  QED  BY <1>4, <1>5, <1>6, <1>7 DEF EditStep

\* What an empty document is loaded from.
LEMMA FreshDocument ==
    ASSUME IsTokens(source'), phase' = "given", Fresh', keywords' = Predefined, edits' = 0, field' = 0
    PROVE  CgatsInv'
<1> DEFINE t == [NewTable EXCEPT !.sheet = <<"CGATS.17">>]
           ts == tables'
           c == current'
<1>1. ts = <<t>> /\ c = 1 /\ section' = "body"  BY DEF Fresh
<1>2. IsTable(t)  BY NewIsTable, OneValue
<1>  HIDE DEF t, ts, c
<1>3. IsValue(<<t>>) /\ Len(<<t>>) = 1 /\ <<t>>[1] = t /\ DOMAIN <<t>> = 1..1  BY OneValue
<1>4. DocTables(ts) /\ c \in 1..Len(ts)  BY <1>1, <1>2, <1>3 DEF DocTables
<1>5. DocTables(tables') /\ current' \in 1..Len(tables')  BY <1>4 DEF ts, c
<1>6. FieldCount \in DOMAIN keywords' => keywords'[FieldCount] # "Pair"  BY CgatsAssumption
<1>7. CellsAreTheValues'  BY DEF CellsAreTheValues
<1>  QED  BY <1>1, <1>5, <1>6, <1>7 DEF CgatsInv

LEMMA SaveAndReloadInv == ASSUME CgatsInv, SaveAndReload  PROVE CgatsInv'
<1> DEFINE n == Len(tables)
           f == [i \in 1..n |-> Written(tables[i])]
<1>1. DocTables(tables) /\ n \in Nat /\ DOMAIN tables = 1..n  BY ValueIs DEF CgatsInv, DocTables
<1>2. DOMAIN f = 1..n /\ f = [i \in 1..n |-> f[i]]  OBVIOUS
<1>3. \A i \in 1..n : IsTokens(f[i])
  <2>1. \A i \in 1..n : IsTable(tables[i])  BY <1>1 DEF DocTables
  <2>  QED  BY <2>1, WrittenTokens
<1>4. source' = FlattenSeq(f)  BY <1>1 DEF SaveAndReload
<1>  HIDE DEF f, n
<1>5. IsTokens(FlattenSeq(f))  BY <1>1, <1>2, <1>3, FlattenTokens
<1>6. Fresh' /\ phase' = "given" /\ keywords' = Predefined /\ edits' = 0 /\ field' = 0
  BY DEF SaveAndReload, Fresh
<1>  QED  BY <1>4, <1>5, <1>6, FreshDocument

LEMMA FirstInv == Init => CgatsInv
<1> SUFFICES ASSUME Init  PROVE CgatsInv  OBVIOUS
<1>1. /\ IsTokens(source) /\ Fresh /\ phase = "given" /\ keywords = Predefined /\ edits = 0 /\ field = 0
      /\ section = "body" /\ current = 1
  BY CgatsAssumption DEF Init, DocInit, Fresh
<1>2. DocTables(tables) /\ current \in 1..Len(tables)  BY <1>1, FreshIs
<1>3. FieldCount \in DOMAIN keywords => keywords[FieldCount] # "Pair"  BY <1>1, CgatsAssumption
<1>4. CellsAreTheValues  BY <1>1 DEF CellsAreTheValues
<1>  QED  BY <1>1, <1>2, <1>3, <1>4 DEF CgatsInv

\* The invariant of a document being loaded, edited and saved (cgats.rs parse_it8
\* and its sections, save_to_mem), whatever the texts and the limits: up to where
\* the lexer stands every data section is in the table it is for, value by value.
THEOREM CgatsInvariant == CgatsSpec => []CgatsInv
<1>1. Init => CgatsInv  BY FirstInv
<1>2. CgatsInv /\ [CgatsNext]_vars => CgatsInv'
  <2> SUFFICES ASSUME CgatsInv, [CgatsNext]_vars  PROVE CgatsInv'  OBVIOUS
  <2>1. CASE Recognized  BY <2>1, RecognizedInv
  <2>2. CASE BeginFormat  BY <2>2, BeginFormatInv
  <2>3. CASE BeginData  BY <2>3, BeginDataInv
  <2>4. CASE Label  BY <2>4, LabelInv
  <2>5. CASE EndFormat  BY <2>5, EndFormatInv
  <2>6. CASE Value  BY <2>6, ValueInv
  <2>7. CASE LastData  BY <2>7, LastDataInv
  <2>8. CASE EndData  BY <2>8, EndDataInv
  <2>9. CASE Declare  BY <2>9, DeclareInv
  <2>10. CASE DeclareSample  BY <2>10, DeclareSampleInv
  <2>11. CASE Statement  BY <2>11, StatementInv
  <2>12. CASE BlankLines  BY <2>12, BlankLinesInv
  <2>13. CASE EndOfText  BY <2>13, EndOfTextInv
  <2>14. CASE \/ NotRecognized \/ BadSection \/ BadLabel \/ BadValue \/ BadData
              \/ BadDeclaration \/ BadStatement \/ Misplaced
    <3>1. LoadFails
      BY <2>14 DEF NotRecognized, BadSection, BadLabel, BadValue, BadData, BadDeclaration, BadStatement, Misplaced
    <3>  QED  BY <3>1, LoadFailed
  <2>15. CASE EditStep  BY <2>15, EditStepInv
  <2>16. CASE SaveAndReload  BY <2>16, SaveAndReloadInv
  <2>17. CASE UNCHANGED vars
    <3>1. /\ phase' = phase /\ source' = source /\ cursor' = cursor /\ section' = section /\ field' = field
          /\ set' = set /\ tables' = tables /\ current' = current /\ keywords' = keywords /\ edits' = edits
      BY <2>17 DEF vars, docVars, parseVars
    <3>  QED  BY <3>1 DEF CgatsInv, Fresh, LoadInv, CellsAreTheValues
  <2>  QED
    BY <2>1, <2>2, <2>3, <2>4, <2>5, <2>6, <2>7, <2>8, <2>9, <2>10, <2>11, <2>12, <2>13, <2>14, <2>15, <2>16, <2>17
    DEF CgatsNext, LoadStep
<1>  QED  BY <1>1, <1>2, PTL DEF CgatsSpec

\* A loaded text is in its tables (cgats.rs data_section, set_data), whatever the
\* text and the limits: as many tables hold data as data sections begin, and the
\* values of each section are in its own table, in order, and nothing after them.
THEOREM CellsAlwaysTheValues == CgatsSpec => []CellsAreTheValues
<1>1. CgatsInv => CellsAreTheValues  BY DEF CgatsInv
<1>2. CgatsSpec => []CgatsInv  BY CgatsInvariant
<1>  QED  BY <1>1, <1>2, PTL

=============================================================================
