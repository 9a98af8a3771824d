------------------------------- MODULE CubeFile -------------------------------
(***************************************************************************)
(* A .cube file (cgats.rs parse_cube, create_devicelink_from_cube_mem): one *)
(* turn of the parser's loop per step, and the device link that comes of it.*)
(***************************************************************************)
EXTENDS CgatsText

CONSTANTS
    CubeTexts,   \* texts that may be given to create_devicelink_from_cube_mem
    MaxShaper,   \* 65536, the limit on LUT_1D_SIZE
    MaxGrid      \* 65, the limit on LUT_3D_SIZE

ASSUME CubeAssumption ==
    (\A text \in CubeTexts : IsText(text)) /\ MaxShaper \in Nat /\ MaxGrid \in Nat

VARIABLES
    cube,      \* the text
    at,        \* the position in it that the lexer stands on
    reading,   \* "reading", "linked", "refused"
    domain,    \* domain_min and domain_max
    shapers,   \* shaper_size
    grid,      \* lut_size
    title,
    stages     \* the pipeline: at most a shaper and a CLUT

cubeVars == <<cube, at, reading, domain, shapers, grid, title, stages>>

Channels == 1..3

\* Numbers are counted in tenths.
Number(tok) == IF tok.val[1] = "1.5" THEN 15 ELSE 10 * Decimal[tok.val[1]]
IsNumber(tok) == tok.sy \in {"Inum", "Dnum"}

CubeTok == TokenAt(cube, at)
Next3(p) == <<p, InSymbol(cube, p), InSymbol(cube, InSymbol(cube, p))>>

\* read_numbers of three: a row, the position after it, 0 when it is none.
IsRow(p) ==
    /\ \A c \in Channels : IsNumber(TokenAt(cube, Next3(p)[c]))
    /\ TokenAt(cube, InSymbol(cube, Next3(p)[3])) = Eoln
Row3(p) == [c \in Channels |-> Number(TokenAt(cube, Next3(p)[c]))]
PastRow(p) == SkipEoln(cube, InSymbol(cube, Next3(p)[3]))

\* Where each of n rows ends, and the next one starts; 0 past a bad row.
RowStarts(p, n) ==
    LET start[k \in 0..n] ==
          IF k = 0 THEN p
          ELSE IF start[k - 1] # 0 /\ IsRow(start[k - 1]) THEN PastRow(start[k - 1]) ELSE 0
    IN  start

\* A number in the domain of its channel: how far in, out of how much.
Scaled(nums, c) == <<nums[c] - domain.min[c], domain.max[c] - domain.min[c]>>

\* Mutant: a node's channels in the order of the text.
NodeInOrder(nums) == [c \in Channels |-> Scaled(nums, c)]

\* A node of the CLUT keeps its channels in the order B, G, R.
Node(nums) == [c \in Channels |-> Scaled(nums, 4 - c)]

CubeInit ==
    /\ cube \in CubeTexts
    /\ at = InSymbol(cube, 0)
    /\ reading = "reading"
    /\ domain = [min |-> [c \in Channels |-> 0], max |-> [c \in Channels |-> 10]]
    /\ shapers = 0 /\ grid = 0 /\ title = <<>> /\ stages = <<>>

Reading(sy) == reading = "reading" /\ CubeTok.sy = sy
After == InSymbol(cube, at)
Refuse == reading' = "refused" /\ UNCHANGED <<cube, at, domain, shapers, grid, title, stages>>
Goto(p) == at' = SkipEoln(cube, p) /\ UNCHANGED <<cube, reading, stages>>

ReadTitle ==
    /\ Reading("Title") /\ TokenAt(cube, After).sy = "Str"
    /\ title' = TokenAt(cube, After).val
    /\ Goto(InSymbol(cube, After))
    /\ UNCHANGED <<domain, shapers, grid>>
ReadDomain ==
    /\ reading = "reading" /\ CubeTok.sy \in {"DomainMin", "DomainMax"} /\ IsRow(After)
    /\ domain' = IF CubeTok.sy = "DomainMin" THEN [domain EXCEPT !.min = Row3(After)]
                                             ELSE [domain EXCEPT !.max = Row3(After)]
    /\ Goto(PastRow(After))
    /\ UNCHANGED <<shapers, grid, title>>
ReadShaperSize ==
    /\ Reading("Lut1d") /\ TokenAt(cube, After).sy = "Inum"
    /\ Decimal[TokenAt(cube, After).val[1]] \in 2..MaxShaper
    /\ shapers' = Decimal[TokenAt(cube, After).val[1]]
    /\ Goto(InSymbol(cube, After))
    /\ UNCHANGED <<domain, grid, title>>
\* The grid's size is looked at when its nodes come.
ReadGridSize ==
    /\ Reading("Lut3d") /\ TokenAt(cube, After).sy = "Inum"
    /\ grid' = Decimal[TokenAt(cube, After).val[1]]
    /\ Goto(InSymbol(cube, After))
    /\ UNCHANGED <<domain, shapers, title>>
\* Only the range from 0 to 1 is taken.
IsUnitRange(p) ==
    LET q == InSymbol(cube, p)
    IN  /\ IsNumber(TokenAt(cube, p)) /\ IsNumber(TokenAt(cube, q))
        /\ TokenAt(cube, InSymbol(cube, q)) = Eoln
        /\ Number(TokenAt(cube, p)) = 0 /\ Number(TokenAt(cube, q)) = 10
ReadInputRange ==
    /\ Reading("InputRange") /\ IsUnitRange(After)
    /\ Goto(InSymbol(cube, InSymbol(cube, After)))
    /\ UNCHANGED <<domain, shapers, grid, title>>
SkipBlank ==
    /\ Reading("Eoln")
    /\ Goto(After)
    /\ UNCHANGED <<domain, shapers, grid, title>>

GridNodes == IF grid > 0 THEN grid * grid * grid ELSE 0
IsDataBlock == /\ grid = 0 \/ grid \in 2..MaxGrid
               /\ LET end == RowStarts(at, shapers + GridNodes)[shapers + GridNodes]
                  IN  end # 0 /\ TokenAt(cube, end).sy = "Eof"

\* The rows of the shaper, then the nodes of the CLUT, then nothing.
ReadData ==
    LET starts == RowStarts(at, shapers + GridNodes)
        shaper == [c \in Channels |-> [i \in 1..shapers |-> Scaled(Row3(starts[i - 1]), c)]]
        nodes == [i \in 1..GridNodes |-> Node(Row3(starts[shapers + i - 1]))]
    IN  /\ reading = "reading" /\ IsNumber(CubeTok) /\ IsDataBlock
        /\ stages' = (IF shapers > 0 THEN <<[kind |-> "Shaper", table |-> shaper]>> ELSE <<>>)
                     \o (IF grid > 0 THEN <<[kind |-> "Clut", table |-> nodes]>> ELSE <<>>)
        /\ at' = starts[shapers + GridNodes]
        /\ UNCHANGED <<cube, reading, domain, shapers, grid, title>>

Unfit ==
    \/ CubeTok.sy \in {"VideoRange", "Ident", "Str"}
    \/ CubeTok.sy = "Title" /\ TokenAt(cube, After).sy # "Str"
    \/ CubeTok.sy \in {"DomainMin", "DomainMax"} /\ ~IsRow(After)
    \/ CubeTok.sy \in {"Lut1d", "Lut3d"} /\ TokenAt(cube, After).sy # "Inum"
    \/ /\ CubeTok.sy = "Lut1d" /\ TokenAt(cube, After).sy = "Inum"
       /\ Decimal[TokenAt(cube, After).val[1]] \notin 2..MaxShaper
    \/ CubeTok.sy = "InputRange" /\ ~IsUnitRange(After)
    \/ IsNumber(CubeTok) /\ ~IsDataBlock
RefuseCube == reading = "reading" /\ Unfit /\ Refuse

\* The end of the text, and what the lexer cannot read, end the loop alike.
Link ==
    /\ reading = "reading" /\ CubeTok.sy \in {"Eof", "SynError"}
    /\ reading' = "linked"
    /\ UNCHANGED <<cube, at, domain, shapers, grid, title, stages>>

CubeNext ==
    \/ ReadTitle \/ ReadDomain \/ ReadShaperSize \/ ReadGridSize \/ ReadInputRange
    \/ SkipBlank \/ ReadData \/ RefuseCube \/ Link

CubeSpec == CubeInit /\ [][CubeNext]_cubeVars

-----------------------------------------------------------------------------
(* The file, without the parser: its keywords with their arguments, and the  *)
(* numbers that are no keyword's.                                            *)

Arity(sy) ==
    IF sy = "InputRange" THEN 2 ELSE IF sy \in {"DomainMin", "DomainMax"} THEN 3 ELSE 1
Keywords == {i \in DOMAIN cube : cube[i].sy \in {"Title", "DomainMin", "DomainMax", "Lut1d", "Lut3d",
                                                 "InputRange"}}
Arguments == UNION {(i + 1)..(i + Arity(cube[i].sy)) : i \in Keywords}
DataPositions == {i \in DOMAIN cube : IsNumber(cube[i]) /\ i \notin Arguments}
DataBefore(i) == Cardinality({j \in DataPositions : j < i})

\* What the text declares before a position: the last of the keyword counts.
Declarations(sy, end) == {i \in Keywords : cube[i].sy = sy /\ i < end}
DeclaredRow(sy, end, default) ==
    IF Declarations(sy, end) = {} THEN [c \in Channels |-> default]
    ELSE [c \in Channels |-> Number(cube[Max(Declarations(sy, end)) + c])]
DeclaredSize(sy, end) ==
    IF Declarations(sy, end) = {} THEN 0 ELSE Decimal[cube[Max(Declarations(sy, end)) + 1].val[1]]
Declared(end) ==
    /\ domain = [min |-> DeclaredRow("DomainMin", end, 0), max |-> DeclaredRow("DomainMax", end, 10)]
    /\ shapers = DeclaredSize("Lut1d", end) /\ grid = DeclaredSize("Lut3d", end)

\* Every number of the data, counted through, is at its row and channel.
HoldsData ==
    /\ Cardinality(DataPositions) = 3 * (shapers + GridNodes)
    /\ Len(stages) = (IF shapers > 0 THEN 1 ELSE 0) + (IF grid > 0 THEN 1 ELSE 0)
    /\ \A s \in DOMAIN stages :
         IF stages[s].kind = "Shaper" THEN \A c \in Channels : DOMAIN stages[s].table[c] = 1..shapers
                                      ELSE DOMAIN stages[s].table = 1..GridNodes
    /\ \A i \in DataPositions :
         LET row == DataBefore(i) \div 3
             c == (DataBefore(i) % 3) + 1
             value == <<Number(cube[i]) - domain.min[c], domain.max[c] - domain.min[c]>>
         IN  IF row < shapers
             THEN stages[1].kind = "Shaper" /\ stages[1].table[c][row + 1] = value
             ELSE /\ stages[Len(stages)].kind = "Clut"
                  /\ stages[Len(stages)].table[row - shapers + 1][4 - c] = value

\* A file taken as a link is the whole file (cgats.rs parse_cube): every number
\* of its data is in the pipeline once, at its row and channel, scaled by the
\* domain the file declares, the CLUT holds grid^3 nodes with R and B swapped,
\* the sizes are the declared ones, and nothing else is in it.
CubeLinkIsTheFile ==
    reading = "linked" /\ (\A i \in DOMAIN cube : cube[i] # Garbage) =>
        /\ Declared(Len(cube) + 1)
        /\ IF DataPositions = {} THEN stages = <<>> ELSE HoldsData
=============================================================================
