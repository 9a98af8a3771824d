----------------------------- MODULE MCLifecycle -----------------------------
(***************************************************************************)
(* Instance of Lifecycle for TLC: three curve tags that may share a body and*)
(* an array tag with an element floor; a curve of odd size, another value   *)
(* with padding inside, an array shorter than the floor and one at it, one  *)
(* large enough to pass the u32 limit and one without a writer.             *)
(***************************************************************************)
EXTENDS Lifecycle, TLC

CONSTANTS rTRC, gTRC, bTRC, chad, curv, sf32, d1, d2, d3, d4, d5

MCSig == {rTRC, gTRC, bTRC, chad}
MCType == {curv, sf32}
MCArrayWidth == [t \in MCType |-> IF t = sf32 THEN 4 ELSE 0]
MCDescriptor ==
    [s \in MCSig |-> IF s = chad THEN [elem_count |-> 3, allowed_types |-> <<sf32>>]
                     ELSE [elem_count |-> 1, allowed_types |-> <<curv>>]]

Val(data, type, lead, align, tail) ==
    [data |-> data, types |-> {type}, lead |-> lead, align |-> align, tail |-> tail,
     decoders |-> {Builtin}]

Odd == Val(d1, curv, 5, 1, 0)
Padded == Val(d2, curv, 6, 4, 3)
Short == Val(d3, sf32, 8, 1, 0)
Floor == Val(d4, sf32, 12, 1, 0)

Huge == Val(d5, sf32, 400, 1, 0)
NoWriter == Val(d5, curv, 4, 1, 1)

MCValues == {Odd, Padded, Short, Floor, Huge, NoWriter}
MCWriteType ==
    [sv \in MCSig \X MCValues |->
        IF sv[2] = NoWriter THEN NoType
        ELSE IF sv[2] \in {Odd, Padded} THEN curv ELSE sf32]
MCContexts == {EmptyContext}

\* The three curve tags differ in nothing: descriptor, types and values are the same.
MCSymmetry == Permutations({rTRC, gTRC, bTRC})

(***************************************************************************)
(* Bound of the instance: of the tables of MaxSlots slots, which the reader *)
(* refuses for their number, those of one curve and one array.              *)
(***************************************************************************)
FullTablesAreSimple ==
    Len(slots) = MaxSlots =>
        \A i \in DOMAIN slots : IsLink(slots[i]) \/ slots[i].value \in {Odd, Floor}

=============================================================================
