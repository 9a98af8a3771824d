----------------------------- MODULE TagResave ------------------------------
(***************************************************************************)
(* The life of one tag in every profile it passes through: read from a file *)
(* (types/mod.rs), put in a WritableProfile of some version, saved as the   *)
(* type the deciders choose (serialize.rs), opened again, saved again.      *)
(***************************************************************************)
EXTENDS TagTypes, SequencesExt

-----------------------------------------------------------------------------
(***************************************************************************)
(* The stages of a LUT tag through read and save: which stage               *)
(* sequences each type reads as (types/lut.rs), which ones each writer      *)
(* accepts and what they read back as (serialize.rs: disassemble_lut,       *)
(* disassemble_a2b, disassemble_b2a and their writers).  The channel counts *)
(* are those every stage sequence is possible with, three in and three out. *)
(*                                                                         *)
(* A stage is one of                                                       *)
(*   "C"  tone curves, all tables of one length                             *)
(*   "R"  tone curves with tables of unequal lengths                        *)
(*   "I"  the identity ramps a writer puts where there were no curves       *)
(*   "M"  a matrix other than the identity, with no offset                  *)
(*   "E"  the identity matrix, with no offset                               *)
(*   "O"  a matrix with an offset                                           *)
(*   "L"  a CLUT with the same number of grid points in every dimension     *)
(*   "N"  a CLUT without                                                    *)
(*   "X", "Y"  curves and a CLUT read from the wrong bytes                  *)
(***************************************************************************)

Curves == {"C", "R", "I", "X"}
Matrices == {"M", "E", "O"}
Cluts == {"L", "N", "Y"}

\* "" stands for a stage that is not there.
Optional(kinds) == {""} \cup kinds
Compact(seq) == SelectSeq(seq, LAMBDA x : x # "")
StageLists(a, b, c, d, e) == {Compact(<<p, q, r, s, t>>) :
                                p \in a, q \in b, r \in c, s \in d, t \in e}

\* A body the reader rejects.
Unreadable == <<"unreadable">>

\* What the bytes of a type may decode to: read_lut8, read_lut16,
\* read_lut_a2b, read_lut_b2a.
ReadShapes(type) ==
    LET AnyCurves == Optional({"C", "R"})
    IN  CASE type = "mft1" -> StageLists(Optional({"M"}), {"C"}, Optional({"L"}), {"C"}, {""})
          [] type = "mft2" -> StageLists(Optional({"M"}), Optional({"C"}), Optional({"L"}),
                                         Optional({"C"}), {""})
          [] type = "mAB " -> StageLists(AnyCurves, Optional({"L", "N"}), AnyCurves,
                                         Optional(Matrices), AnyCurves)
          [] type = "mBA " -> StageLists(AnyCurves, Optional(Matrices), AnyCurves,
                                         Optional({"L", "N"}), AnyCurves)
          [] OTHER -> {<<>>}

-----------------------------------------------------------------------------
\* The optional head of a stage list, as one step of disassemble_lut takes it.
Takes(stages, kinds) == stages # <<>> /\ Head(stages) \in kinds
Taken(stages, kinds) == IF Takes(stages, kinds) THEN Head(stages) ELSE ""
After(stages, kinds) == IF Takes(stages, kinds) THEN Tail(stages) ELSE stages

\* disassemble_lut: the four optional parts, and what is left over.
Parts(stages) ==
    LET noMatrix == After(stages, Matrices)
        noPre == After(noMatrix, Curves)
        noClut == After(noPre, Cluts)
    IN  [matrix |-> Taken(stages, Matrices), pre |-> Taken(noMatrix, Curves),
         clut |-> Taken(noPre, Cluts), post |-> Taken(noClut, Curves),
         rest |-> After(noClut, Curves)]

\* ... and uniform_clut_points
FitsLut16(stages) == Parts(stages).rest = <<>> /\ Parts(stages).clut # "N"

(***************************************************************************)
(* write_lut16 stores the nine matrix coefficients and no offset, and       *)
(* read_matrix makes no stage of the identity.                              *)
(***************************************************************************)
MatrixBack(matrix) ==
    CASE matrix = "O" -> {"M", ""}
      [] matrix = "E" -> {""}
      [] OTHER -> {matrix}

(***************************************************************************)
(* write_lut16 declares the length of the first table of a curve set only,  *)
(* and write_16bit_tables writes every table in full: after unequal tables  *)
(* the reader is at the wrong bytes, or runs out of them.  A missing curve  *)
(* set is written as identity ramps.                                        *)
(***************************************************************************)
TablesBack(curves) ==
    CASE curves = "" -> "I"
      [] curves = "R" -> "X"
      [] OTHER -> curves

\* Mutants: the matrix is always written as the identity; the output tables
\* are written before the CLUT.
Lut16BackNoMatrix(stages) ==
    LET p == Parts(stages)
    IN  {Compact(<<TablesBack(p.pre), p.clut, TablesBack(p.post)>>)}
Lut16BackSwapped(stages) ==
    LET p == Parts(stages)
    IN  {Compact(<<m, TablesBack(p.pre), TablesBack(p.post), p.clut>>) :
           m \in MatrixBack(p.matrix)}

Lut16Back(stages) ==
    LET p == Parts(stages)
        astray == p.pre = "R"
        clut == IF astray /\ p.clut # "" THEN "Y" ELSE p.clut
        post == IF astray THEN "X" ELSE TablesBack(p.post)
    IN  {Compact(<<m, TablesBack(p.pre), clut, post>>) : m \in MatrixBack(p.matrix)}
          \cup (IF "R" \in {p.pre, p.post} THEN {Unreadable} ELSE {})

\* The accepted stage lists of disassemble_a2b (disassemble_b2a backwards).
Matches(stages, pattern) ==
    /\ Len(stages) = Len(pattern)
    /\ \A i \in DOMAIN pattern : stages[i] \in pattern[i]

FitsA2B(stages) ==
    \/ Matches(stages, <<Curves>>)
    \/ Matches(stages, <<Curves, Matrices, Curves>>)
    \/ Matches(stages, <<Curves, Cluts, Curves>>)
    \/ Matches(stages, <<Curves, Cluts, Curves, Matrices, Curves>>)

FitsB2A(stages) == FitsA2B(Reverse(stages))

Fits(type, stages) ==
    CASE type = "mft2" -> FitsLut16(stages)
      [] type = "mAB " -> FitsA2B(stages)
      [] type = "mBA " -> FitsB2A(stages)
      [] OTHER -> TRUE

\* write_mab_mba and write_mpe store every curve, matrix, offset and CLUT on
\* its own; the elements of an mpet tag are not modelled.
ReadsBack(type, stages) == IF type = "mft2" THEN Lut16Back(stages) ELSE {stages}

\* The stages that do something.
Significant(stages) == SelectSeq(stages, LAMBDA x : x \notin {"I", "E"})

Has(stages, kind) == \E i \in DOMAIN stages : stages[i] = kind

-----------------------------------------------------------------------------
VARIABLES
    sig,     \* the tag
    stored,  \* its on-disk type now
    body,    \* its curve's shape, or its LUT's stages, now
    origin,  \* the type and the body it was first read from
    save     \* the last save: "none", "v2", "v4" or "refused"

tagVars == <<sig, stored, body, origin, save>>

-----------------------------------------------------------------------------
\* What the bytes of a type may hold: a curve's shape, a LUT's stages, or
\* nothing the types tell apart.
Bodies(type) ==
    CASE type = "curv" -> {<<"table">>, <<"gamma">>}
      [] type = "para" -> {<<"gamma">>, <<"parametric">>}
      [] OTHER -> ReadShapes(type)

\* What a body reads back as once written as `type`: `para` keeps a segment,
\* `curv` keeps a gamma and samples the others.
BodiesAfter(type, contents) ==
    CASE type = "curv" -> {IF contents = <<"parametric">> THEN <<"table">> ELSE contents}
      [] type = "para" -> {contents}
      [] OTHER -> ReadsBack(type, contents)

\* A tag as some file holds it: stored as a type the table allows for it and
\* the reader decodes.
TagInit ==
    /\ sig \in TagSigs
    /\ stored \in Table!AllowedTypes(sig)
    /\ VariantRead(stored) # "none"
    /\ body \in Bodies(stored)
    /\ origin = [stored |-> stored, body |-> body]
    /\ save = "none"

NextType(version) ==
    WriteTypeFor(sig, VariantRead(stored), IF body = <<>> THEN "" ELSE Head(body),
                 version = "v4")

\* There is a writer for the value, and the LUT's stages fit the type.
Accepted(version) == NextType(version) # "none" /\ Fits(NextType(version), body)

\* The tag can be read, and no save of it has been refused yet.
Resavable ==
    /\ stored \in Table!AllowedTypes(sig)
    /\ body # Unreadable
    /\ save # "refused"

\* Read it, put the value in a profile of this version, save and reopen.
Resave(version) ==
    /\ Resavable
    /\ Accepted(version)
    /\ save' = version
    /\ stored' = NextType(version)
    /\ body' \in BodiesAfter(NextType(version), body)
    /\ UNCHANGED <<sig, origin>>

\* The whole save fails, and the file stays as it was.
Refuse(version) ==
    /\ Resavable
    /\ ~Accepted(version)
    /\ save' = "refused"
    /\ UNCHANGED <<sig, stored, body, origin>>

TagNext == \E version \in {"v2", "v4"} : Resave(version) \/ Refuse(version)

TagSpec == TagInit /\ [][TagNext]_tagVars

-----------------------------------------------------------------------------
(***************************************************************************)
(* Whatever type a tag was read from, and however often it is saved again   *)
(* under version 2 or 4, it stays stored as a type the table allows for it  *)
(* and the reader decodes.  profileDescriptionML is the exception:          *)
(* decide_text (serialize.rs:508) has no arm for it and writes it as text,  *)
(* which its row does not allow.                                            *)
(***************************************************************************)
ResavedTagStaysReadable ==
    sig # "dscm" => stored \in Table!AllowedTypes(sig) /\ VariantRead(stored) # "none"

\* The text family is one kind: text, desc and mluc are all held as an MLU.
Family(variant) == IF variant \in {"Text", "Mlu"} THEN "text" ELSE variant

(***************************************************************************)
(* A tag never comes back as another kind of value.  Tags without a writer  *)
(* are always refused, LUTs when their stages do not fit, no others.        *)
(***************************************************************************)
ResaveKeepsKind ==
    /\ Family(VariantRead(stored)) = Family(VariantRead(origin.stored))
    /\ save = "refused" => VariantRead(stored) \in Unwritable \cup {"Lut"}
    /\ save \in {"v2", "v4"} => VariantRead(origin.stored) \notin Unwritable

(***************************************************************************)
(* A LUT with tables of one length per curve set and no matrix offset keeps *)
(* its stages, up to identities, through every sequence of saves, whatever  *)
(* the versions and types it passes through.                                *)
(***************************************************************************)
UniformLutsSurvive ==
    (/\ VariantRead(stored) = "Lut"
     /\ ~Has(origin.body, "R") /\ ~Has(origin.body, "O")) =>
        Significant(body) = Significant(origin.body)

(***************************************************************************)
(* What was saved under a version can be saved under that version again:    *)
(* the ramps a writer fills in never make a LUT unsavable.                  *)
(***************************************************************************)
SavedCanBeSavedAgain ==
    (save \in {"v2", "v4"} /\ body # Unreadable) => Accepted(save)

(***************************************************************************)
(* Saving again under the version of the last save changes nothing, and a   *)
(* version 4 save never loses a curve's parameters or a LUT's stage.        *)
(***************************************************************************)
ResaveIsStable ==
    [][ /\ save' = save => stored' = stored /\ body' = body
        /\ save' = "v4" => body' = body ]_tagVars

=============================================================================
