------------------------------ MODULE TagBodies ------------------------------
(***************************************************************************)
(* A tag value on its way through a file, byte by byte: written as its type *)
(* (serialize.rs: write_tag_body_in), found again behind a type base        *)
(* (types/mod.rs: read_tag_value_in), and written again.  The directory may *)
(* declare fewer bytes than the body has, and other bytes follow it.        *)
(***************************************************************************)
EXTENDS PlainBodies

CONSTANTS
    Items,   \* what goes through a file: a type and a value, with the version of
             \* the profile that is written, or with the bytes another wrote
    Starts,  \* where a body may start in its file
    Behind,  \* the bytes behind it
    MaxSaves \* how often a value is written

ASSUME BodyAssumptions ==
    /\ \A at \in Starts : at \in Nat /\ at % 4 = 0
    /\ Behind \in Seq(0..255)
    /\ MaxSaves \in Nat \ {0}

VARIABLES
    item,    \* the value in memory, with its type and version
    first,   \* the value it was before any save
    saves,   \* how often it was written
    file,    \* the bytes of the file
    start,   \* where the body starts, behind its type base
    size,    \* how many bytes the directory says it has
    cut,     \* whether that is fewer than were written
    step,    \* "held", "refused", "stored" or "read"
    outcome  \* what the last read gave

bodyVars == <<item, first, saves, file, start, size, cut, step, outcome>>

-----------------------------------------------------------------------------
Placed(type, bytes, at) == Zeros(at) \o TypeBase(type) \o Padded(bytes) \o Behind

BodyInit ==
    /\ \E i \in DOMAIN Items : item = Items[i]
    /\ first = item.value
    /\ start \in {at + BaseLength : at \in Starts}
    /\ saves = 0 /\ file = <<>> /\ size = 0 /\ cut = FALSE
    /\ step = "held" /\ outcome = Failed

IsFound == "bytes" \in DOMAIN item

\* Another program wrote the file.
Find ==
    /\ step = "held" /\ IsFound
    /\ file' = Placed(item.type, item.bytes, start - BaseLength)
    /\ size' = Len(item.bytes)
    /\ step' = "stored"
    /\ UNCHANGED <<item, first, saves, start, cut, outcome>>

Write ==
    /\ step = "held" /\ ~IsFound /\ saves < MaxSaves
    /\ CanWrite(item.type, item.value)
    /\ LET bytes == WriteBody(item.type, item.value, item.version)
       IN  /\ file' = Placed(item.type, bytes, start - BaseLength)
           /\ size' = Len(bytes)
    /\ saves' = saves + 1
    /\ step' = "stored"
    /\ UNCHANGED <<item, first, start, cut, outcome>>

RefuseWrite ==
    /\ step = "held"
    /\ ~CanWrite(item.type, item.value)
    /\ ~IsFound
    /\ step' = "refused"
    /\ UNCHANGED <<item, first, saves, file, start, size, cut, outcome>>

\* The directory entry of the tag declares a smaller size.
Shorten ==
    /\ step = "stored" /\ ~cut
    /\ size' \in 0..(size - 1)
    /\ cut' = TRUE
    /\ UNCHANGED <<item, first, saves, file, start, step, outcome>>

\* The type base decides the reader, and it has one.
ReadTag ==
    /\ step = "stored"
    /\ outcome' = Then(ReadNumbers(file, start - BaseLength, 2, 4), LAMBDA base, at :
                      Unless(base[1] \notin DOMAIN BodyTypes,
                             ReadValue(BodyTypes[base[1]], file, at, size)))
    /\ step' = "read"
    /\ UNCHANGED <<item, first, saves, file, start, size, cut>>

\* The value that was read takes the place of the one that was written.
Keep ==
    /\ step = "read" /\ ~cut /\ ~IsFound /\ outcome.ok
    /\ item' = [item EXCEPT !.value = outcome.value]
    /\ step' = "held"
    /\ UNCHANGED <<first, saves, file, start, size, cut, outcome>>

BodyNext == Find \/ Write \/ RefuseWrite \/ Shorten \/ ReadTag \/ Keep

BodySpec == BodyInit /\ [][BodyNext]_bodyVars

-----------------------------------------------------------------------------
(***************************************************************************)
(* The readers are the inverse of the writers (serialize.rs:1), for every   *)
(* type, wherever the body starts and whatever follows it: a value reads    *)
(* back as itself but for what its type cannot hold, and saving it again    *)
(* loses no more.  What reads back is never refused.                        *)
(***************************************************************************)
BodiesReadBack ==
    /\ (step = "read" /\ ~cut) =>
          outcome.ok /\ outcome.value = (IF IsFound THEN first ELSE Kept(item.type, first, item.version))
    /\ step = "refused" => saves = 0

\* The types whose readers are given the size of the tag.  A text may be
\* shorter than its tag, and a list without texts has no end to check.
Sized == {"sf32", "uf32", "ui32", "ui08", "data", "cicp", "text", "desc", "mluc", "crdi", "bfd"}

(***************************************************************************)
(* A reader that checks the size it is given (types/trivial.rs, mlu.rs,     *)
(* curve.rs and structs.rs) keeps to it when the directory declares less    *)
(* than the body holds: it fails or ends inside the tag, and never takes    *)
(* the bytes behind for its own.                                            *)
(***************************************************************************)
CheckedReadsStayInTag ==
    (step = "read" /\ outcome.ok /\ item.type \in Sized) =>
        \/ outcome.at <= start + size
        \/ item.type = "mluc" /\ outcome.value = <<>>

(***************************************************************************)
(* Texts survive a save as text or textDescription: preferred_ascii says    *)
(* that a unit below 0xFF becomes "that byte" (tag.rs:324).                 *)
(***************************************************************************)
TextsReadBack ==
    (step = "read" /\ ~cut /\ item.type \in {"text", "desc"}) =>
        outcome.ok /\ outcome.value = Kept(item.type, first, item.version)

(***************************************************************************)
(* A profile sequence written under any version can be read back: the       *)
(* script block behind a textDescription does not have to be consumed       *)
(* (mlu.rs:230).                                                            *)
(***************************************************************************)
SequencesReadBack == (step = "read" /\ ~cut /\ item.type = "pseq") => outcome.ok

=============================================================================
