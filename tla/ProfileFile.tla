----------------------------- MODULE ProfileFile -----------------------------
(***************************************************************************)
(* A profile's bytes, as far as the reader can tell them apart:             *)
(*   headerOk  Header::parse accepts the first 128 bytes                    *)
(*   size      the header's size field                                      *)
(*   len       the number of bytes actually there                           *)
(*   count     the u32 tag count at byte 128                                *)
(*   table     the 12-byte directory entries the bytes reach                *)
(* and the arithmetic of profile/directory.rs over the directory's ranges.  *)
(***************************************************************************)
EXTENDS TagTable, FiniteSetsExt

CONSTANTS
    U32,     \* the modulus of u32 arithmetic (2^32; small for TLC)
    NoLink,  \* linked: None, a tag with a body of its own
    NoFile,  \* no profile opened yet
    Files    \* the byte slices a caller may open

U32Max == U32 - 1
DirStart == 128
EntryAt(i) == DirStart + 4 + 12 * (i - 1)    \* byte of the i-th entry, from 1

RawEntry == [sig : Sig, offset : 0..U32Max, size : 0..U32Max]

IsFile(f) ==
    /\ f.headerOk \in BOOLEAN
    /\ f.size \in 0..U32Max
    /\ f.len \in Nat
    /\ f.count \in 0..U32Max
    /\ f.table \in Seq(RawEntry)
    /\ \A i \in 1..f.count : EntryAt(i + 1) <= f.len => i \in DOMAIN f.table

ASSUME FileAssumption ==
    /\ U32 \in Nat \ {0}
    /\ NoFile \notin Files
    /\ \A f \in Files : IsFile(f)

-----------------------------------------------------------------------------
\* u32 wrapping_add

WrappingAdd(a, b) == IF a + b < U32 THEN a + b ELSE a + b - U32

LesserOf(a, b) == IF a < b THEN a ELSE b

\* min(header.size, u32::try_from(slice_len).unwrap_or(u32::MAX))
HeaderClamped(f) == LesserOf(f.size, LesserOf(f.len, U32Max))

\* Mutant: the wrapped sum is compared with the size only.
DroppedUnlessWrapped(f, e) ==
    \/ e.size = 0
    \/ e.offset = 0
    \/ WrappingAdd(e.offset, e.size) > HeaderClamped(f)

\* The sanity skip: nothing at all, past the end, or wrapped around.
Dropped(f, e) ==
    LET end == WrappingAdd(e.offset, e.size)
    IN  \/ e.size = 0
        \/ e.offset = 0
        \/ end > HeaderClamped(f)
        \/ end < e.offset

SameRange(a, b) == a.offset = b.offset /\ a.size = b.size

\* The directory lists the tag with this range, and the bytes are all there.
HoldsTag(f, sig, range) ==
    /\ \E i \in 1..f.count :
          f.table[i].sig = sig /\ SameRange(f.table[i], range)
    /\ range.offset > 0
    /\ range.size > 0
    /\ range.offset + range.size <= f.len

=============================================================================
