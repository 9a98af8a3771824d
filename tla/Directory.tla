------------------------------ MODULE Directory ------------------------------
(***************************************************************************)
(* Opening a profile: the header check and the tag-directory loop of        *)
(* profile/directory.rs, one action per loop iteration, and the link chase  *)
(* (search_tag) every later read goes through.                              *)
(***************************************************************************)
EXTENDS ProfileFile

CONSTANTS
    MaxTableTag   \* MAX_TABLE_TAG

TagEntry == [sig : Sig, offset : 0..U32Max, size : 0..U32Max,
             linked : Sig \cup {NoLink}]

ASSUME DirectoryAssumption ==
    /\ MaxTableTag \in Nat
    /\ NoLink \notin Sig

VARIABLES
    file,     \* the slice being opened
    phase,    \* "closed", "parsing", "open" or "failed"
    seen,     \* entries of the table read so far
    entries   \* accepted entries, in directory order

dirVars == <<file, phase, seen, entries>>

-----------------------------------------------------------------------------
\* Mutants: any tag with the range is a candidate; only the last entry is.
LinkCandidatesAnyTag(es, e) == {j \in DOMAIN es : SameRange(es[j], e)}
LinkCandidatesLast(es, e) ==
    {j \in DOMAIN es : /\ j = Len(es)
                       /\ SameRange(es[j], e)
                       /\ CompatibleTypes(es[j].sig, e.sig)}

\* The earlier entries over the same bytes that this one may share a body with.
LinkCandidates(es, e) ==
    {j \in DOMAIN es : SameRange(es[j], e) /\ CompatibleTypes(es[j].sig, e.sig)}

\* Mutant: the link is the entry's index.
LinkOfIndex(es, e) ==
    LET candidates == LinkCandidates(es, e)
    IN  IF candidates = {} THEN NoLink ELSE Max(candidates)

\* The loop overwrites `linked`, so the last match wins.
LinkOf(es, e) ==
    LET candidates == LinkCandidates(es, e)
    IN  IF candidates = {} THEN NoLink ELSE es[Max(candidates)].sig

Accepted(es, e) ==
    [sig |-> e.sig, offset |-> e.offset, size |-> e.size, linked |-> LinkOf(es, e)]

\* Mutant: only neighbours are compared.
HasDuplicateNeighbours(es) ==
    \E i \in DOMAIN es : i + 1 \in DOMAIN es /\ es[i].sig = es[i + 1].sig

HasDuplicate(es) ==
    \E i, j \in DOMAIN es : i # j /\ es[i].sig = es[j].sig

-----------------------------------------------------------------------------
Init ==
    /\ file = NoFile
    /\ phase = "closed"
    /\ seen = 0
    /\ entries = <<>>

\* Mutant: a directory may have one entry more than the limit.
OpenPastLimit(f) ==
    /\ phase = "closed"
    /\ file' = f
    /\ phase' = IF f.headerOk /\ DirStart + 4 <= f.len /\ f.count <= MaxTableTag + 1
                THEN "parsing" ELSE "failed"
    /\ seen' = 0
    /\ entries' = <<>>

(***************************************************************************)
(* Profile::open: Header::parse, then the tag count.  A slice that ends     *)
(* before the count, a bad header or a count above the limit is an error.   *)
(***************************************************************************)
Open(f) ==
    /\ phase = "closed"
    /\ file' = f
    /\ phase' = IF f.headerOk /\ DirStart + 4 <= f.len /\ f.count <= MaxTableTag
                THEN "parsing" ELSE "failed"
    /\ seen' = 0
    /\ entries' = <<>>

\* One iteration of the directory loop: read an entry, drop it or accept it.
ParseEntry ==
    /\ phase = "parsing"
    /\ seen < file.count
    /\ EntryAt(seen + 2) <= file.len
    /\ seen' = seen + 1
    /\ LET e == file.table[seen + 1]
       IN  entries' = IF Dropped(file, e) THEN entries
                      ELSE Append(entries, Accepted(entries, e))
    /\ UNCHANGED <<file, phase>>

\* The slice ends inside the next entry: read_u32 fails and open returns Err.
Truncated ==
    /\ phase = "parsing"
    /\ seen < file.count
    /\ EntryAt(seen + 2) > file.len
    /\ phase' = "failed"
    /\ UNCHANGED <<file, seen, entries>>

\* After the loop: a signature accepted twice rejects the whole profile.
FinishDirectory ==
    /\ phase = "parsing"
    /\ seen = file.count
    /\ phase' = IF HasDuplicate(entries) THEN "failed" ELSE "open"
    /\ UNCHANGED <<file, seen, entries>>

ParseStep == ParseEntry \/ Truncated \/ FinishDirectory

Next == (\E f \in Files : Open(f)) \/ ParseStep

Spec == Init /\ [][Next]_dirVars

-----------------------------------------------------------------------------
\* tag_entry: the index of the first entry with this signature, 0 when absent.
TagEntryOf(es, sig) ==
    LET at == {i \in DOMAIN es : es[i].sig = sig}
    IN  IF at = {} THEN 0 ELSE Min(at)

(***************************************************************************)
(* search_tag: from tag_entry(sig), follow `linked` at most Len(es) times.  *)
(* Chase(es)[n][i] is where n iterations from index i end: an index into    *)
(* es, or 0 when the tag or a target is absent.                             *)
(***************************************************************************)
Chase(es) ==
    LET From[n \in 0..Len(es)] ==
            [i \in 0..Len(es) |->
                IF n = 0 \/ i = 0 THEN i
                ELSE IF es[i].linked = NoLink THEN i
                ELSE From[n - 1][TagEntryOf(es, es[i].linked)]]
    IN  From

SearchTag(es, sig) == Chase(es)[Len(es)][TagEntryOf(es, sig)]

-----------------------------------------------------------------------------
TypeOK ==
    /\ IF phase = "closed" THEN file = NoFile ELSE IsFile(file)
    /\ phase \in {"closed", "parsing", "open", "failed"}
    /\ seen \in Nat
    /\ entries \in Seq(TagEntry)

(***************************************************************************)
(* Every accepted entry is a non-empty range of bytes that are really       *)
(* there, in unbounded arithmetic: the wrapped u32 sum cannot let one past  *)
(* the end through, so slicing a tag's payload can never fail.              *)
(***************************************************************************)
EntriesInBounds ==
    \A i \in DOMAIN entries :
        /\ entries[i].offset > 0
        /\ entries[i].size > 0
        /\ entries[i].offset + entries[i].size <= file.len

(***************************************************************************)
(* A link names an entry accepted earlier, over the same bytes, with a      *)
(* compatible descriptor; and an entry is left unlinked only when there is  *)
(* no such earlier entry.                                                   *)
(***************************************************************************)
LinksPointBack ==
    \A i \in DOMAIN entries :
        LET earlier == {j \in 1..(i - 1) :
                          /\ SameRange(entries[j], entries[i])
                          /\ CompatibleTypes(entries[j].sig, entries[i].sig)}
        IN  IF entries[i].linked = NoLink THEN earlier = {}
            ELSE \E j \in earlier : entries[j].sig = entries[i].linked

(***************************************************************************)
(* On an opened profile the bounded chase always ends at an entry that      *)
(* holds data itself, over the same bytes as the tag asked for, and with a  *)
(* compatible descriptor when it is another tag.                            *)
(***************************************************************************)
SearchReachesData ==
    phase = "open" =>
        \A i \in DOMAIN entries :
            LET r == SearchTag(entries, entries[i].sig)
            IN  /\ r \in 1..i
                /\ entries[r].linked = NoLink
                /\ SameRange(entries[r], entries[i])
                /\ r # i => CompatibleTypes(entries[r].sig, entries[i].sig)

(***************************************************************************)
(* On an opened profile, compatible tags over the same bytes resolve to one *)
(* entry, so they share one slot of the decoded-value cache; all other tags *)
(* resolve apart.                                                           *)
(***************************************************************************)
OneSlotPerBody ==
    phase = "open" =>
        \A i, j \in DOMAIN entries :
            i # j =>
              ((SearchTag(entries, entries[i].sig) = SearchTag(entries, entries[j].sig))
               <=> (/\ SameRange(entries[i], entries[j])
                    /\ CompatibleTypes(entries[i].sig, entries[j].sig)))

=============================================================================
