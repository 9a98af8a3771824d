----------------------------- MODULE WholeProfile -----------------------------
(***************************************************************************)
(* A profile from its header and tags to the bytes of its file and back:    *)
(* save_to_mem_in (profile/serialize.rs), Profile::open (profile/mod.rs,    *)
(* directory.rs) and read_tag_in together, with the real layouts of the     *)
(* header, the directory and the tag bodies.  What was read is put in a     *)
(* profile and saved again; a file may be cut short before it is opened.    *)
(***************************************************************************)
EXTENDS PlainBodies, VirtualProfiles, TagTypes

CONSTANTS
    WrittenProfiles,  \* the profiles a caller saves: a header and slots
    Cuts              \* where a file may end early

ASSUME WholeAssumptions == Cuts \subseteq Nat

VARIABLES
    profile,   \* the WritableProfile
    image,     \* the bytes of its file
    earlier,   \* the bytes of the file it was read from, if it was
    torn,      \* whether the file was cut short
    view,      \* what Profile::open made of it
    answer,    \* the last tag read, and its value
    phase      \* "built", "refused", "saved", "open" or "rejected"

wholeVars == <<profile, image, earlier, torn, view, answer, phase>>

-----------------------------------------------------------------------------
\* The types of TagTypes carry their full signatures.
BodyName(type) ==
    CASE type = "XYZ " -> "XYZ" [] type = "sig " -> "sig" [] type = "bfd " -> "bfd"
      [] type = "mAB " -> "mAB" [] type = "mBA " -> "mBA" [] OTHER -> type
SignatureOf(name) == CHOOSE type \in TypeSigs : BodyName(type) = name

CurveShape(slot) ==
    IF slot.variant # "Curve" THEN "none"
    ELSE IF IsGamma(slot.value) THEN "gamma"
    ELSE IF Len(slot.value.segments) = 1 /\ slot.value.segments[1].type \in 0..5 THEN "parametric"
    ELSE "table"

\* write_type_for
TypeOfSlot(slot, version) == WriteTypeFor(slot.tag, slot.variant, CurveShape(slot), version = "v4")

IsLinkSlot(slot) == slot.linked # NoTarget

\* SetLinks: the first slot that has the tag and a body, 0 when none does.
Owner(slots, i) ==
    IF IsLinkSlot(slots[i])
    THEN SelectInSeq(slots, LAMBDA s : s.tag = slots[i].linked /\ ~IsLinkSlot(s))
    ELSE i

Savable(p) ==
    \A i \in DOMAIN p.slots :
        IF IsLinkSlot(p.slots[i]) THEN Owner(p.slots, i) # 0
        ELSE LET type == TypeOfSlot(p.slots[i], VersionOf(p.header))
             IN  type # "none" /\ CanWrite(BodyName(type), p.slots[i].value)

\* A type base and a body, without the padding behind it; nothing for a link.
SlotBytes(slot, version) ==
    LET body(type) == TypeBase(type) \o WriteBody(type, slot.value, version)
    IN  IF IsLinkSlot(slot) THEN <<>> ELSE body(BodyName(TypeOfSlot(slot, version)))

\* Mutant: the padding is written, but not counted.
OffsetUnpadded(bodies, i) ==
    HeaderLength + 4 + 12 * Len(bodies) + Len(FlattenSeq(SubSeq(bodies, 1, i - 1)))

\* header_and_directory_len and the bodies before this one.
Offset(bodies, i) ==
    HeaderLength + 4 + 12 * Len(bodies)
    + Len(FlattenSeq([j \in 1..(i - 1) |-> Padded(bodies[j])]))

TagNumber(tag) == SelectInSeq(VirtualTags, LAMBDA t : t = tag)

WriteDirectoryEntry(p, bodies, i) ==
    LET owner == Owner(p.slots, i)
    IN  Numbers(<<TagNumber(p.slots[i].tag), Offset(bodies, owner), Len(bodies[owner])>>, 4)

\* save_to_mem_in
SavedBytes(p) ==
    LET n == Len(p.slots)
        whole(bodies, stored) ==
            WriteHeader(p.header, HeaderLength + 4 + 12 * n + Len(stored)) \o U32(n)
            \o FlattenSeq([i \in 1..n |-> WriteDirectoryEntry(p, bodies, i)]) \o stored
        withBodies(bodies) == whole(bodies, FlattenSeq([i \in 1..n |-> Padded(bodies[i])]))
    IN  withBodies([i \in 1..n |-> SlotBytes(p.slots[i], VersionOf(p.header))])

-----------------------------------------------------------------------------
\* parse_directory: an entry without bytes, or past the end, is passed over;
\* a tag whose range an earlier compatible one has is a link to the last such.
AcceptEntry(entries, entry) ==
    LET twins == SelectSeq(entries, LAMBDA e :
                     /\ e.offset = entry[2] /\ e.size = entry[3]
                     /\ Table!CompatibleTypes(e.tag, VirtualTags[entry[1]]))
    IN  Append(entries, [tag |-> VirtualTags[entry[1]], offset |-> entry[2], size |-> entry[3],
                         linked |-> IF twins = <<>> THEN NoTarget ELSE Last(twins).tag])

MaxTags == 100
ReadDirectory(bytes, header) ==
    LET last == IF header.size < Len(bytes) THEN header.size ELSE Len(bytes)
        sound(entry) == entry[2] # 0 /\ entry[3] # 0 /\ entry[2] + entry[3] <= last
        distinct(found, at) ==
            Unless(\E i, j \in DOMAIN found : i # j /\ found[i].tag = found[j].tag, Got(found, at))
    IN  Then(ReadNumber(bytes, HeaderLength, 4), LAMBDA count, here :
            Unless(count > MaxTags,
                Then(InTurn(count, here, LAMBDA i, next : ReadNumbers(bytes, next, 3, 4)),
                     LAMBDA table, end :
                         distinct(FoldLeft(AcceptEntry, <<>>, SelectSeq(table, sound)), end))))

\* Profile::open
Opened(bytes) ==
    Then(ReadHeader(bytes), LAMBDA header, at :
        As(ReadDirectory(bytes, header), LAMBDA entries : [header |-> header, entries |-> entries]))

\* tag_entry and search_tag, 0 when there is none.
EntryOf(entries, tag) == SelectInSeq(entries, LAMBDA e : e.tag = tag)
Searched(entries, tag) ==
    FoldLeft(LAMBDA i, hop : IF i = 0 THEN 0
                               ELSE IF entries[i].linked = NoTarget THEN i
                               ELSE EntryOf(entries, entries[i].linked),
             EntryOf(entries, tag), entries)

ElementsOf(type, value) == IF type \in WordTypes THEN Len(value) ELSE 1

\* read_tag_in, without its cache: the type base has to be one of the tag's.
TagAt(bytes, entry, tag) ==
    LET whole(name, value, at) ==
            Unless(ElementsOf(name, value) < SupportedTags[tag].elem_count,
                   Got([variant |-> VariantRead(SignatureOf(name)), value |-> value], at))
        ofType(name, here) ==
            Unless(name \notin {BodyName(t) : t \in Table!AllowedTypes(tag)},
                Then(ReadValue(name, bytes, here, entry.size - BaseLength),
                     LAMBDA value, at : whole(name, value, at)))
    IN  Unless(entry.size < BaseLength,
            Then(ReadNumbers(bytes, entry.offset, 2, 4), LAMBDA base, here :
                Unless(base[1] \notin DOMAIN BodyTypes, ofType(BodyTypes[base[1]], here))))

ReadTagIn(bytes, entries, tag) ==
    LET i == Searched(entries, tag) IN IF i = 0 THEN Failed ELSE TagAt(bytes, entries[i], tag)

-----------------------------------------------------------------------------
NoAnswer == [tag |-> NoTarget]

WholeInit ==
    /\ \E i \in DOMAIN WrittenProfiles : profile = WrittenProfiles[i]
    /\ image = <<>> /\ earlier = <<>> /\ torn = FALSE
    /\ view = Failed /\ answer = NoAnswer /\ phase = "built"

SaveProfile ==
    /\ phase = "built" /\ Savable(profile)
    /\ image' = SavedBytes(profile)
    /\ phase' = "saved"
    /\ UNCHANGED <<profile, earlier, torn, view, answer>>

RefuseProfile ==
    /\ phase = "built" /\ ~Savable(profile)
    /\ phase' = "refused"
    /\ UNCHANGED <<profile, image, earlier, torn, view, answer>>

\* Only the first bytes of the file are there.
Tear ==
    /\ phase = "saved" /\ ~torn
    /\ \E k \in Cuts : k < Len(image) /\ image' = SubSeq(image, 1, k)
    /\ torn' = TRUE
    /\ UNCHANGED <<profile, earlier, view, answer, phase>>

OpenProfile ==
    /\ phase = "saved"
    /\ view' = Opened(image)
    /\ phase' = IF view'.ok THEN "open" ELSE "rejected"
    /\ UNCHANGED <<profile, image, earlier, torn, answer>>

AskTag ==
    /\ phase = "open"
    /\ \E tag \in ToSet(VirtualTags) :
          answer' = [tag |-> tag, read |-> ReadTagIn(image, view.value.entries, tag)]
    /\ UNCHANGED <<profile, image, earlier, torn, view, phase>>

\* build_writable of the round-trip test: a link to where its chain ends, and
\* a value that was read and has a writer, which saving it alone tells.
NotCopied == [tag |-> NoTarget]
WriterSupports(slot) == Savable([header |-> view.value.header, slots |-> <<slot>>])
CopiedSlot(entries, entry) ==
    LET slot(value) == TagSlot(entry.tag, value.variant, value.value)
        kept(read) == IF ~read.ok THEN NotCopied
                      ELSE IF WriterSupports(slot(read.value)) THEN slot(read.value) ELSE NotCopied
    IN  IF entry.linked # NoTarget
        THEN LinkSlot(entry.tag, entries[Searched(entries, entry.tag)].tag)
        ELSE kept(ReadTagIn(image, entries, entry.tag))

CopiedSlots(entries) ==
    SelectSeq([i \in DOMAIN entries |-> CopiedSlot(entries, entries[i])], LAMBDA s : s # NotCopied)

Rebuild ==
    /\ phase = "open" /\ ~torn /\ earlier = <<>>
    /\ profile' = [header |-> view.value.header, slots |-> CopiedSlots(view.value.entries)]
    /\ earlier' = image
    /\ image' = <<>> /\ view' = Failed /\ answer' = NoAnswer
    /\ phase' = "built"
    /\ UNCHANGED torn

WholeNext ==
    SaveProfile \/ RefuseProfile \/ Tear \/ OpenProfile \/ AskTag \/ Rebuild

WholeSpec == WholeInit /\ [][WholeNext]_wholeVars

-----------------------------------------------------------------------------
\* The header as its reader sees it.
HeaderKept(h) ==
    [h EXCEPT !.size = Len(SavedBytes(profile)),
              !.version = ValidateVersion(@),
              !.illuminant = D50,
              !.device_class = FromRaw(ProfileClasses, ToRaw(ProfileClasses, @)),
              !.color_space = FromRaw(ColorSpaces, ToRaw(ColorSpaces, @)),
              !.pcs = FromRaw(ColorSpaces, ToRaw(ColorSpaces, @))]

NoTagTwice(p) == \A i, j \in DOMAIN p.slots : p.slots[i].tag = p.slots[j].tag => i = j

AnsweredSlot == LET i == SelectInSeq(profile.slots, LAMBDA s : s.tag = answer.tag)
                IN  IF i = 0 THEN 0 ELSE Owner(profile.slots, i)
TypeOf(slot) == BodyName(TypeOfSlot(slot, VersionOf(profile.header)))

\* A link to a tag of other types; a matrix of one row, which is written as
\* one and read as three (the NULL profile).
ForeignLink(slot, tag) == TypeOf(slot) \notin {BodyName(t) : t \in Table!AllowedTypes(tag)}
NarrowMatrix(slot) ==
    slot.variant = "Lut" /\ \E s \in ToSet(slot.value.stages) : s.kind = "matrix" /\ s.rows # 3

\* Its header but for what the format fixes, every tag of its directory with
\* the value that was added, through links too.  A file cut inside its
\* directory does not open, and of one cut behind it no tag reads as something else.
OpensAsItself ==
    /\ (phase = "rejected" /\ ~torn) =>
          TooNew(ValidateVersion(profile.header.version)) \/ ~NoTagTwice(profile)
    /\ phase = "open" => /\ view.value.header = HeaderKept(profile.header)
                         /\ Len(image) >= HeaderLength + 4 + 12 * Len(profile.slots)
    /\ answer # NoAnswer =>
          IF AnsweredSlot = 0 THEN ~answer.read.ok
          ELSE LET slot == profile.slots[AnsweredSlot]
               IN  IF NarrowMatrix(slot) \/ ForeignLink(slot, answer.tag) THEN ~answer.read.ok
                   ELSE IF answer.read.ok
                   THEN answer.read.value.value = Kept(TypeOf(slot), slot.value, VersionOf(profile.header))
                   ELSE torn

\* What was read can be saved, tag by tag with its links.  When every tag was
\* read and the version is decimal, the second file is the first.
SavedAgainAsItWas ==
    earlier # <<>> =>
        /\ phase # "refused"
        /\ (/\ phase = "saved" /\ ~torn
            /\ SubSeq(image, 129, 132) = SubSeq(earlier, 129, 132)
            /\ ValidateVersion(SubSeq(earlier, 9, 12)) = SubSeq(earlier, 9, 12)) =>
              image = earlier

(***************************************************************************)
(* A saved profile opens as itself, and what was read from it saves as the  *)
(* same file (the round-trip test compares the values alone).  Only a       *)
(* version above 5.0 and a tag added twice keep a file from being opened; a *)
(* file cut short is rejected or lacks tags, and never reads as something   *)
(* else (serialize.rs:129, mod.rs:53 and 230).                              *)
(***************************************************************************)
ProfilesSurviveTheirFile == OpensAsItself /\ SavedAgainAsItWas

=============================================================================
