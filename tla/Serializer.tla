----------------------------- MODULE Serializer -----------------------------
(***************************************************************************)
(* Building a WritableProfile and saving it (profile/serialize.rs): pass 1  *)
(* lays the tag bodies out through a counting writer, links inherit their   *)
(* target's range, pass 2 writes header, directory and bodies for real.     *)
(* One action per slot and pass.                                            *)
(***************************************************************************)
EXTENDS TagRead

CONSTANTS
    Value,     \* values a tag slot may own
    WriteType, \* write_type_for_in under the saving context and version
    NoType,    \* it declines: no writer for this value
    NoValue,   \* the value of a linked slot
    NoLayout,  \* no range known yet
    MaxSlots   \* bound on the slots a caller adds

(***************************************************************************)
(* A body is `lead` bytes, zero padding to a multiple of `align` in the     *)
(* writer's own position, then `tail` bytes.  The builtin writers pad to 1  *)
(* (not at all) or 4; a plug-in sees the position and may do anything.      *)
(***************************************************************************)
IsValue(v) ==
    /\ v.data \in Data
    /\ v.types \subseteq Type
    /\ v.lead \in Nat /\ v.tail \in Nat /\ v.align \in Nat \ {0}
    /\ v.decoders \subseteq Handler

ASSUME SerializerAssumption ==
    /\ NoType \notin Type
    /\ NoValue \notin Value
    /\ NoLink \notin Sig
    /\ NoLayout \notin [offset : Nat, size : Nat]
    /\ MaxSlots \in Nat
    /\ \A v \in Value : IsValue(v)
    /\ WriteType \in [Sig \X Value -> Type \cup {NoType}]

\* What the builtin writers pad to; padding to 8 would not fit both origins.
ASSUME BuiltinWriters == \A v \in Value : v.align \in {1, 4}

VARIABLES
    headerValid, \* Header::parse would accept the header being written
    slots,       \* the tag table, in insertion order
    stage,       \* "building", "layout", "links", "write", "saved", "failed"
    at,          \* the slot the running loop has reached
    position,    \* bytes written by the running pass
    layouts,     \* the range of each slot, from pass 1
    total,       \* used_space: what pass 1 says the profile's size is
    written      \* byte position -> the body pass 2 wrote there

saveVars == <<headerValid, slots, stage, at, position, layouts, total, written>>

Slot == [sig : Sig, value : Value, linked : {NoLink}]
        \cup [sig : Sig, value : {NoValue}, linked : Sig]

IsLink(slot) == slot.linked # NoLink

TypeBase == 8

RoundUp(n, k) == IF n % k = 0 THEN n ELSE n + (k - (n % k))

BodyEnd(value, from) == RoundUp(from + value.lead, value.align) + value.tail

\* Mutant: the tag count is forgotten.
BodyStartNoCount(n) == 128 + n * 12

\* header_and_directory_len
BodyStart(n) == 128 + 4 + n * 12

SlotType(slot) == WriteType[slot.sig, slot.value]

\* A writer exists for the value, and for the type chosen for it.
Writable(slot) == SlotType(slot) \in slot.value.types

-----------------------------------------------------------------------------
SaveInit ==
    /\ headerValid \in BOOLEAN
    /\ slots = <<>>
    /\ stage = "building"
    /\ at = 1
    /\ position = 0
    /\ layouts = <<>>
    /\ total = 0
    /\ written = <<>>

AddSlot(slot) ==
    /\ stage = "building"
    /\ Len(slots) < MaxSlots
    /\ slots' = Append(slots, slot)
    /\ UNCHANGED <<headerValid, stage, at, position, layouts, total, written>>

AddTag(sig, value) == AddSlot([sig |-> sig, value |-> value, linked |-> NoLink])

LinkTag(sig, target) == AddSlot([sig |-> sig, value |-> NoValue, linked |-> target])

StartSave ==
    /\ stage = "building"
    /\ stage' = "layout"
    /\ at' = 1
    /\ position' = 0
    /\ layouts' = [i \in DOMAIN slots |-> NoLayout]
    /\ UNCHANGED <<headerValid, slots, total, written>>

\* Any `?` of the two passes abandons the save.
Fail ==
    /\ stage' = "failed"
    /\ UNCHANGED <<headerValid, slots, at, position, layouts, total, written>>

\* Both passes step over links.
SkipLink ==
    /\ stage \in {"layout", "write"}
    /\ at \in DOMAIN slots
    /\ IsLink(slots[at])
    /\ at' = at + 1
    /\ UNCHANGED <<headerValid, slots, stage, position, layouts, total, written>>

\* Mutant: the size leaves the type base out.
LayoutSlotNoTypeBase ==
    /\ stage = "layout"
    /\ at \in DOMAIN slots
    /\ ~IsLink(slots[at])
    /\ LET begin == BodyStart(Len(slots)) + position
           end == BodyEnd(slots[at].value, position + TypeBase)
       IN  IF Writable(slots[at])
           THEN /\ layouts' = [layouts EXCEPT ![at] = [offset |-> begin, size |-> end - position - TypeBase]]
                /\ position' = RoundUp(end, 4)
                /\ at' = at + 1
                /\ UNCHANGED <<headerValid, slots, stage, total, written>>
           ELSE Fail

\* Pass 1: type base, body, then alignment, which the size does not count.
LayoutSlot ==
    /\ stage = "layout"
    /\ at \in DOMAIN slots
    /\ ~IsLink(slots[at])
    /\ LET begin == BodyStart(Len(slots)) + position
           end == BodyEnd(slots[at].value, position + TypeBase)
           size == end - position
       IN  IF Writable(slots[at]) /\ begin <= U32Max /\ size <= U32Max
           THEN /\ layouts' = [layouts EXCEPT ![at] = [offset |-> begin, size |-> size]]
                /\ position' = RoundUp(end, 4)
                /\ at' = at + 1
                /\ UNCHANGED <<headerValid, slots, stage, total, written>>
           ELSE Fail

LayoutDone ==
    /\ stage = "layout"
    /\ at \notin DOMAIN slots
    /\ LET used == BodyStart(Len(slots)) + position
       IN  IF used <= U32Max
           THEN /\ stage' = "links"
                /\ at' = 1
                /\ total' = used
                /\ UNCHANGED <<headerValid, slots, position, layouts, written>>
           ELSE Fail

\* Mutant: any body will do.
BodySlotAny(sig) ==
    LET bodies == {j \in DOMAIN slots : ~IsLink(slots[j])}
    IN  IF bodies = {} THEN 0 ELSE Min(bodies)

\* The first slot with a body and this signature, 0 when there is none.
BodySlot(sig) ==
    LET bodies == {j \in DOMAIN slots : slots[j].sig = sig /\ ~IsLink(slots[j])}
    IN  IF bodies = {} THEN 0 ELSE Min(bodies)

\* SetLinks, one level deep: a link to a link finds no body and fails.
ResolveLink ==
    /\ stage = "links"
    /\ at \in DOMAIN slots
    /\ LET j == IF IsLink(slots[at]) THEN BodySlot(slots[at].linked) ELSE at
       IN  IF j # 0
           THEN /\ layouts' = [layouts EXCEPT ![at] = layouts[j]]
                /\ at' = at + 1
                /\ UNCHANGED <<headerValid, slots, stage, position, total, written>>
           ELSE Fail

\* Pass 2 starts: a 128-byte header, a count and twelve bytes per slot.
WriteDirectory ==
    /\ stage = "links"
    /\ at \notin DOMAIN slots
    /\ IF \E i \in DOMAIN slots : layouts[i] = NoLayout
       THEN Fail
       ELSE /\ stage' = "write"
            /\ at' = 1
            /\ position' = 128 + 4 + 12 * Len(slots)
            /\ UNCHANGED <<headerValid, slots, layouts, total, written>>

\* Mutant: pass 2 does not align.
WriteSlotUnaligned ==
    /\ stage = "write"
    /\ at \in DOMAIN slots
    /\ ~IsLink(slots[at])
    /\ LET slot == slots[at]
           end == BodyEnd(slot.value, position + TypeBase)
           body == [type |-> SlotType(slot), data |-> slot.value.data,
                    length |-> end - position - TypeBase,
                    decoders |-> slot.value.decoders]
       IN  /\ written' = [p \in DOMAIN written \cup {position} |->
                            IF p = position THEN body ELSE written[p]]
           /\ position' = end
    /\ at' = at + 1
    /\ UNCHANGED <<headerValid, slots, stage, layouts, total>>

\* Pass 2 writes the body again, at the position the writer has reached.
WriteSlot ==
    /\ stage = "write"
    /\ at \in DOMAIN slots
    /\ ~IsLink(slots[at])
    /\ LET slot == slots[at]
           end == BodyEnd(slot.value, position + TypeBase)
           body == [type |-> SlotType(slot), data |-> slot.value.data,
                    length |-> end - position - TypeBase,
                    decoders |-> slot.value.decoders]
       IN  /\ written' = [p \in DOMAIN written \cup {position} |->
                            IF p = position THEN body ELSE written[p]]
           /\ position' = RoundUp(end, 4)
    /\ at' = at + 1
    /\ UNCHANGED <<headerValid, slots, stage, layouts, total>>

FinishSave ==
    /\ stage = "write"
    /\ at \notin DOMAIN slots
    /\ stage' = "saved"
    /\ UNCHANGED <<headerValid, slots, at, position, layouts, total, written>>

SaveStep ==
    \/ StartSave
    \/ SkipLink
    \/ LayoutSlot
    \/ LayoutDone
    \/ ResolveLink
    \/ WriteDirectory
    \/ WriteSlot
    \/ FinishSave

SaveNext ==
    \/ \E sig \in Sig, value \in Value : AddTag(sig, value)
    \/ \E sig, target \in Sig : LinkTag(sig, target)
    \/ SaveStep

SaveSpec == SaveInit /\ [][SaveNext]_saveVars

\* The bytes a finished save returns.
SavedFile ==
    [headerOk |-> headerValid, size |-> total, len |-> position, count |-> Len(slots),
     blocks |-> written,
     table |-> [i \in DOMAIN slots |-> [sig |-> slots[i].sig, offset |-> layouts[i].offset,
                                        size |-> layouts[i].size]]]

-----------------------------------------------------------------------------
(***************************************************************************)
(* Pass 2 writes every body at the offset, and with the size, that pass 1   *)
(* put in the directory, although the two passes count from different       *)
(* origins: the directory in a saved file leads to the slot's own body, and *)
(* for a link to the body of the slot it names.                             *)
(***************************************************************************)
DirectoryLeadsToBodies ==
    stage = "saved" =>
        \A i \in DOMAIN slots :
            LET source == IF IsLink(slots[i]) THEN slots[BodySlot(slots[i].linked)] ELSE slots[i]
            IN  /\ layouts[i].offset \in DOMAIN written
                /\ LET body == written[layouts[i].offset]
                   IN  /\ body.type = SlotType(source)
                       /\ body.data = source.value.data
                       /\ body.length + TypeBase = layouts[i].size

(***************************************************************************)
(* The assertion that ends save_to_mem_in: the size pass and the write pass *)
(* agree (so the header's size field is the file's length).                 *)
(***************************************************************************)
PassesAgree == stage = "saved" => position = total

=============================================================================
