------------------------------ MODULE Lifecycle ------------------------------
(***************************************************************************)
(* A profile's whole life: built slot by slot, saved, its bytes opened      *)
(* again and its tags read (serialize.rs, directory.rs and mod.rs           *)
(* together), beside what the same WritableProfile answers without a file   *)
(* (Profile::from_writable).                                                *)
(***************************************************************************)
EXTENDS Serializer, Profile

lifeVars == <<saveVars, vars>>

-----------------------------------------------------------------------------
\* from_writable keeps the value and the type last added under a signature.
LastBody(sig) ==
    LET bodies == {j \in DOMAIN slots : slots[j].sig = sig /\ ~IsLink(slots[j])}
    IN  IF bodies = {} THEN 0 ELSE Max(bodies)

\* It fails as a whole when a body has no write type; its directory is the
\* slot table, links resolved by the reader's search.
FromWritableFails == \E i \in DOMAIN slots : ~IsLink(slots[i]) /\ SlotType(slots[i]) = NoType

\* The slot an in-memory read of a tag is answered from, 0 when there is none.
MemSlot(sig) ==
    LET r == SearchTag(slots, sig)
    IN  IF FromWritableFails \/ r = 0 THEN 0 ELSE LastBody(slots[r].sig)

-----------------------------------------------------------------------------
LifeInit == SaveInit /\ ProfileInit

BuildAndSave == SaveNext /\ UNCHANGED vars

\* Profile::open on the bytes save_to_mem_in returned, and the parse it runs.
Reopen ==
    /\ stage = "saved"
    /\ Open(SavedFile)
    /\ UNCHANGED <<saveVars, cache, request, reply>>

ParseSaved == ParseStep /\ UNCHANGED <<saveVars, cache, request, reply>>

StartRead ==
    /\ \E op \in Ops, ctx \in Context, sig \in Sig : Call(op, ctx, sig)
    /\ UNCHANGED saveVars

ReadSaved == ReadStep /\ UNCHANGED saveVars

LifeNext ==
    \/ BuildAndSave
    \/ Reopen
    \/ ParseSaved
    \/ StartRead
    \/ ReadSaved

LifeSpec == LifeInit /\ [][LifeNext]_lifeVars

-----------------------------------------------------------------------------
\* A read of a saved tag that memory also answers.
BothAnswer(op) ==
    /\ reply # NoRequest
    /\ reply.op = op
    /\ MemSlot(reply.sig) # 0

(***************************************************************************)
(* Saving and reopening never turns one value into another: whenever the    *)
(* file and the in-memory profile both answer a read, they answer with the  *)
(* same value, through links, shared bodies and the cache.                  *)
(***************************************************************************)
NeverSilentlyDifferent ==
    (BothAnswer("read_tag_in") /\ reply.result.ok) =>
        reply.result.value.data = slots[MemSlot(reply.sig)].value.data

\* The reopened tag has the on-disk type from_writable said it would have.
TrueTypeSurvives ==
    BothAnswer("tag_true_type") =>
        reply.result = Ok(SlotType(slots[MemSlot(reply.sig)]))

(***************************************************************************)
(* A saved profile opens, with every tag there, when it has an acceptable   *)
(* header, at most MAX_TABLE_TAG slots and no signature twice, and only     *)
(* then (serialize.rs:163 saves the others too; directory.rs:67, :106).     *)
(***************************************************************************)
SavedProfilesOpen ==
    LET openable == /\ headerValid
                    /\ Len(slots) <= MaxTableTag
                    /\ \A i, j \in DOMAIN slots : slots[i].sig = slots[j].sig => i = j
    IN  stage = "saved" =>
          /\ phase = "failed" => ~openable
          /\ phase = "open" =>
               /\ openable
               /\ [i \in DOMAIN slots |-> slots[i].sig] = [i \in DOMAIN entries |-> entries[i].sig]

\* The elements of a builtin value, as the reader will count them.
Elements(slot) ==
    LET width == ArrayWidth[SlotType(slot)]
    IN  IF width = 0 THEN 1 ELSE (BodyEnd(slot.value, TypeBase) - TypeBase) \div width

\* The value would pass the reader's own checks under this tag.
Readable(slot, sig) ==
    /\ HasDescriptor(sig)
    /\ SlotType(slot) \in AllowedTypes(sig)
    /\ SlotType(slot) \in BuiltinTypes
    /\ Builtin \in slot.value.decoders
    /\ Elements(slot) >= Descriptor[sig].elem_count

(***************************************************************************)
(* Nothing readable is lost: a tag whose value and type the reader accepts  *)
(* is read back, with its value, from the reopened file.                    *)
(***************************************************************************)
ReadableTagsRoundTrip ==
    (BothAnswer("read_tag_in") /\ Readable(slots[MemSlot(reply.sig)], reply.sig)) =>
        /\ reply.result.ok
        /\ reply.result.value.data = slots[MemSlot(reply.sig)].value.data

=============================================================================
