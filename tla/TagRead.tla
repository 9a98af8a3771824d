------------------------------ MODULE TagRead -------------------------------
(***************************************************************************)
(* Decoding one tag from its byte range (profile/mod.rs, types/mod.rs): the *)
(* type and element-count checks of read_tag_in, the plug-in registries of  *)
(* a Context, and the raw and true-type reads.                              *)
(*                                                                         *)
(* Decoding itself is abstract: at every offset a directory may name, the   *)
(* file says which type base the bytes hold, what they decode to, how many  *)
(* body bytes that takes and which decoders accept them.                    *)
(***************************************************************************)
EXTENDS ProfileFile

CONSTANTS
    Data,          \* decoded contents
    BuiltinTypes,  \* types with an arm of their own in read_tag_value_in
    ArrayWidth,    \* bytes per element of an array type, 0 for the others
    Plugin,        \* registered TagTypePlugin implementations
    Builtin,       \* the builtin decoders, as one handler
    NoHandler,     \* no decoder for a type
    Context        \* the contexts callers read with

Handler == Plugin \cup {Builtin}

\* A Context as read_tag_in sees it: two registries in registration order.
IsContext(c) ==
    /\ c.tags \in Seq([sig : Sig, supported_types : Seq(Type)])
    /\ c.tag_types \in Seq([type : Type, plugin : Plugin])

EmptyContext == [tags |-> <<>>, tag_types |-> <<>>]

Block == [type : Type, data : Data, length : Nat, decoders : SUBSET Handler]

HasBlocks(f) == \A i \in DOMAIN f.table : f.blocks[f.table[i].offset] \in Block

ASSUME ReadAssumption ==
    /\ BuiltinTypes \subseteq Type
    /\ ArrayWidth \in [Type -> Nat]
    /\ Builtin \notin Plugin
    /\ NoHandler \notin Handler
    /\ \A c \in Context : IsContext(c)
    /\ \A f \in Files : HasBlocks(f)

Ok(v) == [ok |-> TRUE, value |-> v]
Err(e) == [ok |-> FALSE, error |-> e]

Ops == {"read_tag_in", "read_tag_raw", "tag_true_type"}

-----------------------------------------------------------------------------
\* Vec::iter().find: the earliest registration wins.
FirstMatch(registry, Matches(_)) ==
    LET at == {i \in DOMAIN registry : Matches(registry[i])}
    IN  IF at = {} THEN 0 ELSE CHOOSE i \in at : \A j \in at : i <= j

\* Mutant: the registry shadows the builtin arms.
HandlerOfPluginFirst(ctx, type) ==
    LET i == FirstMatch(ctx.tag_types, LAMBDA r : r.type = type)
    IN  IF i # 0 THEN ctx.tag_types[i].plugin
        ELSE IF type \in BuiltinTypes THEN Builtin
        ELSE NoHandler

\* read_tag_value_in: builtin arms first, then the tag-type registry.
HandlerOf(ctx, type) ==
    LET i == FirstMatch(ctx.tag_types, LAMBDA r : r.type = type)
    IN  IF type \in BuiltinTypes THEN Builtin
        ELSE IF i = 0 THEN NoHandler
        ELSE ctx.tag_types[i].plugin

\* The first registered custom row for the tag; it has no element floor.
CustomRow(ctx, sig) ==
    LET i == FirstMatch(ctx.tags, LAMBDA r : r.sig = sig)
    IN  IF i = 0 THEN NoDescriptor
        ELSE [elem_count |-> 0, allowed_types |-> ctx.tags[i].supported_types]

\* The row that governs a read of `sig`: builtin first.
GoverningRow(ctx, sig) ==
    IF HasDescriptor(sig) THEN Descriptor[sig] ELSE CustomRow(ctx, sig)

\* elem_count: arrays report their length, everything else one.
ElemCount(value) ==
    IF value.by = Builtin /\ ArrayWidth[value.type] > 0
    THEN value.payload \div ArrayWidth[value.type]
    ELSE 1

\* The decoder gets size - 8 payload bytes positioned after the type base.
Decode(ctx, block, payload) ==
    LET handler == HandlerOf(ctx, block.type)
        whole == ArrayWidth[block.type] > 0 \/ block.length <= payload
    IN  IF handler = NoHandler THEN Err("Unsupported")
        ELSE IF handler \notin block.decoders \/ ~whole THEN Err("Corrupt")
        ELSE Ok([by |-> handler, type |-> block.type, data |-> block.data,
                 payload |-> payload])

(***************************************************************************)
(* The uncached path of read_tag_in over a byte range, with the checks in   *)
(* the order the code makes them.                                           *)
(***************************************************************************)
ReadRange(f, range, ctx, sig) ==
    LET row == GoverningRow(ctx, sig)
        block == f.blocks[range.offset]
        decoded == Decode(ctx, block, range.size - 8)
    IN  IF row = NoDescriptor THEN Err("BadType")
        ELSE IF range.size < 8 THEN Err("Corrupt")
        ELSE IF \A i \in DOMAIN row.allowed_types : row.allowed_types[i] # block.type
             THEN Err("BadType")
        ELSE IF decoded.ok /\ ElemCount(decoded.value) < row.elem_count
             THEN Err("Corrupt")
        ELSE decoded

\* tag_true_type over a byte range: the type base, if the slice holds it.
TrueTypeAt(f, range) ==
    IF range.offset + 8 <= f.len THEN Ok(f.blocks[range.offset].type) ELSE Err("None")

\* read_tag_raw over a byte range: the slice, if it is inside the file.
RawAt(f, range) ==
    IF range.offset + range.size <= f.len
    THEN Ok([offset |-> range.offset, size |-> range.size])
    ELSE Err("Range")

\* No plug-in can have a say in reading this tag from this range: the row is
\* built in, and so is the type the bytes have, if the row admits it at all.
PluginFree(f, range, sig) ==
    /\ HasDescriptor(sig)
    /\ f.blocks[range.offset].type \in AllowedTypes(sig) =>
         f.blocks[range.offset].type \in BuiltinTypes

=============================================================================
