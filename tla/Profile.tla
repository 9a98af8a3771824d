------------------------------- MODULE Profile -------------------------------
(***************************************************************************)
(* Reading tags from an opened profile (profile/mod.rs): read_tag_in,       *)
(* read_tag_raw and tag_true_type, the link chase they share, one action    *)
(* per iteration, and the decoded-value cache keyed by the signature the    *)
(* chase ends at.                                                           *)
(***************************************************************************)
EXTENDS Directory, TagRead

CONSTANTS
    NoRequest      \* no call in progress

VARIABLES
    cache,    \* resolved signature -> decoded value
    request,  \* the call in progress: its search and where it stands
    reply     \* what the last call returned, until the next call

vars == <<dirVars, cache, request, reply>>

-----------------------------------------------------------------------------
ProfileInit ==
    /\ Init
    /\ cache = <<>>
    /\ request = NoRequest
    /\ reply = NoRequest

\* A call starts: search_tag begins at tag_entry(sig).
Call(op, ctx, sig) ==
    /\ phase = "open"
    /\ request = NoRequest
    /\ request' = [op |-> op, ctx |-> ctx, sig |-> sig,
                   at |-> TagEntryOf(entries, sig), hops |-> 0]
    /\ reply' = NoRequest
    /\ UNCHANGED <<dirVars, cache>>

\* Mutant: the search follows one link.
SearchedOnce ==
    request.at # 0 =>
        \/ entries[request.at].linked = NoLink
        \/ request.hops = 1

\* The search is over: absent, at an entry with data, or out of iterations.
Searched ==
    request.at # 0 =>
        \/ entries[request.at].linked = NoLink
        \/ request.hops = Len(entries)

FollowLink ==
    /\ request # NoRequest
    /\ ~Searched
    /\ request' = [request EXCEPT
                     !.at = TagEntryOf(entries, entries[request.at].linked),
                     !.hops = @ + 1]
    /\ UNCHANGED <<dirVars, cache, reply>>

Return(result) ==
    /\ request' = NoRequest
    /\ reply' = [op |-> request.op, ctx |-> request.ctx, sig |-> request.sig,
                 result |-> result]

\* A call of this kind whose search found an entry.
Found(op) ==
    /\ request # NoRequest
    /\ request.op = op
    /\ request.at # 0
    /\ Searched

Resolved == entries[request.at]

\* search_tag found nothing, in any of the three calls.
ReturnAbsent ==
    /\ request # NoRequest
    /\ request.at = 0
    /\ Return(Err(IF request.op = "tag_true_type" THEN "None" ELSE "Range"))
    /\ UNCHANGED <<dirVars, cache>>

\* A cached value is returned before any descriptor, type or size is looked at.
ReturnCached ==
    /\ Found("read_tag_in")
    /\ Resolved.sig \in DOMAIN cache
    /\ Return(Ok(cache[Resolved.sig]))
    /\ UNCHANGED <<dirVars, cache>>

\* Mutant: the value is cached under the tag asked for.
ReturnDecodedUnresolved ==
    /\ Found("read_tag_in")
    /\ Resolved.sig \notin DOMAIN cache
    /\ LET result == ReadRange(file, Resolved, request.ctx, request.sig)
       IN  /\ Return(result)
           /\ cache' = IF result.ok
                       THEN [s \in DOMAIN cache \cup {request.sig} |->
                               IF s = request.sig THEN result.value ELSE cache[s]]
                       ELSE cache
    /\ UNCHANGED dirVars

\* Only a successful decode is cached, under the resolved signature.
ReturnDecoded ==
    /\ Found("read_tag_in")
    /\ Resolved.sig \notin DOMAIN cache
    /\ LET result == ReadRange(file, Resolved, request.ctx, request.sig)
       IN  /\ Return(result)
           /\ cache' = IF result.ok
                       THEN [s \in DOMAIN cache \cup {Resolved.sig} |->
                               IF s = Resolved.sig THEN result.value ELSE cache[s]]
                       ELSE cache
    /\ UNCHANGED dirVars

ReturnTrueType ==
    /\ Found("tag_true_type")
    /\ Return(TrueTypeAt(file, Resolved))
    /\ UNCHANGED <<dirVars, cache>>

ReturnRaw ==
    /\ Found("read_tag_raw")
    /\ Return(RawAt(file, Resolved))
    /\ UNCHANGED <<dirVars, cache>>

OpenStep ==
    /\ (\E f \in Files : Open(f)) \/ ParseStep
    /\ UNCHANGED <<cache, request, reply>>

ReadStep ==
    \/ FollowLink
    \/ ReturnAbsent
    \/ ReturnCached
    \/ ReturnDecoded
    \/ ReturnTrueType
    \/ ReturnRaw

ProfileNext ==
    \/ OpenStep
    \/ \E op \in Ops, ctx \in Context, sig \in Sig : Call(op, ctx, sig)
    \/ ReadStep

ProfileSpec == ProfileInit /\ [][ProfileNext]_vars

-----------------------------------------------------------------------------
Request == [op : Ops, ctx : Context, sig : Sig, at : Nat, hops : Nat]

(***************************************************************************)
(* The chase walks strictly backwards over entries with the bytes and the   *)
(* descriptor of the tag asked for, and its iteration bound is never what   *)
(* stops it: when the search ends it stands on an entry with data.          *)
(***************************************************************************)
SearchSound ==
    (request # NoRequest /\ request.at # 0) =>
        LET start == TagEntryOf(entries, request.sig)
        IN  /\ request.at + request.hops <= start
            /\ SameRange(entries[request.at], entries[start])
            /\ request.at # start =>
                 CompatibleTypes(entries[request.at].sig, request.sig)
            /\ Searched => Resolved.linked = NoLink

(***************************************************************************)
(* The cache is keyed by entries that hold data, never by a link, and what  *)
(* it holds was decoded from the type base tag_true_type reports for them.  *)
(***************************************************************************)
CachedTypeIsTrueType ==
    \A s \in DOMAIN cache :
        LET i == TagEntryOf(entries, s)
        IN  /\ i # 0
            /\ entries[i].linked = NoLink
            /\ TrueTypeAt(file, entries[i]) = Ok(cache[s].type)

\* What the tag's own directory entry says it is, with no link and no cache.
OwnEntry(sig) == entries[TagEntryOf(entries, sig)]

(***************************************************************************)
(* Reading a tag of a builtin type returns what decoding its own byte range *)
(* under its own descriptor returns, whatever was read before, through      *)
(* whichever link, with whichever contexts.                                 *)
(***************************************************************************)
BuiltinReadsAreStateless ==
    (/\ reply # NoRequest
     /\ reply.op = "read_tag_in"
     /\ TagEntryOf(entries, reply.sig) # 0
     /\ PluginFree(file, OwnEntry(reply.sig), reply.sig)) =>
        reply.result = ReadRange(file, OwnEntry(reply.sig), EmptyContext, reply.sig)

-----------------------------------------------------------------------------
\* Every tag's own byte range, read off the opened directory.
OwnRanges ==
    IF phase = "open"
    THEN [s \in {entries[i].sig : i \in DOMAIN entries} |->
            [offset |-> OwnEntry(s).offset, size |-> OwnEntry(s).size]]
    ELSE <<>>

Reader == INSTANCE TagReader WITH
    state <- IF phase = "parsing" THEN "closed" ELSE phase,
    opened <- IF phase = "parsing" THEN NoFile ELSE file,
    ranges <- OwnRanges,
    answer <- reply,
    NoReply <- NoRequest

(***************************************************************************)
(* The directory loop, the link chase and the cache together implement the  *)
(* plain lookup of TagReader: callers cannot tell that tags share bodies or *)
(* that values are cached, except through plug-in tags.                     *)
(***************************************************************************)
ReaderRefined == Reader!ReaderSpec

=============================================================================
