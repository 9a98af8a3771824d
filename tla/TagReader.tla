------------------------------ MODULE TagReader ------------------------------
(***************************************************************************)
(* What Profile promises its callers, with no links, no cache and no        *)
(* search: a slice opens to a set of tags, each with its own byte range, or *)
(* fails to open; and every read of a tag is answered from that tag's own   *)
(* range under that tag's own descriptor.  The answer is the caller's       *)
(* context's, except where a plug-in has a say: there it may be the         *)
(* successful answer of another caller's context.                           *)
(***************************************************************************)
EXTENDS TagRead

CONSTANTS NoReply

VARIABLES state, opened, ranges, answer

readerVars == <<state, opened, ranges, answer>>

ReaderInit ==
    /\ state = "closed"
    /\ opened = NoFile
    /\ ranges = <<>>
    /\ answer = NoReply

OpenFails ==
    /\ state = "closed"
    /\ state' = "failed"
    /\ opened' \in Files
    /\ UNCHANGED <<ranges, answer>>

OpenSucceeds ==
    /\ state = "closed"
    /\ state' = "open"
    /\ opened' \in Files
    /\ DOMAIN ranges' \subseteq Sig
    /\ \A s \in DOMAIN ranges' : HoldsTag(opened', s, ranges'[s])
    /\ UNCHANGED answer

Forget == answer' = NoReply /\ UNCHANGED <<state, opened, ranges>>

Reply(op, ctx, sig, result) ==
    /\ state = "open"
    /\ answer' = [op |-> op, ctx |-> ctx, sig |-> sig, result |-> result]
    /\ UNCHANGED <<state, opened, ranges>>

Absent(op, ctx, sig) ==
    /\ sig \notin DOMAIN ranges
    /\ Reply(op, ctx, sig, Err(IF op = "tag_true_type" THEN "None" ELSE "Range"))

ReadTagIn(ctx, sig) ==
    /\ sig \in DOMAIN ranges
    /\ \E c \in IF PluginFree(opened, ranges[sig], sig) THEN {ctx} ELSE Context :
          LET result == ReadRange(opened, ranges[sig], c, sig)
          IN  /\ c = ctx \/ result.ok
              /\ Reply("read_tag_in", ctx, sig, result)

ReadTagRaw(ctx, sig) ==
    /\ sig \in DOMAIN ranges
    /\ Reply("read_tag_raw", ctx, sig, RawAt(opened, ranges[sig]))

TagTrueType(ctx, sig) ==
    /\ sig \in DOMAIN ranges
    /\ Reply("tag_true_type", ctx, sig, TrueTypeAt(opened, ranges[sig]))

ReaderNext ==
    \/ OpenFails
    \/ OpenSucceeds
    \/ Forget
    \/ \E ctx \in Context, sig \in Sig :
          \/ \E op \in Ops : Absent(op, ctx, sig)
          \/ ReadTagIn(ctx, sig)
          \/ ReadTagRaw(ctx, sig)
          \/ TagTrueType(ctx, sig)

ReaderSpec == ReaderInit /\ [][ReaderNext]_readerVars

=============================================================================
