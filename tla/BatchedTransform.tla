--------------------------- MODULE BatchedTransform ---------------------------
(***************************************************************************)
(* Packed pixel transforms as transform.rs runs them: the one-pixel loop,   *)
(* and the batched path, which takes a tile of pixels at a time, unpacks    *)
(* and evaluates each run of equal pixels once, and packs it by copying the *)
(* pixel before.  The buffers of a tile live in a workspace that callers    *)
(* reuse for other transforms and sizes.  Indexes count from 1.             *)
(***************************************************************************)
EXTENDS PixelLoop, FiniteSets

CONSTANTS
    Tile,       \* TILE: pixels per unpack/eval/pack tile
    Threshold,  \* BATCHED_THRESHOLD: the shortest call that is batched
    Call,       \* the calls a caller may make
    Zero        \* what a grown workspace buffer is filled with

IsCall(c) ==
    /\ c.xform \in Transform
    /\ c.input \in Seq(InPixel)
    /\ FitsOutput(c.xform, c.output)
    /\ c.count \in 0..Len(c.input)
    /\ c.count <= Len(c.output)

ASSUME BatchAssumption ==
    /\ Tile \in Nat \ {0}
    /\ Threshold \in Nat \ {0}
    /\ \A c \in Call : IsCall(c)

VARIABLES
    mode,         \* "idle", "pixel", or the phase of the tile: "unpack", "eval", "pack"
    base,         \* pixels of the call's finished tiles
    reached,      \* pixels of this tile the phase has been through
    unique,       \* m_u: slots of the channel buffers in use
    uniq_of,      \* workspace: tile pixel -> its slot
    chan_in,      \* workspace: unpacked colours, by slot
    chan_out      \* workspace: evaluated colours, by slot

workspace == <<uniq_of, chan_in, chan_out>>
batchVars == <<loopVars, mode, base, reached, unique, workspace>>

LesserOf(a, b) == IF a < b THEN a ELSE b

\* The call's tile size, and the pixels of the tile in work.
TileSize == LesserOf(count, Tile)
TilePixels == LesserOf(count - base, TileSize)

\* resize_workspace_buffer: what was there stays, growth is filled.
Resized(buffer, size, value) ==
    [i \in 1..size |-> IF i <= Len(buffer) THEN buffer[i] ELSE value]

-----------------------------------------------------------------------------
BatchInit ==
    /\ LoopInit
    /\ mode = "idle"
    /\ base = 0
    /\ reached = 0
    /\ unique = 0
    /\ uniq_of = <<>>
    /\ chan_in = <<>>
    /\ chan_out = <<>>

\* The batched path never runs with a gamut check, nor for a short call.
TakesBatchedPath(c) == c.xform.batched /\ ~c.xform.gamut /\ c.count >= Threshold

StartCall(c) ==
    /\ mode = "idle"
    /\ xform' = c.xform
    /\ input' = c.input
    /\ output' = c.output
    /\ count' = c.count
    /\ done' = 0
    /\ base' = 0
    /\ reached' = 0
    /\ unique' = 0
    /\ IF TakesBatchedPath(c)
       THEN LET tile == LesserOf(c.count, Tile)
            IN  /\ mode' = "unpack"
                /\ uniq_of' = Resized(uniq_of, tile, 0)
                /\ chan_in' = Resized(chan_in, tile, Zero)
                /\ chan_out' = Resized(chan_out, tile, Zero)
       ELSE mode' = "pixel" /\ UNCHANGED workspace

-----------------------------------------------------------------------------
\* One turn of the one-pixel loop.
TransformPixel ==
    /\ mode = "pixel"
    /\ done < count
    /\ done' = done + 1
    /\ output' = [output EXCEPT ![done + 1] = Converted(xform, input[done + 1], @)]
    /\ UNCHANGED <<xform, input, count, mode, base, reached, unique, workspace>>

-----------------------------------------------------------------------------
Here == base + reached + 1    \* the pixel a tile phase is at

\* Mutant: pixels of one colour are a run, whatever their extra samples.
RepeatsColour == reached > 0 /\ input[Here].colour = input[Here - 1].colour

\* The pixel has the packed bytes of the one before it in this tile.
Repeats == reached > 0 /\ input[Here] = input[Here - 1]

\* Mutant: a repeated pixel's slot number is left as it was.
UnpackPixelStale ==
    /\ mode = "unpack"
    /\ reached < TilePixels
    /\ reached' = reached + 1
    /\ unique' = IF Repeats THEN unique ELSE unique + 1
    /\ uniq_of' = IF Repeats THEN uniq_of ELSE [uniq_of EXCEPT ![reached + 1] = unique']
    /\ chan_in' = IF Repeats THEN chan_in
                  ELSE [chan_in EXCEPT ![unique + 1] = input[Here].colour]
    /\ UNCHANGED <<loopVars, mode, base, chan_out>>

\* Unpack a pixel into the next slot, or let it share the last one.
UnpackPixel ==
    /\ mode = "unpack"
    /\ reached < TilePixels
    /\ reached' = reached + 1
    /\ unique' = IF Repeats THEN unique ELSE unique + 1
    /\ uniq_of' = [uniq_of EXCEPT ![reached + 1] = unique']
    /\ chan_in' = IF Repeats THEN chan_in
                  ELSE [chan_in EXCEPT ![unique + 1] = input[Here].colour]
    /\ UNCHANGED <<loopVars, mode, base, chan_out>>

\* eval_16_buffer_with / eval_float_buffer_with over the slots in use.
EvalTile ==
    /\ mode = "unpack"
    /\ reached = TilePixels
    /\ mode' = "pack"
    /\ reached' = 0
    /\ chan_out' = [u \in DOMAIN chan_out |->
                      IF u <= unique THEN Convert[xform][chan_in[u]] ELSE chan_out[u]]
    /\ UNCHANGED <<loopVars, base, unique, uniq_of, chan_in>>

\* Mutant: the pixel before is copied whatever the format.
CopiesPixelAlways == reached > 0 /\ uniq_of[reached] = uniq_of[reached + 1]

\* Whole pixels are copied only when the packer writes all of their bytes.
CopiesPixel == ~xform.extra /\ reached > 0 /\ uniq_of[reached] = uniq_of[reached + 1]

\* Mutant: extra samples are copied without a plan.
PackPixelCopiesAll ==
    /\ mode = "pack"
    /\ reached < TilePixels
    /\ reached' = reached + 1
    /\ done' = done + 1
    /\ output' =
         [output EXCEPT ![Here] =
            IF CopiesPixel THEN output[Here - 1]
            ELSE [colour |-> chan_out[uniq_of[reached + 1]],
                  extra |-> CopyAlpha[input[Here].extra]]]
    /\ UNCHANGED <<xform, input, count, mode, base, unique, workspace>>

\* Pack a pixel from its slot, and copy its extra samples if there is a plan.
PackPixel ==
    /\ mode = "pack"
    /\ reached < TilePixels
    /\ reached' = reached + 1
    /\ done' = done + 1
    /\ output' =
         [output EXCEPT ![Here] =
            IF CopiesPixel THEN output[Here - 1]
            ELSE [colour |-> chan_out[uniq_of[reached + 1]],
                  extra |-> IF xform.alpha THEN CopyAlpha[input[Here].extra] ELSE @.extra]]
    /\ UNCHANGED <<xform, input, count, mode, base, unique, workspace>>

NextTile ==
    /\ mode = "pack"
    /\ reached = TilePixels
    /\ base + TilePixels < count
    /\ mode' = "unpack"
    /\ base' = base + TilePixels
    /\ reached' = 0
    /\ unique' = 0
    /\ UNCHANGED <<loopVars, workspace>>

\* Mutant: only a full tile ends the call.
ReturnAfterFullTile ==
    /\ \/ mode = "pixel" /\ done = count
       \/ mode = "pack" /\ reached = Tile /\ base + TilePixels = count
    /\ mode' = "idle"
    /\ input' = <<>>
    /\ output' = <<>>
    /\ count' = 0
    /\ done' = 0
    /\ base' = 0
    /\ reached' = 0
    /\ unique' = 0
    /\ UNCHANGED <<xform, workspace>>

\* The call returns; its buffers are the caller's again.
Return ==
    /\ \/ mode = "pixel" /\ done = count
       \/ mode = "pack" /\ reached = TilePixels /\ base + TilePixels = count
    /\ mode' = "idle"
    /\ input' = <<>>
    /\ output' = <<>>
    /\ count' = 0
    /\ done' = 0
    /\ base' = 0
    /\ reached' = 0
    /\ unique' = 0
    /\ UNCHANGED <<xform, workspace>>

Running ==
    \/ TransformPixel
    \/ UnpackPixel
    \/ EvalTile
    \/ PackPixel
    \/ NextTile
    \/ Return

BatchNext == (\E c \in Call : StartCall(c)) \/ Running

BatchSpec == BatchInit /\ [][BatchNext]_batchVars

\* A call runs on its caller's thread, without waiting for anything.
FairBatchSpec == BatchSpec /\ WF_batchVars(Running)

-----------------------------------------------------------------------------
TilePhases == {"unpack", "pack"}

BatchTypeOK ==
    /\ xform \in Transform
    /\ input \in Seq(InPixel)
    /\ FitsOutput(xform, output)
    /\ count \in 0..LesserOf(Len(input), Len(output))
    /\ done \in 0..count
    /\ mode \in {"idle", "pixel"} \cup TilePhases
    /\ base \in Nat /\ reached \in Nat /\ unique \in Nat
    /\ uniq_of \in Seq(Nat)
    /\ chan_in \in Seq(Colour \cup {Zero})
    /\ chan_out \in Seq(Device \cup {Zero})

(***************************************************************************)
(* While a tile is in work, whatever an earlier call left in the workspace: *)
(* every pixel unpacked so far maps to a slot in use, and the slot holds    *)
(* that pixel's colour, or its converted colour once the tile is evaluated. *)
(***************************************************************************)
SlotsHoldTheirPixels ==
    mode \in TilePhases =>
        \A p \in 1..(IF mode = "unpack" THEN reached ELSE TilePixels) :
            LET slot == uniq_of[p]
                colour == input[base + p].colour
            IN  /\ slot \in 1..unique
                /\ mode = "unpack" => chan_in[slot] = colour
                /\ mode = "pack" => chan_out[slot] = Convert[xform][colour]

(***************************************************************************)
(* The unpacking note at transform.rs:830-840: within a tile, a run of      *)
(* identical pixels is evaluated once.  There are as many slots in use as   *)
(* there are runs, so the tile's buffers are never outgrown.                *)
(***************************************************************************)
RunsEvaluatedOnce ==
    mode = "pack" =>
        /\ unique = Cardinality({p \in 1..TilePixels :
                                   p = 1 \/ input[base + p] # input[base + p - 1]})
        /\ unique <= Len(chan_in)
        /\ Len(chan_in) = TileSize /\ Len(chan_out) = TileSize /\ Len(uniq_of) = TileSize

(***************************************************************************)
(* Both paths are the one-pixel loop: each pixel of the output is its own   *)
(* input pixel converted, in order, bytes beyond the call and extra samples *)
(* without a plan stay as they were, whatever the workspace was used for.   *)
(***************************************************************************)
PixelByPixel == LoopSpec

\* Every call comes to its end.
CallsReturn == (mode # "idle") ~> (mode = "idle")

=============================================================================
