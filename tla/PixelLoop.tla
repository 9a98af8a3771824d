------------------------------ MODULE PixelLoop ------------------------------
(***************************************************************************)
(* What a packed pixel transform promises (transform.rs, do_transform): the *)
(* pixels of a call are converted one after the other, each from its own    *)
(* input pixel only.  A pixel is its colour samples and its extra samples.  *)
(***************************************************************************)
EXTENDS Integers, Sequences

CONSTANTS
    Transform,  \* the transforms calls are made on
    Colour,     \* colours as the input formatter unpacks them
    Device,     \* colours as the output formatter packs them
    Extra,      \* contents of a pixel's extra channels
    NoExtra,    \* a format without extra channels
    Convert,    \* unpacked colour -> packed colour, per transform
    Marked,     \* the colours its gamut check marks
    Alarm,      \* its packed alarm colour
    CopyAlpha   \* the depth conversion of an extra sample

Extras == Extra \cup {NoExtra}
InPixel == [colour : Colour, extra : Extras]
OutPixel == [colour : Device, extra : Extras]

(***************************************************************************)
(* The switches of a transform that steer the loops:                        *)
(*   batched  opt_eval is Batched                                           *)
(*   gamut    there is a gamut-check pipeline                               *)
(*   extra    the output format has extra channels                          *)
(*   alpha    there is an alpha-copy plan, so both formats have them        *)
(***************************************************************************)
IsTransform(t) ==
    /\ {t.batched, t.gamut, t.extra, t.alpha} \subseteq BOOLEAN
    /\ t.alpha => t.extra

ASSUME TransformAssumption ==
    /\ NoExtra \notin Extra
    /\ \A t \in Transform :
          /\ IsTransform(t)
          /\ Convert[t] \in [Colour -> Device]
          /\ Marked[t] \subseteq Colour
          /\ Alarm[t] \in Device
    /\ CopyAlpha \in [Extras -> Extras]

\* A buffer of packed pixels of the transform's output format.
FitsOutput(t, pixels) ==
    /\ pixels \in Seq(OutPixel)
    /\ ~t.extra => \A i \in DOMAIN pixels : pixels[i].extra = NoExtra

\* One pixel, over what the output buffer held in its place.
Converted(t, in, old) ==
    [colour |-> IF t.gamut /\ in.colour \in Marked[t] THEN Alarm[t] ELSE Convert[t][in.colour],
     extra |-> IF t.alpha THEN CopyAlpha[in.extra] ELSE old.extra]

VARIABLES
    xform,   \* the transform of the running call
    input,   \* its input buffer
    output,  \* its output buffer
    count,   \* n_pixels
    done     \* pixels converted so far

loopVars == <<xform, input, output, count, done>>

LoopInit ==
    /\ xform \in Transform
    /\ input = <<>>
    /\ output = <<>>
    /\ count = 0
    /\ done = 0

Begin ==
    /\ done = count
    /\ xform' \in Transform
    /\ input' \in Seq(InPixel)
    /\ FitsOutput(xform', output')
    /\ count' \in 0..Len(input')
    /\ count' <= Len(output')
    /\ done' = 0

ConvertPixel ==
    /\ done < count
    /\ done' = done + 1
    /\ output' = [output EXCEPT ![done + 1] = Converted(xform, input[done + 1], @)]
    /\ UNCHANGED <<xform, input, count>>

\* The buffers go back to the caller.
End ==
    /\ done = count
    /\ input' = <<>>
    /\ output' = <<>>
    /\ count' = 0
    /\ done' = 0
    /\ UNCHANGED xform

LoopNext == Begin \/ ConvertPixel \/ End

LoopSpec == LoopInit /\ [][LoopNext]_loopVars

=============================================================================
