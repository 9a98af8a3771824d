------------------------ MODULE BatchedTransform_proofs ------------------------
(***************************************************************************)
(* For every tile size, threshold, transform, call and workspace content:   *)
(* the batched path and the one-pixel path both implement PixelLoop.        *)
(***************************************************************************)
EXTENDS BatchedTransform, FiniteSetTheorems, TLAPS

-----------------------------------------------------------------------------
\* Between calls the caller has its buffers back.
IdleInv == mode = "idle" => input = <<>> /\ output = <<>> /\ count = 0 /\ done = 0

\* A tile in work: its bounds, and buffers as long as the call's tile.
TileInv ==
    mode \in TilePhases =>
        /\ ~xform.gamut
        /\ base < count
        /\ reached <= TilePixels
        /\ unique <= Len(chan_in)
        /\ Len(uniq_of) = TileSize
        /\ Len(chan_in) = TileSize
        /\ Len(chan_out) = TileSize

UnpackInv ==
    mode = "unpack" =>
        /\ done = base
        /\ unique <= reached
        /\ reached > 0 => unique > 0 /\ uniq_of[reached] = unique
        /\ \A u \in 1..unique : chan_in[u] \in Colour

\* All pixels packed so far are done, and the last one has its own colour.
PackInv ==
    mode = "pack" =>
        /\ done = base + reached
        /\ reached > 0 =>
             output[base + reached].colour = Convert[xform][input[base + reached].colour]

BatchInv ==
    /\ BatchTypeOK
    /\ IdleInv
    /\ TileInv
    /\ UnpackInv
    /\ PackInv
    /\ SlotsHoldTheirPixels

-----------------------------------------------------------------------------
\* The tile's bounds as numbers.
LEMMA TileBounds ==
    ASSUME BatchInv, mode \in TilePhases
    PROVE  /\ count \in Nat /\ base \in Nat /\ reached \in Nat /\ Tile \in Nat \ {0}
           /\ TileSize \in Nat /\ TileSize <= Tile /\ TileSize <= count /\ TileSize > 0
           /\ TilePixels \in Nat /\ TilePixels > 0 /\ TilePixels <= TileSize
           /\ base + TilePixels <= count
           /\ reached <= TilePixels
           /\ count <= Len(input) /\ count <= Len(output)
           /\ Len(input) \in Nat /\ Len(output) \in Nat
<1>1. Tile \in Nat \ {0}  BY BatchAssumption
<1>2. /\ input \in Seq(InPixel) /\ output \in Seq(OutPixel)
      /\ count \in 0..LesserOf(Len(input), Len(output))
      /\ base \in Nat /\ reached \in Nat /\ reached <= TilePixels /\ base < count
  BY DEF BatchInv, BatchTypeOK, FitsOutput, TileInv
<1>3. Len(input) \in Nat /\ Len(output) \in Nat  BY <1>2
<1>  QED  BY <1>1, <1>2, <1>3 DEF TileSize, TilePixels, LesserOf

\* Transforms are what the assumption says they are.
LEMMA TransformFacts ==
    ASSUME NEW t \in Transform
    PROVE  /\ t.batched \in BOOLEAN /\ t.gamut \in BOOLEAN
           /\ t.extra \in BOOLEAN /\ t.alpha \in BOOLEAN
           /\ t.alpha => t.extra
           /\ Convert[t] \in [Colour -> Device]
           /\ Alarm[t] \in Device
  BY TransformAssumption DEF IsTransform

\* A converted pixel is an output pixel, and stays one without extra samples.
LEMMA ConvertedType ==
    ASSUME NEW t \in Transform, NEW in \in InPixel, NEW old \in OutPixel
    PROVE  /\ Converted(t, in, old) \in OutPixel
           /\ ~t.extra => Converted(t, in, old).extra = old.extra
<1>1. Convert[t][in.colour] \in Device /\ Alarm[t] \in Device
  BY TransformFacts DEF InPixel
<1>2. CopyAlpha[in.extra] \in Extras  BY TransformAssumption DEF InPixel
<1>3. t.alpha => t.extra  BY TransformFacts
<1>  QED  BY <1>1, <1>2, <1>3 DEF Converted, OutPixel

\* Resized buffers have the length asked for, and keep their element type.
LEMMA ResizedType ==
    ASSUME NEW S, NEW buffer \in Seq(S), NEW size \in Nat, NEW value \in S
    PROVE  Resized(buffer, size, value) \in Seq(S) /\ Len(Resized(buffer, size, value)) = size
<1>1. \A i \in 1..size : i <= Len(buffer) => buffer[i] \in S  OBVIOUS
<1>  QED  BY <1>1 DEF Resized

\* Writing one pixel into an output buffer.
LEMMA OutputStaysFit ==
    ASSUME NEW t, NEW pixels, FitsOutput(t, pixels),
           NEW i \in DOMAIN pixels, NEW p \in OutPixel,
           ~t.extra => p.extra = NoExtra
    PROVE  /\ FitsOutput(t, [pixels EXCEPT ![i] = p])
           /\ Len([pixels EXCEPT ![i] = p]) = Len(pixels)
           /\ [pixels EXCEPT ![i] = p][i] = p
<1>1. pixels \in Seq(OutPixel)  BY DEF FitsOutput
<1>2. [pixels EXCEPT ![i] = p] \in Seq(OutPixel)  BY <1>1
<1>  QED  BY <1>1, <1>2 DEF FitsOutput

-----------------------------------------------------------------------------
LEMMA BatchStart == BatchInit => BatchInv
<1>1. <<>> \in Seq(InPixel) /\ <<>> \in Seq(OutPixel) /\ <<>> \in Seq(Nat)
      /\ <<>> \in Seq(Colour \cup {Zero}) /\ <<>> \in Seq(Device \cup {Zero})
  OBVIOUS
<1>2. Len(<<>>) = 0  OBVIOUS
<1>  QED
  BY <1>1, <1>2 DEF BatchInit, LoopInit, BatchInv, BatchTypeOK, IdleInv, TileInv, UnpackInv,
     PackInv, SlotsHoldTheirPixels, FitsOutput, TilePhases, LesserOf

LEMMA StartCallStep ==
    ASSUME BatchInv, NEW c \in Call, StartCall(c)
    PROVE  BatchInv' /\ Begin
<1>1. IsCall(c) /\ Tile \in Nat \ {0} /\ Threshold \in Nat \ {0}  BY BatchAssumption
<1>2. /\ c.count \in Nat /\ c.count <= Len(c.input) /\ c.count <= Len(c.output)
      /\ Len(c.input) \in Nat /\ Len(c.output) \in Nat
  BY <1>1 DEF IsCall, FitsOutput
<1>3. Begin
  BY <1>1 DEF Begin, StartCall, IsCall, BatchInv, IdleInv
<1>4. mode' # "idle"  BY DEF StartCall
<1>5. CASE TakesBatchedPath(c)
  <2> DEFINE tile == LesserOf(c.count, Tile)
  <2>1. tile \in Nat /\ tile > 0 /\ TileSize' = tile /\ TilePixels' = tile /\ c.count > 0
    BY <1>1, <1>2, <1>5 DEF StartCall, TileSize, TilePixels, LesserOf, TakesBatchedPath
  <2>2. /\ uniq_of' \in Seq(Nat) /\ Len(uniq_of') = tile
        /\ chan_in' \in Seq(Colour \cup {Zero}) /\ Len(chan_in') = tile
        /\ chan_out' \in Seq(Device \cup {Zero}) /\ Len(chan_out') = tile
    <3>1. /\ uniq_of \in Seq(Nat)
          /\ chan_in \in Seq(Colour \cup {Zero})
          /\ chan_out \in Seq(Device \cup {Zero})
      BY DEF BatchInv, BatchTypeOK
    <3>2. /\ uniq_of' = Resized(uniq_of, tile, 0)
          /\ chan_in' = Resized(chan_in, tile, Zero)
          /\ chan_out' = Resized(chan_out, tile, Zero)
      BY <1>5 DEF StartCall
    <3>3. 0 \in Nat /\ Zero \in Colour \cup {Zero} /\ Zero \in Device \cup {Zero}
      OBVIOUS
    <3>  HIDE DEF tile
    <3>4. uniq_of' \in Seq(Nat) /\ Len(uniq_of') = tile
      BY <3>1, <3>2, <3>3, <2>1, ResizedType
    <3>5. chan_in' \in Seq(Colour \cup {Zero}) /\ Len(chan_in') = tile
      BY <3>1, <3>2, <3>3, <2>1, ResizedType
    <3>6. chan_out' \in Seq(Device \cup {Zero}) /\ Len(chan_out') = tile
      BY <3>1, <3>2, <3>3, <2>1, ResizedType
    <3>  QED  BY <3>4, <3>5, <3>6
  <2>3. mode' = "unpack" /\ xform' = c.xform /\ count' = c.count /\ base' = 0 /\ reached' = 0
        /\ unique' = 0 /\ done' = 0
    BY <1>5 DEF StartCall
  <2>4. BatchTypeOK'
    BY <1>1, <1>2, <2>2, <2>3 DEF StartCall, IsCall, BatchTypeOK, TilePhases, LesserOf
  <2>  QED
    BY <1>5, <2>1, <2>2, <2>3, <2>4, <1>3 DEF BatchInv, IdleInv, TileInv, UnpackInv, PackInv,
       SlotsHoldTheirPixels, TakesBatchedPath
<1>6. CASE ~TakesBatchedPath(c)
  <2>1. mode' = "pixel" /\ UNCHANGED workspace  BY <1>6 DEF StartCall
  <2>2. BatchTypeOK'
    BY <1>1, <1>2, <2>1 DEF StartCall, IsCall, BatchTypeOK, TilePhases, LesserOf, BatchInv, workspace
  <2>  QED
    BY <2>1, <2>2, <1>3 DEF BatchInv, IdleInv, TileInv, UnpackInv, PackInv,
       SlotsHoldTheirPixels, TilePhases
<1>  QED  BY <1>5, <1>6

LEMMA TransformPixelStep ==
    ASSUME BatchInv, TransformPixel
    PROVE  BatchInv' /\ ConvertPixel
<1>1. ConvertPixel  BY DEF TransformPixel, ConvertPixel
<1>2. /\ count \in 0..LesserOf(Len(input), Len(output)) /\ done \in 0..count
      /\ input \in Seq(InPixel) /\ output \in Seq(OutPixel) /\ FitsOutput(xform, output)
      /\ xform \in Transform
  BY DEF BatchInv, BatchTypeOK, FitsOutput
<1>3. done + 1 \in DOMAIN input /\ done + 1 \in DOMAIN output /\ done + 1 \in 0..count
  BY <1>2 DEF TransformPixel, LesserOf
<1> DEFINE p == Converted(xform, input[done + 1], output[done + 1])
<1>4. p \in OutPixel /\ (~xform.extra => p.extra = NoExtra)
  <2>1. input[done + 1] \in InPixel /\ output[done + 1] \in OutPixel  BY <1>2, <1>3
  <2>2. ~xform.extra => output[done + 1].extra = NoExtra  BY <1>2, <1>3 DEF FitsOutput
  <2>  QED  BY <1>2, <2>1, <2>2, ConvertedType
<1>5. output' = [output EXCEPT ![done + 1] = p]  BY DEF TransformPixel
<1>6. FitsOutput(xform, output') /\ Len(output') = Len(output)
  <2> HIDE DEF p
  <2>  QED  BY <1>2, <1>3, <1>4, <1>5, OutputStaysFit
<1>7. BatchTypeOK'
  BY <1>2, <1>3, <1>6 DEF TransformPixel, BatchInv, BatchTypeOK, workspace
<1>  QED
  BY <1>1, <1>7 DEF TransformPixel, BatchInv, IdleInv, TileInv, UnpackInv, PackInv,
     SlotsHoldTheirPixels, TilePhases

LEMMA UnpackStep ==
    ASSUME BatchInv, UnpackPixel
    PROVE  BatchInv' /\ UNCHANGED loopVars
<1>1. mode = "unpack" /\ mode' = "unpack" /\ UNCHANGED <<loopVars, base, chan_out>>
      /\ reached' = reached + 1 /\ reached < TilePixels
  BY DEF UnpackPixel
<1>2. /\ count \in Nat /\ base \in Nat /\ reached \in Nat
      /\ TileSize \in Nat /\ TilePixels \in Nat /\ TilePixels <= TileSize
      /\ base + TilePixels <= count /\ count <= Len(input) /\ Len(input) \in Nat
  BY <1>1, TileBounds DEF TilePhases
<1>3. TileSize' = TileSize /\ TilePixels' = TilePixels
  BY <1>1 DEF TileSize, TilePixels, loopVars
<1>4. /\ unique \in Nat /\ unique <= reached /\ uniq_of \in Seq(Nat) /\ Len(uniq_of) = TileSize
      /\ chan_in \in Seq(Colour \cup {Zero}) /\ Len(chan_in) = TileSize
      /\ reached > 0 => unique > 0 /\ uniq_of[reached] = unique
      /\ \A p \in 1..reached : /\ uniq_of[p] \in 1..unique
                               /\ chan_in[uniq_of[p]] = input[base + p].colour
  BY <1>1 DEF BatchInv, BatchTypeOK, TileInv, UnpackInv, SlotsHoldTheirPixels, TilePhases
<1>5. Here \in DOMAIN input /\ input[Here] \in InPixel /\ Here = base + reached'
  <2>1. input \in Seq(InPixel)  BY DEF BatchInv, BatchTypeOK
  <2>  QED  BY <1>1, <1>2, <2>1 DEF Here
<1>6. /\ uniq_of' = [uniq_of EXCEPT ![reached + 1] = unique']
      /\ reached + 1 \in 1..Len(uniq_of)
      /\ unique' \in Nat /\ unique' >= unique /\ unique' > 0 /\ unique' <= reached + 1
  <2>1. CASE Repeats  BY <2>1, <1>1, <1>2, <1>4 DEF UnpackPixel, Repeats
  <2>2. CASE ~Repeats  BY <2>2, <1>1, <1>2, <1>4 DEF UnpackPixel
  <2>  QED  BY <2>1, <2>2
<1>7. /\ uniq_of' \in Seq(Nat) /\ Len(uniq_of') = TileSize /\ uniq_of'[reached + 1] = unique'
      /\ \A p \in 1..reached : uniq_of'[p] = uniq_of[p]
  BY <1>2, <1>4, <1>6
<1>8. /\ chan_in' \in Seq(Colour \cup {Zero}) /\ Len(chan_in') = TileSize
      /\ \A u \in 1..unique : chan_in'[u] = chan_in[u]
      /\ chan_in'[unique'] = input[Here].colour
  <2>1. CASE Repeats
    <3>1. unique' = unique /\ chan_in' = chan_in  BY <2>1 DEF UnpackPixel
    <3>2. reached > 0 /\ input[Here] = input[base + reached]
      <4>1. Here - 1 = base + reached  BY <1>2 DEF Here
      <4>  QED  BY <2>1, <4>1 DEF Repeats
    <3>3. chan_in[unique] = input[base + reached].colour
      <4>1. reached \in 1..reached  BY <3>2, <1>2
      <4>2. chan_in[uniq_of[reached]] = input[base + reached].colour  BY <4>1, <1>4, Zenon
      <4>3. uniq_of[reached] = unique  BY <3>2, <1>4, Zenon
      <4>  QED  BY <4>2, <4>3, Zenon
    <3>  QED  BY <3>1, <3>2, <3>3, <1>4
  <2>2. CASE ~Repeats
    <3>1. unique' = unique + 1 /\ chan_in' = [chan_in EXCEPT ![unique + 1] = input[Here].colour]
      BY <2>2 DEF UnpackPixel
    <3>2. unique + 1 \in 1..Len(chan_in)  BY <1>1, <1>2, <1>4
    <3>3. input[Here].colour \in Colour  BY <1>5 DEF InPixel
    <3>  QED  BY <3>1, <3>2, <3>3, <1>4
  <2>  QED  BY <2>1, <2>2
<1>9. SlotsHoldTheirPixels'
  <2>1. ASSUME NEW p \in 1..(reached + 1)
        PROVE  uniq_of'[p] \in 1..unique' /\ chan_in'[uniq_of'[p]] = input[base + p].colour
    <3>1. CASE p = reached + 1  BY <3>1, <1>2, <1>5, <1>6, <1>7, <1>8 DEF Here
    <3>2. CASE p # reached + 1
      <4>1. p \in 1..reached  BY <3>2, <1>2
      <4>  QED  BY <4>1, <1>4, <1>6, <1>7, <1>8
    <3>  QED  BY <3>1, <3>2
  <2>  QED  BY <2>1, <1>1 DEF SlotsHoldTheirPixels, loopVars
<1>10. BatchTypeOK'
  BY <1>1, <1>2, <1>6, <1>7, <1>8 DEF BatchInv, BatchTypeOK, loopVars
<1>11. TileInv'
  BY <1>1, <1>2, <1>3, <1>6, <1>7, <1>8 DEF BatchInv, TileInv, loopVars, TilePhases
<1>12. UnpackInv'
  <2>1. \A u \in 1..unique' : chan_in'[u] \in Colour
    <3>1. input[Here].colour \in Colour  BY <1>5 DEF InPixel
    <3>2. \A u \in 1..unique : chan_in[u] \in Colour  BY <1>1 DEF BatchInv, UnpackInv
    <3>3. unique' = unique \/ unique' = unique + 1  BY DEF UnpackPixel
    <3>  QED  BY <3>1, <3>2, <3>3, <1>4, <1>8
  <2>2. done = base  BY <1>1 DEF BatchInv, UnpackInv
  <2>  QED  BY <1>1, <1>2, <1>6, <1>7, <2>1, <2>2 DEF UnpackInv, loopVars
<1>  QED
  BY <1>1, <1>9, <1>10, <1>11, <1>12 DEF BatchInv, IdleInv, PackInv

LEMMA EvalStep ==
    ASSUME BatchInv, EvalTile
    PROVE  BatchInv' /\ UNCHANGED loopVars
<1>1. /\ mode = "unpack" /\ mode' = "pack" /\ reached = TilePixels /\ reached' = 0
      /\ UNCHANGED <<loopVars, base, unique, uniq_of, chan_in>>
  BY DEF EvalTile
<1>2. TileSize' = TileSize /\ TilePixels' = TilePixels
  BY <1>1 DEF TileSize, TilePixels, loopVars
<1>3. /\ unique \in Nat /\ unique <= Len(chan_in) /\ Len(chan_in) = TileSize
      /\ chan_out \in Seq(Device \cup {Zero}) /\ Len(chan_out) = TileSize
      /\ xform \in Transform
      /\ input \in Seq(InPixel)
      /\ \A p \in 1..TilePixels : /\ uniq_of[p] \in 1..unique
                                  /\ chan_in[uniq_of[p]] = input[base + p].colour
  BY <1>1 DEF BatchInv, BatchTypeOK, TileInv, SlotsHoldTheirPixels, TilePhases
<1>4. /\ base \in Nat /\ TilePixels \in Nat /\ TileSize \in Nat
      /\ base + TilePixels <= count /\ count \in Nat
      /\ count <= Len(input) /\ Len(input) \in Nat /\ TilePixels > 0
  BY <1>1, TileBounds DEF TilePhases
<1>5. \A u \in 1..unique : u \in DOMAIN chan_out /\ chan_out'[u] = Convert[xform][chan_in[u]]
  BY <1>3, <1>4 DEF EvalTile
<1>6. \A p \in 1..TilePixels : chan_out'[uniq_of[p]] = Convert[xform][input[base + p].colour]
  BY <1>3, <1>5
<1>7. chan_out' \in Seq(Device \cup {Zero}) /\ Len(chan_out') = TileSize
  <2>1. \A u \in 1..unique : Convert[xform][chan_in[u]] \in Device \cup {Zero}
    <3>1. \A u \in 1..unique : chan_in[u] \in Colour  BY <1>1 DEF BatchInv, UnpackInv
    <3>  QED  BY <1>3, <3>1, TransformFacts
  <2>2. \A u \in DOMAIN chan_out : chan_out'[u] \in Device \cup {Zero}
    BY <1>3, <2>1 DEF EvalTile
  <2>3. DOMAIN chan_out = 1..TileSize /\ chan_out' = [u \in 1..TileSize |-> chan_out'[u]]
    BY <1>3 DEF EvalTile
  <2>  QED  BY <2>2, <2>3, <1>4
<1>8. BatchTypeOK'
  BY <1>1, <1>7 DEF BatchInv, BatchTypeOK, loopVars, TilePhases
<1>9. SlotsHoldTheirPixels'
  BY <1>1, <1>2, <1>3, <1>6 DEF SlotsHoldTheirPixels, loopVars
<1>10. TileInv'
  BY <1>1, <1>2, <1>3, <1>4, <1>7 DEF BatchInv, TileInv, loopVars, TilePhases
<1>11. PackInv'
  BY <1>1, <1>4 DEF BatchInv, UnpackInv, PackInv, loopVars
<1>  QED
  BY <1>1, <1>8, <1>9, <1>10, <1>11 DEF BatchInv, IdleInv, UnpackInv

LEMMA PackStep ==
    ASSUME BatchInv, PackPixel
    PROVE  BatchInv' /\ ConvertPixel
<1>1. /\ mode = "pack" /\ mode' = "pack" /\ reached < TilePixels
      /\ reached' = reached + 1 /\ done' = done + 1
      /\ UNCHANGED <<xform, input, count, base, unique, workspace>>
  BY DEF PackPixel
<1>2. TileSize' = TileSize /\ TilePixels' = TilePixels
  BY <1>1 DEF TileSize, TilePixels
<1>3. /\ base \in Nat /\ reached \in Nat /\ TilePixels \in Nat
      /\ base + TilePixels <= count /\ count \in Nat
      /\ count <= Len(input) /\ Len(input) \in Nat
      /\ count <= Len(output) /\ Len(output) \in Nat
  BY <1>1, TileBounds DEF TilePhases
<1>4. /\ xform \in Transform /\ input \in Seq(InPixel) /\ output \in Seq(OutPixel)
      /\ FitsOutput(xform, output)
      /\ done = base + reached
      /\ ~xform.gamut
      /\ reached > 0 =>
           output[base + reached].colour = Convert[xform][input[base + reached].colour]
      /\ \A p \in 1..TilePixels : chan_out[uniq_of[p]] = Convert[xform][input[base + p].colour]
  BY <1>1 DEF BatchInv, BatchTypeOK, FitsOutput, TileInv, PackInv, SlotsHoldTheirPixels, TilePhases
<1>5. /\ Here = base + (reached + 1) /\ Here = done + 1 /\ Here \in DOMAIN input
      /\ Here \in DOMAIN output /\ done < count /\ done + 1 \in 0..count
  <2> DEFINE t == TilePixels
             n == Len(input)
             m == Len(output)
  <2>1. DOMAIN input = 1..n /\ DOMAIN output = 1..m  BY <1>4
  <2>2. Here = done + 1  BY <1>3, <1>4 DEF Here
  <2>3. done = base + reached /\ reached < t  BY <1>1, <1>4
  <2>4. /\ base \in Nat /\ reached \in Nat /\ t \in Nat /\ base + t <= count /\ count \in Nat
        /\ count <= n /\ n \in Nat /\ count <= m /\ m \in Nat
    BY <1>3
  <2> HIDE DEF t, n, m
  <2>5. done < count /\ done + 1 \in 0..count /\ done + 1 = base + (reached + 1)  BY <2>3, <2>4
  <2>6. done + 1 \in 1..n /\ done + 1 \in 1..m  BY <2>3, <2>4
  <2> QED  BY <2>1, <2>2, <2>5, <2>6
<1> DEFINE p == Converted(xform, input[Here], output[Here])
<1>6. input[Here] \in InPixel /\ output[Here] \in OutPixel
  BY <1>4, <1>5
<1>7. p = [colour |-> Convert[xform][input[Here].colour],
           extra |-> IF xform.alpha THEN CopyAlpha[input[Here].extra] ELSE output[Here].extra]
  BY <1>4 DEF Converted
<1>8. chan_out[uniq_of[reached + 1]] = Convert[xform][input[Here].colour]
  <2>1. reached + 1 \in 1..TilePixels  BY <1>1, <1>3
  <2>  QED  BY <2>1, <1>4, <1>5
<1>9. output' = [output EXCEPT ![Here] = p]
  <2>1. CASE CopiesPixel
    <3>1. ~xform.extra /\ ~xform.alpha /\ reached > 0 /\ uniq_of[reached] = uniq_of[reached + 1]
      BY <2>1, <1>4, TransformFacts DEF CopiesPixel
    <3>2. Here - 1 = base + reached /\ Here - 1 \in DOMAIN output /\ reached \in 1..TilePixels
      BY <1>1, <1>3, <1>5, <3>1
    <3>3. output[Here - 1].colour = Convert[xform][input[Here].colour]
      <4>1. output[Here - 1].colour = Convert[xform][input[base + reached].colour]
        BY <3>1, <3>2, <1>4
      <4>2. chan_out[uniq_of[reached]] = Convert[xform][input[base + reached].colour]
        BY <3>2, <1>4
      <4>  QED  BY <4>1, <4>2, <3>1, <1>8
    <3>4. output[Here - 1] \in OutPixel /\ output[Here - 1].extra = NoExtra
          /\ output[Here].extra = NoExtra
      BY <3>1, <3>2, <1>4, <1>5 DEF FitsOutput
    <3>5. output[Here - 1] = [colour |-> output[Here - 1].colour, extra |-> output[Here - 1].extra]
      BY <3>4 DEF OutPixel
    <3>6. output[Here - 1] = p
      BY <3>1, <3>3, <3>4, <3>5, <1>7
    <3>7. output' = [output EXCEPT ![Here] = output[Here - 1]]
      BY <2>1 DEF PackPixel
    <3>  HIDE DEF p
    <3>  QED  BY <3>6, <3>7
  <2>2. CASE ~CopiesPixel
    <3>1. output' = [output EXCEPT ![Here] =
                      [colour |-> chan_out[uniq_of[reached + 1]],
                       extra |-> IF xform.alpha THEN CopyAlpha[input[Here].extra]
                                 ELSE output[Here].extra]]
      BY <2>2 DEF PackPixel
    <3>  QED  BY <3>1, <1>7, <1>8, Zenon
  <2>  QED  BY <2>1, <2>2
<1>10. p \in OutPixel /\ (~xform.extra => p.extra = NoExtra)
  <2>1. ~xform.extra => output[Here].extra = NoExtra  BY <1>4, <1>5 DEF FitsOutput
  <2>  QED  BY <2>1, <1>4, <1>6, ConvertedType
<1>11. /\ FitsOutput(xform, output') /\ Len(output') = Len(output) /\ output'[Here] = p
  <2>1. Here \in DOMAIN output /\ FitsOutput(xform, output)  BY <1>4, <1>5
  <2>  HIDE DEF p
  <2>2. /\ FitsOutput(xform, [output EXCEPT ![Here] = p])
        /\ Len([output EXCEPT ![Here] = p]) = Len(output)
        /\ [output EXCEPT ![Here] = p][Here] = p
    BY <2>1, <1>10, OutputStaysFit, Zenon
  <2>  QED  BY <2>2, <1>9, Zenon
<1>12. ConvertPixel
  <2>1. output' = [output EXCEPT ![done + 1] = Converted(xform, input[done + 1], output[done + 1])]
    BY <1>5, <1>9
  <2>  QED  BY <1>1, <1>5, <2>1 DEF ConvertPixel
<1>13. BatchTypeOK'
  BY <1>1, <1>3, <1>5, <1>11 DEF BatchInv, BatchTypeOK, workspace
<1>14. TileInv'
  BY <1>1, <1>2, <1>3 DEF BatchInv, TileInv, workspace, TilePhases
<1>15. PackInv'
  <2>1. output'[base + reached'].colour = Convert[xform][input[base + reached'].colour]
    BY <1>1, <1>5, <1>7, <1>11
  <2>  QED  BY <2>1, <1>1, <1>3, <1>4 DEF PackInv
<1>16. SlotsHoldTheirPixels'
  BY <1>1, <1>2 DEF BatchInv, SlotsHoldTheirPixels, workspace
<1>  QED
  BY <1>1, <1>12, <1>13, <1>14, <1>15, <1>16 DEF BatchInv, IdleInv, UnpackInv

LEMMA NextTileStep ==
    ASSUME BatchInv, NextTile
    PROVE  BatchInv' /\ UNCHANGED loopVars
<1>1. /\ mode = "pack" /\ mode' = "unpack" /\ reached = TilePixels
      /\ base' = base + TilePixels /\ base' < count /\ reached' = 0 /\ unique' = 0
      /\ UNCHANGED <<loopVars, workspace>>
  BY DEF NextTile
<1>2. /\ base \in Nat /\ TilePixels \in Nat /\ count \in Nat /\ TileSize \in Nat
      /\ TileSize' = TileSize
  BY <1>1, TileBounds DEF TilePhases, TileSize, loopVars
<1>3. TilePixels' \in Nat
  BY <1>1, <1>2 DEF TilePixels, LesserOf, loopVars
<1>4. BatchTypeOK'
  BY <1>1, <1>2 DEF BatchInv, BatchTypeOK, loopVars, workspace, TilePhases
<1>5. TileInv'
  BY <1>1, <1>2, <1>3 DEF BatchInv, TileInv, loopVars, workspace, TilePhases
<1>6. UnpackInv'
  BY <1>1 DEF BatchInv, PackInv, UnpackInv, loopVars
<1>7. SlotsHoldTheirPixels'
  BY <1>1 DEF SlotsHoldTheirPixels
<1>  QED
  BY <1>1, <1>4, <1>5, <1>6, <1>7 DEF BatchInv, IdleInv, PackInv

LEMMA ReturnStep ==
    ASSUME BatchInv, Return
    PROVE  BatchInv' /\ End
<1>1. done = count
  <2>1. CASE mode = "pixel" /\ done = count  BY <2>1
  <2>2. CASE mode = "pack" /\ reached = TilePixels /\ base + TilePixels = count
    BY <2>2 DEF BatchInv, PackInv
  <2>  QED  BY <2>1, <2>2 DEF Return
<1>2. End  BY <1>1 DEF Return, End
<1>3. mode' = "idle" /\ count' = 0 /\ done' = 0 /\ base' = 0 /\ reached' = 0 /\ unique' = 0
      /\ input' = <<>> /\ output' = <<>> /\ UNCHANGED <<xform, workspace>>
  BY DEF Return
<1>4. <<>> \in Seq(InPixel) /\ <<>> \in Seq(OutPixel) /\ Len(<<>>) = 0 /\ DOMAIN <<>> = {}
  OBVIOUS
<1>5. 0 \in 0..LesserOf(0, 0) /\ 0 \in 0..0 /\ 0 \in Nat  BY DEF LesserOf
<1>6. BatchTypeOK'
  <2>1. /\ xform \in Transform /\ uniq_of \in Seq(Nat)
        /\ chan_in \in Seq(Colour \cup {Zero}) /\ chan_out \in Seq(Device \cup {Zero})
    BY DEF BatchInv, BatchTypeOK
  <2>2. FitsOutput(xform', output')  BY <1>3, <1>4 DEF FitsOutput
  <2>3. /\ input' \in Seq(InPixel) /\ count' \in 0..LesserOf(Len(input'), Len(output'))
        /\ done' \in 0..count'
    BY <1>3, <1>4, <1>5
  <2>  QED  BY <1>3, <1>5, <2>1, <2>2, <2>3 DEF BatchTypeOK, workspace
<1>  QED
  BY <1>2, <1>3, <1>6 DEF BatchInv, IdleInv, TileInv, UnpackInv, PackInv,
     SlotsHoldTheirPixels, TilePhases

LEMMA BatchStutter ==
    ASSUME BatchInv, UNCHANGED batchVars
    PROVE  BatchInv' /\ UNCHANGED loopVars
  BY DEF BatchInv, BatchTypeOK, IdleInv, TileInv, UnpackInv, PackInv, SlotsHoldTheirPixels,
     TileSize, TilePixels, batchVars, loopVars, workspace

-----------------------------------------------------------------------------
\* Every step keeps the invariant and is a step of PixelLoop, or none of its steps.
LEMMA BatchStep ==
    ASSUME BatchInv, [BatchNext]_batchVars
    PROVE  BatchInv' /\ [LoopNext]_loopVars
<1>1. ASSUME NEW c \in Call, StartCall(c)  PROVE BatchInv' /\ [LoopNext]_loopVars
  BY <1>1, StartCallStep DEF LoopNext
<1>2. CASE TransformPixel  BY <1>2, TransformPixelStep DEF LoopNext
<1>3. CASE UnpackPixel  BY <1>3, UnpackStep
<1>4. CASE EvalTile  BY <1>4, EvalStep
<1>5. CASE PackPixel  BY <1>5, PackStep DEF LoopNext
<1>6. CASE NextTile  BY <1>6, NextTileStep
<1>7. CASE Return  BY <1>7, ReturnStep DEF LoopNext
<1>8. CASE UNCHANGED batchVars  BY <1>8, BatchStutter
<1>  QED  BY <1>1, <1>2, <1>3, <1>4, <1>5, <1>6, <1>7, <1>8 DEF BatchNext, Running

THEOREM BatchInvariant == BatchSpec => []BatchInv
<1>1. BatchInv /\ [BatchNext]_batchVars => BatchInv'  BY BatchStep
<1>  QED  BY BatchStart, <1>1, PTL DEF BatchSpec

(***************************************************************************)
(* For every call on every workspace, loop counters and buffers keep their  *)
(* types and bounds.                                                        *)
(***************************************************************************)
THEOREM BatchTypeCorrect == BatchSpec => []BatchTypeOK
<1>1. BatchInv => BatchTypeOK  BY DEF BatchInv
<1>  QED  BY <1>1, BatchInvariant, PTL

(***************************************************************************)
(* For every tile size and every workspace left by earlier calls, a tile's  *)
(* pixels are found in their slots.                                         *)
(***************************************************************************)
THEOREM SlotsAlwaysHoldTheirPixels == BatchSpec => []SlotsHoldTheirPixels
<1>1. BatchInv => SlotsHoldTheirPixels  BY DEF BatchInv
<1>  QED  BY <1>1, BatchInvariant, PTL

(***************************************************************************)
(* Whatever the tile size, the threshold, the formats and the history of    *)
(* the workspace, every call converts its pixels one by one as the one-     *)
(* pixel loop does: the batched path changes no output.                     *)
(***************************************************************************)
THEOREM BatchedIsPixelByPixel == BatchSpec => PixelByPixel
<1>1. BatchInit => LoopInit  BY DEF BatchInit
<1>2. BatchInv /\ [BatchNext]_batchVars => [LoopNext]_loopVars  BY BatchStep
<1>  QED  BY <1>1, <1>2, BatchInvariant, PTL DEF BatchSpec, PixelByPixel, LoopSpec

-----------------------------------------------------------------------------
(***************************************************************************)
(* One slot per run: the slots in use are counted against the places where  *)
(* the tile's input changes.                                                *)
(***************************************************************************)
Changes(in, b, p) == p = 1 \/ in[b + p] # in[b + p - 1]
RunStarts(in, b, n) == {p \in 1..n : Changes(in, b, p)}

\* The pixels of the tile that have a slot.
Unpacked == IF mode = "unpack" THEN reached ELSE TilePixels

RunsInv == mode \in TilePhases => unique = Cardinality(RunStarts(input, base, Unpacked))

LEMMA RunStartsGrow ==
    ASSUME NEW in, NEW b, NEW n \in Nat
    PROVE  /\ Cardinality(RunStarts(in, b, 0)) = 0
           /\ Cardinality(RunStarts(in, b, n + 1))
                = IF Changes(in, b, n + 1) THEN Cardinality(RunStarts(in, b, n)) + 1
                  ELSE Cardinality(RunStarts(in, b, n))
<1>1. RunStarts(in, b, 0) = {}  BY DEF RunStarts
<1>2. IsFiniteSet(RunStarts(in, b, n))
  <2>1. IsFiniteSet(1..n)  BY FS_Interval
  <2>  QED  BY <2>1, FS_Subset DEF RunStarts
<1>3. n + 1 \notin RunStarts(in, b, n)  BY DEF RunStarts
<1>4. \A p : p \in 1..(n + 1) <=> p \in 1..n \/ p = n + 1  OBVIOUS
<1>5. CASE Changes(in, b, n + 1)
  <2>1. RunStarts(in, b, n + 1) = RunStarts(in, b, n) \cup {n + 1}
    BY <1>4, <1>5, Zenon DEF RunStarts
  <2>2. Cardinality(RunStarts(in, b, n) \cup {n + 1}) = Cardinality(RunStarts(in, b, n)) + 1
    BY <1>2, <1>3, FS_AddElement
  <2>  QED  BY <1>1, <1>5, <2>1, <2>2, FS_EmptySet
<1>6. CASE ~Changes(in, b, n + 1)
  <2>1. RunStarts(in, b, n + 1) = RunStarts(in, b, n)
    BY <1>4, <1>6, Zenon DEF RunStarts
  <2>  QED  BY <1>1, <1>6, <2>1, FS_EmptySet
<1>  QED  BY <1>5, <1>6

LEMMA RunsStep ==
    ASSUME BatchInv, RunsInv, [BatchNext]_batchVars
    PROVE  RunsInv'
<1>1. CASE \E c \in Call : StartCall(c)
  <2>1. PICK c \in Call : StartCall(c)  BY <1>1
  <2>2. unique' = 0 /\ reached' = 0 /\ (mode' = "unpack" \/ mode' = "pixel")
    BY <2>1 DEF StartCall
  <2>  QED  BY <2>2, RunStartsGrow DEF RunsInv, Unpacked, TilePhases
<1>2. CASE UnpackPixel
  <2>1. /\ mode = "unpack" /\ mode' = "unpack" /\ reached' = reached + 1
        /\ unique' = IF Repeats THEN unique ELSE unique + 1
        /\ UNCHANGED <<loopVars, base>>
    BY <1>2 DEF UnpackPixel
  <2>2. reached \in Nat /\ base \in Nat  BY <2>1, TileBounds DEF TilePhases
  <2>3. Repeats <=> ~Changes(input, base, reached + 1)
    <3>1. Here = base + (reached + 1) /\ Here - 1 = base + (reached + 1) - 1  BY <2>2 DEF Here
    <3>2. reached > 0 <=> reached + 1 # 1  BY <2>2
    <3>  QED  BY <3>1, <3>2, Zenon DEF Repeats, Changes
  <2>4. unique = Cardinality(RunStarts(input, base, reached))
    BY <2>1 DEF RunsInv, Unpacked, TilePhases
  <2>5. unique' = Cardinality(RunStarts(input, base, reached + 1))
    BY <2>1, <2>2, <2>3, <2>4, RunStartsGrow
  <2>  QED  BY <2>1, <2>5 DEF RunsInv, Unpacked, loopVars
<1>3. CASE EvalTile
  <2>1. /\ mode = "unpack" /\ mode' = "pack" /\ reached = TilePixels
        /\ UNCHANGED <<loopVars, base, unique>>
    BY <1>3 DEF EvalTile
  <2>2. TilePixels' = TilePixels  BY <2>1 DEF TileSize, TilePixels, loopVars
  <2>  QED  BY <2>1, <2>2 DEF RunsInv, Unpacked, loopVars, TilePhases
<1>4. CASE PackPixel
  <2>1. mode = "pack" /\ mode' = "pack" /\ UNCHANGED <<input, count, base, unique>>
    BY <1>4 DEF PackPixel
  <2>2. TilePixels' = TilePixels  BY <2>1 DEF TileSize, TilePixels
  <2>  QED  BY <2>1, <2>2 DEF RunsInv, Unpacked, TilePhases
<1>5. CASE NextTile
  <2>1. mode' = "unpack" /\ reached' = 0 /\ unique' = 0  BY <1>5 DEF NextTile
  <2>  QED  BY <2>1, RunStartsGrow DEF RunsInv, Unpacked
<1>6. CASE TransformPixel  BY <1>6 DEF TransformPixel, RunsInv, TilePhases
<1>7. CASE Return  BY <1>7 DEF Return, RunsInv, TilePhases
<1>8. CASE UNCHANGED batchVars
  BY <1>8 DEF RunsInv, Unpacked, TileSize, TilePixels, batchVars, loopVars
<1>  QED  BY <1>1, <1>2, <1>3, <1>4, <1>5, <1>6, <1>7, <1>8 DEF BatchNext, Running

(***************************************************************************)
(* For every tile and every input: a run of identical pixels is unpacked    *)
(* and evaluated once, and a tile's slots never outgrow its buffers.        *)
(***************************************************************************)
THEOREM RunsAreEvaluatedOnce == BatchSpec => []RunsEvaluatedOnce
<1>1. BatchInit => RunsInv  BY DEF BatchInit, RunsInv, TilePhases
<1>2. BatchInv /\ RunsInv /\ [BatchNext]_batchVars => RunsInv'  BY RunsStep
<1>3. BatchInv /\ RunsInv => RunsEvaluatedOnce
  <2> SUFFICES ASSUME BatchInv, RunsInv, mode = "pack"
               PROVE  /\ unique = Cardinality({p \in 1..TilePixels :
                                    p = 1 \/ input[base + p] # input[base + p - 1]})
                      /\ unique <= Len(chan_in)
                      /\ Len(chan_in) = TileSize /\ Len(chan_out) = TileSize
                      /\ Len(uniq_of) = TileSize
    BY DEF RunsEvaluatedOnce
  <2>1. unique = Cardinality(RunStarts(input, base, TilePixels))
    BY DEF RunsInv, Unpacked, TilePhases
  <2>2. /\ unique <= Len(chan_in)
        /\ Len(chan_in) = TileSize /\ Len(chan_out) = TileSize /\ Len(uniq_of) = TileSize
    BY DEF BatchInv, TileInv, TilePhases
  <2>  QED  BY <2>1, <2>2, Zenon DEF RunStarts, Changes
<1>  QED  BY <1>1, <1>2, <1>3, BatchInvariant, PTL DEF BatchSpec

=============================================================================
