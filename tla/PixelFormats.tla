---------------------------- MODULE PixelFormats ----------------------------
(***************************************************************************)
(* One pixel through the formatters of a transform that converts nothing   *)
(* (format/): the format word, the formatter chosen for it or none, unpack, *)
(* pack, and the copy of the extra samples (format/alpha.rs).               *)
(*                                                                          *)
(* A packed pixel is the sequence of its samples.  A sample is a number and *)
(* the unit it counts in; channel values count in 65535ths on the 16-bit    *)
(* path (a u16) and on the float path (a multiple of 1/65535) alike.        *)
(***************************************************************************)
EXTENDS Integers, Sequences, SequencesExt, FiniteSets

CONSTANTS
    Jobs    \* [in, out : format words, copyAlpha : BOOLEAN, pixel : samples]

VARIABLES
    job,      \* what the transform was built for and given
    stage,    \* "asked", "ready", "unpacked", "packed", "done", "unsupported"
    values,   \* the channel values between unpack and pack
    output    \* the packed output pixel

pixelVars == <<job, stage, values, output>>

-----------------------------------------------------------------------------
(* The format word (decode.rs) *)

MAX_CHANNELS == 16
PT == [ANY |-> 0, GRAY |-> 3, RGB |-> 4, CMY |-> 5, CMYK |-> 6, XYZ |-> 9, LAB |-> 10]

channels_sh(c) == 8 * c
extra_sh(e) == 128 * e
doswap_sh == 1024
endian16_sh == 2048
planar_sh == 4096
flavor_sh == 8192
swapfirst_sh == 16384
colorspace_sh(s) == 65536 * s
float_sh == 4194304
premul_sh == 8388608

Flag(f, sh) == (f \div sh) % 2 = 1
Bytes(f) == f % 8
Channels(f) == (f \div 8) % 16
Extra(f) == (f \div 128) % 8
DoSwap(f) == Flag(f, doswap_sh)
Endian16(f) == Flag(f, endian16_sh)
Planar(f) == Flag(f, planar_sh)
Flavor(f) == Flag(f, flavor_sh)
SwapFirst(f) == Flag(f, swapfirst_sh)
Colorspace(f) == (f \div 65536) % 32
IsFloat(f) == Flag(f, float_sh)
Premul(f) == Flag(f, premul_sh)

Total(f) == Channels(f) + Extra(f)
IsInkSpace(f) == Colorspace(f) \in {PT.CMY, PT.CMYK} \cup 16..26

\* The TYPE_* constants, by the order of their channels and by their depth.
Order ==
    [GRAY  |-> colorspace_sh(PT.GRAY) + channels_sh(1),
     GRAYA |-> colorspace_sh(PT.GRAY) + channels_sh(1) + extra_sh(1),
     RGB   |-> colorspace_sh(PT.RGB) + channels_sh(3),
     BGR   |-> colorspace_sh(PT.RGB) + channels_sh(3) + doswap_sh,
     RGBA  |-> colorspace_sh(PT.RGB) + channels_sh(3) + extra_sh(1),
     ARGB  |-> colorspace_sh(PT.RGB) + channels_sh(3) + extra_sh(1) + swapfirst_sh,
     ABGR  |-> colorspace_sh(PT.RGB) + channels_sh(3) + extra_sh(1) + doswap_sh,
     BGRA  |-> colorspace_sh(PT.RGB) + channels_sh(3) + extra_sh(1) + doswap_sh + swapfirst_sh,
     CMYK  |-> colorspace_sh(PT.CMYK) + channels_sh(4),
     CMYKA |-> colorspace_sh(PT.CMYK) + channels_sh(4) + extra_sh(1),
     KYMC  |-> colorspace_sh(PT.CMYK) + channels_sh(4) + doswap_sh,
     KCMY  |-> colorspace_sh(PT.CMYK) + channels_sh(4) + swapfirst_sh,
     Lab   |-> colorspace_sh(PT.LAB) + channels_sh(3),
     XYZ   |-> colorspace_sh(PT.XYZ) + channels_sh(3)]
Depth == [ b8 |-> 1, b16 |-> 2, SE |-> 2 + endian16_sh, REV8 |-> 1 + flavor_sh,
           REV16 |-> 2 + flavor_sh, FLT |-> 4 + float_sh, DBL |-> float_sh ]
TYPE(order, depth) == Order[order] + Depth[depth]
TypeNames ==
    ({"GRAY", "RGB", "CMYK"} \X {"b8", "b16", "SE", "FLT", "DBL"})
    \cup ({"GRAY", "CMYK"} \X {"REV8", "REV16"})
    \cup ({"RGBA", "BGR"} \X {"b8", "b16", "FLT"})
    \cup ({"GRAYA", "ARGB", "ABGR", "BGRA", "KYMC", "KCMY"} \X {"b8", "b16"})
    \cup ({"Lab", "XYZ"} \X {"FLT", "DBL"}) \cup {<<"BGR", "DBL">>, <<"CMYKA", "b8">>, <<"Lab", "b16">>}

-----------------------------------------------------------------------------
(* Numbers *)

from_8_to_16(n) == 257 * n
\* ((rgb * 65281) + 8388608) >> 24, kept within 32 bits.
from_16_to_8(rgb) == (255 * rgb + rgb \div 256 + 32768) \div 65536
change_endian(w) == (w % 256) * 256 + w \div 256
reverse_flavor(v) == 65535 - v
Clamped(v, max) == IF v < 0 THEN 0 ELSE IF v > max THEN max ELSE v
quick_saturate_word(v) == Clamped(v, 65535)
\* floor(d + 0.5) of the value as a fraction of 255.
quick_saturate_byte(v) == Clamped((2 * v + 257) \div 514, 255)

\* The rows for floating Lab and XYZ look at no flag of the word.
IsPcsFloat(f) == IsFloat(f) /\ Colorspace(f) \in {PT.LAB, PT.XYZ} /\ Channels(f) = 3

\* The unit channel c of a format counts in.
Unit(f, c) ==
    CASE Bytes(f) = 1 /\ ~IsFloat(f) -> "u8"
      [] Bytes(f) = 2 /\ ~IsFloat(f) -> "u16"
      [] IsPcsFloat(f) /\ Colorspace(f) = PT.LAB -> IF c = 1 THEN "of 100" ELSE "of 255, from -128"
      [] IsPcsFloat(f) /\ Colorspace(f) = PT.XYZ -> "of 1.99997"
      [] IsFloat(f) /\ ~IsPcsFloat(f) -> IF IsInkSpace(f) THEN "of 100" ELSE "of 1"
Sample(n, unit) == [n |-> n, unit |-> unit]

-----------------------------------------------------------------------------
(* The formatters: which words have one, and what it does *)

Shaped(f) == ~Planar(f) /\ ~Premul(f) /\ Channels(f) > 0 /\ Total(f) <= MAX_CHANNELS
HasFormatter16(f) == Shaped(f) /\ ~IsFloat(f) /\ Bytes(f) \in {1, 2}
HasFormatterFloat(f) == Shaped(f) /\ IF IsFloat(f) THEN Bytes(f) \in {4, 0} ELSE Bytes(f) \in {1, 2}

OnFloatPath(j) == IsFloat(j.in) \/ IsFloat(j.out)
HasFormatters(j) ==
    IF OnFloatPath(j) THEN HasFormatterFloat(j.in) /\ HasFormatterFloat(j.out)
    ELSE HasFormatter16(j.in) /\ HasFormatter16(j.out)

ExtraFirst(f) == ~IsPcsFloat(f) /\ (DoSwap(f) # SwapFirst(f))
\* Mutant: the flag that moves the extra samples is read alone.
StartSwapFirst(f) == IF ~IsPcsFloat(f) /\ SwapFirst(f) THEN Extra(f) ELSE 0

Start(f) == IF ExtraFirst(f) THEN Extra(f) ELSE 0

\* A packed pixel of a format: its samples count in the format's units, the colour
\* samples of a byte or a word within its width.
Units == {"u8", "u16", "of 100", "of 255, from -128", "of 1.99997", "of 1", "untouched"}
Fits(s) == (s.unit = "u8" => s.n \in 0..255) /\ (s.unit = "u16" => s.n >= 0 /\ s.n <= 65535)
IsPixel(f, pixel) ==
    /\ pixel \in Seq([n : Int, unit : Units]) /\ Len(pixel) = Total(f)
    /\ \A c \in 1..Channels(f) :
         pixel[Start(f) + c].unit = Unit(f, c) /\ Fits(pixel[Start(f) + c])

ASSUME JobsAssumption ==
    \A j \in Jobs :
        /\ j.in \in Nat /\ j.out \in Nat
        /\ HasFormatters(j) => IsPixel(j.in, j.pixel)

Rotates(f) == ~IsPcsFloat(f) /\ Extra(f) = 0 /\ SwapFirst(f)
Swapped(f, s) == IF DoSwap(f) /\ ~IsPcsFloat(f) THEN Reverse(s) ELSE s
Flavored(f, v) == IF Flavor(f) /\ ~IsPcsFloat(f) THEN reverse_flavor(v) ELSE v

\* The float rows read and write words as they are.
Word(f, floatPath, n) == IF Endian16(f) /\ ~floatPath THEN change_endian(n) ELSE n

\* A floating sample in another unit than the formatter's is not that value.
FromSample(f, floatPath, s, c) ==
    Flavored(f, CASE Bytes(f) = 1 -> from_8_to_16(s.n)
                  [] Bytes(f) = 2 -> Word(f, floatPath, s.n)
                  [] IsFloat(f) -> IF s.unit = Unit(f, c) THEN s.n ELSE -1)
ToSample(f, floatPath, v, c) ==
    LET w == quick_saturate_word(Flavored(f, v))
    IN  Sample(CASE Bytes(f) = 1 -> from_16_to_8(w)
                 [] Bytes(f) = 2 -> Word(f, floatPath, w)
                 [] IsFloat(f) -> Flavored(f, v),
               Unit(f, c))

\* The one-channel rows of the 16-bit table give the value three times.
Replicates(f) ==
    /\ Channels(f) = 1 /\ ~DoSwap(f) /\ ~SwapFirst(f) /\ ~Endian16(f)
    /\ Extra(f) = 0 \/ (Bytes(f) = 1 /\ Extra(f) = 1 /\ ~Flavor(f))

Unroll(f, floatPath, pixel) ==
    LET n == Channels(f)
        read == [i \in 1..n |-> FromSample(f, floatPath, pixel[Start(f) + i], i)]
        v == Swapped(f, read)
    IN  IF Rotates(f) THEN Tail(v) \o <<Head(v)>>
        ELSE IF Replicates(f) /\ ~floatPath THEN <<v[1], v[1], v[1]>> ELSE v

\* Mutant: packing rotates the way unpacking does.
PackIntoRotatedLeft(f, floatPath, v, pixel) ==
    LET n == Channels(f)
        s == Swapped(f, SubSeq(v, 1, n))
        written == IF Rotates(f) THEN Tail(s) \o <<Head(s)>> ELSE s
    IN  [p \in DOMAIN pixel |->
           IF p - Start(f) \in 1..n THEN ToSample(f, floatPath, written[p - Start(f)], p - Start(f))
           ELSE pixel[p]]

\* Writes the colour samples over those of the pixel, and leaves the extra ones.
PackInto(f, floatPath, v, pixel) ==
    LET n == Channels(f)
        s == Swapped(f, SubSeq(v, 1, n))
        written == IF Rotates(f) THEN <<Last(s)>> \o Front(s) ELSE s
    IN  [p \in DOMAIN pixel |->
           IF p - Start(f) \in 1..n THEN ToSample(f, floatPath, written[p - Start(f)], p - Start(f))
           ELSE pixel[p]]

-----------------------------------------------------------------------------
(* Extra samples (alpha.rs) *)

formatter_pos(f) ==
    CASE IsFloat(f) /\ Bytes(f) = 0 -> "DBL"
      [] IsFloat(f) /\ Bytes(f) = 2 -> "HLF"
      [] IsFloat(f) /\ Bytes(f) = 4 -> "FLT"
      [] ~IsFloat(f) /\ Bytes(f) = 2 -> IF Endian16(f) THEN "16SE" ELSE "16"
      [] ~IsFloat(f) /\ Bytes(f) = 1 -> "8"
      [] OTHER -> "none"

\* The table of copiers: out of one width, into the other.  Extra samples in
\* floating point are of 1, whatever the colour space.
AlphaValue(pos, s) ==
    CASE pos = "8" -> from_8_to_16(s.n)
      [] pos = "16SE" -> change_endian(s.n)
      [] OTHER -> s.n
AlphaSample(from, to, v) ==
    CASE to = "8" -> Sample(IF from \in {"8", "16", "16SE"} THEN from_16_to_8(v)
                            ELSE quick_saturate_byte(v), "u8")
      [] to = "16" -> Sample(quick_saturate_word(v), "u16")
      [] to = "16SE" -> Sample(change_endian(quick_saturate_word(v)), "u16")
      [] OTHER -> Sample(v, "of 1")

\* The place of each extra sample, from 0; the empty sequence when the word has
\* none that can be copied.
extra_offsets(f) ==
    LET total == Total(f)
        placed == [i \in 1..total |-> IF DoSwap(f) THEN total - i ELSE i - 1]
        rolled == IF SwapFirst(f) /\ total > 1 THEN Tail(placed) \o <<Head(placed)>> ELSE placed
    IN  IF Planar(f) \/ total = 0 \/ total >= MAX_CHANNELS THEN <<>>
        ELSE SubSeq(rolled, Channels(f) + 1, total)

\* AlphaCopyPlan::build: how many extra samples are copied, 0 without a plan.
Copied(j) ==
    LET a == Len(extra_offsets(j.in))
        b == Len(extra_offsets(j.out))
    IN  IF j.copyAlpha /\ "none" \notin {formatter_pos(j.in), formatter_pos(j.out)}
        THEN IF a < b THEN a ELSE b
        ELSE 0
CopyPixel(j, out) ==
    LET from == formatter_pos(j.in)
        to == formatter_pos(j.out)
        place == [k \in 1..Copied(j) |-> extra_offsets(j.out)[k] + 1]
    IN  [p \in DOMAIN out |->
           IF \E k \in DOMAIN place : place[k] = p
           THEN LET k == CHOOSE k \in DOMAIN place : place[k] = p
                IN  AlphaSample(from, to, AlphaValue(from, job.pixel[extra_offsets(j.in)[k] + 1]))
           ELSE out[p]]

-----------------------------------------------------------------------------
(* One pixel *)

Untouched == Sample(0, "untouched")

PixelInit ==
    /\ job \in Jobs
    /\ stage = "asked"
    /\ values = <<>>
    /\ output = [p \in 1..Total(job.out) |-> Untouched]

SelectFormatters ==
    /\ stage = "asked"
    /\ stage' = IF HasFormatters(job) THEN "ready" ELSE "unsupported"
    /\ UNCHANGED <<job, values, output>>

Unpack ==
    /\ stage = "ready"
    /\ values' = Unroll(job.in, OnFloatPath(job), job.pixel)
    /\ stage' = "unpacked"
    /\ UNCHANGED <<job, output>>

Pack ==
    /\ stage = "unpacked"
    /\ output' = PackInto(job.out, OnFloatPath(job), values, output)
    /\ stage' = "packed"
    /\ UNCHANGED <<job, values>>

CopyExtra ==
    /\ stage = "packed"
    /\ output' = CopyPixel(job, output)
    /\ stage' = "done"
    /\ UNCHANGED <<job, values>>

PixelNext == SelectFormatters \/ Unpack \/ Pack \/ CopyExtra
PixelSpec == PixelInit /\ [][PixelNext]_pixelVars

-----------------------------------------------------------------------------
\* The letters of a type's name are the places of its channels in memory.
Letters ==
    [GRAY |-> <<"V">>, GRAYA |-> <<"V", "A">>, RGB |-> <<"R", "G", "B">>, BGR |-> <<"B", "G", "R">>,
     RGBA |-> <<"R", "G", "B", "A">>, ARGB |-> <<"A", "R", "G", "B">>,
     ABGR |-> <<"A", "B", "G", "R">>, BGRA |-> <<"B", "G", "R", "A">>,
     CMYK |-> <<"C", "M", "Y", "K">>, CMYKA |-> <<"C", "M", "Y", "K", "A">>,
     KYMC |-> <<"K", "Y", "M", "C">>, KCMY |-> <<"K", "C", "M", "Y">>,
     Lab |-> <<"L", "a", "b">>, XYZ |-> <<"X", "Yxyz", "Z">>]

\* What a channel of a named type is to hold when its value is v 65535ths.
Stored(type, letter, v) ==
    LET depth == type[2]
        ink == type[1] \in {"CMYK", "CMYKA", "KYMC", "KCMY"} /\ letter # "A"
        shown == IF depth \in {"REV8", "REV16"} /\ letter # "A" THEN 65535 - v ELSE v
    IN  CASE depth \in {"b8", "REV8"} -> Sample(shown \div 257, "u8")
          [] depth \in {"b16", "REV16"} -> Sample(shown, "u16")
          [] depth = "SE" -> Sample((shown % 256) * 256 + shown \div 256, "u16")
          [] OTHER -> Sample(v, CASE letter = "L" -> "of 100"
                                  [] letter \in {"a", "b"} -> "of 255, from -128"
                                  [] letter \in {"X", "Yxyz", "Z"} -> "of 1.99997"
                                  [] OTHER -> IF ink THEN "of 100" ELSE "of 1")
NamedPixel(type, colour) ==
    [p \in DOMAIN Letters[type[1]] |-> Stored(type, Letters[type[1]][p], colour[Letters[type[1]][p]])]

\* The floating rows do not look at the order of the bytes of a word.
ReadAsNamed(j) == OnFloatPath(j) => ~Endian16(j.in) /\ ~Endian16(j.out)

(***************************************************************************)
(* Between any two TYPE_* formats of a colour space, every channel arrives  *)
(* where the name of the output type says, in its unit, and so does alpha   *)
(* when it is copied; otherwise the alpha already there is left alone.      *)
(***************************************************************************)
ChannelsArrive ==
    (stage = "done" /\ "colour" \in DOMAIN job /\ ReadAsNamed(job)) =>
        LET wanted == NamedPixel(job.outType, job.colour)
            letters == Letters[job.outType[1]]
        IN  output = [p \in DOMAIN letters |->
                        IF letters[p] = "A"
                           /\ ~(job.copyAlpha /\ "A" \in Range(Letters[job.inType[1]]))
                        THEN Untouched ELSE wanted[p]]

(***************************************************************************)
(* Packing undoes unpacking, for every format word there are formatters     *)
(* for: the colour samples come back at their places.  A word that swaps    *)
(* and rotates has no inverse: unpacking reverses, then rotates left,       *)
(* packing reverses, then rotates right (no TYPE_* asks for both).          *)
(***************************************************************************)
PackUndoesUnpack ==
    (stage = "packed" /\ job.in = job.out /\ ~(Rotates(job.in) /\ DoSwap(job.in))) =>
        \A p \in DOMAIN output : output[p] = IF p - Start(job.in) \in 1..Channels(job.in)
                                             THEN job.pixel[p] ELSE Untouched

=============================================================================
