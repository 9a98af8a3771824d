----------------------------- MODULE ByteStream ------------------------------
(***************************************************************************)
(* The byte cursors of io/reader.rs and io/writer.rs.  A file is a sequence *)
(* of bytes, a position counts from 0, numbers are big-endian.  A reader    *)
(* takes a position and answers with the value and the position after it,   *)
(* or fails; a writer is the bytes it appends.                              *)
(***************************************************************************)
EXTENDS Integers, Sequences, SequencesExt

Zeros(n) == [i \in 1..n |-> 0]

\* write_u8 .. write_u32: a number in `width` bytes.
BigEndian(number, width) == [i \in 1..width |-> (number \div 256^(width - i)) % 256]

U8(n) == BigEndian(n, 1)
U16(n) == BigEndian(n, 2)
U32(n) == BigEndian(n, 4)
Numbers(ns, width) == FoldLeft(LAMBDA bytes, n : bytes \o BigEndian(n, width), <<>>, ns)

\* write_alignment and read_alignment: up to the next multiple of four.
Aligned(at) == ((at + 3) \div 4) * 4
Padded(bytes) == bytes \o Zeros(Aligned(Len(bytes)) - Len(bytes))

-----------------------------------------------------------------------------
Failed == [ok |-> FALSE]
Got(value, at) == [ok |-> TRUE, value |-> value, at |-> at]

\* What `?` does: go on with the value and the position, or fail.
Then(read, Next(_, _)) == IF read.ok THEN Next(read.value, read.at) ELSE Failed

\* Keep the position, change what was read.
As(read, Value(_)) == IF read.ok THEN Got(Value(read.value), read.at) ELSE Failed

\* A check that returns an error.
Unless(refused, result) == IF refused THEN Failed ELSE result

\* read_exact fails at the end of the file, not at the end of a tag.
ReadBytes(file, at, n) ==
    IF at + n <= Len(file) THEN Got(SubSeq(file, at + 1, at + n), at + n) ELSE Failed

Number(bytes) == FoldLeft(LAMBDA n, byte : 256 * n + byte, 0, bytes)

ReadNumber(file, at, width) == As(ReadBytes(file, at, width), Number)

\* read_ascii: n bytes, the text ends at the first NUL.
UpToNul(units) == IF Contains(units, 0)
                  THEN SubSeq(units, 1, SelectInSeq(units, LAMBDA u : u = 0) - 1)
                  ELSE units

ReadAscii(file, at, n) == As(ReadBytes(file, at, n), UpToNul)

\* What the readers do with `for` and `?`: n reads, each where the one before
\* ended; the first that fails fails them all.
InTurn(n, at, Read(_, _)) ==
    FoldLeft(LAMBDA done, i :
                 Then(done, LAMBDA values, here :
                     As(Read(i, here), LAMBDA value : Append(values, value))),
             Got(<<>>, at), [i \in 1..n |-> i])

\* Numbers of the given widths, one after the other.
ReadFields(file, at, widths) ==
    InTurn(Len(widths), at, LAMBDA i, here : ReadNumber(file, here, widths[i]))

ReadNumbers(file, at, n, width) ==
    As(ReadBytes(file, at, n * width),
       LAMBDA bytes : [i \in 1..n |-> Number(SubSeq(bytes, width * (i - 1) + 1, width * i))])

=============================================================================
