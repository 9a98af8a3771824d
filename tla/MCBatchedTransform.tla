-------------------------- MODULE MCBatchedTransform --------------------------
(***************************************************************************)
(* Instance of BatchedTransform for TLC: tiles of three pixels, so that a   *)
(* call of five ends in a partial tile and runs reach across tiles; formats *)
(* with and without extra channels, with and without a copy plan, a gamut   *)
(* check, and a transform that is not batched.                              *)
(***************************************************************************)
EXTENDS BatchedTransform

CONSTANTS c1, c2, d0, d1, d2, alarm, x1, x2

\* What the caller's buffer holds before, one pixel longer than the call.
Before(t, n) ==
    LET Cell(x) == [colour |-> d0, extra |-> IF t.extra THEN x ELSE NoExtra]
    IN  SubSeq(<<Cell(x2), Cell(x1), Cell(x2), Cell(x1), Cell(x2), Cell(x1)>>, 1, n + 1)

T(batched, gamut, extra, alpha) ==
    [batched |-> batched, gamut |-> gamut, extra |-> extra, alpha |-> alpha]

Plain == T(TRUE, FALSE, FALSE, FALSE)
KeepsExtra == T(TRUE, FALSE, TRUE, FALSE)
CopiesExtra == T(TRUE, FALSE, TRUE, TRUE)
Proofing == T(TRUE, TRUE, FALSE, FALSE)
Unbatched == T(FALSE, FALSE, TRUE, TRUE)

MCTransforms == {Plain, KeepsExtra, CopiesExtra, Proofing, Unbatched}

MCConvert ==
    [t \in MCTransforms |->
        IF t.extra THEN [c \in Colour |-> IF c = c1 THEN d2 ELSE d1]
        ELSE [c \in Colour |-> IF c = c1 THEN d1 ELSE d2]]
MCMarked == [t \in MCTransforms |-> {c2}]
MCAlarm == [t \in MCTransforms |-> alarm]
MCCopyAlpha == [x \in Extras |-> IF x = x1 THEN x2 ELSE IF x = x2 THEN x1 ELSE x]

\* Inputs whose extra samples all agree, alternate, or change half way.
ExtraAt(pattern, i) ==
    CASE pattern = "same" -> x1
      [] pattern = "alternating" -> IF i % 2 = 0 THEN x1 ELSE x2
      [] pattern = "halves" -> IF i <= 2 THEN x1 ELSE x2
      [] pattern = "none" -> NoExtra

Inputs(n, pattern) ==
    {[i \in 1..n |-> [colour |-> colours[i], extra |-> ExtraAt(pattern, i)]] :
       colours \in [1..n -> Colour]}

CallsOf(t, n, patterns) ==
    UNION {{[xform |-> t, input |-> in, output |-> Before(t, n), count |-> n] :
              in \in Inputs(n, pattern)} : pattern \in patterns}

MCCalls ==
    UNION {IF t.extra
           THEN CallsOf(t, 1, {"same"}) \cup CallsOf(t, 4, {"same", "alternating", "halves"})
           ELSE CallsOf(t, 0, {"none"}) \cup CallsOf(t, 2, {"none"}) \cup CallsOf(t, 5, {"none", "halves"}) :
           t \in MCTransforms}

=============================================================================
