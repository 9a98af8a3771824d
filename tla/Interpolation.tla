---------------------------- MODULE Interpolation ----------------------------
(***************************************************************************)
(* One evaluation of a CLUT (pipeline/clut.rs) by the interpolator its      *)
(* geometry selects (interp.rs, and curve/interp.rs for one channel).       *)
(*                                                                          *)
(* Words are scaled: One stands for 65536 and i32 is two words wide.  A     *)
(* float is a multiple of 1/F; each linear interpolation of floats scales   *)
(* its result by F instead of dividing, which loses nothing.                *)
(***************************************************************************)
EXTENDS Integers, Sequences, FiniteSets, FiniteSetsExt

CONSTANTS
    LookUps,    \* [grid : Seq(sizes), outputs : Nat, table : Seq(values),
                \*  float, trilinear : BOOLEAN, input : Seq(channel values)]
    One,        \* words are 0..One - 1
    F,          \* floats are multiples of 1/F
    R           \* quick_floor rounds to multiples of 1/R first

ASSUME ScaleAssumption ==
    /\ One \in Nat /\ One > 2
    /\ F \in Nat /\ F > 1 /\ R \in Nat /\ R > 0 /\ R % 2 = 0 /\ F % R = 0

VARIABLES
    lookUp,     \* the CLUT and its input
    phase,      \* "built", "selected", "done", "panicked"
    kernel,     \* the interpolator
    result      \* the output channels

interpVars == <<lookUp, phase, kernel, result>>

Max1 == One - 1

\* The sum, and the product, of the first n values of f.
SumUpTo(n, f) == LET s[k \in 0..n] == IF k = 0 THEN 0 ELSE s[k - 1] + f[k] IN s[n]
ProductUpTo(n, f) == LET p[k \in 0..n] == IF k = 0 THEN 1 ELSE p[k - 1] * f[k] IN p[n]

-----------------------------------------------------------------------------
(* InterpParams *)

Inputs(j) == Len(j.grid)
\* Of input channel a, from 1.
Domain(j, a) == j.grid[a] - 1
\* How far apart in the table neighbours along channel a are: opta[n - a].
Opta(j, a) ==
    LET n == Inputs(j)
        opta[i \in 0..(n - 1)] == IF i = 0 THEN j.outputs ELSE opta[i - 1] * j.grid[n + 1 - i]
    IN  opta[n - a]

\* A CLUT as its readers build it: a table of the size its grid says, and a grid
\* with neighbours along every channel; a curve's table may have one entry.
IsLookUp(j) ==
    /\ j.grid \in Seq(Nat \ {0}) /\ Inputs(j) > 0
    /\ Inputs(j) > 1 => \A a \in 1..Inputs(j) : j.grid[a] >= 2
    /\ j.outputs \in Nat /\ j.outputs > 0
    /\ j.table \in Seq(Int) /\ Len(j.table) = j.outputs * ProductUpTo(Inputs(j), j.grid)
    /\ j.float \in BOOLEAN /\ j.trilinear \in BOOLEAN
    /\ ~j.float => \A i \in 1..Len(j.table) : 0 <= j.table[i] /\ j.table[i] < One
    /\ j.input \in [1..Inputs(j) -> Int]

ASSUME LookUpsAssumption == \A j \in LookUps : IsLookUp(j)

MAX_STAGE_CHANNELS == 128
MAX_INPUT_DIMENSIONS == 15
HasInterpolator(j) ==
    /\ Inputs(j) \in 1..MAX_INPUT_DIMENSIONS
    /\ ~(Inputs(j) >= 4 /\ j.outputs >= MAX_STAGE_CHANNELS)
interp_factory(j) ==
    LET n == Inputs(j)
    IN  CASE n = 1 -> IF j.outputs = 1 THEN "Linear" ELSE "Eval1"
          [] n = 2 -> "Bilinear"
          [] n = 3 -> IF j.trilinear THEN "Trilinear" ELSE "Tetrahedral"
          [] n = 4 -> "Eval4"
          [] OTHER -> "EvalN"

-----------------------------------------------------------------------------
(* A channel's value, between two neighbours of the grid: the indices lo and *)
(* hi contribute to, and how far from lo to hi the value is.                 *)

Clamp(v, max) == IF v < 0 THEN 0 ELSE IF v > max THEN max ELSE v
to_fixed_domain(a) == a + (a + Max1 \div 2) \div Max1
\* To the nearest multiple of 1/R, then down (a tie goes up to a whole number).
quick_floor(v) == ((v * R + F \div 2) \div F) \div R

\* Mutant: the last node has a neighbour after it.
WordStepAlways(j, a) == Opta(j, a)

\* The value that is the last node's steps no further.
WordStep(j, a) == IF j.input[a] >= Max1 THEN 0 ELSE Opta(j, a)

WordPosition(j, a) == to_fixed_domain(Clamp(j.input[a], Max1) * Domain(j, a))

WordAxis(j, a) ==
    LET fx == WordPosition(j, a)
        lo == Opta(j, a) * (fx \div One)
    IN  [lo |-> lo, rest |-> fx % One, hi |-> lo + WordStep(j, a)]

\* Between the nodes of a floating channel, lo the node given.
FloatBetween(j, a, node) ==
    LET x == Clamp(j.input[a], F)
        lo == node * Opta(j, a)
    IN  [lo |-> lo, rest |-> x * Domain(j, a) - node * F,
         hi |-> IF x < F THEN lo + Opta(j, a) ELSE lo]
FloatPosition(j, a) == Clamp(j.input[a], F) * Domain(j, a)
FloatAxis(j, a) == FloatBetween(j, a, FloatPosition(j, a) \div F)
QuickFloorAxis(j, a) == FloatBetween(j, a, quick_floor(FloatPosition(j, a)))
\* Both ends are kept within the grid.
BilinearFloatAxis(j, a) ==
    LET axis == QuickFloorAxis(j, a)
        last == Domain(j, a) * Opta(j, a)
    IN  [axis EXCEPT !.lo = Clamp(@, last), !.hi = Clamp(@, last)]

\* One channel: a grid of one node has no other, a float on a node needs none.
OneAxis(j) ==
    IF j.float
    THEN LET axis == FloatAxis(j, 1) IN [axis EXCEPT !.hi = IF axis.rest > 0 THEN @ ELSE axis.lo]
    ELSE LET axis == WordAxis(j, 1) IN [axis EXCEPT !.hi = IF Domain(j, 1) = 0 THEN axis.lo ELSE @]

\* Two inputs, and all but the last three of four or more, take quick_floor.
UsesQuickFloor(j, a) == Inputs(j) = 2 \/ a + 3 <= Inputs(j)
Axes(j) ==
    [a \in 1..Inputs(j) |->
       CASE Inputs(j) = 1 -> OneAxis(j)
         [] Inputs(j) > 1 /\ ~j.float -> WordAxis(j, a)
         [] Inputs(j) = 2 /\ j.float -> BilinearFloatAxis(j, a)
         [] OTHER -> IF UsesQuickFloor(j, a) THEN QuickFloorAxis(j, a) ELSE FloatAxis(j, a)]
\* The furthest index read.
Furthest(j, axes) == SumUpTo(Inputs(j), [a \in 1..Inputs(j) |-> axes[a].hi]) + j.outputs - 1

-----------------------------------------------------------------------------
(* Between two values *)

LerpWord(rest, l, h) == (l + ((h - l) * rest + One \div 2) \div One) % One
Lerp(j, rest, l, h) == IF j.float THEN l * F + (h - l) * rest ELSE LerpWord(rest, l, h)

Signed(n) == LET m == n % (One * One) IN IF m >= (One * One) \div 2 THEN m - One * One ELSE m

\* Mutant: two branches exchanged.
OrderExchanged(x, y, z) ==
    IF x >= y THEN (IF y >= z THEN <<1, 2, 3>> ELSE IF z >= x THEN <<3, 1, 2>> ELSE <<1, 3, 2>>)
    ELSE IF x >= z THEN <<2, 3, 1>> ELSE IF y >= z THEN <<2, 1, 3>> ELSE <<3, 2, 1>>

\* The channels by how far along they are: the tetrahedron's corners are met
\* stepping along them in this order.
Order3(x, y, z) ==
    IF x >= y THEN (IF y >= z THEN <<1, 2, 3>> ELSE IF z >= x THEN <<3, 1, 2>> ELSE <<1, 3, 2>>)
    ELSE IF x >= z THEN <<2, 1, 3>> ELSE IF y >= z THEN <<2, 3, 1>> ELSE <<3, 2, 1>>

AxisOrder(axes) == Order3(axes[1].rest, axes[2].rest, axes[3].rest)
\* Past the first k channels of the order, and not past the others.
Step(axes, k, a) == IF \E i \in 1..k : AxisOrder(axes)[i] = a THEN axes[a].hi ELSE axes[a].lo
Corners(j, axes, base) ==
    [k \in 0..3 |-> j.table[1 + base + Step(axes, k, 1) + Step(axes, k, 2) + Step(axes, k, 3)]]
\* Summed from corner to corner, each step weighted by its channel's rest.
StepsSum(axes, corner) ==
    LET step(k) == (corner[k] - corner[k - 1]) * axes[AxisOrder(axes)[k]].rest
    IN  step(1) + step(2) + step(3)

Tetrahedral16(j, axes, base) ==
    LET corner == Corners(j, axes, base)
        rest == Signed(StepsSum(axes, corner) + One \div 2 + 1)
    IN  (corner[0] + Signed(rest + rest \div One) \div One) % One
TetrahedralFloat(j, axes, base) ==
    LET corner == Corners(j, axes, base) IN corner[0] * F + StepsSum(axes, corner)
Tetrahedral(j, axes, base) ==
    IF j.float THEN TetrahedralFloat(j, axes, base) ELSE Tetrahedral16(j, axes, base)

\* One interpolation inside the other, the first of the axes innermost.
Nested(j, axes, inner) ==
    LET V[k \in 0..Len(axes)] ==
          IF k = 0 THEN inner
          ELSE [at \in DOMAIN inner |->
                  Lerp(j, axes[k].rest, V[k - 1][at + axes[k].lo], V[k - 1][at + axes[k].hi])]
    IN  V[Len(axes)]

Offsets(j) == 0..(Len(j.table) - 1)
Multilinear(j, axes, base) == Nested(j, axes, [at \in Offsets(j) |-> j.table[1 + at]])[base]

\* The first channel outermost, down to a tetrahedron of the last three.
EvalN(j, axes, base) ==
    LET outer == Len(axes) - 3
        last3 == [k \in 1..3 |-> axes[outer + k]]
    IN  Nested(j, [k \in 1..outer |-> axes[outer + 1 - k]],
               [at \in Offsets(j) |-> Tetrahedral(j, last3, at)])[base]

Evaluated(j, kind) ==
    LET axes == Axes(j)
    IN  [oc \in 1..j.outputs |->
           CASE kind = "Tetrahedral" -> Tetrahedral(j, axes, oc - 1)
             [] kind \in {"Eval4", "EvalN"} -> EvalN(j, axes, oc - 1)
             [] OTHER -> Multilinear(j, axes, oc - 1)]

-----------------------------------------------------------------------------
InterpInit == lookUp \in LookUps /\ phase = "built" /\ kernel = "none" /\ result = <<>>

SelectInterpolator ==
    /\ phase = "built"
    /\ IF HasInterpolator(lookUp)
       THEN kernel' = interp_factory(lookUp) /\ phase' = "selected"
       ELSE phase' = "panicked" /\ UNCHANGED kernel
    /\ UNCHANGED <<lookUp, result>>

EvalClut ==
    /\ phase = "selected"
    /\ IF Furthest(lookUp, Axes(lookUp)) < Len(lookUp.table)
       THEN result' = Evaluated(lookUp, kernel) /\ phase' = "done"
       ELSE phase' = "panicked" /\ UNCHANGED result
    /\ UNCHANGED <<lookUp, kernel>>

InterpNext == SelectInterpolator \/ EvalClut
InterpSpec == InterpInit /\ [][InterpNext]_interpVars

-----------------------------------------------------------------------------
(* The reference: where the input lies in the grid, counted in parts of the *)
(* whole scale, and the mean of the corners weighted by it.                 *)

Scale(j) == IF j.float THEN F ELSE Max1
Position(j, a) == Clamp(j.input[a], Scale(j)) * Domain(j, a)
\* Of one channel: its node below, and its parts of the way to the next one.
CellOf(j, a) == Position(j, a) \div Scale(j)
PartsOf(j, a) == Position(j, a) % Scale(j)
IndexOf(j, node) == SumUpTo(Inputs(j), [a \in 1..Inputs(j) |-> node[a] * Opta(j, a)])

\* The corner of the cell that is past the node below in the channels c maps to 1.
Corner(j, c, oc) == j.table[oc + IndexOf(j, [a \in 1..Inputs(j) |-> CellOf(j, a) + c[a]])]

\* How many channels are weighted on their own: the last three of a tetrahedron
\* are weighted together, a corner by the thresholds only its channels reach.
Alone(j, kind) == IF kind \in {"Tetrahedral", "Eval4", "EvalN"} THEN Inputs(j) - 3 ELSE Inputs(j)
Together(j, kind) == IF Alone(j, kind) = Inputs(j) THEN {0} ELSE 1..Scale(j)
Past(j, kind, c, t) ==
    [a \in 1..Inputs(j) |-> IF a <= Alone(j, kind) THEN c[a]
                             ELSE IF PartsOf(j, a) >= t THEN 1 ELSE 0]
Nearness(j, kind, c) ==
    ProductUpTo(Alone(j, kind), [a \in 1..Alone(j, kind) |->
                               IF c[a] = 1 THEN PartsOf(j, a) ELSE Scale(j) - PartsOf(j, a)])
SumOfCorners(j, kind, oc) ==
    MapThenSumSet(LAMBDA p : IF Nearness(j, kind, p[1]) = 0 THEN 0
                             ELSE Nearness(j, kind, p[1]) * Corner(j, Past(j, kind, p[1], p[2]), oc),
                  [1..Alone(j, kind) -> {0, 1}] \X Together(j, kind))
Weights(j, kind) ==
    LET n == Alone(j, kind) + IF Alone(j, kind) = Inputs(j) THEN 0 ELSE 1
    IN  ProductUpTo(n, [k \in 1..n |-> Scale(j)])

Tolerance == 2      \* roundings that can add up, in units of a word

\* Where quick_floor takes a value for the node above it.
RoundedUp(j) == j.float /\ \E a \in 1..Inputs(j) :
    UsesQuickFloor(j, a) /\ quick_floor(Position(j, a)) > CellOf(j, a)

(***************************************************************************)
(* Every evaluation is the mean of the corners of the cell the input lies   *)
(* in, weighted by how near it lies to each: exactly in floating point, and *)
(* within a few units of a word whatever the fixed-point roundings and the  *)
(* wrapping of the sums did.                                                *)
(***************************************************************************)
MatchesReference ==
    (phase = "done" /\ ~RoundedUp(lookUp)) =>
        \A oc \in 1..lookUp.outputs :
            LET exact == SumOfCorners(lookUp, kernel, oc)
                w == Weights(lookUp, kernel)
            IN  IF lookUp.float THEN result[oc] = exact
                ELSE result[oc] * w - exact \in -(Tolerance * w)..(Tolerance * w)

OnNode(j) == \A a \in 1..Inputs(j) : PartsOf(j, a) = 0

(***************************************************************************)
(* On a node of the grid every interpolator gives the node's own values,    *)
(* and none fails there; for words none fails anywhere: at the last node of *)
(* a channel nothing past it is read, and before it the fixed-point position*)
(* never reaches it.                                                        *)
(***************************************************************************)
NodesAreExact ==
    phase \in {"done", "panicked"} /\ HasInterpolator(lookUp) =>
        /\ OnNode(lookUp) \/ ~lookUp.float => phase = "done"
        /\ OnNode(lookUp) =>
             \A oc \in 1..lookUp.outputs :
                result[oc] = Corner(lookUp, [a \in 1..Inputs(lookUp) |-> 0], oc)
                             * (IF lookUp.float THEN Weights(lookUp, kernel) ELSE 1)

(***************************************************************************)
(* interp.rs, of bilinear_float: "tintbox must stay in bounds, so cap the   *)
(* per-axis base indices at the last node".  No input makes a floating      *)
(* interpolator read past the table.                                        *)
(***************************************************************************)
FloatEvalStaysInTable == ~(phase = "panicked" /\ lookUp.float /\ HasInterpolator(lookUp))

=============================================================================
