------------------------------- MODULE RunChart -------------------------------
(***************************************************************************)
(* internal/widget/runchart.go: a series drawn in w columns and h rows.    *)
(* Where the font has Braille a cell is two dots wide and four high, and   *)
(* the samples are joined by lines; where not, a column is one block.      *)
(*                                                                         *)
(* Values are whole numbers, and divided exactly: floating point may take  *)
(* a dot that falls on a boundary one row further up, the same for equal   *)
(* values.  A chart's bounds are never configured (buildChart).            *)
(***************************************************************************)
EXTENDS Integers, Sequences

Abs(k) == IF k < 0 THEN -k ELSE k
Larger(j, k) == IF j > k THEN j ELSE k
Between(k, lo, hi) == IF k < lo THEN lo ELSE IF k > hi THEN hi ELSE k

ValuesOf(points) == {points[i] : i \in DOMAIN points}

\* A definition X_Slip is the X below it with a slip a programmer could make.

\* The running minimum and maximum begin at zero.
bounds_FromZero(points) ==
    LET values == ValuesOf(points) \cup {0}
        lo == CHOOSE v \in values : \A x \in values : v <= x
        hi == CHOOSE v \in values : \A x \in values : v >= x
    IN  [lo |-> lo, hi |-> IF hi = lo THEN lo + 1 ELSE hi]

\* The values at the bottom and at the top of the chart.
bounds(points) ==
    LET values == ValuesOf(points)
        lo == CHOOSE v \in values : \A x \in values : v <= x
        hi == CHOOSE v \in values : \A x \in values : v >= x
    IN  IF points = <<>>
        THEN [lo |-> 0, hi |-> 1]
        ELSE [lo |-> lo, hi |-> IF hi = lo THEN lo + 1 ELSE hi]

-------------------------------------------------------------------------------
(* Braille *)

\* The dot of sample i, counted from the top left.
SampleDot(points, i, w, h) ==
    LET b == bounds(points)
        dw == 2 * w
        dh == 4 * h
    IN  [x |-> IF Len(points) > 1 THEN ((i - 1) * (dw - 1)) \div (Len(points) - 1) ELSE 0,
         y |-> Between(((b.hi - points[i]) * (dh - 1)) \div (b.hi - b.lo), 0, dh - 1)]

\* One dot for each column the line crosses.
plotLine_AcrossOnly(from, to) ==
    LET steps == Abs(to.x - from.x)
        at(a, b, i) == (2 * a * steps + 2 * (b - a) * i + steps) \div (2 * steps)
    IN  IF steps = 0
        THEN {from}
        ELSE {[x |-> at(from.x, to.x, i), y |-> at(from.y, to.y, i)] : i \in 0 .. steps}

\* The dots of a line: one for each step along its longer side, rounded.
plotLine(from, to) ==
    LET steps == Larger(Abs(to.x - from.x), Abs(to.y - from.y))
        at(a, b, i) == (2 * a * steps + 2 * (b - a) * i + steps) \div (2 * steps)
    IN  IF steps = 0
        THEN {from}
        ELSE {[x |-> at(from.x, to.x, i), y |-> at(from.y, to.y, i)] : i \in 0 .. steps}

\* plotDot: a dot outside the grid is not drawn.
InGrid(dot, w, h) == dot.x \div 2 \in 0 .. w - 1 /\ dot.y \div 4 \in 0 .. h - 1

braille(points, w, h) ==
    LET dot(i) == SampleDot(points, i, w, h)
        joined == UNION {plotLine(dot(i - 1), dot(i)) : i \in 2 .. Len(points)}
        first == IF points = <<>> THEN {} ELSE {dot(1)}
    IN  {d \in first \cup joined : InGrid(d, w, h)}

-------------------------------------------------------------------------------
(* Blocks *)

\* The sample a column shows, and the row its block is in.
BlockSample(points, col, w) == (col * Len(points)) \div w + 1

BlockRow(points, i, h) ==
    LET b == bounds(points)
    IN  Between(h - 1 - ((points[i] - b.lo) * h) \div (b.hi - b.lo), 0, h - 1)

\* The eighths of that row the block fills: what is left of the sample's height when
\* whole rows are taken off, and one more.
BlockLevel(points, i, h) ==
    LET b == bounds(points)
        span == b.hi - b.lo
        rise == (points[i] - b.lo) * h
        rest == rise - span * (rise \div span)
    IN  Between((8 * rest) \div span + 1, 1, 8)

\* Where the block ends, in eighths of a row from the bottom.
BlockTop(points, i, h) == 8 * (h - 1 - BlockRow(points, i, h)) + BlockLevel(points, i, h)

\* The rows left when the last is the legend's.
Body(h) == IF h > 1 THEN h - 1 ELSE h
===============================================================================
