-------------------------------- MODULE History -------------------------------
(***************************************************************************)
(* internal/state/store.go, internal/ha/statistics.go, cmd/hatty/main.go:  *)
(* how a chart's series comes about.  The store keeps a ring for each      *)
(* series a dashboard charts.  At every publish the writer asks the        *)
(* series' extractor for the present value and puts it in, and copies the  *)
(* series into the snapshot; when Home Assistant answers a statistics      *)
(* request, the rows are decoded, one aggregate of them is chosen, and     *)
(* they are put in one after another.  Both hold trackMu for as long as    *)
(* they take.                                                              *)
(*                                                                         *)
(* main gives a series an extractor or backfills it, never both.  The      *)
(* store can do both, which is what the ring's rules are for, and so does  *)
(* the model.                                                              *)
(***************************************************************************)
EXTENDS Ring, RunChart, FiniteSets

CONSTANTS
    Answers,    \* statistics that may arrive: sequences of rows
    Nil,        \* a row's missing start or aggregate
    ChartSizes  \* columns and rows of the chart panels

Row == [start : Times \cup {Nil}, min : Values \cup {Nil},
        mean : Values \cup {Nil}, max : Values \cup {Nil}]

ASSUME HistoryAssumption ==
    /\ 0 \in Values
    /\ Answers \subseteq Seq(Row)

\* Render draws nothing in less than one row of one column.
ASSUME ChartAssumption ==
    /\ Values \subseteq Int
    /\ ChartSizes \subseteq (Nat \ {0}) \X (Nat \ {0})

VARIABLES
    now,        \* the time of the last publish
    job,        \* the statistics being put in: rows that are left, and their revision
    shown       \* the series in the snapshot

vars == <<ring, now, job, shown>>

-------------------------------------------------------------------------------
(* Statistics *)

OrZero(a) == IF a = Nil THEN 0 ELSE a

\* decodeStatistics: a row without a start or without any aggregate is left out.
\* An aggregate that alone is missing is zero.
Decoded(row) ==
    IF row.start = Nil \/ (row.min = Nil /\ row.mean = Nil /\ row.max = Nil)
    THEN {}
    ELSE {[t |-> row.start, min |-> OrZero(row.min), mean |-> OrZero(row.mean),
           max |-> OrZero(row.max)]}

\* The series here is one of means.
Value(point) == point.mean

StatSample(point, rev) == [t |-> point.t, v |-> Value(point), src |-> "stats", rev |-> rev]
LiveSample(t, v) == [t |-> t, v |-> v, src |-> "live", rev |-> 0]

\* main: the buckets a window of statistics needs, each a period long, and what
\* a series of live values is given.
StatTracker(window, period) == [bucket |-> period, n |-> window \div period + 1]
LiveTracker(window, points) == [bucket |-> window \div points, n |-> points]

-------------------------------------------------------------------------------
(* The store *)

NoJob == [rows |-> <<>>, rev |-> 0]
Unlocked == job.rows = <<>>

\* The k-th oldest bucket there is a sample of.
Kth(r, k) ==
    CHOOSE b \in Retained(r) : Cardinality({c \in Retained(r) : c <= b}) = k

\* Ring.Series, its values.
SeriesValues(r) ==
    [k \in 1 .. Cardinality(Retained(r)) |-> r.slots[slotOf(Kth(r, k))].v]

HistoryInit ==
    /\ Init
    /\ now = 0
    /\ job = NoJob
    /\ shown = <<>>

\* accumulate, when the extractor has a value: publish puts it in.
AccumulateValue(t, v) ==
    /\ Unlocked
    /\ t >= now
    /\ now' = t
    /\ Put(LiveSample(t, v))
    /\ shown' = SeriesValues(ring')
    /\ UNCHANGED job

\* accumulate, when it has none, or there is no extractor.
Accumulate ==
    /\ Unlocked
    /\ shown' = SeriesValues(ring)
    /\ UNCHANGED <<ring, now, job>>

\* PutStatistics takes the lock with the decoded rows of an answer.
Backfill(rows, rev) ==
    /\ Unlocked
    /\ rows # <<>>
    /\ job' = [rows |-> rows, rev |-> rev]
    /\ UNCHANGED <<ring, now, shown>>

\* One row: put in, or left out by decodeStatistics.
PutRow ==
    /\ ~Unlocked
    /\ LET points == Decoded(Head(job.rows))
       IN  \/ points = {} /\ UNCHANGED ring
           \/ \E p \in points : Put(StatSample(p, job.rev))
    /\ job' = [job EXCEPT !.rows = Tail(@)]
    /\ UNCHANGED <<now, shown>>

HistoryNext ==
    \/ \E t \in Times, v \in Values : AccumulateValue(t, v)
    \/ Accumulate
    \/ \E rows \in Answers, rev \in Revs : Backfill(rows, rev)
    \/ PutRow

HistorySpec == HistoryInit /\ [][HistoryNext]_vars

-------------------------------------------------------------------------------
(* What a client sees of it, in a panel of w columns and h rows.                *)

\* The curve joins all samples: each has its dot, the first at the left edge and the
\* newest at the right, none is outside the grid, and from each column of dots the
\* next is reached without a gap.
Unbroken(points, w, h) ==
    LET dots == braille(points, w, h)
        column(x) == {d.y : d \in {e \in dots : e.x = x}}
        solid(s) == \A lo \in s, hi \in s : lo .. hi \subseteq s
    IN  /\ \A i \in DOMAIN points : SampleDot(points, i, w, h) \in dots
        /\ Len(points) > 1 =>
              /\ SampleDot(points, 1, w, h).x = 0
              /\ SampleDot(points, Len(points), w, h).x = 2 * w - 1
              /\ \A x \in 0 .. 2 * w - 1 : column(x) # {} /\ solid(column(x))
              /\ \A x \in 0 .. 2 * w - 2 :
                    \E a \in column(x), b \in column(x + 1) : Abs(a - b) <= 1

\* Height means value: the smallest sample is at the bottom and, unless all are
\* equal, the greatest at the top; no sample has a dot, or the row of its block, below
\* a smaller one's, and equal ones are level.  Within a row of blocks the same holds of
\* all but the greatest sample: that fills one eighth of the top row, less than smaller
\* ones there may (runchart.go:209).  In blocks every column shows a sample, in order
\* of time.
Honest(points, w, h) ==
    LET y(i) == SampleDot(points, i, w, h).y
        row(i) == BlockRow(points, i, h)
        top(i) == BlockTop(points, i, h)
        least(i) == \A j \in DOMAIN points : points[i] <= points[j]
        greatest(i) == \A j \in DOMAIN points : points[i] >= points[j]
    IN  /\ \A i, j \in DOMAIN points :
              points[i] <= points[j] =>
                  /\ y(i) >= y(j) /\ row(i) >= row(j)
                  /\ top(i) <= top(j) \/ greatest(j)
        /\ \A i \in DOMAIN points :
              /\ least(i) => y(i) = 4 * h - 1 /\ row(i) = h - 1
              /\ greatest(i) /\ ~least(i) => y(i) = 0 /\ row(i) = 0
        /\ points # <<>> =>
              /\ \A c \in 0 .. w - 1 : BlockSample(points, c, w) \in DOMAIN points
              /\ \A c \in 1 .. w - 1 :
                    BlockSample(points, c - 1, w) <= BlockSample(points, c, w)

\* Every series a client is shown is one curve from its oldest to its newest
\* sample, whatever its values and however small the panel.
CurveUnbroken == \A z \in ChartSizes : Unbroken(shown, z[1], Body(z[2]))

\* Every chart is to scale: dots and the rows of blocks never contradict the values, and
\* the height of a block does not either, but for the greatest sample's.
ScaleHonest == \A z \in ChartSizes : Honest(shown, z[1], Body(z[2]))
===============================================================================
