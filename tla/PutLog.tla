--------------------------------- MODULE PutLog --------------------------------
(***************************************************************************)
(* History with the samples that were put kept, in order, so that the      *)
(* buffer can be compared with a definition that looks at all of them and  *)
(* has no slots, no window and no order of arrival.                        *)
(***************************************************************************)
EXTENDS History

CONSTANT MaxPuts    \* bound: how many samples are put

VARIABLE puts       \* the samples put, in order

\* The samples a row comes to: one or none.
RowSamples(row, rev) ==
    IF Decoded(row) = {}
    THEN <<>>
    ELSE <<StatSample(CHOOSE p \in Decoded(row) : TRUE, rev)>>

LogInit == HistoryInit /\ puts = <<>>

LogNext ==
    \/ \E t \in Times, v \in Values :
          /\ Len(puts) < MaxPuts
          /\ AccumulateValue(t, v)
          /\ puts' = Append(puts, LiveSample(t, v))
    \/ Accumulate /\ UNCHANGED puts
    \/ \E rows \in Answers, rev \in Revs :
          /\ Len(puts) + Len(rows) <= MaxPuts
          /\ Backfill(rows, rev)
          /\ UNCHANGED puts
    \/ PutRow /\ puts' = puts \o RowSamples(Head(job.rows), job.rev)

LogSpec == LogInit /\ [][LogNext]_<<vars, puts>>

-------------------------------------------------------------------------------

Buckets(h) == {bucketOf(h[k].t) : k \in DOMAIN h}
NewestOf(h) == CHOOSE b \in Buckets(h) : \A c \in Buckets(h) : c <= b

\* Of two samples put the one to show: statistics before live values, the highest
\* revision of them, and the first of equals.
Better(h, j, k) ==
    \/ Authority(h[j]) > Authority(h[k])
    \/ Authority(h[j]) = Authority(h[k]) /\ j <= k

BestFor(h, b) ==
    LET at == {k \in DOMAIN h : bucketOf(h[k].t) = b}
    IN  h[CHOOSE j \in at : \A k \in at : Better(h, j, k)]

\* The series as the history determines it.
Reference(h) ==
    IF h = <<>> THEN {}
    ELSE {<<b, BestFor(h, b)>> : b \in {c \in Buckets(h) : c > NewestOf(h) - n}}

\* The buffer forgets nothing within its window, keeps nothing outside it, and
\* holds for each bucket the sample of highest standing: nothing else is charted,
\* whatever came in between.
SeriesIsReference == Series(ring) = Reference(puts)

Replay(h) ==
    LET after[k \in 0 .. Len(h)] ==
            IF k = 0 THEN NewRing ELSE PutInto(after[k - 1], h[k])
    IN  after[Len(h)]

\* Backfill and live updates commute: exchanging two neighbouring samples changes
\* the series only if they are of equal standing for the same bucket.
Conflict(s, t) == bucketOf(s.t) = bucketOf(t.t) /\ Authority(s) = Authority(t)
Exchange(h, k) == [h EXCEPT ![k] = h[k + 1], ![k + 1] = h[k]]

WritesCommute ==
    \A k \in 1 .. Len(puts) - 1 :
        ~Conflict(puts[k], puts[k + 1]) =>
            Series(Replay(Exchange(puts, k))) = Series(ring)

===============================================================================
