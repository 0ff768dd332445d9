------------------------------- MODULE MCHistory ------------------------------
(***************************************************************************)
(* PutLog.tla for TLC.                                                     *)
(***************************************************************************)
EXTENDS PutLog

\* A window of three buckets of two units, and four buckets to fill it with: a
\* bucket can be evicted, come too late, and share its slot with another.
MCTimes == {0, 1, 3, 7}
MCValues == {0, 4, 9}

row(t, mean, max) == [start |-> t, min |-> Nil, mean |-> mean, max |-> max]

\* One row or two; without a start, without a mean, without anything.
MCAnswers ==
    {<<row(t, 4, 9)>> : t \in MCTimes} \cup
    {<<row(3, Nil, Nil), row(7, 9, 9)>>, <<row(Nil, 4, 9), row(1, Nil, 9)>>,
     <<row(0, 9, 9), row(3, 4, 4)>>, <<row(1, 4, 4), row(7, 0, 4)>>}

MCChartSizes == {<<1, 1>>, <<1, 3>>, <<2, 2>>, <<3, 3>>}
===============================================================================
