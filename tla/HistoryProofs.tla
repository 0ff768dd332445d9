----------------------------- MODULE HistoryProofs -----------------------------
(***************************************************************************)
(* Proofs about the charts' series.                                        *)
(*                                                                         *)
(* First the ring, for every capacity, bucket length and set of samples.   *)
(* The invariant is SlotsConsistent with the types; the argument rests on  *)
(* one fact of arithmetic, SlotsDistinct: two buckets that share a slot    *)
(* are a whole window apart, so of the two at most one is inside it.       *)
(*                                                                         *)
(* Then the store.  However publishes and backfills alternate, to the ring *)
(* they are a sequence of Puts: History implements Ring, and what is       *)
(* proved of the ring holds of every series of the store.  The invariant   *)
(* says what a backfill carries while it goes on.                          *)
(*                                                                         *)
(* Then what a series shows, after any number of Puts: what the history    *)
(* of samples says, and the same for neighbours in either order.           *)
(*                                                                         *)
(* And the arithmetic main relies on: a ring made for a statistics period  *)
(* has a slot of its own for each row of the window.                       *)
(***************************************************************************)
EXTENDS PutLog, FiniteSetTheorems, SequenceTheorems, TLAPS

IInv == TypeOK /\ SlotsConsistent

-------------------------------------------------------------------------------
(* Arithmetic *)

LEMMA SlotOfInRange ==
  ASSUME n # 0, NEW b \in Nat
  PROVE  slotOf(b) \in Slot
BY RingAssumption DEF slotOf, Slot

LEMMA BucketOfNat ==
  ASSUME NEW t \in Nat
  PROVE  bucketOf(t) \in Nat
BY RingAssumption DEF bucketOf

LEMMA NoMultipleBelow ==
  ASSUME NEW m \in Nat, NEW k \in Int, 0 < m * k
  PROVE  m <= m * k
<1>1. CASE k <= 0
  BY <1>1
<1>2. CASE k >= 1
  BY <1>2
<1> QED
  BY <1>1, <1>2

\* Of two buckets in one slot the older is out of the newer one's window.
LEMMA SlotsDistinct ==
  ASSUME n # 0, NEW b \in Nat, NEW c \in Nat, slotOf(b) = slotOf(c), b < c
  PROVE  b <= c - n
<1> DEFINE k == (c \div n) - (b \div n)
<1>1. b = n * (b \div n) + slotOf(b)
  BY RingAssumption DEF slotOf
<1>2. c = n * (c \div n) + slotOf(c)
  BY RingAssumption DEF slotOf
<1>3. k \in Int
  BY RingAssumption
<1>4. c - b = n * k
  BY <1>1, <1>2, RingAssumption DEF slotOf
<1>5. n <= n * k
  BY <1>3, <1>4, NoMultipleBelow, RingAssumption
<1> QED
  BY <1>4, <1>5, RingAssumption

-------------------------------------------------------------------------------
(* Put *)

LEMMA SampleTimes ==
  ASSUME NEW s \in Samples
  PROVE  /\ s.t \in Nat
         /\ s.rev \in Nat
         /\ s.src \in {"live", "stats"}
<1>1. CASE s \in [t : Times, v : Values, src : {"live"}, rev : {0}]
  <2>1. s.t \in Times /\ s.src \in {"live", "stats"}
    BY <1>1
  <2>2. s.rev \in {0}
    BY <1>1
  <2>3. s.rev \in Nat
    BY <2>2
  <2> QED
    BY <2>1, <2>3, RingAssumption
<1>2. CASE s \in [t : Times, v : Values, src : {"stats"}, rev : Revs]
  BY <1>2, RingAssumption
<1> QED
  BY <1>1, <1>2 DEF Samples

\* The three outcomes of Put: nothing, a window that moved on, or a write to
\* the one slot of the sample's bucket, which was free, held an older bucket,
\* or held a sample of this bucket that s supersedes.
Written(s) ==
    LET b == bucketOf(s.t)
        i == slotOf(b)
    IN  /\ i \in Slot
        /\ ring'.slots = [ring.slots EXCEPT ![i] = s]
        /\ ring'.idx = [ring.idx EXCEPT ![i] = b]
        /\ ring'.newest \in Int
        /\ ring'.newest >= ring.newest
        /\ b <= ring'.newest
        /\ b >= ring.idx[i]
        /\ b = ring.idx[i] => Supersedes(s, ring.slots[i])

LEMMA PutOutcomes ==
  ASSUME IInv, NEW s \in Samples, Put(s)
  PROVE  /\ \/ /\ ring'.slots = ring.slots
               /\ ring'.idx = ring.idx
               /\ ring'.newest >= ring.newest
               /\ ring'.newest \in Int
            \/ Written(s)
         /\ ring' = [slots |-> ring'.slots, idx |-> ring'.idx, newest |-> ring'.newest]
<1> DEFINE b == bucketOf(s.t)
           i == slotOf(b)
           newest == IF b > ring.newest THEN b ELSE ring.newest
<1> USE RingAssumption
<1>1. b \in Nat /\ newest \in Int /\ newest >= ring.newest /\ b <= newest
  BY SampleTimes, BucketOfNat DEF IInv, TypeOK
<1>2. ring = [slots |-> ring.slots, idx |-> ring.idx, newest |-> ring.newest]
  BY DEF IInv, TypeOK
<1>3. CASE n = 0 \/ b <= newest - n
  BY <1>1, <1>2, <1>3 DEF Put, PutInto, IInv, TypeOK
<1>4. CASE /\ ~(n = 0 \/ b <= newest - n)
           /\ ~(ring.idx[i] # b \/ Supersedes(s, ring.slots[i]))
  <2>1. ring' = [ring EXCEPT !.newest = newest]
    BY <1>4 DEF Put, PutInto
  <2> QED
    BY <1>1, <1>2, <2>1
<1>5. CASE /\ ~(n = 0 \/ b <= newest - n)
           /\ ring.idx[i] # b \/ Supersedes(s, ring.slots[i])
  <2>1. i \in Slot
    BY <1>1, <1>5, SlotOfInRange
  <2>2. ring' = [slots  |-> [ring.slots EXCEPT ![i] = s],
                 idx    |-> [ring.idx EXCEPT ![i] = b],
                 newest |-> newest]
    BY <1>5 DEF Put, PutInto
  <2>3. b >= ring.idx[i]
    <3> SUFFICES ASSUME b < ring.idx[i] PROVE FALSE
      BY <1>1, <2>1 DEF IInv, TypeOK
    <3>1. /\ ring.idx[i] \in Nat
          /\ ring.idx[i] <= ring.newest
          /\ slotOf(ring.idx[i]) = i
      BY <1>1, <2>1 DEF IInv, TypeOK, SlotsConsistent
    <3>2. b <= ring.idx[i] - n
      BY <1>1, <1>5, <3>1, SlotsDistinct
    <3> QED
      BY <1>1, <1>5, <3>1, <3>2 DEF IInv, TypeOK
  <2>4. b = ring.idx[i] => Supersedes(s, ring.slots[i])
    BY <1>5
  <2>5. Written(s)
    BY <1>1, <2>1, <2>2, <2>3, <2>4 DEF Written
  <2> QED
    BY <2>2, <2>5
<1> QED
  BY <1>3, <1>4, <1>5

-------------------------------------------------------------------------------
(* The invariant *)

LEMMA InitIInv == Init => IInv
<1> SUFFICES ASSUME Init PROVE IInv
  OBVIOUS
<1> USE RingAssumption DEF Init, NewRing
<1>1. TypeOK
  BY DEF TypeOK
<1>2. SlotsConsistent
  BY DEF SlotsConsistent
<1> QED
  BY <1>1, <1>2 DEF IInv

LEMMA PutIInv ==
  ASSUME IInv, NEW s \in Samples, Put(s)
  PROVE  IInv'
<1> DEFINE b == bucketOf(s.t)
           i == slotOf(b)
<1> USE RingAssumption
<1>1. b \in Nat /\ s.t \in Nat
  BY SampleTimes, BucketOfNat
<1>2. ring' = [slots |-> ring'.slots, idx |-> ring'.idx, newest |-> ring'.newest]
  BY PutOutcomes
<1>3. CASE /\ ring'.slots = ring.slots
           /\ ring'.idx = ring.idx
           /\ ring'.newest >= ring.newest
           /\ ring'.newest \in Int
  <2>1. TypeOK'
    BY <1>2, <1>3 DEF IInv, TypeOK
  <2>2. SlotsConsistent'
    BY <1>3 DEF IInv, TypeOK, SlotsConsistent
  <2> QED
    BY <2>1, <2>2 DEF IInv
<1>4. CASE Written(s)
  <2> USE <1>4 DEF Written
  <2>1. TypeOK'
    <3>1. ring'.slots \in [Slot -> Samples \cup {Zero}]
      BY DEF IInv, TypeOK
    <3>2. ring'.idx \in [Slot -> Int]
      BY <1>1 DEF IInv, TypeOK
    <3>3. ring'.newest \in Int /\ ring'.newest >= -1
      BY DEF IInv, TypeOK
    <3>4. \A j \in Slot : ring'.idx[j] = -1 \/ ring'.slots[j] \in Samples
      BY DEF IInv, TypeOK
    <3> QED
      BY <1>2, <3>1, <3>2, <3>3, <3>4 DEF TypeOK
  <2>2. ASSUME NEW j \in Slot, ring'.idx[j] # -1
        PROVE  /\ ring'.idx[j] \in 0 .. ring'.newest
               /\ slotOf(ring'.idx[j]) = j
               /\ bucketOf(ring'.slots[j].t) = ring'.idx[j]
    <3>1. CASE j = i
      BY <1>1, <3>1 DEF IInv, TypeOK
    <3>2. CASE j # i
      BY <1>1, <2>2, <3>2 DEF IInv, TypeOK, SlotsConsistent
    <3> QED
      BY <3>1, <3>2
  <2> QED
    BY <2>1, <2>2 DEF IInv, SlotsConsistent
<1> QED
  BY <1>3, <1>4, PutOutcomes

LEMMA Invariance == Spec => []IInv
<1>1. IInv /\ [Next]_ring => IInv'
  <2>1. CASE Next
    BY <2>1, PutIInv DEF Next
  <2>2. CASE UNCHANGED ring
    BY <2>2 DEF IInv, TypeOK, SlotsConsistent
  <2> QED
    BY <2>1, <2>2
<1> QED
  BY <1>1, InitIInv, PTL DEF Spec

-------------------------------------------------------------------------------

\* The buffer keeps its shape: n slots, each free or holding a sample put.
THEOREM TypeCorrect == Spec => []TypeOK
<1>1. IInv => TypeOK
  BY DEF IInv
<1> QED
  BY <1>1, Invariance, PTL

\* A chart never runs backwards: the sample Series reads for a bucket was taken
\* in that bucket, whatever arrived late, early or twice.
THEOREM SeriesInOrder == Spec => []SlotsConsistent
<1>1. IInv => SlotsConsistent
  BY DEF IInv
<1> QED
  BY <1>1, Invariance, PTL

\* No sample ever evicts one of a newer bucket.
THEOREM LateSamplesEvictNothing == Spec => EvictionIsForward
<1>1. ASSUME IInv, NEW s \in Samples, Put(s)
      PROVE  OnlyNewerEvicts
  <2> SUFFICES ASSUME NEW i \in Slot PROVE ring'.idx[i] >= ring.idx[i]
    BY DEF OnlyNewerEvicts
  <2>1. ring.idx \in [Slot -> Int]
    BY <1>1 DEF IInv, TypeOK
  <2>2. CASE ring'.idx = ring.idx
    BY <2>1, <2>2
  <2>3. CASE Written(s)
    BY <2>1, <2>3 DEF Written
  <2> QED
    BY <1>1, <2>2, <2>3, PutOutcomes
<1>2. IInv /\ [Next]_ring => [OnlyNewerEvicts]_ring
  BY <1>1 DEF Next
<1> QED
  BY <1>2, Invariance, PTL DEF Spec, EvictionIsForward

\* What a bucket shows only gains authority: statistics over live values, newer
\* revisions over older ones, and never the other way round.
THEOREM AuthorityOnlyGrows == Spec => AuthorityIsKept
<1>1. ASSUME IInv, NEW s \in Samples, Put(s)
      PROVE  GainsAuthority
  <2> SUFFICES ASSUME NEW i \in Slot, ring'.idx[i] = ring.idx[i],
                      ring'.slots[i] # ring.slots[i]
               PROVE  Authority(ring'.slots[i]) > Authority(ring.slots[i])
    BY DEF GainsAuthority
  <2>1. Written(s) /\ i = slotOf(bucketOf(s.t))
    BY <1>1, PutOutcomes DEF Written, IInv, TypeOK
  <2>2. /\ ring'.slots[i] = s
        /\ ring.idx[i] = bucketOf(s.t)
        /\ Supersedes(s, ring.slots[i])
    BY <1>1, <2>1 DEF Written, IInv, TypeOK
  <2>3. ring.slots[i] \in Samples
    BY <1>1, <2>2, SampleTimes, BucketOfNat, RingAssumption DEF IInv, TypeOK
  <2> QED
    BY <2>2, <2>3, SampleTimes DEF Supersedes, Authority
<1>2. IInv /\ [Next]_ring => [GainsAuthority]_ring
  BY <1>1 DEF Next
<1> QED
  BY <1>2, Invariance, PTL DEF Spec, AuthorityIsKept

-------------------------------------------------------------------------------
(* The store *)

JobTyped ==
    /\ job \in [rows : Seq(Row), rev : Revs \cup {0}]
    /\ ~Unlocked => job.rev \in Revs

LEMMA InitJob == HistoryInit => JobTyped
BY DEF HistoryInit, JobTyped, NoJob, Unlocked

\* What a row puts into the ring is a sample.
LEMMA RowSample ==
  ASSUME NEW row \in Row, NEW p \in Decoded(row), NEW rev \in Revs
  PROVE  StatSample(p, rev) \in Samples
<1>1. p.t \in Times /\ p.mean \in Values
  BY HistoryAssumption DEF Decoded, Row, OrZero
<1> QED
  BY <1>1 DEF StatSample, Value, Samples

LEMMA LiveIsSample ==
  ASSUME NEW t \in Times, NEW v \in Values
  PROVE  LiveSample(t, v) \in Samples
BY DEF LiveSample, Samples

LEMMA NextJob == JobTyped /\ [HistoryNext]_vars => JobTyped'
<1> SUFFICES ASSUME JobTyped, [HistoryNext]_vars PROVE JobTyped'
  OBVIOUS
<1>1. ASSUME NEW t \in Times, NEW v \in Values, AccumulateValue(t, v) PROVE JobTyped'
  BY <1>1 DEF AccumulateValue, JobTyped, Unlocked
<1>2. CASE Accumulate
  BY <1>2 DEF Accumulate, JobTyped, Unlocked
<1>3. ASSUME NEW rows \in Answers, NEW rev \in Revs, Backfill(rows, rev) PROVE JobTyped'
  <2>1. rows \in Seq(Row)
    BY HistoryAssumption
  <2> QED
    BY <1>3, <2>1 DEF Backfill, JobTyped, Unlocked
<1>4. CASE PutRow
  <2>1. job.rows \in Seq(Row) /\ job.rows # <<>> /\ job.rev \in Revs
    BY <1>4 DEF PutRow, JobTyped, Unlocked
  <2>2. Tail(job.rows) \in Seq(Row)
    BY <2>1
  <2>3. job' = [rows |-> Tail(job.rows), rev |-> job.rev]
    BY <1>4 DEF PutRow, JobTyped
  <2> QED
    BY <2>1, <2>2, <2>3 DEF JobTyped, Unlocked
<1>5. CASE UNCHANGED vars
  BY <1>5 DEF vars, JobTyped, Unlocked
<1> QED
  BY <1>1, <1>2, <1>3, <1>4, <1>5 DEF HistoryNext

\* Every step is a Put of a sample, or leaves the ring alone.
LEMMA StepIsPut == JobTyped /\ [HistoryNext]_vars => [Next]_ring
<1> SUFFICES ASSUME JobTyped, [HistoryNext]_vars PROVE Next \/ UNCHANGED ring
  OBVIOUS
<1>1. ASSUME NEW t \in Times, NEW v \in Values, AccumulateValue(t, v) PROVE Next
  BY <1>1, LiveIsSample DEF AccumulateValue, Next
<1>2. CASE Accumulate
  BY <1>2 DEF Accumulate
<1>3. ASSUME NEW rows \in Answers, NEW rev \in Revs, Backfill(rows, rev)
      PROVE  UNCHANGED ring
  BY <1>3 DEF Backfill
<1>4. CASE PutRow
  <2> DEFINE row == Head(job.rows)
  <2>1. job.rows \in Seq(Row) /\ job.rows # <<>> /\ job.rev \in Revs
    BY <1>4 DEF PutRow, JobTyped, Unlocked
  <2>2. row \in Row
    BY <2>1
  <2>3. ASSUME NEW p \in Decoded(row), Put(StatSample(p, job.rev)) PROVE Next
    <3>1. StatSample(p, job.rev) \in Samples
      BY <2>1, <2>2, RowSample
    <3> QED
      BY <2>3, <3>1 DEF Next
  <2> QED
    BY <1>4, <2>3 DEF PutRow
<1>5. CASE UNCHANGED vars
  BY <1>5 DEF vars
<1> QED
  BY <1>1, <1>2, <1>3, <1>4, <1>5 DEF HistoryNext

\* The store's handling of a series implements the ring: publishes and backfills,
\* whichever comes first and however many there are, are Puts one after another.
THEOREM HistoryIsRing == HistorySpec => Spec
<1>1. HistoryInit => Init
  BY DEF HistoryInit
<1> QED
  BY <1>1, InitJob, NextJob, StepIsPut, PTL DEF HistorySpec, Spec

\* No publish takes a bucket back from statistics, and no repeated or late backfill
\* replaces a newer revision, in any series of the store.
THEOREM SeriesKeepAuthority == HistorySpec => AuthorityIsKept
BY HistoryIsRing, AuthorityOnlyGrows, PTL

\* No series of the store runs backwards.
THEOREM SeriesStayInOrder == HistorySpec => []SlotsConsistent
BY HistoryIsRing, SeriesInOrder, PTL

-------------------------------------------------------------------------------
(* What the ring remembers *)

\* s was put for bucket b, and is the one to show of those that were.
IsBest(s, h, b) ==
    \E j \in DOMAIN h :
        /\ h[j] = s
        /\ bucketOf(s.t) = b
        /\ \A k \in DOMAIN h : bucketOf(h[k].t) = b => Better(h, j, k)

\* The ring after the samples of h: it has the newest bucket of them, and of each
\* bucket since the window began the best sample, if and only if there is one.
Remembers(r, h) ==
    IF n = 0
    THEN /\ r = NewRing
         /\ Buckets(h) = {} \/ \E m \in Buckets(h) : \A c \in Buckets(h) : c <= m
    ELSE /\ r \in [slots : [Slot -> Samples \cup {Zero}], idx : [Slot -> Int], newest : Int]
         /\ r.newest = -1 \/ r.newest \in Buckets(h)
         /\ \A b \in Buckets(h) : b <= r.newest
         /\ \A b \in Nat : b > r.newest - n =>
               /\ r.idx[slotOf(b)] = b => IsBest(r.slots[slotOf(b)], h, b)
               /\ b \in Buckets(h) => r.idx[slotOf(b)] = b

LEMMA AuthorityOrder ==
  ASSUME NEW s \in Samples, NEW x \in Samples
  PROVE  /\ Authority(s) \in Int
         /\ Supersedes(s, x) <=> Authority(s) > Authority(x)
BY SampleTimes DEF Authority, Supersedes

LEMMA BucketsNat ==
  ASSUME NEW h \in Seq(Samples)
  PROVE  Buckets(h) \subseteq Nat
<1> SUFFICES ASSUME NEW k \in DOMAIN h PROVE bucketOf(h[k].t) \in Nat
  BY DEF Buckets
<1>1. h[k] \in Samples
  OBVIOUS
<1> QED
  BY <1>1, SampleTimes, BucketOfNat

LEMMA Appended ==
  ASSUME NEW h \in Seq(Samples), NEW s \in Samples
  PROVE  /\ Append(h, s) \in Seq(Samples)
         /\ DOMAIN Append(h, s) = DOMAIN h \cup {Len(h) + 1}
         /\ Append(h, s)[Len(h) + 1] = s
         /\ \A k \in DOMAIN h : Append(h, s)[k] = h[k] /\ k \in Nat /\ k <= Len(h)
         /\ Buckets(Append(h, s)) = Buckets(h) \cup {bucketOf(s.t)}
<1> DEFINE g == Append(h, s)
<1>1. /\ g \in Seq(Samples)
      /\ DOMAIN g = DOMAIN h \cup {Len(h) + 1}
      /\ g[Len(h) + 1] = s
      /\ \A k \in DOMAIN h : g[k] = h[k] /\ k \in Nat /\ k <= Len(h)
  OBVIOUS
<1> HIDE DEF g
<1>2. Buckets(g) = Buckets(h) \cup {bucketOf(s.t)}
  BY <1>1 DEF Buckets
<1> QED
  BY <1>1, <1>2 DEF g

\* The best sample stays the best as long as none supersedes it,
LEMMA BestStays ==
  ASSUME NEW h \in Seq(Samples), NEW s \in Samples, NEW x, NEW b, IsBest(x, h, b),
         bucketOf(s.t) = b => ~Supersedes(s, x)
  PROVE  IsBest(x, Append(h, s), b)
<1> DEFINE g == Append(h, s)
<1>1. PICK j \in DOMAIN h :
         /\ h[j] = x
         /\ bucketOf(x.t) = b
         /\ \A k \in DOMAIN h : bucketOf(h[k].t) = b => Better(h, j, k)
  BY DEF IsBest
<1>2. x \in Samples
  BY <1>1
<1>3. /\ g \in Seq(Samples)
      /\ DOMAIN g = DOMAIN h \cup {Len(h) + 1}
      /\ g[Len(h) + 1] = s
      /\ \A k \in DOMAIN h : g[k] = h[k] /\ k \in Nat /\ k <= Len(h)
  BY Appended
<1> HIDE DEF g
<1>4. ASSUME NEW k \in DOMAIN g, bucketOf(g[k].t) = b
      PROVE  Better(g, j, k)
  <2>1. CASE k \in DOMAIN h
    BY <1>1, <1>3, <1>4, <2>1 DEF Better
  <2>2. CASE k = Len(h) + 1
    <3>1. ~(Authority(s) > Authority(x))
      BY <1>2, <1>3, <1>4, <2>2, AuthorityOrder
    <3> QED
      BY <1>1, <1>2, <1>3, <2>2, <3>1, AuthorityOrder DEF Better
  <2> QED
    BY <1>3, <2>1, <2>2
<1> QED
  BY <1>1, <1>3, <1>4 DEF IsBest, g

\* and the sample that does, or is the first, is the best from then on.
LEMMA BestReplaced ==
  ASSUME NEW h \in Seq(Samples), NEW s \in Samples, NEW x,
         \/ bucketOf(s.t) \notin Buckets(h)
         \/ IsBest(x, h, bucketOf(s.t)) /\ Supersedes(s, x)
  PROVE  IsBest(s, Append(h, s), bucketOf(s.t))
<1> DEFINE g == Append(h, s)
           b == bucketOf(s.t)
<1>1. /\ g \in Seq(Samples)
      /\ DOMAIN g = DOMAIN h \cup {Len(h) + 1}
      /\ g[Len(h) + 1] = s
      /\ \A k \in DOMAIN h : g[k] = h[k] /\ k \in Nat /\ k <= Len(h)
  BY Appended
<1> HIDE DEF g
<1>2. ASSUME NEW k \in DOMAIN h, bucketOf(h[k].t) = b
      PROVE  Authority(s) > Authority(h[k])
  <2>1. b \in Buckets(h)
    BY <1>2 DEF Buckets
  <2>2. IsBest(x, h, b) /\ Supersedes(s, x)
    BY <2>1
  <2>3. PICK j \in DOMAIN h : h[j] = x /\ Better(h, j, k)
    BY <1>2, <2>2 DEF IsBest
  <2>4. x \in Samples /\ h[k] \in Samples
    BY <2>3
  <2> QED
    BY <2>2, <2>3, <2>4, AuthorityOrder DEF Better
<1>3. ASSUME NEW k \in DOMAIN g, bucketOf(g[k].t) = b
      PROVE  Better(g, Len(h) + 1, k)
  <2>1. CASE k \in DOMAIN h
    BY <1>1, <1>2, <1>3, <2>1 DEF Better
  <2>2. CASE k = Len(h) + 1
    BY <2>2 DEF Better
  <2> QED
    BY <1>1, <2>1, <2>2
<1> QED
  BY <1>1, <1>3 DEF IsBest, g

LEMMA NewRemembersNothing == Remembers(NewRing, <<>>)
<1>1. Buckets(<<>>) = {}
  BY DEF Buckets
<1> SUFFICES ASSUME n # 0 PROVE Remembers(NewRing, <<>>)
  BY <1>1 DEF Remembers
<1>2. \A b \in Nat : slotOf(b) \in Slot
  BY SlotOfInRange
<1> QED
  BY <1>1, <1>2 DEF Remembers, NewRing

\* Put keeps what it should of the ring, and no more.
LEMMA PutRemembers ==
  ASSUME NEW r, NEW h \in Seq(Samples), NEW s \in Samples, Remembers(r, h)
  PROVE  Remembers(PutInto(r, s), Append(h, s))
<1> DEFINE g == Append(h, s)
           b == bucketOf(s.t)
           i == slotOf(b)
           newest == IF b > r.newest THEN b ELSE r.newest
           q == PutInto(r, s)
<1>0. CASE n = 0
  <2>1. PutInto(r, s) = NewRing
    BY <1>0 DEF Remembers, PutInto
  <2>2. \E m \in Buckets(h) \cup {b} : \A c \in Buckets(h) \cup {b} : c <= m
    <3>1. b \in Nat /\ Buckets(h) \subseteq Nat
      BY SampleTimes, BucketOfNat, BucketsNat
    <3>2. CASE Buckets(h) = {}
      BY <3>1, <3>2
    <3>3. CASE Buckets(h) # {}
      <4>1. PICK m \in Buckets(h) : \A c \in Buckets(h) : c <= m
        BY <1>0, <3>3 DEF Remembers
      <4> HIDE DEF b
      <4>2. CASE b <= m
        BY <4>1, <4>2
      <4>3. CASE ~(b <= m)
        BY <3>1, <4>1, <4>3
      <4> QED
        BY <4>2, <4>3
    <3> QED
      BY <3>2, <3>3
  <2> QED
    BY <1>0, <2>1, <2>2, Appended DEF Remembers
<1> SUFFICES ASSUME n # 0 PROVE Remembers(q, g)
  BY <1>0
<1>1. /\ r \in [slots : [Slot -> Samples \cup {Zero}], idx : [Slot -> Int], newest : Int]
      /\ r.newest = -1 \/ r.newest \in Buckets(h)
      /\ \A c \in Buckets(h) : c <= r.newest
  BY DEF Remembers
<1>2. ASSUME NEW c \in Nat, c > r.newest - n
      PROVE  /\ r.idx[slotOf(c)] = c => IsBest(r.slots[slotOf(c)], h, c)
             /\ c \in Buckets(h) => r.idx[slotOf(c)] = c
  BY <1>2 DEF Remembers
<1>3. b \in Nat /\ i \in Slot
  BY SampleTimes, BucketOfNat, SlotOfInRange
<1>4. /\ newest \in Int
      /\ newest >= r.newest
      /\ newest >= b
      /\ newest = b \/ newest = r.newest
  BY <1>1, <1>3
<1>5. Buckets(g) = Buckets(h) \cup {b}
  BY Appended
<1>6. Buckets(h) \subseteq Nat
  BY BucketsNat
<1>7. \A c \in Nat : r.idx[slotOf(c)] = c /\ c > r.newest - n => c \in Buckets(h)
  BY <1>2 DEF IsBest, Buckets
<1>8. n \in Nat
  BY RingAssumption
<1>q. q = IF b <= newest - n
          THEN r
          ELSE IF r.idx[i] # b \/ Supersedes(s, r.slots[i])
          THEN [slots  |-> [r.slots EXCEPT ![i] = s],
                idx    |-> [r.idx EXCEPT ![i] = b],
                newest |-> newest]
          ELSE [r EXCEPT !.newest = newest]
  BY DEF PutInto
<1> HIDE DEF g, q, b, i
<1>9. CASE b <= newest - n
  <2>1. q = r /\ newest = r.newest
    BY <1>1, <1>3, <1>4, <1>8, <1>9, <1>q
  <2>2. ASSUME NEW c \in Nat, c > r.newest - n
        PROVE  /\ r.idx[slotOf(c)] = c => IsBest(r.slots[slotOf(c)], g, c)
               /\ c \in Buckets(g) => r.idx[slotOf(c)] = c
    <3>1. c # b
      BY <1>1, <1>3, <1>8, <1>9, <2>1, <2>2
    <3> QED
      BY <1>2, <1>5, <2>2, <3>1, BestStays DEF g, b
  <2> QED
    BY <1>1, <1>3, <1>4, <1>5, <1>8, <1>9, <2>1, <2>2 DEF Remembers
<1>10. CASE b > newest - n
  <2>n. newest = IF b > r.newest THEN b ELSE r.newest
    OBVIOUS
  <2> HIDE DEF newest
  <2>1. newest \in Buckets(g) /\ \A c \in Buckets(g) : c <= newest
    <3>1. newest \in Buckets(g)
      BY <1>1, <1>3, <1>4, <1>5
    <3>2. \A c \in Buckets(g) : c <= newest
      BY <1>1, <1>4, <1>5, <1>6
    <3> QED
      BY <3>1, <3>2
  \* Another bucket of the window does not share the slot.
  <2>2. ASSUME NEW c \in Nat, c > newest - n, c # b, c <= newest
        PROVE  slotOf(c) # i
    <3>1. CASE c < b
      BY <1>3, <1>4, <1>8, <2>2, <3>1, SlotsDistinct DEF i
    <3>2. CASE b < c
      BY <1>3, <1>4, <1>8, <1>10, <2>2, <3>2, SlotsDistinct DEF i
    <3> QED
      BY <1>3, <2>2, <3>1, <3>2
  <2>3. CASE r.idx[i] # b \/ Supersedes(s, r.slots[i])
    <3>1. q = [slots  |-> [r.slots EXCEPT ![i] = s],
               idx    |-> [r.idx EXCEPT ![i] = b],
               newest |-> newest]
      BY <1>3, <1>4, <1>8, <1>10, <1>q, <2>3, <2>n
    <3>2. q \in [slots : [Slot -> Samples \cup {Zero}], idx : [Slot -> Int], newest : Int]
      BY <1>1, <1>3, <1>4, <3>1
    <3>3. ASSUME NEW c \in Nat, c > newest - n
          PROVE  /\ q.idx[slotOf(c)] = c => IsBest(q.slots[slotOf(c)], g, c)
                 /\ c \in Buckets(g) => q.idx[slotOf(c)] = c
      <4>1. CASE c = b
        <5>1. q.idx[i] = b /\ q.slots[i] = s /\ slotOf(c) = i
          BY <1>1, <1>3, <3>1, <4>1 DEF i
        <5>2. \/ b \notin Buckets(h)
              \/ IsBest(r.slots[i], h, b) /\ Supersedes(s, r.slots[i])
          BY <1>1, <1>2, <1>3, <1>4, <1>8, <1>10, <2>3 DEF i
        <5>3. IsBest(s, g, b)
          BY <5>2, BestReplaced DEF g, b
        <5> QED
          BY <4>1, <5>1, <5>3
      <4>2. CASE c # b /\ slotOf(c) = i
        <5>1. c > newest
          BY <1>4, <2>2, <3>3, <4>2
        <5>2. c \notin Buckets(g) /\ q.idx[slotOf(c)] = b
          BY <1>1, <1>3, <1>4, <2>1, <3>1, <4>2, <5>1
        <5> QED
          BY <4>2, <5>2
      <4>3. CASE c # b /\ slotOf(c) # i
        <5>1. slotOf(c) \in Slot /\ c > r.newest - n
          BY <1>1, <1>4, <1>8, <3>3, SlotOfInRange
        <5>2. /\ q.idx[slotOf(c)] = r.idx[slotOf(c)]
              /\ q.slots[slotOf(c)] = r.slots[slotOf(c)]
          BY <1>1, <3>1, <4>3, <5>1
        <5>3. IsBest(r.slots[slotOf(c)], h, c) => IsBest(r.slots[slotOf(c)], g, c)
          BY <4>3, BestStays DEF g, b
        <5> QED
          BY <1>2, <1>5, <4>3, <5>1, <5>2, <5>3
      <4> QED
        BY <4>1, <4>2, <4>3
    <3>4. q.newest = newest
      BY <3>1
    <3> QED
      BY <2>1, <3>2, <3>3, <3>4 DEF Remembers
  <2>4. CASE ~(r.idx[i] # b \/ Supersedes(s, r.slots[i]))
    <3>1. b > r.newest - n
      BY <1>1, <1>4, <1>8, <1>10
    <3>2. b \in Buckets(h) /\ IsBest(r.slots[i], h, b)
      BY <1>2, <1>3, <1>7, <2>4, <3>1 DEF i
    <3>3. newest = r.newest
      BY <1>1, <1>3, <2>n, <3>2
    <3>4. q = r
      BY <1>1, <1>q, <2>4, <2>n, <3>3
    <3>5. ASSUME NEW c \in Nat, c > r.newest - n
          PROVE  /\ r.idx[slotOf(c)] = c => IsBest(r.slots[slotOf(c)], g, c)
                 /\ c \in Buckets(g) => r.idx[slotOf(c)] = c
      <4>1. CASE c = b
        BY <2>4, <3>2, <4>1, BestStays DEF g, b, i
      <4>2. CASE c # b
        <5>1. IsBest(r.slots[slotOf(c)], h, c) => IsBest(r.slots[slotOf(c)], g, c)
          BY <4>2, BestStays DEF g, b
        <5> QED
          BY <1>2, <1>5, <3>5, <4>2, <5>1
      <4> QED
        BY <4>1, <4>2
    <3> QED
      BY <1>1, <2>1, <3>3, <3>4, <3>5 DEF Remembers
  <2> QED
    BY <2>3, <2>4
<1> QED
  BY <1>3, <1>4, <1>8, <1>9, <1>10

\* So the series it returns is the one the history determines.
LEMMA BestIsChosen ==
  ASSUME NEW h \in Seq(Samples), NEW x, NEW b, IsBest(x, h, b)
  PROVE  BestFor(h, b) = x
<1> DEFINE at == {k \in DOMAIN h : bucketOf(h[k].t) = b}
           best(j) == j \in at /\ \A k \in at : Better(h, j, k)
<1>1. PICK j \in at : h[j] = x /\ best(j)
  BY DEF IsBest
<1>2. ASSUME NEW l \in at, best(l)
      PROVE  l = j
  <2>1. /\ Authority(h[j]) \in Int
        /\ Authority(h[l]) \in Int
        /\ j \in Nat
        /\ l \in Nat
    BY AuthorityOrder
  <2>2. Better(h, j, l) /\ Better(h, l, j)
    BY <1>1, <1>2
  <2> QED
    BY <2>1, <2>2 DEF Better
<1> HIDE DEF at
<1>3. (CHOOSE l \in at : \A k \in at : Better(h, l, k)) = j
  <2> DEFINE l == CHOOSE z \in at : \A k \in at : Better(h, z, k)
  <2>1. l \in at /\ \A k \in at : Better(h, l, k)
    BY <1>1
  <2> HIDE DEF l
  <2>2. l = j
    BY <1>2, <2>1
  <2> QED
    BY <2>2 DEF l
<1> QED
  BY <1>1, <1>3 DEF BestFor, at

LEMMA NewestIsLast ==
  ASSUME NEW h \in Seq(Samples), NEW m \in Buckets(h), \A c \in Buckets(h) : c <= m
  PROVE  NewestOf(h) = m
<1>1. NewestOf(h) \in Buckets(h) /\ \A c \in Buckets(h) : c <= NewestOf(h)
  BY DEF NewestOf
<1> HIDE DEF NewestOf
<1>2. NewestOf(h) <= m /\ m <= NewestOf(h) /\ m \in Nat /\ NewestOf(h) \in Nat
  BY <1>1, BucketsNat
<1> QED
  BY <1>2

LEMMA SeriesAsRemembered ==
  ASSUME NEW r, NEW h \in Seq(Samples), Remembers(r, h)
  PROVE  Series(r) = Reference(h)
<1>0. CASE n = 0
  <2>1. r = NewRing
    BY <1>0 DEF Remembers
  <2>2. Retained(r) = {}
    BY <1>0, <2>1 DEF Retained, NewRing
  <2>3. Reference(h) = {}
    <3>1. SUFFICES ASSUME h # <<>> PROVE {c \in Buckets(h) : c > NewestOf(h) - n} = {}
      BY DEF Reference
    <3>2. 1 \in DOMAIN h
      BY <3>1
    <3>3. PICK m \in Buckets(h) : \A c \in Buckets(h) : c <= m
      BY <1>0, <3>2 DEF Remembers, Buckets
    <3>4. NewestOf(h) = m
      BY <3>3, NewestIsLast
    <3> QED
      BY <1>0, <3>3, <3>4, BucketsNat
  <2> QED
    BY <2>2, <2>3 DEF Series
<1> SUFFICES ASSUME n # 0 PROVE Series(r) = Reference(h)
  BY <1>0
<1>1. /\ r.newest \in Int
      /\ r.newest = -1 \/ r.newest \in Buckets(h)
      /\ \A c \in Buckets(h) : c <= r.newest
  BY DEF Remembers
<1>2. ASSUME NEW b \in Nat, b > r.newest - n
      PROVE  /\ r.idx[slotOf(b)] = b => IsBest(r.slots[slotOf(b)], h, b)
             /\ b \in Buckets(h) => r.idx[slotOf(b)] = b
  BY <1>2 DEF Remembers
<1>3. Buckets(h) \subseteq Nat /\ n \in Nat
  BY BucketsNat, RingAssumption
<1>4. ASSUME NEW b, IsBest(r.slots[slotOf(b)], h, b)
      PROVE  b \in Buckets(h) /\ BestFor(h, b) = r.slots[slotOf(b)]
  BY <1>4, BestIsChosen DEF IsBest, Buckets
<1>5. CASE h = <<>>
  <2>1. Buckets(h) = {}
    BY <1>5 DEF Buckets
  <2>2. Retained(r) = {}
    BY <1>1, <1>3, <2>1 DEF Retained
  <2> QED
    BY <1>5, <2>2 DEF Series, Reference
<1>6. CASE h # <<>>
  <2>1. Buckets(h) # {}
    <3>1. 1 \in DOMAIN h
      BY <1>6
    <3> QED
      BY <3>1 DEF Buckets
  <2>2. r.newest \in Buckets(h)
    BY <1>1, <1>3, <2>1
  <2>3. NewestOf(h) = r.newest
    BY <1>1, <2>2, NewestIsLast
  <2>4. Retained(r) = {c \in Buckets(h) : c > NewestOf(h) - n}
    <3>1. ASSUME NEW b \in Retained(r)
          PROVE  b \in Buckets(h) /\ b > NewestOf(h) - n
      <4>1. b \in Nat /\ b > r.newest - n /\ r.idx[slotOf(b)] = b
        BY <1>1, <1>3, <3>1 DEF Retained
      <4> QED
        BY <1>2, <1>4, <2>3, <4>1
    <3>2. ASSUME NEW b \in Buckets(h), b > NewestOf(h) - n
          PROVE  b \in Retained(r)
      <4>1. b \in Nat /\ b <= r.newest /\ r.idx[slotOf(b)] = b
        BY <1>1, <1>2, <1>3, <2>3, <3>2
      <4> QED
        BY <1>1, <1>3, <2>3, <3>2, <4>1 DEF Retained
    <3> QED
      BY <3>1, <3>2
  <2>5. ASSUME NEW b \in Retained(r)
        PROVE  BestFor(h, b) = r.slots[slotOf(b)]
    <3>1. b \in Nat /\ b > r.newest - n /\ r.idx[slotOf(b)] = b
      BY <1>1, <1>3, <2>5 DEF Retained
    <3> QED
      BY <1>2, <1>4, <3>1
  <2> HIDE DEF Retained
  <2>6. Series(r) = {<<b, BestFor(h, b)>> : b \in Retained(r)}
    BY <2>5 DEF Series
  <2> QED
    BY <1>6, <2>4, <2>6 DEF Reference
<1> QED
  BY <1>5, <1>6

-------------------------------------------------------------------------------
(* Replaying a history *)

\* A set that has every number of which it has all the smaller ones, has them all.
LEMMA NumberInduction ==
  ASSUME NEW Good \in SUBSET Nat,
         \A k \in Nat : (\A j \in 0 .. k - 1 : j \in Good) => k \in Good
  PROVE  Good = Nat
<1> DEFINE R == {p \in Nat \X Nat : p[1] < p[2]}
           Bad == Nat \ Good
<1>1. SUFFICES ASSUME Bad # {} PROVE FALSE
  OBVIOUS
<1>2. R = OpToRel(<, Nat)
  BY DEF OpToRel
<1>3. IsWellFoundedOn(R, Nat)
  BY <1>2, NatLessThanWellFounded
<1>4. \A x, y \in Nat : <<y, x>> \in R <=> y < x
  OBVIOUS
<1>5. Bad \subseteq Nat
  OBVIOUS
<1> HIDE DEF R, Bad
<1>6. PICK k \in Bad : \A j \in Bad : ~(<<j, k>> \in R)
  BY <1>1, <1>3, <1>5, WFMin, Zenon
<1>7. k \in Nat /\ \A j \in 0 .. k - 1 : j \in Nat /\ <<j, k>> \in R
  BY <1>4, <1>5, <1>6
<1>8. \A j \in 0 .. k - 1 : j \in Good
  BY <1>6, <1>7 DEF Bad
<1> QED
  BY <1>6, <1>7, <1>8 DEF Bad

\* f has the ring after each of the first m samples of h.
Rings(f, h, m) ==
    f = [k \in 0 .. m |-> IF k = 0 THEN NewRing ELSE PutInto(f[k - 1], h[k])]

LEMMA RingsExist ==
  ASSUME NEW h, NEW m \in Nat
  PROVE  \E f : Rings(f, h, m)
<1> DEFINE Good == {k \in Nat : \E f : Rings(f, h, k)}
           next(r, k) == PutInto(r, h[k])
<1>1. ASSUME NEW k \in Nat, \A j \in 0 .. k - 1 : j \in Good
      PROVE  k \in Good
  <2>1. CASE k = 0
    <3> DEFINE f == [j \in 0 .. 0 |-> NewRing]
    <3>1. f = [j \in 0 .. 0 |-> IF j = 0 THEN NewRing ELSE PutInto(f[j - 1], h[j])]
      OBVIOUS
    <3> QED
      BY <2>1, <3>1 DEF Rings
  <2>2. CASE k # 0
    <3>1. k - 1 \in 0 .. k - 1
      BY <2>2
    <3>2. PICK e : Rings(e, h, k - 1)
      BY <1>1, <3>1
    <3> DEFINE f == [j \in 0 .. k |-> IF j = k THEN next(e[k - 1], k) ELSE e[j]]
    <3> HIDE DEF next
    <3>3. e = [j \in 0 .. k - 1 |-> IF j = 0 THEN NewRing ELSE next(e[j - 1], j)]
      BY <3>2, Zenon DEF Rings, next
    <3>4. \A j \in 0 .. k : f[j] = IF j = 0 THEN NewRing ELSE next(f[j - 1], j)
      <4> SUFFICES ASSUME NEW j \in 0 .. k
                   PROVE  f[j] = IF j = 0 THEN NewRing ELSE next(f[j - 1], j)
        OBVIOUS
      <4>1. CASE j = k
        BY <2>2, <4>1
      <4>2. CASE j # k
        <5>1. j \in 0 .. k - 1 /\ (j # 0 => j - 1 \in 0 .. k /\ j - 1 # k)
          BY <4>2
        <5>2. e[j] = IF j = 0 THEN NewRing ELSE next(e[j - 1], j)
          BY <3>3, <5>1
        <5> QED
          BY <4>2, <5>1, <5>2
      <4> QED
        BY <4>1, <4>2
    <3>5. f = [j \in 0 .. k |-> IF j = 0 THEN NewRing ELSE next(f[j - 1], j)]
      BY <3>4
    <3>6. Rings(f, h, k)
      BY <3>5, Zenon DEF Rings, next
    <3> QED
      BY <3>6
  <2> QED
    BY <2>1, <2>2
<1>2. Good \in SUBSET Nat
  OBVIOUS
<1> HIDE DEF Good
<1>3. Good = Nat
  BY <1>1, <1>2, NumberInduction
<1> QED
  BY <1>3 DEF Good

LEMMA Prefixes ==
  ASSUME NEW h \in Seq(Samples), NEW k \in 1 .. Len(h)
  PROVE  /\ SubSeq(h, 1, k - 1) \in Seq(Samples)
         /\ SubSeq(h, 1, k) = Append(SubSeq(h, 1, k - 1), h[k])
         /\ h[k] \in Samples
OBVIOUS

LEMMA ReplayRemembers ==
  ASSUME NEW h \in Seq(Samples)
  PROVE  Remembers(Replay(h), h)
<1> DEFINE f == CHOOSE g : Rings(g, h, Len(h))
           Good == {k \in Nat : k <= Len(h) => Remembers(f[k], SubSeq(h, 1, k))}
<1>1. Rings(f, h, Len(h))
  <2>1. \E g : Rings(g, h, Len(h))
    BY RingsExist
  <2> QED
    BY <2>1, Zenon
<1>2. Replay(h) = f[Len(h)]
  BY Zenon DEF Replay, Rings
<1> HIDE DEF f
<1>3. \A k \in 0 .. Len(h) : f[k] = IF k = 0 THEN NewRing ELSE PutInto(f[k - 1], h[k])
  BY <1>1, Zenon DEF Rings
<1>4. ASSUME NEW k \in Nat, \A j \in 0 .. k - 1 : j \in Good
      PROVE  k \in Good
  <2> SUFFICES ASSUME k <= Len(h) PROVE Remembers(f[k], SubSeq(h, 1, k))
    OBVIOUS
  <2>1. CASE k = 0
    <3>1. f[k] = NewRing /\ SubSeq(h, 1, k) = <<>>
      BY <1>3, <2>1
    <3> QED
      BY <3>1, NewRemembersNothing
  <2>2. CASE k # 0
    <3>1. k \in 1 .. Len(h) /\ k \in 0 .. Len(h) /\ k - 1 \in 0 .. k - 1
      BY <2>2
    <3>2. f[k] = PutInto(f[k - 1], h[k])
      BY <1>3, <2>2, <3>1
    <3>3. Remembers(f[k - 1], SubSeq(h, 1, k - 1))
      BY <1>4, <3>1
    <3>4. Remembers(PutInto(f[k - 1], h[k]), Append(SubSeq(h, 1, k - 1), h[k]))
      BY <3>1, <3>3, Prefixes, PutRemembers
    <3> QED
      BY <3>1, <3>2, <3>4, Prefixes
  <2> QED
    BY <2>1, <2>2
<1>5. Good \in SUBSET Nat
  OBVIOUS
<1> HIDE DEF Good
<1>6. Len(h) \in Good
  BY <1>4, <1>5, NumberInduction
<1>7. SubSeq(h, 1, Len(h)) = h
  OBVIOUS
<1>8. Remembers(f[Len(h)], SubSeq(h, 1, Len(h)))
  <2>1. Len(h) <= Len(h)
    OBVIOUS
  <2> QED
    BY <1>6, <2>1 DEF Good
<1> QED
  BY <1>2, <1>7, <1>8, Zenon

-------------------------------------------------------------------------------
(* Exchanging neighbours *)

LEMMA Exchanged ==
  ASSUME NEW h \in Seq(Samples), NEW k \in 1 .. Len(h) - 1
  PROVE  /\ Exchange(h, k) \in Seq(Samples)
         /\ DOMAIN Exchange(h, k) = DOMAIN h
         /\ k \in DOMAIN h /\ k + 1 \in DOMAIN h
         /\ Exchange(h, k)[k] = h[k + 1]
         /\ Exchange(h, k)[k + 1] = h[k]
         /\ \A j \in DOMAIN h : j # k /\ j # k + 1 => Exchange(h, k)[j] = h[j]
BY DEF Exchange

\* Whichever of two neighbours is first, the best sample of a bucket is the same,
\* unless both are of that bucket and of equal standing.
LEMMA BestExchanged ==
  ASSUME NEW h \in Seq(Samples), NEW k \in 1 .. Len(h) - 1, ~Conflict(h[k], h[k + 1]),
         NEW x, NEW b, IsBest(x, h, b)
  PROVE  IsBest(x, Exchange(h, k), b)
<1> DEFINE e == Exchange(h, k)
           at(j) == IF j = k THEN k + 1 ELSE IF j = k + 1 THEN k ELSE j
<1>1. PICK j \in DOMAIN h :
         /\ h[j] = x
         /\ bucketOf(x.t) = b
         /\ \A l \in DOMAIN h : bucketOf(h[l].t) = b => Better(h, j, l)
  BY DEF IsBest
<1>2. /\ DOMAIN e = DOMAIN h
      /\ k \in DOMAIN h /\ k + 1 \in DOMAIN h
      /\ e[k] = h[k + 1]
      /\ e[k + 1] = h[k]
      /\ \A i \in DOMAIN h : i # k /\ i # k + 1 => e[i] = h[i]
  BY Exchanged
<1>3. k \in Nat /\ \A i \in DOMAIN h : i \in Nat
  OBVIOUS
<1> HIDE DEF e
<1>4. \A i \in DOMAIN h : at(i) \in DOMAIN h /\ e[i] = h[at(i)] /\ e[at(i)] = h[i]
  BY <1>2, <1>3
<1>5. ASSUME NEW l \in DOMAIN e, bucketOf(e[l].t) = b
      PROVE  Better(e, at(j), l)
  <2>1. Better(h, j, at(l)) /\ bucketOf(h[at(l)].t) = b
    BY <1>1, <1>2, <1>4, <1>5
  <2>2. CASE Authority(h[j]) > Authority(h[at(l)])
    BY <1>2, <1>4, <2>2 DEF Better
  <2>3. CASE Authority(h[j]) = Authority(h[at(l)]) /\ j <= at(l)
    <3>1. at(j) <= l
      <4> SUFFICES ASSUME ~(at(j) <= l) PROVE FALSE
        OBVIOUS
      <4>1. j = k /\ at(l) = k + 1
        BY <1>2, <1>3, <2>3
      <4> QED
        BY <1>1, <2>1, <2>3, <4>1 DEF Conflict
    <3> QED
      BY <1>2, <1>4, <2>3, <3>1 DEF Better
  <2> QED
    BY <2>1, <2>2, <2>3 DEF Better
<1> HIDE DEF at
<1>6. at(j) \in DOMAIN e /\ e[at(j)] = x
  BY <1>1, <1>2, <1>4
<1> QED
  BY <1>1, <1>5, <1>6 DEF IsBest, e

LEMMA ExchangedBuckets ==
  ASSUME NEW h \in Seq(Samples), NEW k \in 1 .. Len(h) - 1
  PROVE  Buckets(Exchange(h, k)) = Buckets(h)
<1> DEFINE e == Exchange(h, k)
<1>1. /\ DOMAIN e = DOMAIN h
      /\ k \in DOMAIN h /\ k + 1 \in DOMAIN h
      /\ e[k] = h[k + 1]
      /\ e[k + 1] = h[k]
      /\ \A i \in DOMAIN h : i # k /\ i # k + 1 => e[i] = h[i]
  BY Exchanged
<1> HIDE DEF e
<1>2. \A i \in DOMAIN h : \E j \in DOMAIN h : e[i] = h[j]
  BY <1>1
<1>3. \A i \in DOMAIN h : \E j \in DOMAIN h : h[i] = e[j]
  BY <1>1
<1>4. ASSUME NEW b \in Buckets(e) PROVE b \in Buckets(h)
  <2>1. PICK i \in DOMAIN h : b = bucketOf(e[i].t)
    BY <1>1 DEF Buckets
  <2>2. PICK j \in DOMAIN h : e[i] = h[j]
    BY <1>2
  <2> QED
    BY <2>1, <2>2 DEF Buckets
<1>5. ASSUME NEW b \in Buckets(h) PROVE b \in Buckets(e)
  <2>1. PICK i \in DOMAIN h : b = bucketOf(h[i].t)
    BY DEF Buckets
  <2>2. PICK j \in DOMAIN h : h[i] = e[j]
    BY <1>3
  <2> QED
    BY <1>1, <2>1, <2>2 DEF Buckets
<1> QED
  BY <1>4, <1>5 DEF e

\* A ring that remembers h remembers h with two neighbours exchanged.
LEMMA RememberedEither ==
  ASSUME NEW r, NEW h \in Seq(Samples), NEW k \in 1 .. Len(h) - 1,
         ~Conflict(h[k], h[k + 1]), Remembers(r, h)
  PROVE  Remembers(r, Exchange(h, k))
<1> DEFINE e == Exchange(h, k)
<1>1. Buckets(e) = Buckets(h)
  BY ExchangedBuckets
<1>2. \A x, b : IsBest(x, h, b) => IsBest(x, e, b)
  BY BestExchanged
<1> HIDE DEF e
<1>3. Remembers(r, e)
  BY <1>1, <1>2 DEF Remembers
<1> QED
  BY <1>3 DEF e

-------------------------------------------------------------------------------
(* The log *)

LogInv ==
    /\ JobTyped
    /\ puts \in Seq(Samples)
    /\ Remembers(ring, puts)

LEMMA InitLog == LogInit => LogInv
BY InitJob, NewRemembersNothing DEF LogInit, HistoryInit, Init, LogInv

LEMMA PutLogged ==
  ASSUME LogInv, NEW s \in Samples, Put(s), puts' = Append(puts, s)
  PROVE  puts' \in Seq(Samples) /\ Remembers(ring, puts)'
<1>1. Remembers(PutInto(ring, s), Append(puts, s)) /\ Append(puts, s) \in Seq(Samples)
  BY Appended, PutRemembers DEF LogInv
<1>2. ring' = PutInto(ring, s)
  BY DEF Put
<1> QED
  BY <1>1, <1>2, Zenon

LEMMA NextLog == LogInv /\ [LogNext]_<<vars, puts>> => LogInv'
<1> SUFFICES ASSUME LogInv, [LogNext]_<<vars, puts>> PROVE LogInv'
  OBVIOUS
<1>1. JobTyped'
  <2>1. [HistoryNext]_vars
    BY DEF LogNext, HistoryNext
  <2> QED
    BY <2>1, NextJob DEF LogInv
<1>2. CASE UNCHANGED <<ring, puts>>
  BY <1>1, <1>2, Zenon DEF LogInv
<1>3. ASSUME NEW t \in Times, NEW v \in Values,
             AccumulateValue(t, v), puts' = Append(puts, LiveSample(t, v))
      PROVE  LogInv'
  BY <1>1, <1>3, LiveIsSample, PutLogged DEF AccumulateValue, LogInv
<1>4. CASE PutRow /\ puts' = puts \o RowSamples(Head(job.rows), job.rev)
  <2> DEFINE row == Head(job.rows)
  <2>1. job.rows \in Seq(Row) /\ job.rows # <<>> /\ job.rev \in Revs
    BY <1>4 DEF LogInv, PutRow, JobTyped, Unlocked
  <2>2. row \in Row
    BY <2>1
  <2>3. CASE Decoded(row) = {} /\ UNCHANGED ring
    <3>1. puts' = puts
      BY <1>4, <2>3 DEF RowSamples, LogInv
    <3> QED
      BY <1>2, <2>3, <3>1
  <2>4. ASSUME NEW p \in Decoded(row), Put(StatSample(p, job.rev)) PROVE LogInv'
    <3>1. StatSample(p, job.rev) \in Samples
      BY <2>1, <2>2, RowSample
    <3>2. (CHOOSE q \in Decoded(row) : TRUE) = p
      BY DEF Decoded
    <3>3. RowSamples(row, job.rev) = <<StatSample(p, job.rev)>>
      BY <3>2, Zenon DEF RowSamples
    <3>4. puts' = Append(puts, StatSample(p, job.rev))
      BY <1>4, <3>1, <3>3 DEF LogInv
    <3> QED
      BY <1>1, <2>4, <3>1, <3>4, PutLogged DEF LogInv
  <2> QED
    BY <1>4, <2>3, <2>4 DEF PutRow
<1> QED
  BY <1>2, <1>3, <1>4 DEF LogNext, Accumulate, Backfill, vars

LEMMA LogInvariance == LogSpec => []LogInv
BY InitLog, NextLog, PTL DEF LogSpec

\* What a chart is given is what the whole history of samples determines: nothing
\* within the window is forgotten, nothing outside it is kept, and each bucket has
\* the sample of highest standing, however many samples came in whatever order.
THEOREM SeriesIsDetermined == LogSpec => []SeriesIsReference
<1>1. LogInv => SeriesIsReference
  BY SeriesAsRemembered DEF LogInv, SeriesIsReference
<1> QED
  BY <1>1, LogInvariance, PTL

\* Backfill and live updates commute: two neighbouring samples may have come the
\* other way round, and the series is the same, unless they are of equal standing
\* for one bucket.
THEOREM OrderOfWritesIsFree == LogSpec => []WritesCommute
<1>1. ASSUME LogInv, NEW k \in 1 .. Len(puts) - 1, ~Conflict(puts[k], puts[k + 1])
      PROVE  Series(Replay(Exchange(puts, k))) = Series(ring)
  <2> DEFINE e == Exchange(puts, k)
  <2>1. e \in Seq(Samples)
    BY <1>1, Exchanged DEF LogInv
  <2>2. Remembers(ring, e)
    BY <1>1, RememberedEither DEF LogInv
  <2>3. Remembers(Replay(e), e)
    BY <2>1, ReplayRemembers
  <2> HIDE DEF e
  <2>4. Series(Replay(e)) = Reference(e) /\ Series(ring) = Reference(e)
    BY <2>1, <2>2, <2>3, SeriesAsRemembered
  <2> QED
    BY <2>4 DEF e
<1>2. LogInv => WritesCommute
  BY <1>1 DEF WritesCommute
<1> QED
  BY <1>2, LogInvariance, PTL

-------------------------------------------------------------------------------
(* Division *)

LEMMA PositiveFactor ==
  ASSUME NEW m \in Nat, NEW k \in Int, 0 < m * k
  PROVE  0 < k
BY NoMultipleBelow

LEMMA Division ==
  ASSUME NEW a \in Int, NEW d \in Nat \ {0}
  PROVE  /\ a \div d \in Int
         /\ d * (a \div d) <= a
         /\ a < d * (a \div d) + d
OBVIOUS

LEMMA Quotient ==
  ASSUME NEW a \in Int, NEW d \in Nat \ {0}, NEW q \in Int, d * q <= a, a < d * q + d
  PROVE  a \div d = q
<1> DEFINE p == a \div d
<1>1. p \in Int /\ d * p <= a /\ a < d * p + d
  BY Division
<1> HIDE DEF p
<1>2. /\ d * (p - q) = d * p - d * q
      /\ d * (q - p) = d * q - d * p
      /\ d * (p - q - 1) = d * p - d * q - d
      /\ d * (q - p - 1) = d * q - d * p - d
  BY <1>1
<1>3. ~(0 < p - q)
  <2> SUFFICES ASSUME 0 < p - q PROVE FALSE
    OBVIOUS
  <2>1. d <= d * (p - q)
    <3>1. 0 < d * (p - q)
      BY <1>1
    <3> QED
      BY <1>1, <3>1, NoMultipleBelow
  <2> QED
    BY <1>1, <1>2, <2>1
<1>4. ~(0 < q - p)
  <2> SUFFICES ASSUME 0 < q - p PROVE FALSE
    OBVIOUS
  <2>1. d <= d * (q - p)
    <3>1. 0 < d * (q - p)
      BY <1>1
    <3> QED
      BY <1>1, <3>1, NoMultipleBelow
  <2> QED
    BY <1>1, <1>2, <2>1
<1> QED
  BY <1>1, <1>3, <1>4 DEF p

\* Of two numbers no further apart than the divisor the quotients are neighbours.
LEMMA NearQuotients ==
  ASSUME NEW a \in Int, NEW b \in Int, NEW d \in Nat \ {0}, a <= b
  PROVE  /\ a \div d <= b \div d
         /\ b <= a + d => b \div d <= a \div d + 1
<1> DEFINE p == a \div d
           q == b \div d
<1>1. p \in Int /\ d * p <= a /\ a < d * p + d
  BY Division
<1>2. q \in Int /\ d * q <= b /\ b < d * q + d
  BY Division
<1> HIDE DEF p, q
<1>3. ~(q < p)
  <2> SUFFICES ASSUME q < p PROVE FALSE
    OBVIOUS
  <2>1. 0 < d * (p - q)
    BY <1>1, <1>2
  <2>2. d <= d * (p - q)
    BY <1>1, <1>2, <2>1, NoMultipleBelow
  <2> QED
    BY <1>1, <1>2, <2>2
<1>4. b <= a + d => ~(p + 1 < q)
  <2> SUFFICES ASSUME b <= a + d, p + 1 < q PROVE FALSE
    OBVIOUS
  <2>1. 0 < d * (q - p - 1)
    BY <1>1, <1>2
  <2>2. d <= d * (q - p - 1)
    BY <1>1, <1>2, <2>1, NoMultipleBelow
  <2>3. d * (q - p - 1) = d * q - d * p - d
    BY <1>1, <1>2
  <2> QED
    BY <1>1, <1>2, <2>2, <2>3
<1> QED
  BY <1>1, <1>2, <1>3, <1>4 DEF p, q

LEMMA Products ==
  ASSUME NEW a \in Int, NEW b \in Int, NEW m \in Nat, a <= b
  PROVE  a * m <= b * m
<1>1. 0 <= (b - a) * m
  OBVIOUS
<1>2. (b - a) * m = b * m - a * m
  OBVIOUS
<1> QED
  BY <1>1, <1>2

-------------------------------------------------------------------------------
(* The bounds of a chart *)

\* A series that is not empty has a smallest and a greatest sample.
LEMMA Smallest ==
  ASSUME NEW points \in Seq(Int), points # <<>>
  PROVE  \E i \in DOMAIN points : \A j \in DOMAIN points : points[i] <= points[j]
<1> DEFINE least(i, m) == i \in 1 .. m /\ \A j \in 1 .. m : points[i] <= points[j]
           Good == {m \in Nat : m \in 1 .. Len(points) => \E i : least(i, m)}
<1>1. ASSUME NEW m \in Nat, \A k \in 0 .. m - 1 : k \in Good
      PROVE  m \in Good
  <2> SUFFICES ASSUME m \in 1 .. Len(points) PROVE \E i : least(i, m)
    OBVIOUS
  <2>1. \A j \in 1 .. m : points[j] \in Int
    OBVIOUS
  <2>2. CASE m = 1
    <3>1. least(1, m)
      BY <2>1, <2>2
    <3> QED
      BY <3>1
  <2>3. CASE m # 1
    <3>1. m - 1 \in 0 .. m - 1 /\ m - 1 \in 1 .. Len(points)
      BY <2>3
    <3>2. m - 1 \in Good
      BY <1>1, <3>1
    <3>3. PICK a : least(a, m - 1)
      BY <3>1, <3>2
    <3>4. \A j \in 1 .. m : j = m \/ j \in 1 .. m - 1
      OBVIOUS
    <3>5. a \in 1 .. m
      BY <3>3
    <3>6. CASE points[a] <= points[m]
      <4>1. least(a, m)
        BY <3>3, <3>4, <3>5, <3>6
      <4> QED
        BY <4>1
    <3>7. CASE points[m] <= points[a]
      <4>1. \A j \in 1 .. m : points[m] <= points[j]
        BY <2>1, <3>3, <3>4, <3>5, <3>7
      <4>2. least(m, m)
        BY <4>1
      <4> QED
        BY <4>2
    <3> QED
      BY <2>1, <3>5, <3>6, <3>7
  <2> QED
    BY <2>2, <2>3
<1>2. Good \in SUBSET Nat
  OBVIOUS
<1>3. Len(points) \in Nat /\ Len(points) \in 1 .. Len(points)
  OBVIOUS
<1> HIDE DEF Good
<1>4. Len(points) \in Good
  BY <1>1, <1>2, <1>3, NumberInduction
<1>5. PICK i : least(i, Len(points))
  BY <1>3, <1>4 DEF Good
<1>6. DOMAIN points = 1 .. Len(points)
  OBVIOUS
<1> HIDE DEF Good
<1> QED
  BY <1>5, <1>6, Zenon

LEMMA Greatest ==
  ASSUME NEW points \in Seq(Int), points # <<>>
  PROVE  \E i \in DOMAIN points : \A j \in DOMAIN points : points[i] >= points[j]
<1> DEFINE minus == [i \in 1 .. Len(points) |-> -points[i]]
<1>1. minus \in Seq(Int) /\ minus # <<>> /\ DOMAIN minus = DOMAIN points
  OBVIOUS
<1>2. \A i \in DOMAIN points : minus[i] = -points[i] /\ points[i] \in Int
  OBVIOUS
<1> HIDE DEF minus
<1>3. PICK i \in DOMAIN points : \A j \in DOMAIN points : minus[i] <= minus[j]
  BY <1>1, Smallest
<1> QED
  BY <1>2, <1>3

LEMMA Bounds ==
  ASSUME NEW points \in Seq(Int), points # <<>>
  PROVE  /\ bounds(points).lo \in Int
         /\ bounds(points).hi \in Int
         /\ bounds(points).lo < bounds(points).hi
         /\ \A i \in DOMAIN points :
               bounds(points).lo <= points[i] /\ points[i] <= bounds(points).hi
         /\ \E i \in DOMAIN points : points[i] = bounds(points).lo
         /\ \/ \E i \in DOMAIN points : points[i] = bounds(points).hi
            \/ \A i \in DOMAIN points : points[i] = bounds(points).lo
<1> DEFINE values == ValuesOf(points)
           lo == CHOOSE v \in values : \A x \in values : v <= x
           hi == CHOOSE v \in values : \A x \in values : v >= x
           b == bounds(points)
<1>1. values \subseteq Int /\ \A i \in DOMAIN points : points[i] \in values
  BY DEF ValuesOf
<1>2. \A v \in values : \E i \in DOMAIN points : points[i] = v
  BY DEF ValuesOf
<1>3. lo \in values /\ \A x \in values : lo <= x
  <2>1. \E v \in values : \A x \in values : v <= x
    BY Smallest DEF ValuesOf
  <2> QED
    BY <2>1
<1>4. hi \in values /\ \A x \in values : hi >= x
  <2>1. \E v \in values : \A x \in values : v >= x
    BY Greatest DEF ValuesOf
  <2> QED
    BY <2>1
<1>5. b.lo = lo /\ b.hi = IF hi = lo THEN lo + 1 ELSE hi
  BY DEF bounds
<1> HIDE DEF values, lo, hi, b
<1>6. CASE hi = lo
  <2>1. \A x \in values : x = lo
    BY <1>1, <1>3, <1>4, <1>6
  <2> QED
    BY <1>1, <1>2, <1>3, <1>5, <1>6, <2>1 DEF b
<1>7. CASE hi # lo
  BY <1>1, <1>2, <1>3, <1>4, <1>5, <1>7 DEF b
<1> QED
  BY <1>6, <1>7

-------------------------------------------------------------------------------
(* To scale *)

LEMMA BetweenRange ==
  ASSUME NEW k \in Int, NEW lo \in Int, NEW hi \in Int, lo <= hi
  PROVE  Between(k, lo, hi) \in lo .. hi
BY DEF Between

LEMMA BetweenMonotone ==
  ASSUME NEW j \in Int, NEW k \in Int, NEW lo \in Int, NEW hi \in Int, lo <= hi, j <= k
  PROVE  Between(j, lo, hi) <= Between(k, lo, hi)
BY DEF Between

\* Whole rows and eighths of a row together are the height in eighths.
LEMMA EighthsOfRows ==
  ASSUME NEW rise \in Int, NEW span \in Nat \ {0}, NEW h \in Nat \ {0},
         0 <= rise, rise < span * h
  PROVE  LET q == rise \div span
             l == (8 * (rise - span * q)) \div span
         IN  /\ q \in 0 .. h - 1 /\ l \in 0 .. 7
             /\ 8 * q + l = (8 * rise) \div span
<1> DEFINE q == rise \div span
           rest == rise - span * q
           l == (8 * rest) \div span
<1>1. q \in Int /\ span * q <= rise /\ rise < span * q + span
  BY Division
<1>2. span * q \in Int
  BY <1>1
<1>3. rest \in Int /\ 0 <= rest /\ rest < span /\ rise = span * q + rest
  <2> DEFINE sq == span * q
  <2> HIDE DEF q
  <2>1. sq \in Int /\ sq <= rise /\ rise < sq + span
    BY <1>1, <1>2
  <2>2. rest = rise - sq
    OBVIOUS
  <2> HIDE DEF sq, rest
  <2>3. rest \in Int /\ 0 <= rest /\ rest < span /\ rise = sq + rest
    BY <2>1, <2>2
  <2> QED
    BY <2>3 DEF sq
<1> HIDE DEF q, rest
<1>4. l \in Int /\ span * l <= 8 * rest /\ 8 * rest < span * l + span
  <2>1. 8 * rest \in Int
    BY <1>3
  <2> QED
    BY <2>1, Division
<1> HIDE DEF l
<1>5. 0 <= q
  <2> SUFFICES ASSUME q < 0 PROVE FALSE
    BY <1>1
  <2>1. span <= span * (-q)
    <3>1. 0 < span * (-q)
      BY <1>1
    <3> QED
      BY <1>1, <3>1, NoMultipleBelow
  <2>2. span * (-q) = -(span * q)
    BY <1>1
  <2> QED
    BY <1>1, <1>2, <2>1, <2>2
<1>6. q <= h - 1
  <2> SUFFICES ASSUME q >= h PROVE FALSE
    BY <1>1
  <2>1. h * span <= q * span
    BY <1>1, Products
  <2>2. h * span = span * h /\ q * span = span * q
    BY <1>1
  <2> QED
    BY <1>1, <1>2, <2>1, <2>2
<1>7. 0 <= l
  <2> SUFFICES ASSUME l < 0 PROVE FALSE
    BY <1>4
  <2>1. span <= span * (-l)
    <3>1. 0 < span * (-l)
      BY <1>4
    <3> QED
      BY <1>4, <3>1, NoMultipleBelow
  <2>2. span * (-l) = -(span * l) /\ span * l \in Int
    BY <1>4
  <2> QED
    BY <1>3, <1>4, <2>1, <2>2
<1>8. l <= 7
  <2> SUFFICES ASSUME l >= 8 PROVE FALSE
    BY <1>4
  <2>1. 8 * span <= l * span
    BY <1>4, Products
  <2>2. l * span = span * l /\ span * l \in Int
    BY <1>4
  <2> QED
    BY <1>3, <1>4, <2>1, <2>2
<1>9. (8 * rise) \div span = 8 * q + l
  <2>1. span * (8 * q + l) = 8 * (span * q) + span * l
    BY <1>1, <1>4
  <2>2. 8 * rise = 8 * (span * q) + 8 * rest
    BY <1>2, <1>3
  <2>3. span * l \in Int
    BY <1>4
  <2>4. span * (8 * q + l) <= 8 * rise /\ 8 * rise < span * (8 * q + l) + span
    BY <1>2, <1>3, <1>4, <2>1, <2>2, <2>3
  <2>5. 8 * rise \in Int /\ 8 * q + l \in Int
    BY <1>1, <1>4
  <2> QED
    BY <2>4, <2>5, Quotient
<1> QED
  BY <1>1, <1>4, <1>5, <1>6, <1>7, <1>8, <1>9 DEF l, rest, q

\* A chart of w columns and h rows never draws a sample below a smaller one, or above
\* a greater, and uses its whole height.
LEMMA ToScale ==
  ASSUME NEW points \in Seq(Int), NEW w \in Nat \ {0}, NEW h \in Nat \ {0}
  PROVE  Honest(points, w, h)
<1> DEFINE b == bounds(points)
           y(i) == SampleDot(points, i, w, h).y
           row(i) == BlockRow(points, i, h)
           top(i) == BlockTop(points, i, h)
           drop(i) == (b.hi - points[i]) * (4 * h - 1)
           rise(i) == (points[i] - b.lo) * h
<1>1. CASE points = <<>>
  BY <1>1 DEF Honest
<1> SUFFICES ASSUME points # <<>> PROVE Honest(points, w, h)
  BY <1>1
<1>2. /\ b.lo \in Int
      /\ b.hi \in Int
      /\ b.hi - b.lo \in Nat \ {0}
      /\ \A i \in DOMAIN points : b.lo <= points[i] /\ points[i] <= b.hi
      /\ \E i \in DOMAIN points : points[i] = b.lo
      /\ \/ \E i \in DOMAIN points : points[i] = b.hi
         \/ \A i \in DOMAIN points : points[i] = b.lo
  BY Bounds
<1>3. \A i \in DOMAIN points : points[i] \in Int
  OBVIOUS
<1>4. \A i : /\ y(i) = Between(drop(i) \div (b.hi - b.lo), 0, 4 * h - 1)
             /\ row(i) = Between(h - 1 - rise(i) \div (b.hi - b.lo), 0, h - 1)
  BY DEF SampleDot, BlockRow
<1>b. \A i : top(i) =
               8 * (h - 1 - row(i)) +
               Between((8 * (rise(i) - (b.hi - b.lo) * (rise(i) \div (b.hi - b.lo))))
                          \div (b.hi - b.lo) + 1, 1, 8)
  BY DEF BlockTop, BlockLevel
<1> HIDE DEF b, y, row, top
<1>n. h \in Nat /\ 4 * h - 1 \in Nat
  OBVIOUS
<1>i. ASSUME NEW i \in DOMAIN points
      PROVE  b.hi - points[i] \in Int /\ points[i] - b.lo \in Int
  <2>1. b.lo \in Int /\ b.hi \in Int
    BY <1>2
  <2>2. points[i] \in Int
    BY <1>3
  <2> QED
    BY <2>1, <2>2
<1>5. ASSUME NEW i \in DOMAIN points
      PROVE  drop(i) \in Int /\ rise(i) \in Int
  <2> DEFINE up == b.hi - points[i]
             down == points[i] - b.lo
             last == 4 * h - 1
  <2>1. up \in Int /\ down \in Int /\ last \in Int
    BY <1>i, <1>n
  <2>2. drop(i) = up * last /\ rise(i) = down * h
    OBVIOUS
  <2> HIDE DEF up, down, last, drop, rise
  <2> QED
    BY <1>n, <2>1, <2>2
<1>6. ASSUME NEW i \in DOMAIN points, NEW j \in DOMAIN points, points[i] <= points[j]
      PROVE  y(i) >= y(j) /\ row(i) >= row(j)
  <2>1. drop(j) <= drop(i) /\ rise(i) <= rise(j)
    <3>1. /\ b.hi - points[j] <= b.hi - points[i]
          /\ points[i] - b.lo <= points[j] - b.lo
      <4>1. b.lo \in Int /\ b.hi \in Int /\ points[i] \in Int /\ points[j] \in Int
        BY <1>2, <1>3
      <4> QED
        BY <1>6, <4>1
    <3> QED
      BY <1>i, <1>n, <3>1, Products
  <2>2. /\ drop(j) \in Int
        /\ drop(i) \in Int
        /\ rise(i) \in Int
        /\ rise(j) \in Int
    BY <1>5
  <2> HIDE DEF drop, rise
  <2>3. /\ drop(j) \div (b.hi - b.lo) <= drop(i) \div (b.hi - b.lo)
        /\ rise(i) \div (b.hi - b.lo) <= rise(j) \div (b.hi - b.lo)
    BY <1>2, <2>1, <2>2, NearQuotients
  <2> DEFINE dj == drop(j) \div (b.hi - b.lo)
             di == drop(i) \div (b.hi - b.lo)
             ri == rise(i) \div (b.hi - b.lo)
             rj == rise(j) \div (b.hi - b.lo)
  <2>4. dj \in Int /\ di \in Int /\ ri \in Int /\ rj \in Int
    BY <1>2, <2>2, Division
  <2>5. dj <= di /\ ri <= rj
    BY <2>3
  <2>6. /\ y(i) = Between(di, 0, 4 * h - 1)
        /\ y(j) = Between(dj, 0, 4 * h - 1)
        /\ row(i) = Between(h - 1 - ri, 0, h - 1)
        /\ row(j) = Between(h - 1 - rj, 0, h - 1)
    BY <1>4
  <2> HIDE DEF di, dj, ri, rj
  <2>7. /\ h - 1 - rj <= h - 1 - ri
        /\ h - 1 - rj \in Int
        /\ h - 1 - ri \in Int
        /\ 0 <= h - 1
        /\ h - 1 \in Int
        /\ 0 <= 4 * h - 1
        /\ 4 * h - 1 \in Int
        /\ 0 \in Int
    BY <2>4, <2>5
  <2>8. y(j) <= y(i)
    BY <2>4, <2>5, <2>6, <2>7, BetweenMonotone
  <2>9. row(j) <= row(i)
    BY <2>6, <2>7, BetweenMonotone
  <2>10. y(i) \in Int /\ y(j) \in Int /\ row(i) \in Int /\ row(j) \in Int
    BY <2>4, <2>6, <2>7, BetweenRange
  <2> QED
    BY <2>8, <2>9, <2>10
<1>7. ASSUME NEW i \in DOMAIN points, \A j \in DOMAIN points : points[i] <= points[j]
      PROVE  y(i) = 4 * h - 1 /\ row(i) = h - 1
  <2>1. points[i] = b.lo
    <3>1. PICK j \in DOMAIN points : points[j] = b.lo
      BY <1>2
    <3> QED
      BY <1>2, <1>3, <1>7, <3>1
  <2>2. drop(i) \div (b.hi - b.lo) = 4 * h - 1
    <3> DEFINE d == b.hi - b.lo
    <3>1. drop(i) = d * (4 * h - 1) /\ d \in Nat \ {0}
      BY <1>2, <2>1
    <3>2. d * (4 * h - 1) \in Int
      BY <3>1
    <3> HIDE DEF d
    <3>3. (d * (4 * h - 1)) \div d = 4 * h - 1
      BY <3>1, <3>2, Quotient
    <3> QED
      BY <3>1, <3>3 DEF d
  <2>3. rise(i) \div (b.hi - b.lo) = 0
    <3>1. rise(i) = 0
      BY <1>2, <2>1
    <3> HIDE DEF rise
    <3>2. 0 \div (b.hi - b.lo) = 0
      BY <1>2, Quotient
    <3> QED
      BY <3>1, <3>2
  <2> QED
    BY <1>4, <2>2, <2>3 DEF Between
<1>8. ASSUME NEW i \in DOMAIN points, \A j \in DOMAIN points : points[i] >= points[j],
             ~\A j \in DOMAIN points : points[i] <= points[j]
      PROVE  y(i) = 0 /\ row(i) = 0
  <2>1. points[i] = b.hi
    <3>1. CASE \E j \in DOMAIN points : points[j] = b.hi
      BY <1>2, <1>3, <1>8, <3>1
    <3>2. CASE \A j \in DOMAIN points : points[j] = b.lo
      BY <1>2, <1>8, <3>2
    <3> QED
      BY <1>2, <3>1, <3>2
  <2>2. drop(i) \div (b.hi - b.lo) = 0
    <3>1. drop(i) = 0
      BY <1>2, <2>1
    <3> HIDE DEF drop
    <3>2. 0 \div (b.hi - b.lo) = 0
      BY <1>2, Quotient
    <3> QED
      BY <3>1, <3>2
  <2>3. rise(i) \div (b.hi - b.lo) = h
    <3> DEFINE d == b.hi - b.lo
    <3>1. rise(i) = d * h /\ d \in Nat \ {0}
      BY <1>2, <2>1
    <3>2. d * h \in Int
      BY <3>1
    <3> HIDE DEF d
    <3>3. (d * h) \div d = h
      BY <3>1, <3>2, Quotient
    <3> QED
      BY <3>1, <3>3 DEF d
  <2> QED
    BY <1>4, <2>2, <2>3 DEF Between
<1>t. ASSUME NEW i \in DOMAIN points, points[i] < b.hi
      PROVE  /\ top(i) = (8 * rise(i)) \div (b.hi - b.lo) + 1
             /\ top(i) \in Int
  <2> DEFINE span == b.hi - b.lo
             r == rise(i)
             q == r \div span
             l == (8 * (r - span * q)) \div span
  <2>1. r \in Int /\ span \in Nat \ {0} /\ 0 <= r /\ r < span * h
    <3> DEFINE d == points[i] - b.lo
    <3>1. d \in Int /\ 0 <= d /\ d < span /\ span \in Nat \ {0}
      <4>1. b.lo \in Int /\ b.hi \in Int /\ points[i] \in Int /\ b.lo <= points[i]
        BY <1>2, <1>3
      <4> QED
        BY <1>2, <1>t, <4>1
    <3>2. r = d * h
      OBVIOUS
    <3> HIDE DEF d, span, r
    <3>3. 0 <= d * h /\ 0 < (span - d) * h
      BY <3>1
    <3>4. (span - d) * h = span * h - d * h /\ d * h \in Int /\ span * h \in Int
      BY <3>1
    <3> QED
      BY <3>1, <3>2, <3>3, <3>4
  <2>2. row(i) = Between(h - 1 - q, 0, h - 1) /\ top(i) = 8 * (h - 1 - row(i)) + Between(l + 1, 1, 8)
    BY <1>4, <1>b
  <2> HIDE DEF r, span
  <2>3. q \in 0 .. h - 1 /\ l \in 0 .. 7 /\ 8 * q + l = (8 * r) \div span
    BY <2>1, EighthsOfRows
  <2> HIDE DEF q, l
  <2>4. row(i) = h - 1 - q /\ Between(l + 1, 1, 8) = l + 1
    BY <2>2, <2>3 DEF Between
  <2>5. top(i) = 8 * q + l + 1 /\ top(i) \in Int
    BY <2>2, <2>3, <2>4
  <2> QED
    BY <2>3, <2>5 DEF r, span
<1>u. ASSUME NEW i \in DOMAIN points, NEW j \in DOMAIN points, points[i] <= points[j]
      PROVE  top(i) <= top(j) \/ \A k \in DOMAIN points : points[j] >= points[k]
  <2>1. CASE points[j] = b.hi
    BY <1>2, <2>1
  <2>2. CASE points[j] # b.hi
    <3>1. points[i] < b.hi /\ points[j] < b.hi
      <4>1. b.hi \in Int /\ points[i] \in Int /\ points[j] \in Int /\ points[j] <= b.hi
        BY <1>2, <1>3
      <4> QED
        BY <1>u, <2>2, <4>1
    <3> DEFINE span == b.hi - b.lo
               ri == rise(i)
               rj == rise(j)
    <3>2. ri \in Int /\ rj \in Int /\ ri <= rj /\ span \in Nat \ {0}
      <4>1. points[i] - b.lo <= points[j] - b.lo
        <5>1. b.lo \in Int /\ points[i] \in Int /\ points[j] \in Int
          BY <1>2, <1>3
        <5> QED
          BY <1>u, <5>1
      <4>2. ri <= rj
        BY <1>i, <1>n, <4>1, Products
      <4> QED
        BY <1>2, <1>5, <4>2
    <3>3. top(i) = (8 * ri) \div span + 1 /\ top(j) = (8 * rj) \div span + 1
      BY <1>t, <3>1
    <3> HIDE DEF ri, rj, span
    <3>4. (8 * ri) \div span <= (8 * rj) \div span
      <4>1. 8 * ri \in Int /\ 8 * rj \in Int /\ 8 * ri <= 8 * rj
        BY <3>2
      <4> QED
        BY <3>2, <4>1, NearQuotients
    <3>5. (8 * ri) \div span \in Int /\ (8 * rj) \div span \in Int
      <4>1. 8 * ri \in Int /\ 8 * rj \in Int
        BY <3>2
      <4> QED
        BY <3>2, <4>1, Division
    <3> QED
      BY <3>3, <3>4, <3>5
  <2> QED
    BY <2>1, <2>2
<1>9. ASSUME NEW c \in 0 .. w - 1
      PROVE  /\ BlockSample(points, c, w) \in DOMAIN points
             /\ c - 1 \in 0 .. w - 1 => BlockSample(points, c - 1, w) <= BlockSample(points, c, w)
  <2> DEFINE L == Len(points)
             q == (c * L) \div w
  <2>1. L \in Nat \ {0} /\ DOMAIN points = 1 .. L /\ c * L \in Nat
    OBVIOUS
  <2> HIDE DEF L
  <2>2. q \in Int /\ w * q <= c * L /\ c * L < w * q + w
    BY <2>1, Division
  <2> HIDE DEF q
  <2>3. 0 <= q
    <3> SUFFICES ASSUME q < 0 PROVE FALSE
      BY <2>2
    <3>1. w <= w * (-q)
      <4>1. 0 < w * (-q)
        BY <2>2
      <4> QED
        BY <2>2, <4>1, NoMultipleBelow
    <3>2. w * (-q) = -(w * q)
      BY <2>2
    <3> QED
      BY <2>1, <2>2, <3>1, <3>2
  <2>4. q < L
    <3> SUFFICES ASSUME q >= L PROVE FALSE
      BY <2>1, <2>2
    <3>1. L * w <= q * w
      BY <2>1, <2>2, Products
    <3>2. c * L < w * L
      <4>1. 0 < (w - c) * L
        BY <2>1
      <4>2. (w - c) * L = w * L - c * L
        BY <2>1
      <4> QED
        BY <2>1, <4>1, <4>2
    <3> QED
      BY <2>1, <2>2, <3>1, <3>2
  <2>5. q + 1 \in DOMAIN points
    BY <2>1, <2>2, <2>3, <2>4
  <2>6. ((c - 1) * L) \div w <= q
    <3> DEFINE before == (c - 1) * L
               here == c * L
    <3>1. before <= here /\ before \in Int /\ here \in Int
      BY <2>1
    <3> HIDE DEF before, here
    <3>2. before \div w <= here \div w
      BY <3>1, NearQuotients
    <3> QED
      BY <3>2 DEF q, before, here
  <2>7. ((c - 1) * L) \div w \in Int
    BY <2>1, Division
  <2> QED
    BY <2>2, <2>5, <2>6, <2>7 DEF BlockSample, q, L
<1> QED
  <2>1. \A c \in 1 .. w - 1 : c \in 0 .. w - 1 /\ c - 1 \in 0 .. w - 1
    OBVIOUS
  <2> QED
    BY <1>6, <1>7, <1>8, <1>9, <1>u, <2>1 DEF Honest, y, row, top

-------------------------------------------------------------------------------
(* One curve *)

Column(dots, x) == {d.y : d \in {e \in dots : e.x = x}}
Solid(s) == \A lo \in s, hi \in s : lo .. hi \subseteq s

\* dots are a curve that begins in column 0 and is drawn up to the dot end.
Curve(dots, end) ==
    /\ dots \subseteq [x : Nat, y : Int]
    /\ end \in dots
    /\ \A d \in dots : d.x <= end.x
    /\ \A x \in 0 .. end.x : Column(dots, x) # {}
    /\ \A x \in Nat : Solid(Column(dots, x))
    /\ \A x \in 0 .. end.x - 1 :
          \E a \in Column(dots, x), b \in Column(dots, x + 1) : Abs(a - b) <= 1

\* One dot further, in the same column or in the next.
Touches(d, e) ==
    /\ d.x <= e.x
    /\ e.x <= d.x + 1
    /\ Abs(e.y - d.y) <= 1

LEMMA ColumnGrows ==
  ASSUME NEW dots, NEW e, NEW x
  PROVE  Column(dots \cup {e}, x) =
            IF e.x = x THEN Column(dots, x) \cup {e.y} ELSE Column(dots, x)
BY DEF Column

LEMMA SolidGrows ==
  ASSUME NEW s \in SUBSET Int, Solid(s), NEW a \in s, NEW b \in Int, Abs(b - a) <= 1
  PROVE  Solid(s \cup {b})
<1>1. b = a \/ b = a + 1 \/ b = a - 1
  BY DEF Abs
<1>2. ASSUME NEW lo \in s \cup {b}, NEW hi \in s \cup {b}, NEW k \in lo .. hi
      PROVE  k \in s \cup {b}
  <2>1. CASE lo \in s /\ hi \in s
    BY <1>2, <2>1 DEF Solid
  <2>2. CASE lo = b /\ hi = b
    BY <1>2, <2>2
  <2>3. CASE lo = b /\ hi \in s
    <3>1. k = b \/ k \in a .. hi
      BY <1>1, <1>2, <2>3
    <3> QED
      BY <2>3, <3>1 DEF Solid
  <2>4. CASE lo \in s /\ hi = b
    <3>1. k = b \/ k \in lo .. a
      BY <1>1, <1>2, <2>4
    <3> QED
      BY <2>4, <3>1 DEF Solid
  <2> QED
    BY <2>1, <2>2, <2>3, <2>4
<1> QED
  BY <1>2 DEF Solid

LEMMA CurveGrows ==
  ASSUME NEW dots, NEW end, Curve(dots, end), NEW e \in [x : Nat, y : Int], Touches(end, e)
  PROVE  Curve(dots \cup {e}, e)
<1> DEFINE more == dots \cup {e}
           col(x) == Column(dots, x)
<1>1. /\ dots \subseteq [x : Nat, y : Int]
      /\ end \in dots
      /\ \A d \in dots : d.x <= end.x
      /\ \A x \in 0 .. end.x : col(x) # {}
      /\ \A x \in Nat : Solid(col(x))
      /\ \A x \in 0 .. end.x - 1 : \E a \in col(x), b \in col(x + 1) : Abs(a - b) <= 1
  BY DEF Curve
<1>2. /\ end.x \in Nat /\ end.y \in Int
      /\ e.x \in Nat /\ e.y \in Int
      /\ e.x = end.x \/ e.x = end.x + 1
      /\ Abs(e.y - end.y) <= 1
  <2>1. end \in [x : Nat, y : Int]
    BY <1>1
  <2> QED
    BY <2>1 DEF Touches
<1>3. \A x : Column(more, x) = IF e.x = x THEN col(x) \cup {e.y} ELSE col(x)
  BY ColumnGrows
<1>4. end.y \in col(end.x) /\ \A x : col(x) \subseteq Int
  BY <1>1 DEF Column
<1>5. e.x = end.x + 1 => col(e.x) = {}
  BY <1>1, <1>2 DEF Column
<1> HIDE DEF col
<1>6. more \subseteq [x : Nat, y : Int] /\ e \in more
  BY <1>1
<1>7. \A d \in more : d.x <= e.x
  <2> SUFFICES ASSUME NEW d \in dots PROVE d.x <= e.x
    BY <1>2
  <2>1. d \in [x : Nat, y : Int] /\ d.x <= end.x
    BY <1>1
  <2> QED
    BY <1>2, <2>1
<1> HIDE DEF more
<1>8. \A x \in 0 .. e.x : Column(more, x) # {}
  BY <1>1, <1>2, <1>3
<1>9. ASSUME NEW x \in Nat PROVE Solid(Column(more, x))
  <2>1. CASE e.x # x
    BY <1>1, <1>3, <2>1
  <2>2. CASE e.x = x /\ x = end.x
    <3>1. Solid(col(x) \cup {e.y})
      BY <1>1, <1>2, <1>4, <2>2, SolidGrows
    <3> QED
      BY <1>3, <2>2, <3>1
  <2>3. CASE e.x = x /\ x = end.x + 1
    <3>1. Column(more, x) = {e.y}
      BY <1>3, <1>5, <2>3
    <3>2. Solid({e.y})
      BY <1>2 DEF Solid
    <3> QED
      BY <3>1, <3>2
  <2> QED
    BY <1>2, <2>1, <2>2, <2>3
<1>10. ASSUME NEW x \in 0 .. e.x - 1
       PROVE  \E a \in Column(more, x), b \in Column(more, x + 1) : Abs(a - b) <= 1
  <2>1. CASE x \in 0 .. end.x - 1
    <3>1. PICK a \in col(x), b \in col(x + 1) : Abs(a - b) <= 1
      BY <1>1, <2>1
    <3>2. a \in Column(more, x) /\ b \in Column(more, x + 1)
      BY <1>3, <3>1
    <3> QED
      BY <3>1, <3>2
  <2>2. CASE x \notin 0 .. end.x - 1
    <3>1. x = end.x /\ e.x = x + 1
      BY <1>2, <2>2
    <3>2. end.y \in Column(more, x) /\ e.y \in Column(more, x + 1)
      BY <1>3, <1>4, <3>1
    <3>3. Abs(end.y - e.y) <= 1
      BY <1>2 DEF Abs
    <3> QED
      BY <3>2, <3>3
  <2> QED
    BY <2>1, <2>2
<1>11. Curve(more, e)
  BY <1>6, <1>7, <1>8, <1>9, <1>10 DEF Curve
<1> QED
  BY <1>11 DEF more

\* A line as plotLine draws it: the coordinate after i of its steps.
At(a, b, i, steps) == (2 * a * steps + 2 * (b - a) * i + steps) \div (2 * steps)

LEMMA RoundedWhole ==
  ASSUME NEW a \in Int, NEW steps \in Nat \ {0}
  PROVE  (2 * a * steps + steps) \div (2 * steps) = a
<1> DEFINE d == 2 * steps
           m == 2 * a * steps + steps
<1>1. d \in Nat \ {0} /\ m \in Int
  OBVIOUS
<1>2. d * a <= m /\ m < d * a + d
  <2>1. d * a = 2 * a * steps
    OBVIOUS
  <2>2. 2 * a * steps \in Int
    OBVIOUS
  <2> QED
    BY <2>1, <2>2
<1> HIDE DEF d, m
<1>3. m \div d = a
  BY <1>1, <1>2, Quotient
<1> QED
  BY <1>3 DEF d, m

LEMMA LineEnds ==
  ASSUME NEW a \in Int, NEW b \in Int, NEW steps \in Nat \ {0}
  PROVE  At(a, b, 0, steps) = a /\ At(a, b, steps, steps) = b
<1>1. 2 * a * steps + 2 * (b - a) * 0 + steps = 2 * a * steps + steps
  OBVIOUS
<1>2. 2 * a * steps + 2 * (b - a) * steps + steps = 2 * b * steps + steps
  OBVIOUS
<1> QED
  BY <1>1, <1>2, RoundedWhole DEF At

LEMMA LineSteps ==
  ASSUME NEW a \in Int, NEW b \in Int, NEW steps \in Nat \ {0}, Abs(b - a) <= steps,
         NEW i \in 0 .. steps - 1
  PROVE  /\ Abs(At(a, b, i + 1, steps) - At(a, b, i, steps)) <= 1
         /\ a <= b => At(a, b, i, steps) <= At(a, b, i + 1, steps)
<1> DEFINE d == 2 * steps
           m == 2 * a * steps + 2 * (b - a) * i + steps
           m2 == 2 * a * steps + 2 * (b - a) * (i + 1) + steps
<1>1. d \in Nat \ {0} /\ m \in Int /\ m2 \in Int
  OBVIOUS
<1>2. m2 = m + 2 * (b - a)
  OBVIOUS
<1>3. m2 <= m + d /\ m <= m2 + d /\ (a <= b => m <= m2)
  BY <1>1, <1>2 DEF Abs
<1> HIDE DEF d, m, m2
<1>4. m \div d \in Int /\ m2 \div d \in Int
  BY <1>1, Division
<1>5. m <= m2 => m \div d <= m2 \div d /\ m2 \div d <= m \div d + 1
  BY <1>1, <1>3, NearQuotients
<1>6. m2 <= m => m2 \div d <= m \div d /\ m \div d <= m2 \div d + 1
  BY <1>1, <1>3, NearQuotients
<1>7. m <= m2 \/ m2 <= m
  BY <1>1
<1>8. At(a, b, i, steps) = m \div d /\ At(a, b, i + 1, steps) = m2 \div d
  BY DEF At, d, m, m2
<1> QED
  BY <1>3, <1>4, <1>5, <1>6, <1>7, <1>8 DEF Abs

LEMMA LineBetween ==
  ASSUME NEW a \in Int, NEW b \in Int, NEW steps \in Nat \ {0}, NEW i \in 0 .. steps,
         NEW lo \in Int, NEW hi \in Int, a \in lo .. hi, b \in lo .. hi
  PROVE  At(a, b, i, steps) \in lo .. hi
<1> DEFINE d == 2 * steps
           m == 2 * a * steps + 2 * (b - a) * i + steps
           least == 2 * lo * steps + steps
           most == 2 * hi * steps + steps
<1>1. d \in Nat \ {0} /\ m \in Int /\ least \in Int /\ most \in Int
  OBVIOUS
<1>2. least <= m
  <2>1. m - least = 2 * ((a - lo) * (steps - i) + (b - lo) * i)
    OBVIOUS
  <2>2. 0 <= (a - lo) * (steps - i) /\ 0 <= (b - lo) * i
    OBVIOUS
  <2>3. (a - lo) * (steps - i) \in Int /\ (b - lo) * i \in Int
    OBVIOUS
  <2> HIDE DEF m, least
  <2> QED
    BY <1>1, <2>1, <2>2, <2>3
<1>3. m <= most
  <2>1. most - m = 2 * ((hi - a) * (steps - i) + (hi - b) * i)
    OBVIOUS
  <2>2. 0 <= (hi - a) * (steps - i) /\ 0 <= (hi - b) * i
    OBVIOUS
  <2>3. (hi - a) * (steps - i) \in Int /\ (hi - b) * i \in Int
    OBVIOUS
  <2> HIDE DEF m, most
  <2> QED
    BY <1>1, <2>1, <2>2, <2>3
<1>4. least \div d = lo /\ most \div d = hi
  BY RoundedWhole
<1>5. At(a, b, i, steps) = m \div d
  BY DEF At
<1> HIDE DEF d, m, least, most
<1>6. /\ m \div d \in Int
      /\ least \div d <= m \div d
      /\ m \div d <= most \div d
  BY <1>1, <1>2, <1>3, NearQuotients, Division
<1> QED
  BY <1>4, <1>5, <1>6

\* A curve and a line from its end are a curve.
LEMMA LineExtends ==
  ASSUME NEW dots, NEW from, NEW to \in [x : Nat, y : Int], from.x <= to.x,
         Curve(dots, from)
  PROVE  Curve(dots \cup plotLine(from, to), to)
<1> DEFINE steps == Larger(Abs(to.x - from.x), Abs(to.y - from.y))
           dot(i) == [x |-> At(from.x, to.x, i, steps), y |-> At(from.y, to.y, i, steps)]
           drawn(k) == {dot(i) : i \in 0 .. k}
           Good == {k \in Nat : k <= steps => Curve(dots \cup drawn(k), dot(k))}
<1>1. from \in [x : Nat, y : Int] /\ from \in dots
  BY DEF Curve
<1>2. /\ from.x \in Nat /\ from.y \in Int /\ to.x \in Nat /\ to.y \in Int
      /\ from = [x |-> from.x, y |-> from.y]
      /\ to = [x |-> to.x, y |-> to.y]
  BY <1>1
<1>3. /\ steps \in Nat
      /\ Abs(to.x - from.x) <= steps
      /\ Abs(to.y - from.y) <= steps
  BY <1>2 DEF Larger, Abs
<1>4. plotLine(from, to) = IF steps = 0 THEN {from} ELSE drawn(steps)
  BY DEF plotLine, At
<1>5. CASE steps = 0
  <2>1. from.x = to.x /\ from.y = to.y
    BY <1>2, <1>3, <1>5 DEF Abs
  <2>2. from = to
    BY <1>2, <2>1
  <2>3. dots \cup plotLine(from, to) = dots
    BY <1>1, <1>4, <1>5
  <2> QED
    BY <2>2, <2>3
<1>6. CASE steps # 0
  <2> HIDE DEF steps
  <2>0. steps \in Nat \ {0}
    BY <1>3, <1>6
  <2>1. dot(0) = from /\ dot(steps) = to
    BY <1>2, <2>0, LineEnds
  <2>2. ASSUME NEW i \in 0 .. steps
        PROVE  dot(i) \in [x : Nat, y : Int]
    <3>1. At(from.x, to.x, i, steps) \in from.x .. to.x
      <4>1. /\ from.x \in Int /\ from.x \in from.x .. to.x
            /\ to.x \in Int /\ to.x \in from.x .. to.x
        BY <1>2
      <4> QED
        BY <2>0, <4>1, LineBetween
    <3>2. At(from.y, to.y, i, steps) \in Int
      <4> DEFINE m == 2 * from.y * steps + 2 * (to.y - from.y) * i + steps
      <4>1. m \in Int /\ 2 * steps \in Nat \ {0}
        BY <1>2, <2>0
      <4>2. At(from.y, to.y, i, steps) = m \div (2 * steps)
        BY DEF At
      <4> HIDE DEF m
      <4> QED
        BY <4>1, <4>2, Division
    <3> QED
      BY <1>2, <3>1, <3>2
  <2>3. ASSUME NEW i \in 0 .. steps - 1
        PROVE  Touches(dot(i), dot(i + 1))
    <3>1. /\ Abs(At(from.x, to.x, i + 1, steps) - At(from.x, to.x, i, steps)) <= 1
          /\ At(from.x, to.x, i, steps) <= At(from.x, to.x, i + 1, steps)
      BY <1>2, <1>3, <2>0, LineSteps
    <3>2. Abs(At(from.y, to.y, i + 1, steps) - At(from.y, to.y, i, steps)) <= 1
      BY <1>2, <1>3, <2>0, LineSteps
    <3>3. /\ dot(i).x = At(from.x, to.x, i, steps)
          /\ dot(i + 1).x = At(from.x, to.x, i + 1, steps)
          /\ dot(i).y = At(from.y, to.y, i, steps)
          /\ dot(i + 1).y = At(from.y, to.y, i + 1, steps)
      OBVIOUS
    <3>4. dot(i).x \in Nat /\ dot(i + 1).x \in Nat
      <4>1. i \in 0 .. steps /\ i + 1 \in 0 .. steps
        BY <2>0
      <4> HIDE DEF dot
      <4> QED
        BY <2>2, <4>1
    <3> HIDE DEF dot
    <3> QED
      BY <3>1, <3>2, <3>3, <3>4 DEF Touches, Abs
  <2> HIDE DEF dot
  <2>4. ASSUME NEW k \in Nat, \A j \in 0 .. k - 1 : j \in Good
        PROVE  k \in Good
    <3> SUFFICES ASSUME k <= steps PROVE Curve(dots \cup drawn(k), dot(k))
      OBVIOUS
    <3>1. CASE k = 0
      <4>1. drawn(k) = {from} /\ dot(k) = from
        BY <2>1, <3>1
      <4>2. dots \cup drawn(k) = dots
        BY <1>1, <4>1
      <4> QED
        BY <4>1, <4>2
    <3>2. CASE k # 0
      <4>1. k - 1 \in 0 .. k - 1 /\ k - 1 \in 0 .. steps - 1 /\ k \in 0 .. steps /\ (k - 1) + 1 = k
        BY <2>0, <3>2
      <4>2. Curve(dots \cup drawn(k - 1), dot(k - 1))
        BY <2>4, <2>0, <4>1
      <4>3. drawn(k) = drawn(k - 1) \cup {dot(k)}
        BY <4>1
      <4>4. dot(k) \in [x : Nat, y : Int] /\ Touches(dot(k - 1), dot(k))
        BY <2>2, <2>3, <4>1, Zenon
      <4>5. Curve((dots \cup drawn(k - 1)) \cup {dot(k)}, dot(k))
        BY <4>2, <4>4, CurveGrows
      <4>6. (dots \cup drawn(k - 1)) \cup {dot(k)} = dots \cup drawn(k)
        BY <4>3
      <4> QED
        BY <4>5, <4>6, Zenon
    <3> QED
      BY <3>1, <3>2
  <2>5. Good \in SUBSET Nat
    OBVIOUS
  <2> HIDE DEF Good
  <2>6. steps \in Good
    BY <2>0, <2>4, <2>5, NumberInduction
  <2>7. Curve(dots \cup drawn(steps), dot(steps))
    BY <2>0, <2>6 DEF Good
  <2> HIDE DEF drawn
  <2> QED
    BY <1>4, <1>6, <2>1, <2>7, Zenon
<1> QED
  BY <1>5, <1>6

\* A line stays between its ends, and has both.
LEMMA LineWithin ==
  ASSUME NEW w \in Nat \ {0}, NEW h \in Nat \ {0},
         NEW from \in [x : 0 .. 2 * w - 1, y : 0 .. 4 * h - 1],
         NEW to \in [x : 0 .. 2 * w - 1, y : 0 .. 4 * h - 1]
  PROVE  /\ to \in plotLine(from, to)
         /\ from \in plotLine(from, to)
         /\ plotLine(from, to) \subseteq [x : 0 .. 2 * w - 1, y : 0 .. 4 * h - 1]
<1> DEFINE steps == Larger(Abs(to.x - from.x), Abs(to.y - from.y))
           dot(i) == [x |-> At(from.x, to.x, i, steps), y |-> At(from.y, to.y, i, steps)]
           right == 2 * w - 1
           bottom == 4 * h - 1
<1>1. /\ from.x \in 0 .. right /\ from.y \in 0 .. bottom
      /\ to.x \in 0 .. right /\ to.y \in 0 .. bottom
      /\ from = [x |-> from.x, y |-> from.y]
      /\ to = [x |-> to.x, y |-> to.y]
  OBVIOUS
<1>2. right \in Int /\ bottom \in Int /\ 0 \in Int
  OBVIOUS
<1> HIDE DEF right, bottom
<1>3. /\ from.x \in Int /\ from.y \in Int /\ to.x \in Int /\ to.y \in Int
      /\ steps \in Nat
      /\ Abs(to.x - from.x) <= steps
      /\ Abs(to.y - from.y) <= steps
  BY <1>1, <1>2 DEF Larger, Abs
<1>4. plotLine(from, to) = IF steps = 0 THEN {from} ELSE {dot(i) : i \in 0 .. steps}
  BY DEF plotLine, At
<1>5. CASE steps = 0
  <2>1. from.x = to.x /\ from.y = to.y
    BY <1>3, <1>5 DEF Abs
  <2> QED
    BY <1>1, <1>4, <1>5, <2>1 DEF right, bottom
<1>6. CASE steps # 0
  <2> HIDE DEF steps
  <2>0. steps \in Nat \ {0}
    BY <1>3, <1>6
  <2>1. dot(0) = from /\ dot(steps) = to
    BY <1>1, <1>3, <2>0, LineEnds
  <2>2. ASSUME NEW i \in 0 .. steps
        PROVE  dot(i) \in [x : 0 .. right, y : 0 .. bottom]
    <3>1. At(from.x, to.x, i, steps) \in 0 .. right
      BY <1>1, <1>2, <1>3, <2>0, LineBetween
    <3>2. At(from.y, to.y, i, steps) \in 0 .. bottom
      BY <1>1, <1>2, <1>3, <2>0, LineBetween
    <3> QED
      BY <3>1, <3>2
  <2>3. 0 \in 0 .. steps /\ steps \in 0 .. steps
    BY <2>0
  <2> HIDE DEF dot
  <2> QED
    BY <1>4, <1>6, <2>1, <2>2, <2>3 DEF right, bottom
<1> QED
  BY <1>5, <1>6

LEMMA GridHolds ==
  ASSUME NEW w \in Nat \ {0}, NEW h \in Nat \ {0},
         NEW d \in [x : 0 .. 2 * w - 1, y : 0 .. 4 * h - 1]
  PROVE  InGrid(d, w, h)
<1>1. d.x \in 0 .. 2 * w - 1 /\ d.y \in 0 .. 4 * h - 1
  OBVIOUS
<1>2. d.x \div 2 \in 0 .. w - 1
  BY <1>1
<1>3. d.y \div 4 \in 0 .. h - 1
  BY <1>1
<1> QED
  BY <1>2, <1>3 DEF InGrid

LEMMA Proportion ==
  ASSUME NEW k \in Nat, NEW m \in Nat \ {0}, NEW p \in Nat, p <= k * m
  PROVE  p \div m \in 0 .. k
<1>1. k * m \in Int /\ m * 0 = 0 /\ m * k = k * m /\ m * k \in Int
  OBVIOUS
<1> DEFINE km == k * m
<1>2. km \in Int /\ m * k = km /\ p <= km
  BY <1>1
<1> HIDE DEF km
<1>3. 0 \div m = 0
  BY <1>1, Quotient
<1>4. km \div m = k
  BY <1>2, Quotient
<1>5. 0 \div m <= p \div m /\ p \div m <= km \div m
  BY <1>2, NearQuotients
<1>6. p \div m \in Int
  BY Division
<1> QED
  BY <1>3, <1>4, <1>5, <1>6

\* The samples are from left to right, and inside.
LEMMA SampleDots ==
  ASSUME NEW points \in Seq(Int), NEW w \in Nat \ {0}, NEW h \in Nat \ {0},
         NEW i \in DOMAIN points
  PROVE  /\ SampleDot(points, i, w, h) \in [x : 0 .. 2 * w - 1, y : 0 .. 4 * h - 1]
         /\ i + 1 \in DOMAIN points =>
               SampleDot(points, i, w, h).x <= SampleDot(points, i + 1, w, h).x
<1> DEFINE L == Len(points)
           right == 2 * w - 1
           b == bounds(points)
           x(k) == IF L > 1 THEN ((k - 1) * right) \div (L - 1) ELSE 0
           drop == (b.hi - points[i]) * (4 * h - 1)
<1>1. L \in Nat \ {0} /\ i \in 1 .. L /\ DOMAIN points = 1 .. L /\ points[i] \in Int
  OBVIOUS
<1>2. right \in Nat /\ 4 * h - 1 \in Nat
  OBVIOUS
<1>3. \A k : /\ SampleDot(points, k, w, h).x = x(k)
             /\ DOMAIN SampleDot(points, k, w, h) = {"x", "y"}
  BY DEF SampleDot
<1>4. SampleDot(points, i, w, h).y = Between(drop \div (b.hi - b.lo), 0, 4 * h - 1)
  BY DEF SampleDot
<1>5. b.hi \in Int /\ b.lo \in Int /\ b.hi - b.lo \in Nat \ {0}
  BY Bounds, <1>1
<1>6. SampleDot(points, i, w, h).y \in 0 .. 4 * h - 1
  <2>1. drop \in Int
    <3> DEFINE up == b.hi - points[i]
               bottom == 4 * h - 1
    <3>1. up \in Int /\ bottom \in Int /\ drop = up * bottom
      BY <1>1, <1>2, <1>5
    <3> HIDE DEF up, bottom, drop
    <3> QED
      BY <3>1
  <2> HIDE DEF drop
  <2>2. drop \div (b.hi - b.lo) \in Int
    BY <1>5, <2>1, Division
  <2> HIDE DEF b
  <2>3. 0 \in Int /\ 4 * h - 1 \in Int /\ 0 <= 4 * h - 1
    BY <1>2
  <2> QED
    BY <1>4, <2>2, <2>3, BetweenRange
<1> HIDE DEF L, right, b
<1>7. x(i) \in 0 .. right /\ (i + 1 \in 1 .. L => x(i) <= x(i + 1))
  <2>1. CASE ~(L > 1)
    BY <1>1, <1>2, <2>1
  <2>2. CASE L > 1
    <3> DEFINE m == L - 1
               p == (i - 1) * right
               q == (i + 1 - 1) * right
    <3>1. m \in Nat \ {0} /\ p \in Nat /\ q \in Nat
      BY <1>1, <1>2, <2>2
    <3>2. 0 <= p /\ p <= q
      <4>1. i - 1 \in Int /\ i + 1 - 1 \in Int /\ i - 1 <= i + 1 - 1
        BY <1>1
      <4> QED
        BY <1>2, <3>1, <4>1, Products
    <3>3. p <= right * m
      <4>1. i - 1 \in Int /\ m \in Int /\ i - 1 <= m
        BY <1>1
      <4>2. (i - 1) * right <= m * right
        BY <1>2, <4>1, Products
      <4> QED
        BY <1>2, <4>1, <4>2
    <3>4. x(i) = p \div m /\ x(i + 1) = q \div m
      BY <2>2
    <3> HIDE DEF m, p, q
    <3>5. p \div m \in 0 .. right
      BY <1>2, <3>1, <3>3, Proportion
    <3> HIDE DEF x, drop
    <3>6. p \div m <= q \div m
      <4>1. p \in Int /\ q \in Int /\ m \in Nat \ {0} /\ p <= q
        BY <3>1, <3>2
      <4> QED
        BY <4>1, NearQuotients
    <3> QED
      BY <3>4, <3>5, <3>6
  <2> QED
    BY <2>1, <2>2
<1> HIDE DEF x
<1>8. SampleDot(points, i, w, h) \in [x : 0 .. right, y : 0 .. 4 * h - 1]
  <2>1. SampleDot(points, i, w, h) = [x |-> SampleDot(points, i, w, h).x, y |-> SampleDot(points, i, w, h).y]
    BY DEF SampleDot
  <2> QED
    BY <1>3, <1>6, <1>7, <2>1
<1> QED
  BY <1>1, <1>3, <1>7, <1>8 DEF right

LEMMA DotIsCurve ==
  ASSUME NEW d \in [x : Nat, y : Int], d.x = 0
  PROVE  Curve({d}, d)
<1>1. \A x \in Nat : Column({d}, x) = IF x = 0 THEN {d.y} ELSE {}
  BY DEF Column
<1>2. Solid({d.y}) /\ Solid({})
  BY DEF Solid
<1>3. \A x \in Nat : Solid(Column({d}, x))
  BY <1>1, <1>2
<1>4. \A x \in 0 .. d.x : x = 0
  OBVIOUS
<1>5. 0 .. d.x - 1 = {}
  OBVIOUS
<1>6. \A x \in 0 .. d.x : Column({d}, x) # {}
  BY <1>1, <1>4
<1> QED
  BY <1>3, <1>5, <1>6 DEF Curve

\* However few samples there are, and however small the chart: they are joined by one
\* curve, from edge to edge.
LEMMA OneCurve ==
  ASSUME NEW points \in Seq(Int), NEW w \in Nat \ {0}, NEW h \in Nat \ {0}
  PROVE  Unbroken(points, w, h)
<1> DEFINE L == Len(points)
           dot(i) == SampleDot(points, i, w, h)
           grid == [x : 0 .. 2 * w - 1, y : 0 .. 4 * h - 1]
           drawn(m) == {dot(1)} \cup UNION {plotLine(dot(i - 1), dot(i)) : i \in 2 .. m}
           dots == braille(points, w, h)
<1>1. CASE points = <<>>
  BY <1>1 DEF Unbroken
<1> SUFFICES ASSUME points # <<>> PROVE Unbroken(points, w, h)
  BY <1>1
<1>2. L \in Nat \ {0} /\ DOMAIN points = 1 .. L
  OBVIOUS
<1>3. \A i \in 1 .. L : dot(i) \in grid
  BY <1>2, SampleDots
<1>4. \A i \in 2 .. L : dot(i - 1).x <= dot(i).x
  <2> SUFFICES ASSUME NEW i \in 2 .. L PROVE dot(i - 1).x <= dot(i).x
    OBVIOUS
  <2>1. i - 1 \in DOMAIN points /\ (i - 1) + 1 = i /\ i \in DOMAIN points
    BY <1>2
  <2> QED
    BY <2>1, SampleDots
<1>5. grid \subseteq [x : Nat, y : Int]
  OBVIOUS
<1>6. \A d \in grid : InGrid(d, w, h)
  BY GridHolds
<1>7. ASSUME NEW i \in 2 .. L
      PROVE  /\ dot(i) \in plotLine(dot(i - 1), dot(i))
             /\ plotLine(dot(i - 1), dot(i)) \subseteq grid
  <2>1. dot(i - 1) \in grid /\ dot(i) \in grid
    BY <1>2, <1>3
  <2> DEFINE f == dot(i - 1)
             t == dot(i)
  <2>2. f \in grid /\ t \in grid
    BY <2>1
  <2> HIDE DEF dot, f, t
  <2>3. t \in plotLine(f, t) /\ plotLine(f, t) \subseteq grid
    BY <2>2, LineWithin
  <2> QED
    BY <2>3 DEF f, t
<1>8. dots = {d \in drawn(L) : InGrid(d, w, h)}
  BY DEF braille
<1> HIDE DEF L, dot, dots, grid
<1>9. dots = drawn(L)
  BY <1>2, <1>3, <1>6, <1>7, <1>8
<1>10. \A i \in 1 .. L : dot(i) \in dots
  <2> SUFFICES ASSUME NEW i \in 1 .. L PROVE dot(i) \in drawn(L)
    BY <1>9
  <2>1. CASE i = 1
    BY <2>1
  <2>2. CASE i # 1
    <3>1. i \in 2 .. L
      BY <1>2, <2>2
    <3> QED
      BY <1>7, <3>1
  <2> QED
    BY <2>1, <2>2
<1>11. CASE ~(L > 1)
  BY <1>2, <1>10, <1>11 DEF Unbroken, L, dot, dots
<1>12. CASE L > 1
  <2>1. dot(1).x = 0 /\ dot(L).x = 2 * w - 1
    <3>1. /\ dot(1).x = ((1 - 1) * (2 * w - 1)) \div (L - 1)
          /\ dot(L).x = ((L - 1) * (2 * w - 1)) \div (L - 1)
      BY <1>12 DEF SampleDot, dot, L
    <3> DEFINE m == L - 1
               right == 2 * w - 1
    <3>2. m \in Nat \ {0} /\ right \in Nat
      BY <1>2, <1>12
    <3>3. (1 - 1) * right = 0 /\ m * right \in Int /\ m * 0 = 0
      BY <3>2
    <3>4. dot(1).x = ((1 - 1) * right) \div m /\ dot(L).x = (m * right) \div m
      BY <3>1
    <3> HIDE DEF m, right
    <3>5. 0 \div m = 0
      BY <3>2, <3>3, Quotient
    <3>6. (m * right) \div m = right
      BY <3>2, <3>3, Quotient
    <3> QED
      BY <3>3, <3>4, <3>5, <3>6 DEF right
  <2> DEFINE Good == {m \in Nat : m \in 1 .. L => Curve(drawn(m), dot(m))}
  <2>2. ASSUME NEW m \in Nat, \A j \in 0 .. m - 1 : j \in Good
        PROVE  m \in Good
    <3> SUFFICES ASSUME m \in 1 .. L PROVE Curve(drawn(m), dot(m))
      OBVIOUS
    <3>1. CASE m = 1
      <4>1. drawn(1) = {dot(1)}
        OBVIOUS
      <4>2. dot(1) \in [x : Nat, y : Int] /\ dot(1).x = 0
        BY <1>2, <1>3, <1>5, <2>1
      <4>3. Curve({dot(1)}, dot(1))
        BY <4>2, DotIsCurve
      <4> QED
        BY <3>1, <4>1, <4>3, Zenon
    <3>2. CASE m # 1
      <4>1. m \in 2 .. L /\ m - 1 \in 0 .. m - 1 /\ m - 1 \in 1 .. L
        BY <1>2, <3>2
      <4>2. Curve(drawn(m - 1), dot(m - 1))
        BY <2>2, <4>1
      <4>3. dot(m) \in [x : Nat, y : Int] /\ dot(m - 1).x <= dot(m).x
        BY <1>3, <1>4, <1>5, <4>1
      <4>4. Curve(drawn(m - 1) \cup plotLine(dot(m - 1), dot(m)), dot(m))
        BY <4>2, <4>3, LineExtends
      <4>5. drawn(m) = drawn(m - 1) \cup plotLine(dot(m - 1), dot(m))
        <5>1. 2 .. m = (2 .. m - 1) \cup {m}
          BY <4>1
        <5> QED
          BY <5>1
      <4> QED
        BY <4>4, <4>5, Zenon
    <3> QED
      BY <3>1, <3>2
  <2>3. Good \in SUBSET Nat
    OBVIOUS
  <2> HIDE DEF Good
  <2>4. L \in Good
    BY <1>2, <2>2, <2>3, NumberInduction
  <2>5. Curve(drawn(L), dot(L))
    BY <1>2, <2>4 DEF Good
  <2>6. Curve(dots, dot(L))
    BY <1>9, <2>5, Zenon
  <2>7. /\ \A x \in 0 .. 2 * w - 1 : Column(dots, x) # {} /\ Solid(Column(dots, x))
        /\ \A x \in 0 .. 2 * w - 2 :
              \E a \in Column(dots, x), b \in Column(dots, x + 1) : Abs(a - b) <= 1
    <3>1. 0 .. 2 * w - 1 \subseteq Nat /\ (2 * w - 1) - 1 = 2 * w - 2
      OBVIOUS
    <3>2. /\ \A x \in 0 .. dot(L).x : Column(dots, x) # {}
          /\ \A x \in Nat : Solid(Column(dots, x))
          /\ \A x \in 0 .. dot(L).x - 1 :
                \E a \in Column(dots, x), b \in Column(dots, x + 1) : Abs(a - b) <= 1
      BY <2>6 DEF Curve
    <3> QED
      BY <2>1, <3>1, <3>2
  <2>8. \A i \in DOMAIN points : SampleDot(points, i, w, h) \in braille(points, w, h)
    BY <1>2, <1>10 DEF dot, dots
  <2>9. /\ SampleDot(points, 1, w, h).x = 0
        /\ SampleDot(points, Len(points), w, h).x = 2 * w - 1
    BY <2>1 DEF dot, L
  <2> QED
    BY <2>7, <2>8, <2>9, Zenon DEF Unbroken, Column, Solid, dots
<1> QED
  BY <1>2, <1>11, <1>12

-------------------------------------------------------------------------------
(* Every series shown *)

\* A finite set of numbers has a k-th smallest.
LEMMA KthExists ==
  ASSUME NEW S \in SUBSET Nat, IsFiniteSet(S), NEW m \in Nat, \A s \in S : s <= m,
         NEW k \in 1 .. Cardinality(S)
  PROVE  \E b \in S : Cardinality({c \in S : c <= b}) = k
<1> DEFINE upTo(t) == {c \in S : c <= t}
           Enough == {t \in Nat : Cardinality(upTo(t)) >= k}
<1>0. (\A c \in S : c \in Nat) /\ (\A t : \A c : c \in upTo(t) <=> c \in S /\ c <= t)
  OBVIOUS
<1>1. \A b : IsFiniteSet(upTo(b)) /\ Cardinality(upTo(b)) \in Nat
  <2> SUFFICES ASSUME NEW b PROVE IsFiniteSet(upTo(b)) /\ Cardinality(upTo(b)) \in Nat
    OBVIOUS
  <2>1. upTo(b) \in SUBSET S
    OBVIOUS
  <2> HIDE DEF upTo
  <2> QED
    BY <2>1, FS_Subset, FS_CardinalityType
<1>2. m \in Enough
  <2>1. upTo(m) = S
    OBVIOUS
  <2>2. Cardinality(S) \in Nat
    BY FS_CardinalityType
  <2> QED
    BY <2>1, <2>2
<1>3. Enough \in SUBSET Nat
  OBVIOUS
<1> HIDE DEF Enough
<1>4. PICK b \in Enough : \A c \in 0 .. b - 1 : c \notin Enough
  <2> DEFINE Lacking == Nat \ Enough
  <2>1. SUFFICES ASSUME \A b \in Enough : \E c \in 0 .. b - 1 : c \in Enough
                 PROVE  FALSE
    OBVIOUS
  <2>2. ASSUME NEW j \in Nat, \A i \in 0 .. j - 1 : i \in Lacking
        PROVE  j \in Lacking
    BY <2>1, <2>2
  <2>3. Lacking \in SUBSET Nat
    OBVIOUS
  <2> HIDE DEF Lacking
  <2>4. Lacking = Nat
    BY <2>2, <2>3, NumberInduction
  <2> QED
    BY <1>2, <1>3, <2>4 DEF Lacking
<1>5. b \in Nat /\ Cardinality(upTo(b)) >= k
  BY <1>3 DEF Enough
<1> HIDE DEF upTo
<1>6. b # 0 => Cardinality(upTo(b - 1)) < k
  <2> SUFFICES ASSUME b # 0 PROVE Cardinality(upTo(b - 1)) < k
    OBVIOUS
  <2>1. b - 1 \in 0 .. b - 1 /\ b - 1 \in Nat
    BY <1>5
  <2>2. b - 1 \notin Enough
    BY <1>4, <2>1
  <2> QED
    BY <1>1, <2>1, <2>2 DEF Enough
<1>7. b \in S
  <2>0. SUFFICES ASSUME b \notin S PROVE FALSE
    OBVIOUS
  <2>1. CASE b = 0
    <3>1. upTo(b) = {}
      <4>1. \A c \in S : c <= b => c = b
        BY <1>0, <2>1
      <4> QED
        BY <1>0, <2>0, <4>1
    <3> QED
      BY <1>5, <3>1, FS_EmptySet
  <2>2. CASE b # 0
    <3>1. upTo(b) = upTo(b - 1)
      <4>1. \A c \in S : c # b /\ (c <= b <=> c <= b - 1)
        BY <1>0, <1>5, <2>0
      <4> QED
        BY <1>0, <4>1
    <3> QED
      BY <1>1, <1>5, <1>6, <2>2, <3>1
  <2> QED
    BY <2>1, <2>2
<1>8. Cardinality(upTo(b)) <= k
  <2>1. CASE b = 0
    <3>1. upTo(b) = {b}
      <4>1. \A c \in S : c <= b <=> c = b
        BY <1>0, <2>1
      <4> QED
        BY <1>0, <1>7, <4>1
    <3>2. Cardinality({b}) = 1
      <4>1. {} \cup {b} = {b}
        OBVIOUS
      <4> QED
        BY <4>1, FS_EmptySet, FS_AddElement
    <3> QED
      BY <3>1, <3>2
  <2>2. CASE b # 0
    <3>1. upTo(b) = upTo(b - 1) \cup {b} /\ b \notin upTo(b - 1)
      <4>1. \A c \in S : c <= b <=> c <= b - 1 \/ c = b
        BY <1>0, <1>5
      <4>2. ~(b <= b - 1)
        BY <1>5
      <4> QED
        BY <1>0, <1>7, <4>1, <4>2
    <3>2. Cardinality(upTo(b)) = Cardinality(upTo(b - 1)) + 1
      BY <1>1, <3>1, FS_AddElement
    <3> QED
      BY <1>1, <1>6, <2>2, <3>2
  <2> QED
    BY <2>1, <2>2
<1>9. Cardinality(upTo(b)) = k
  BY <1>1, <1>5, <1>8
<1> QED
  BY <1>7, <1>9 DEF upTo

\* What Series returns are values that were put.
LEMMA SeriesTyped ==
  ASSUME NEW r,
         r \in [slots : [Slot -> Samples \cup {Zero}], idx : [Slot -> Int], newest : Int],
         r.newest >= -1,
         \A i \in Slot : r.idx[i] = -1 \/ r.slots[i] \in Samples
  PROVE  SeriesValues(r) \in Seq(Values)
<1> DEFINE S == Retained(r)
<1>1. n \in Nat /\ r.newest \in Int
  BY RingAssumption
<1>2. S \in SUBSET Nat /\ \A b \in S : b <= r.newest /\ r.newest \in Nat
  BY <1>1 DEF Retained
<1>3. IsFiniteSet(S)
  <2>1. CASE r.newest \in Nat
    BY <1>2, <2>1, FS_BoundedSetOfNaturals
  <2>2. CASE r.newest \notin Nat
    <3>1. S = {}
      BY <1>2, <2>2
    <3> QED
      BY <3>1, FS_EmptySet
  <2> QED
    BY <2>1, <2>2
<1>4. Cardinality(S) \in Nat
  BY <1>3, FS_CardinalityType
<1>5. ASSUME NEW b \in S PROVE r.slots[slotOf(b)].v \in Values
  <2>1. b \in Nat /\ r.idx[slotOf(b)] = b /\ n # 0
    BY <1>1 DEF Retained
  <2>2. slotOf(b) \in Slot
    BY <2>1, SlotOfInRange
  <2>3. r.slots[slotOf(b)] \in Samples
    BY <2>1, <2>2
  <2> QED
    BY <2>3 DEF Samples
<1> HIDE DEF S
<1>6. ASSUME NEW k \in 1 .. Cardinality(S) PROVE Kth(r, k) \in S
  <2>1. r.newest \in Nat
    <3>1. S # {}
      BY <1>4, FS_EmptySet
    <3> QED
      BY <1>2, <3>1
  <2>2. \E b \in S : Cardinality({c \in S : c <= b}) = k
    BY <1>2, <1>3, <2>1, KthExists
  <2> QED
    BY <2>2, Zenon DEF Kth, S
<1>7. \A k \in 1 .. Cardinality(S) : r.slots[slotOf(Kth(r, k))].v \in Values
  BY <1>5, <1>6
<1> DEFINE values == [k \in 1 .. Cardinality(S) |-> r.slots[slotOf(Kth(r, k))].v]
<1>8. SeriesValues(r) = values
  BY DEF SeriesValues, S
<1>9. values \in [1 .. Cardinality(S) -> Values]
  BY <1>7
<1> HIDE DEF values
<1> QED
  BY <1>4, <1>8, <1>9

ShownTyped == shown \in Seq(Values)

LEMMA ShownInvariance == HistorySpec => []ShownTyped
<1>1. HistoryInit => ShownTyped
  BY DEF HistoryInit, ShownTyped
<1>2. ASSUME IInv, IInv', ShownTyped, [HistoryNext]_vars
      PROVE  ShownTyped'
  <2>1. CASE UNCHANGED shown
    BY <1>2, <2>1 DEF ShownTyped
  <2>2. CASE shown' = SeriesValues(ring')
    <3>1. SeriesValues(ring') \in Seq(Values)
      BY <1>2, SeriesTyped DEF IInv, TypeOK
    <3> QED
      BY <2>2, <3>1 DEF ShownTyped
  <2>3. CASE shown' = SeriesValues(ring)
    <3>1. SeriesValues(ring) \in Seq(Values)
      BY <1>2, SeriesTyped DEF IInv, TypeOK
    <3> QED
      BY <2>3, <3>1 DEF ShownTyped
  <2> QED
    BY <1>2, <2>1, <2>2, <2>3
       DEF HistoryNext, AccumulateValue, Accumulate, Backfill, PutRow, vars
<1>3. HistorySpec => []IInv
  BY HistoryIsRing, Invariance, PTL
<1> QED
  BY <1>1, <1>2, <1>3, PTL DEF HistorySpec

LEMMA ChartsDrawn ==
  ASSUME ShownTyped, NEW z \in ChartSizes
  PROVE  /\ shown \in Seq(Int)
         /\ z[1] \in Nat \ {0}
         /\ Body(z[2]) \in Nat \ {0}
<1>1. shown \in Seq(Int)
  BY ChartAssumption, SeqMonotonic DEF ShownTyped
<1>2. z[1] \in Nat \ {0} /\ z[2] \in Nat \ {0}
  BY ChartAssumption
<1> QED
  BY <1>1, <1>2 DEF Body

\* Every series a client is shown is one curve from its oldest to its newest sample,
\* in a panel of any size.
THEOREM CurvesUnbroken == HistorySpec => []CurveUnbroken
<1>1. ShownTyped => CurveUnbroken
  BY ChartsDrawn, OneCurve DEF CurveUnbroken
<1> QED
  BY <1>1, ShownInvariance, PTL

\* Of two samples the greater has its dot and the row of its block no lower, the end of
\* its block no lower unless it is the greatest of all, and each chart uses its whole
\* height.
THEOREM ChartsToScale == HistorySpec => []ScaleHonest
<1>1. ShownTyped => ScaleHonest
  BY ChartsDrawn, ToScale DEF ScaleHonest
<1> QED
  BY <1>1, ShownInvariance, PTL

-------------------------------------------------------------------------------
(* A ring for statistics *)

\* A row that starts with the k-th period is in bucket k.
LEMMA PeriodIsBucket ==
  ASSUME NEW k \in Nat
  PROVE  bucketOf(k * bucket) = k
<1> DEFINE q == (k * bucket) \div bucket
           r == (k * bucket) % bucket
<1>1. k * bucket \in Nat
  BY RingAssumption
<1> HIDE DEF q, r
<1>2. q \in Int /\ r \in 0 .. bucket - 1 /\ k * bucket = bucket * q + r
  BY <1>1, RingAssumption DEF q, r
<1>3. bucket * (k - q) = r
  BY <1>2, RingAssumption
<1>4. ~(0 < k - q)
  <2> SUFFICES ASSUME 0 < k - q PROVE FALSE
    OBVIOUS
  <2>1. bucket <= bucket * (k - q)
    BY <1>2, RingAssumption, NoMultipleBelow
  <2> QED
    BY <1>2, <1>3, <2>1, RingAssumption
<1>5. ~(k - q < 0)
  BY <1>2, <1>3, RingAssumption
<1> QED
  BY <1>2, <1>4, <1>5 DEF bucketOf, q

\* The ring main gives a series of statistics (FINDING E4) holds the whole window:
\* of two rows that start no further apart than the window the older is inside the
\* newer one's, and they never share a slot.  So no row of a backfill is dropped as
\* too old or evicted by another, and no bucket between two periods stays empty.
THEOREM StatisticsFit ==
  ASSUME NEW window \in Nat, StatTracker(window, bucket).n = n,
         NEW j \in Nat, NEW k \in Nat, j <= k,
         k * bucket - j * bucket <= window
  PROVE  /\ bucketOf(j * bucket) > bucketOf(k * bucket) - n
         /\ j # k => slotOf(bucketOf(j * bucket)) # slotOf(bucketOf(k * bucket))
<1> DEFINE q == window \div bucket
           r == window % bucket
<1>1. n = q + 1
  BY DEF StatTracker
<1> HIDE DEF q, r
<1>2. q \in Nat /\ r \in 0 .. bucket - 1 /\ window = bucket * q + r
  BY RingAssumption DEF q, r
<1>3. bucket * (k - j) < bucket * (q + 1)
  BY <1>2, RingAssumption
<1>4. 0 < bucket * (q + 1 - (k - j))
  BY <1>2, <1>3, RingAssumption
<1>5. 0 < q + 1 - (k - j)
  BY <1>2, <1>4, PositiveFactor, RingAssumption
<1>6. j > k - n
  BY <1>1, <1>2, <1>5
<1>7. j # k => slotOf(j) # slotOf(k)
  BY <1>6, SlotsDistinct, RingAssumption
<1> QED
  BY <1>6, <1>7, PeriodIsBucket
===============================================================================
