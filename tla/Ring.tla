--------------------------------- MODULE Ring ---------------------------------
(***************************************************************************)
(* internal/state/ring.go: the fixed buffer behind one chart series.       *)
(*                                                                         *)
(* Time is cut into buckets; bucket b lives in slot b % n for as long as   *)
(* it is among the n newest.  Two sources write into one buffer: live      *)
(* values, at every publish of the store, and statistics, whenever Home    *)
(* Assistant answers a backfill request.  Both go through Put, under the   *)
(* store's trackMu, so one Put is one step.                                *)
(*                                                                         *)
(* The buffer is a record, and Put an operator on it, so that a history of *)
(* calls can be replayed in another order.                                 *)
(***************************************************************************)
EXTENDS Integers

CONSTANTS
    n,          \* len(r.slots)
    bucket,     \* length of a bucket, in units of time
    Values,     \* what a series can hold
    Times,      \* when a sample can have been taken
    Revs        \* fetch sequence numbers of statistics

ASSUME RingAssumption ==
    /\ n \in Nat
    /\ bucket \in Nat \ {0}
    /\ Times \subseteq Nat
    /\ Revs \subseteq Nat

VARIABLE ring

Samples == [t : Times, v : Values, src : {"live"}, rev : {0}]
              \cup [t : Times, v : Values, src : {"stats"}, rev : Revs]

\* What a slot holds before its first sample; its idx is -1, and nobody reads it.
Zero == [t |-> 0, v |-> 0, src |-> "live", rev |-> 0]

Slot == 0 .. n - 1

NewRing == [slots |-> [i \in Slot |-> Zero], idx |-> [i \in Slot |-> -1],
            newest |-> -1]

bucketOf(t) == t \div bucket

slotOf(b) == b % n

\* A definition X_Slip is the X below it with a slip a programmer could make: no
\* part of the specification, it shows what the properties exclude.

\* The switch of Put without its second case's comparison: any statistics win.
Supersedes_AnyStats(s, cur) == s.src = "stats"

\* Does s replace cur, the sample its bucket holds already?
Supersedes(s, cur) ==
    /\ s.src = "stats"
    /\ cur.src = "live" \/ s.rev > cur.rev

\* The check against the window is missing.
PutInto_NoWindow(r, s) ==
    LET b == bucketOf(s.t)
        i == slotOf(b)
        newest == IF b > r.newest THEN b ELSE r.newest
    IN  IF n = 0
        THEN r
        ELSE IF r.idx[i] # b \/ Supersedes(s, r.slots[i])
        THEN [slots  |-> [r.slots EXCEPT ![i] = s],
              idx    |-> [r.idx EXCEPT ![i] = b],
              newest |-> newest]
        ELSE [r EXCEPT !.newest = newest]

PutInto(r, s) ==
    LET b == bucketOf(s.t)
        i == slotOf(b)
        newest == IF b > r.newest THEN b ELSE r.newest
    IN  IF n = 0 \/ b <= newest - n     \* then r.newest is newest already
        THEN r
        ELSE IF r.idx[i] # b \/ Supersedes(s, r.slots[i])
        THEN [slots  |-> [r.slots EXCEPT ![i] = s],
              idx    |-> [r.idx EXCEPT ![i] = b],
              newest |-> newest]
        ELSE [r EXCEPT !.newest = newest]

\* The buckets Series returns a sample of.
Retained(r) ==
    {b \in r.newest - n + 1 .. r.newest : b >= 0 /\ r.idx[slotOf(b)] = b}

Series(r) == {<<b, r.slots[slotOf(b)]>> : b \in Retained(r)}

Init == ring = NewRing

Put(s) == ring' = PutInto(ring, s)

Next == \E s \in Samples : Put(s)

Spec == Init /\ [][Next]_ring

-------------------------------------------------------------------------------

\* Types; a slot in use holds a sample that was put.
TypeOK ==
    /\ ring \in [slots : [Slot -> Samples \cup {Zero}],
                 idx : [Slot -> Int],
                 newest : Int]
    /\ ring.newest >= -1
    /\ \A i \in Slot : ring.idx[i] = -1 \/ ring.slots[i] \in Samples

\* A slot that is in use holds a sample of the very bucket its index names,
\* that bucket belongs in that slot, and none is newer than the newest.  Series
\* reads samples in the order of their indices, so a chart never runs backwards.
SlotsConsistent ==
    \A i \in Slot :
        ring.idx[i] # -1 =>
            /\ ring.idx[i] \in 0 .. ring.newest
            /\ slotOf(ring.idx[i]) = i
            /\ bucketOf(ring.slots[i].t) = ring.idx[i]

\* A slot is only ever given up to a newer bucket: a late sample never evicts
\* anything.
OnlyNewerEvicts == \A i \in Slot : ring'.idx[i] >= ring.idx[i]
EvictionIsForward == [][OnlyNewerEvicts]_ring

\* While a bucket keeps its slot, its sample only gains authority: statistics
\* are never lost to a live value, nor a revision to an older one, and a value
\* of equal standing never replaces the first.
Authority(s) == IF s.src = "live" THEN -1 ELSE s.rev
GainsAuthority ==
    \A i \in Slot :
        ring'.idx[i] = ring.idx[i] =>
            \/ ring'.slots[i] = ring.slots[i]
            \/ Authority(ring'.slots[i]) > Authority(ring.slots[i])
AuthorityIsKept == [][GainsAuthority]_ring

===============================================================================
