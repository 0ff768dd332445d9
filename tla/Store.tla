--------------------------------- MODULE Store ---------------------------------
(***************************************************************************)
(* internal/state/store.go: the live mirror of Home Assistant's entities.  *)
(*                                                                         *)
(* One goroutine, Run, owns the cache: in a loop it applies the events the *)
(* protocol reader queued, registers and drops subscribers, and on a tick  *)
(* publishes a snapshot, calling every subscriber.  The reader queues an   *)
(* event with Ingest, whose three channel operations are three steps.      *)
(*                                                                         *)
(* The module defines the store's own steps.  Mirror.tla gives it a Home   *)
(* Assistant to mirror, and Sessions.tla the sessions that subscribe.      *)
(* An event carries its number, and the store's copy of what it has        *)
(* applied remembers the last number: neither is in the code, they let the *)
(* properties say how recent a snapshot is.                                *)
(***************************************************************************)
EXTENDS Compressed, Sequences

CONSTANTS
    Capacity,       \* capacity of s.in, 64 in NewStore
    Heartbeat,      \* s.Heartbeat, in ticks
    NoEvent         \* Ingest is not running

ASSUME StoreAssumption ==
    /\ Capacity \in Nat \ {0}
    /\ Heartbeat \in Nat \ {0}

VARIABLES
    in,         \* s.in
    held,       \* ev in Ingest, or NoEvent
    ingest,     \* where Ingest is: "offer", "evict", "retry"
    cache,      \* the writer's entity cache
    applied,    \* number of the last event taken from s.in
    dirty,      \* the cache has changed since the last publish
    elapsed,    \* ticks since lastPublish, up to Heartbeat
    tick,       \* a tick is waiting in t.C
    snap,       \* s.snap: the cache as it was published, and how recent it was
    writer,     \* where Run is: "select", "publish", "stopped"
    subs,       \* the registered callbacks, by id
    nextID,     \* the next subscription's id
    calls       \* subscriptions this publish has yet to call

queueVars == <<in, held, ingest>>
cacheVars == <<cache, applied>>
publishVars == <<dirty, elapsed, snap>>
subVars == <<subs, nextID, calls>>
storeVars == <<queueVars, cacheVars, publishVars, tick, writer, subVars>>

\* NewStore, and the head of Run.
StoreInit ==
    /\ in = <<>>
    /\ held = NoEvent
    /\ ingest = "offer"
    /\ cache = EmptyCache
    /\ applied = 0
    /\ dirty = FALSE
    /\ elapsed = 0
    /\ tick = FALSE
    /\ snap = [view |-> EmptyCache, applied |-> 0]
    /\ writer = "select"
    /\ subs = EmptyCache
    /\ nextID = 1
    /\ calls = {}

-------------------------------------------------------------------------------
(* Ingest *)

Full == Len(in) = Capacity

IngestBegin(ev) ==
    /\ held = NoEvent
    /\ held' = ev
    /\ UNCHANGED <<in, ingest>>

\* The first select: queue the event, or find the queue full.
IngestOffer ==
    /\ held # NoEvent
    /\ ingest = "offer"
    /\ IF Full
       THEN ingest' = "evict" /\ UNCHANGED <<in, held>>
       ELSE in' = Append(in, held) /\ held' = NoEvent /\ UNCHANGED ingest

\* The second: drop the oldest, unless the writer has emptied the queue since.
IngestEvict ==
    /\ ingest = "evict"
    /\ in' = IF in = <<>> THEN in ELSE Tail(in)
    /\ ingest' = "retry"
    /\ UNCHANGED held

\* The third: queue the event, or give it up.
IngestRetry ==
    /\ ingest = "retry"
    /\ in' = IF Full THEN in ELSE Append(in, held)
    /\ held' = NoEvent
    /\ ingest' = "offer"

-------------------------------------------------------------------------------
(* Run.  The select takes any case that is ready.                            *)

\* <-s.in.  An event that cannot be applied to its end leaves dirty alone.
WriterApply ==
    /\ writer = "select"
    /\ in # <<>>
    /\ \E r \in Apply(cache, Head(in)) :
          /\ cache' = r.cache
          /\ dirty' = (dirty \/ r.ok)
    /\ applied' = Head(in).number
    /\ in' = Tail(in)
    /\ UNCHANGED <<held, ingest, elapsed, snap, tick, writer, subVars>>

\* The ticker: t.C holds one tick, further ones are lost.
Tick ==
    /\ tick' = TRUE
    /\ elapsed' = IF elapsed < Heartbeat THEN elapsed + 1 ELSE elapsed
    /\ UNCHANGED <<queueVars, cacheVars, dirty, snap, writer, subVars>>

\* <-t.C with nothing to say yet.
WriterIdle ==
    /\ writer = "select"
    /\ tick
    /\ ~dirty
    /\ elapsed < Heartbeat
    /\ tick' = FALSE
    /\ UNCHANGED <<queueVars, cacheVars, publishVars, writer, subVars>>

\* An idle store does not publish: the heartbeat is missing.
WriterPublish_OnlyDirty ==
    /\ writer = "select"
    /\ tick
    /\ dirty
    /\ tick' = FALSE
    /\ snap' = [view |-> cache, applied |-> applied]
    /\ calls' = DOMAIN subs
    /\ writer' = "publish"
    /\ dirty' = FALSE
    /\ elapsed' = 0
    /\ UNCHANGED <<queueVars, cacheVars, subs, nextID>>

\* publish, up to its callbacks.  dirty and lastPublish, which only Run reads,
\* are set when they are done, to the time taken before them.
WriterPublish ==
    /\ writer = "select"
    /\ tick
    /\ dirty \/ elapsed = Heartbeat
    /\ tick' = FALSE
    /\ snap' = [view |-> cache, applied |-> applied]
    /\ calls' = DOMAIN subs
    /\ writer' = "publish"
    /\ dirty' = FALSE
    /\ elapsed' = 0
    /\ UNCHANGED <<queueVars, cacheVars, subs, nextID>>

\* fn(snap), for the subscriptions in any order; the effect of fn is its owner's.
WriterCall(id) ==
    /\ writer = "publish"
    /\ id \in calls
    /\ calls' = calls \ {id}
    /\ UNCHANGED <<queueVars, cacheVars, publishVars, tick, writer, subs, nextID>>

WriterPublished ==
    /\ writer = "publish"
    /\ calls = {}
    /\ writer' = "select"
    /\ UNCHANGED <<queueVars, cacheVars, publishVars, tick, subVars>>

\* <-s.subs, a registration: the subscription's id goes into resp, which has room.
WriterAdd(fn) ==
    /\ writer = "select"
    /\ subs' = Over(subs, [id \in {nextID} |-> fn])
    /\ nextID' = nextID + 1
    /\ UNCHANGED <<queueVars, cacheVars, publishVars, tick, writer, calls>>

\* <-s.subs, a removal, acknowledged the same way.
WriterDrop(id) ==
    /\ writer = "select"
    /\ subs' = Without(subs, {id})
    /\ UNCHANGED <<queueVars, cacheVars, publishVars, tick, writer, nextID, calls>>

\* <-ctx.Done(), and the deferred close(s.stopped).
WriterStop ==
    /\ writer = "select"
    /\ writer' = "stopped"
    /\ UNCHANGED <<queueVars, cacheVars, publishVars, tick, subVars>>

===============================================================================
