-------------------------------- MODULE Mirror --------------------------------
(***************************************************************************)
(* The store as a mirror of Home Assistant: entities that appear, change   *)
(* and go, the events about them on the wire, the reader that queues them, *)
(* connections that are lost and made again, and the store's writer.       *)
(*                                                                         *)
(* Home Assistant is external.  It tells a new subscriber everything, then *)
(* what has changed; what is on the wire when the connection goes is lost. *)
(*                                                                         *)
(* Four variables are there for the properties only: view, trusted, ghosts *)
(* and sent are not in the code.                                           *)
(***************************************************************************)
EXTENDS Store

CONSTANTS
    Worlds,         \* what Home Assistant's entities may be
    MaxChanges,     \* bound: changes of the world
    MaxConnects,    \* bound: connections
    MaxFaults       \* bound: events that arrive with a malformed entry

\* The events there are: an entry may be malformed, and the view is the world the
\* event leads to.
Messages ==
    [add : Partial(Entities, EntityState \cup {Malformed}),
     change : Partial(Entities, Diffs \cup {Malformed}),
     remove : SUBSET Entities, number : Nat, view : Caches, full : BOOLEAN]

ASSUME MirrorAssumption ==
    /\ Worlds \subseteq Caches
    /\ NoEvent \notin Messages
    /\ MaxChanges \in Nat
    /\ MaxConnects \in Nat
    /\ MaxFaults \in Nat

VARIABLES
    world,      \* Home Assistant's entities
    up,         \* the connection is there
    wire,       \* events sent and not read
    changes,    \* changes so far
    connects,   \* connections so far
    faults,     \* malformed events so far
    sent,       \* number of the last event sent
    view,       \* the world as of the last event applied
    trusted,    \* no event was lost or malformed since the last full one
    ghosts      \* entities cached before a reconnect that are gone after it

sourceVars == <<world, up, wire, changes, connects, sent>>
ghostVars == <<view, trusted, ghosts>>
vars == <<storeVars, sourceVars, faults, ghostVars>>

Init ==
    /\ StoreInit
    /\ world \in Worlds
    /\ up = FALSE
    /\ wire = <<>>
    /\ changes = 0
    /\ connects = 0
    /\ faults = 0
    /\ sent = 0
    /\ view = EmptyCache
    /\ trusted = TRUE
    /\ ghosts = {}

\* The event that tells a client that knows old about new.
Message(old, new, isFull) ==
    LET ev == EventOf(old, new)
    IN  [add |-> ev.add, change |-> ev.change, remove |-> ev.remove,
         number |-> sent + 1, view |-> new, full |-> isFull]

-------------------------------------------------------------------------------
(* Home Assistant and the connection *)

Change ==
    /\ changes < MaxChanges
    /\ changes' = changes + 1
    /\ \E new \in Worlds \ {world} :
          /\ world' = new
          /\ IF up
             THEN wire' = Append(wire, Message(world, new, FALSE)) /\ sent' = sent + 1
             ELSE UNCHANGED <<wire, sent>>
    /\ UNCHANGED <<storeVars, up, connects, faults, ghostVars>>

\* Run dials and subscribes; it is not in Ingest then.
Connect ==
    /\ ~up
    /\ held = NoEvent
    /\ connects < MaxConnects
    /\ connects' = connects + 1
    /\ up' = TRUE
    /\ wire' = <<Message(EmptyCache, world, TRUE)>>
    /\ sent' = sent + 1
    /\ UNCHANGED <<storeVars, world, changes, faults, ghostVars>>

Disconnect ==
    /\ up
    /\ up' = FALSE
    /\ wire' = <<>>
    /\ UNCHANGED <<storeVars, world, changes, connects, sent, faults, ghostVars>>

-------------------------------------------------------------------------------
(* The reader: Read, then Ingest, then Read again. *)

Read ==
    /\ wire # <<>>
    /\ IngestBegin(Head(wire))
    /\ wire' = Tail(wire)
    /\ UNCHANGED <<world, up, changes, connects, sent, faults, ghostVars,
                   cacheVars, publishVars, tick, writer, subVars>>

\* One entry of the event is no JSON object.
ReadFaulty ==
    /\ wire # <<>>
    /\ faults < MaxFaults
    /\ faults' = faults + 1
    /\ LET ev == Head(wire)
       IN  \/ \E e \in DOMAIN ev.add :
                 IngestBegin([ev EXCEPT !.add[e] = Malformed])
           \/ \E e \in DOMAIN ev.change :
                 IngestBegin([ev EXCEPT !.change[e] = Malformed])
    /\ wire' = Tail(wire)
    /\ UNCHANGED <<world, up, changes, connects, sent, ghostVars,
                   cacheVars, publishVars, tick, writer, subVars>>

Ingest ==
    /\ IngestOffer \/ IngestRetry
    /\ UNCHANGED <<sourceVars, faults, ghostVars,
                   cacheVars, publishVars, tick, writer, subVars>>

\* An event dropped is an event lost.
Evict ==
    /\ IngestEvict
    /\ trusted' = (trusted /\ in' = in)
    /\ UNCHANGED <<sourceVars, faults, view, ghosts,
                   cacheVars, publishVars, tick, writer, subVars>>

-------------------------------------------------------------------------------
(* The store's writer *)

Decodes(ev) ==
    /\ WellFormed(ev.add) = DOMAIN ev.add
    /\ WellFormed(ev.change) = DOMAIN ev.change

ApplyEvent ==
    /\ WriterApply
    /\ LET ev == Head(in)
       IN  /\ view' = ev.view
           /\ trusted' = (Decodes(ev) /\ (trusted \/ ev.full))
           /\ ghosts' = IF ev.full
                        THEN DOMAIN cache' \ DOMAIN ev.view
                        ELSE ghosts \ DOMAIN ev.view
    /\ UNCHANGED <<sourceVars, faults>>

Publish ==
    /\ WriterPublish
    /\ UNCHANGED <<sourceVars, faults, ghostVars>>

PublishEnd ==
    /\ WriterPublished
    /\ UNCHANGED <<sourceVars, faults, ghostVars>>

Idle ==
    /\ WriterIdle
    /\ UNCHANGED <<sourceVars, faults, ghostVars>>

Ticker ==
    /\ Tick
    /\ UNCHANGED <<sourceVars, faults, ghostVars>>

Next ==
    \/ Change \/ Connect \/ Disconnect
    \/ Read \/ ReadFaulty \/ Ingest \/ Evict
    \/ ApplyEvent \/ Publish \/ PublishEnd \/ Idle \/ Ticker

Spec == Init /\ [][Next]_vars

\* The reader, the ticker and the writer run.  The writer's select picks at
\* random among the cases that are ready, so that none is passed over for ever.
\* Nothing is assumed of Home Assistant or the network.
Scheduling ==
    /\ WF_vars(Read)
    /\ WF_vars(Ingest)
    /\ WF_vars(Evict)
    /\ WF_vars(Ticker)
    /\ WF_vars(Idle)
    /\ WF_vars(PublishEnd)
    /\ SF_vars(Publish)
    /\ SF_vars(ApplyEvent)

FairSpec == Spec /\ Scheduling

-------------------------------------------------------------------------------

\* c shows every entity of the world w as it is in w.
Shows(c, w) == \A e \in DOMAIN w : e \in DOMAIN c /\ c[e] = w[e]

\* The cache is exactly what Home Assistant described up to the last event
\* applied: no attribute lost in a diff, none kept that was removed, nothing
\* made up.  It holds while nothing was lost since the last full event; what
\* disappeared during an outage stays, as a reconnect removes nothing.
CacheFaithful ==
    trusted => /\ Shows(cache, view)
               /\ DOMAIN cache = DOMAIN view \cup ghosts

\* Nothing more is on its way to the cache.
Drained == up /\ wire = <<>> /\ held = NoEvent /\ in = <<>>

\* Every event applied is published, even one that was applied in part and left
\* dirty alone.
Published == []<>(snap.applied = applied)

\* In the end the published snapshot shows the world.
SnapshotConverges == <>[](up /\ trusted => Shows(snap.view, world))

\* What Ingest's comment promises: falling behind is recoverable, so that a
\* store that has caught up again shows the world.
LagIsRecoverable == Drained => Shows(cache, world)

===============================================================================
