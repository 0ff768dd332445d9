------------------------------- MODULE Sessions -------------------------------
(***************************************************************************)
(* internal/server/serve.go: the sessions that subscribe to the store.     *)
(*                                                                         *)
(* newProgram starts one goroutine per session.  It subscribes to the      *)
(* store, waits for the end of the session, unsubscribes and closes its    *)
(* sink.  The store's writer calls it back with every snapshot; the sink   *)
(* takes the snapshot to the session's Bubble Tea program, whose Send      *)
(* waits for as long as the client does not read.                          *)
(*                                                                         *)
(* The store is Store.tla's.  What its events say does not matter here:    *)
(* they are empty, and a snapshot is known by the last event in it.  The   *)
(* sink is Mailbox.tla's, which Sink.tla implements, with the snapshots    *)
(* themselves in place of their numbers: a slot, the frame in Send, and    *)
(* the frame on the screen.  The end of a session is external: the SSH     *)
(* server cancels its context when the connection dies.                    *)
(***************************************************************************)
EXTENDS Store, FiniteSets

CONSTANTS
    Clients,        \* the SSH sessions there will be
    MaxEvents       \* bound: events that arrive; the queue holds them all

ASSUME SessionsAssumption ==
    /\ Entities = {}
    /\ MaxEvents \in 0 .. Capacity

VARIABLES
    events,     \* events so far
    life,       \* per session: "absent", "running", "over" (the program has quit), "ended"
    pc,         \* where its goroutine is
    mine,       \* the id it has been given, 0 if none
    loop,       \* its sink's goroutine runs
    slot,       \* its sink's slot: empty or one snapshot
    hand,       \* the snapshot in p.Send
    screen      \* the snapshot its program shows

sessionVars == <<life, pc, mine, loop, slot, hand, screen>>
vars == <<storeVars, events, sessionVars>>

Event == [add |-> EmptyCache, change |-> EmptyCache, remove |-> {},
          number |-> events + 1]

Init ==
    /\ StoreInit
    /\ events = 0
    /\ life = [s \in Clients |-> "absent"]
    /\ pc = [s \in Clients |-> "absent"]
    /\ mine = [s \in Clients |-> 0]
    /\ loop = [s \in Clients |-> FALSE]
    /\ slot = [s \in Clients |-> {}]
    /\ hand = [s \in Clients |-> {}]
    /\ screen = [s \in Clients |-> 0]

-------------------------------------------------------------------------------
(* The store *)

Arrive ==
    /\ events < MaxEvents
    /\ events' = events + 1
    /\ in' = Append(in, Event)
    /\ UNCHANGED <<held, ingest, cacheVars, publishVars, tick, writer, subVars,
                   sessionVars>>

ApplyEvent == WriterApply /\ UNCHANGED <<events, sessionVars>>
Ticker == Tick /\ UNCHANGED <<events, sessionVars>>
Idle == WriterIdle /\ UNCHANGED <<events, sessionVars>>
Publish == WriterPublish /\ UNCHANGED <<events, sessionVars>>
PublishEnd == WriterPublished /\ UNCHANGED <<events, sessionVars>>
Stop == WriterStop /\ UNCHANGED <<events, sessionVars>>

\* The callback hands its snapshot to Bubble Tea instead of the sink: it waits
\* until the client has taken the one before.
Call_Sends ==
    \E id \in calls :
        /\ WriterCall(id)
        /\ slot[subs[id]] = {}
        /\ slot' = [slot EXCEPT ![subs[id]] = {snap.applied}]
        /\ UNCHANGED <<events, life, pc, mine, loop, hand, screen>>

\* The callback: Push replaces what is in the slot.
Call ==
    \E id \in calls :
        /\ WriterCall(id)
        /\ slot' = [slot EXCEPT ![subs[id]] = {snap.applied}]
        /\ UNCHANGED <<events, life, pc, mine, loop, hand, screen>>

-------------------------------------------------------------------------------
(* A session's program *)

Goto(s, there) == pc' = [pc EXCEPT ![s] = there]

\* newProgram: the program starts with the snapshot there is, the goroutine with
\* a sink.
Open(s) ==
    /\ pc[s] = "absent"
    /\ life' = [life EXCEPT ![s] = "running"]
    /\ screen' = [screen EXCEPT ![s] = snap.applied]
    /\ loop' = [loop EXCEPT ![s] = TRUE]
    /\ Goto(s, "subscribe")
    /\ UNCHANGED <<storeVars, events, mine, slot, hand>>

\* q, ctrl+c or esc: Update returns tea.Quit.
Quit(s) ==
    /\ life[s] = "running"
    /\ life' = [life EXCEPT ![s] = "over"]
    /\ UNCHANGED <<storeVars, events, pc, mine, loop, slot, hand, screen>>

\* The session's context is cancelled.
End(s) ==
    /\ life[s] \in {"running", "over"}
    /\ life' = [life EXCEPT ![s] = "ended"]
    /\ UNCHANGED <<storeVars, events, pc, mine, loop, slot, hand, screen>>

\* The sink's goroutine takes the frame out of the slot and calls p.Send.
Take(s) ==
    /\ loop[s]
    /\ slot[s] # {}
    /\ hand[s] = {}
    /\ hand' = [hand EXCEPT ![s] = slot[s]]
    /\ slot' = [slot EXCEPT ![s] = {}]
    /\ UNCHANGED <<storeVars, events, life, pc, mine, loop, screen>>

\* Send is accepted, and Update takes the snapshot.
Show(s) ==
    /\ hand[s] # {}
    /\ life[s] = "running"
    /\ \E v \in hand[s] : screen' = [screen EXCEPT ![s] = v]
    /\ hand' = [hand EXCEPT ![s] = {}]
    /\ UNCHANGED <<storeVars, events, life, pc, mine, loop, slot>>

\* Send returns without effect: the program or its context is done.
Discard(s) ==
    /\ hand[s] # {}
    /\ life[s] \in {"over", "ended"}
    /\ hand' = [hand EXCEPT ![s] = {}]
    /\ UNCHANGED <<storeVars, events, life, pc, mine, loop, slot, screen>>

\* The sink's loop finds its context cancelled.
LoopEnds(s) ==
    /\ loop[s]
    /\ hand[s] = {}
    /\ life[s] = "ended"
    /\ loop' = [loop EXCEPT ![s] = FALSE]
    /\ UNCHANGED <<storeVars, events, life, pc, mine, slot, hand, screen>>

-------------------------------------------------------------------------------
(* A session's goroutine *)

\* Subscribe: the writer takes the registration and answers with the id.
Register(s) ==
    /\ pc[s] = "subscribe"
    /\ WriterAdd(s)
    /\ mine' = [mine EXCEPT ![s] = nextID]
    /\ Goto(s, "await id")
    /\ UNCHANGED <<events, life, loop, slot, hand, screen>>

Registered(s) ==
    /\ pc[s] = "await id"
    /\ Goto(s, "live")
    /\ UNCHANGED <<storeVars, events, life, mine, loop, slot, hand, screen>>

\* Either select can find the store stopped; unsub then does nothing.
NotRegistered(s) ==
    /\ pc[s] \in {"subscribe", "await id"}
    /\ writer = "stopped"
    /\ mine' = [mine EXCEPT ![s] = 0]
    /\ Goto(s, "live")
    /\ UNCHANGED <<storeVars, events, life, loop, slot, hand, screen>>

\* <-s.Context().Done(), and the deferred unsub begins.
Leave(s) ==
    /\ pc[s] = "live"
    /\ life[s] = "ended"
    /\ Goto(s, IF mine[s] = 0 THEN "close" ELSE "unsubscribe")
    /\ UNCHANGED <<storeVars, events, life, mine, loop, slot, hand, screen>>

\* The unsubscribe the comment on Subscribe tells of: a send that is given up
\* when the writer is busy.
Unregister_BestEffort(s) ==
    /\ pc[s] = "unsubscribe"
    /\ IF writer = "select" THEN WriterDrop(mine[s]) ELSE UNCHANGED storeVars
    /\ Goto(s, "close")
    /\ UNCHANGED <<events, life, mine, loop, slot, hand, screen>>

\* unsub waits for the writer to take the removal, and for its answer.
Unregister(s) ==
    /\ pc[s] = "unsubscribe"
    /\ WriterDrop(mine[s])
    /\ Goto(s, "await ack")
    /\ UNCHANGED <<events, life, mine, loop, slot, hand, screen>>

Unregistered(s) ==
    /\ pc[s] = "await ack"
    /\ Goto(s, "close")
    /\ UNCHANGED <<storeVars, events, life, mine, loop, slot, hand, screen>>

\* Waiting for the writer alone, which is gone.
StoreGone_Unnoticed(s) ==
    /\ pc[s] = "await ack"
    /\ writer = "stopped"
    /\ Goto(s, "close")
    /\ UNCHANGED <<storeVars, events, life, mine, loop, slot, hand, screen>>

\* Both of unsub's selects end when the store stops.
StoreGone(s) ==
    /\ pc[s] \in {"unsubscribe", "await ack"}
    /\ writer = "stopped"
    /\ Goto(s, "close")
    /\ UNCHANGED <<storeVars, events, life, mine, loop, slot, hand, screen>>

\* The deferred sink.Close: wait for the sink's goroutine.
Close(s) ==
    /\ pc[s] = "close"
    /\ ~loop[s]
    /\ Goto(s, "gone")
    /\ UNCHANGED <<storeVars, events, life, mine, loop, slot, hand, screen>>

\* What a session does once it is open.
Running(s) ==
    \/ Quit(s) \/ End(s)
    \/ Take(s) \/ Show(s) \/ Discard(s) \/ LoopEnds(s)
    \/ Register(s) \/ Registered(s) \/ NotRegistered(s) \/ Leave(s)
    \/ Unregister(s) \/ Unregistered(s) \/ StoreGone(s) \/ Close(s)

StoreRuns ==
    Arrive \/ ApplyEvent \/ Ticker \/ Idle \/ Publish \/ PublishEnd \/ Call

Next ==
    \/ StoreRuns \/ Stop
    \/ \E s \in Clients : Open(s) \/ Running(s)

Spec == Init /\ [][Next]_vars

\* Goroutines that can go on do; the writer's select passes no ready case over
\* for ever.  Nothing is assumed of users, clients, events or the shutdown: only
\* that a program that quits has its session ended, which is the SSH server's.
Scheduling ==
    /\ WF_vars(Ticker)
    /\ WF_vars(Idle)
    /\ WF_vars(PublishEnd)
    /\ WF_vars(Call)
    /\ SF_vars(Publish)
    /\ SF_vars(ApplyEvent)
    /\ \A s \in Clients :
          /\ WF_vars(Take(s))
          /\ WF_vars(Discard(s))
          /\ WF_vars(LoopEnds(s))
          /\ SF_vars(Register(s))
          /\ SF_vars(Unregister(s))
          /\ WF_vars(Registered(s) \/ NotRegistered(s))
          /\ WF_vars(Leave(s))
          /\ WF_vars(Unregistered(s) \/ StoreGone(s))
          /\ WF_vars(Close(s))
          /\ WF_vars(life[s] = "over" /\ End(s))

FairSpec == Spec /\ Scheduling

-------------------------------------------------------------------------------

PCs == {"absent", "subscribe", "await id", "live", "unsubscribe", "await ack",
        "close", "gone"}

\* Who the store calls back.
Called == {subs[id] : id \in DOMAIN subs}

\* When unsub has returned the session is not called back any more: its
\* registration is gone, or the writer is.
Unhooked ==
    \A s \in Clients :
        pc[s] \in {"close", "gone"} => s \notin Called \/ writer = "stopped"

\* No session's coming or going ends another's registration: until a session
\* unsubscribes, the id it was given is its own.
RegistrationKept ==
    \A s \in Clients :
        /\ pc[s] \in {"await id", "live", "unsubscribe"}
        /\ mine[s] # 0
        => mine[s] \in DOMAIN subs /\ subs[mine[s]] = s

\* No session can hold the writer up, however long its client does not read.
WriterFree == []<>(writer # "publish")

\* A session's goroutine ends when the session has, also when the store stops
\* before or while it unsubscribes: nothing is leaked.
GoroutineEnds == \A s \in Clients : life[s] = "ended" ~> pc[s] = "gone"

\* A client that keeps reading is shown the newest snapshot, again and again,
\* as long as its session and the store last.  That includes what was published
\* after newProgram read the first snapshot and before the session was
\* registered, which is not sent to it then.
ShowsNewest ==
    \A s \in Clients :
        WF_vars(Show(s)) =>
            (life[s] = "running" ~>
                \/ screen[s] = snap.applied /\ pc[s] = "live"
                \/ life[s] # "running"
                \/ writer = "stopped")

===============================================================================
