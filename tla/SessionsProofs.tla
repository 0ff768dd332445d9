---------------------------- MODULE SessionsProofs ----------------------------
(***************************************************************************)
(* Registrations are kept and ended as they should, for every set of       *)
(* clients, every heartbeat and every number of events.                    *)
(***************************************************************************)
EXTENDS Sessions, TLAPS

Registrable == {"await id", "live", "unsubscribe"}

\* The part of the types that the argument needs.
SubsTyped ==
    /\ nextID \in Nat \ {0}
    /\ pc \in [Clients -> PCs]
    /\ mine \in [Clients -> Nat]
    /\ \A id \in DOMAIN subs : id \in Nat /\ id # 0 /\ id < nextID
    /\ \A id \in DOMAIN subs : subs[id] \in Clients

\* As long as the writer runs, a registration belongs to a session that knows
\* its id and has not unsubscribed.
OwnersKnow ==
    writer # "stopped" =>
        \A id \in DOMAIN subs : mine[subs[id]] = id /\ pc[subs[id]] \in Registrable

\* Unhooked and RegistrationKept are not inductive: that a removal removes the
\* right registration, and no other session's, follows from OwnersKnow.
IInv == SubsTyped /\ RegistrationKept /\ OwnersKnow

sessVars == <<pc, mine, subs, nextID, writer>>

-------------------------------------------------------------------------------

LEMMA InitIInv == Init => IInv
<1> SUFFICES ASSUME Init PROVE IInv
  OBVIOUS
<1>1. DOMAIN subs = {}
  BY DEF Init, StoreInit, EmptyCache
<1>2. SubsTyped
  BY <1>1 DEF Init, StoreInit, SubsTyped, PCs
<1>3. RegistrationKept
  BY DEF Init, RegistrationKept
<1>4. OwnersKnow
  BY <1>1 DEF OwnersKnow
<1> QED
  BY <1>2, <1>3, <1>4 DEF IInv

\* The writer stays where it is, stopped or not, or stops.
LEMMA OthersIInv ==
  ASSUME IInv, UNCHANGED <<pc, mine, subs, nextID>>,
         writer = "stopped" => writer' = "stopped"
  PROVE  IInv'
BY DEF IInv, SubsTyped, RegistrationKept, OwnersKnow

\* A session moves and its registration is as it was.
LEMMA MoveIInv ==
  ASSUME IInv, NEW s \in Clients, NEW there \in PCs, Goto(s, there),
         UNCHANGED <<mine, subs, nextID, writer>>,
         there \in Registrable => pc[s] \in Registrable,
         pc[s] \in Registrable /\ there \notin Registrable =>
            mine[s] = 0 \/ writer = "stopped"
  PROVE  IInv'
<1>1. SubsTyped'
  BY DEF IInv, SubsTyped, Goto
<1>2. RegistrationKept'
  BY DEF IInv, SubsTyped, RegistrationKept, Goto, Registrable
<1>3. OwnersKnow'
  <2> SUFFICES ASSUME writer # "stopped", NEW id \in DOMAIN subs
               PROVE  mine[subs[id]] = id /\ pc'[subs[id]] \in Registrable
    BY DEF OwnersKnow
  <2>1. /\ mine[subs[id]] = id
        /\ pc[subs[id]] \in Registrable
        /\ id # 0
        /\ subs[id] \in Clients
    BY DEF IInv, SubsTyped, OwnersKnow
  <2>2. CASE subs[id] = s
    BY <2>1, <2>2 DEF Goto, IInv, SubsTyped
  <2>3. CASE subs[id] # s
    BY <2>1, <2>3 DEF Goto, IInv, SubsTyped
  <2> QED
    BY <2>1, <2>2, <2>3
<1> QED
  BY <1>1, <1>2, <1>3 DEF IInv

LEMMA RegisterIInv ==
  ASSUME IInv, NEW s \in Clients, Register(s)
  PROVE  IInv'
<1>1. /\ pc[s] = "subscribe"
      /\ pc' = [pc EXCEPT ![s] = "await id"]
      /\ mine' = [mine EXCEPT ![s] = nextID]
      /\ nextID' = nextID + 1
      /\ writer = "select" /\ writer' = writer
  BY DEF Register, WriterAdd, Goto
<1>2. /\ DOMAIN subs' = DOMAIN subs \cup {nextID}
      /\ subs'[nextID] = s
      /\ \A id \in DOMAIN subs : subs'[id] = subs[id]
  <2>1. \A id \in DOMAIN subs : id # nextID
    BY DEF IInv, SubsTyped
  <2>2. subs' = Over(subs, [id \in {nextID} |-> s])
    BY DEF Register, WriterAdd
  <2> QED
    BY <2>1, <2>2 DEF Over
<1>3. SubsTyped'
  <2>1. nextID \in Nat /\ nextID # 0 /\ nextID' = nextID + 1
    BY <1>1 DEF IInv, SubsTyped
  <2>2. nextID' \in Nat \ {0} /\ nextID < nextID'
    BY <2>1
  <2>3. pc' \in [Clients -> PCs]
    BY <1>1 DEF IInv, SubsTyped, PCs
  <2>4. mine' \in [Clients -> Nat]
    BY <1>1, <2>1 DEF IInv, SubsTyped
  <2>5. ASSUME NEW id \in DOMAIN subs'
        PROVE  id \in Nat /\ id # 0 /\ id < nextID'
    <3>1. id \in DOMAIN subs => id \in Nat /\ id # 0 /\ id < nextID
      BY DEF IInv, SubsTyped
    <3>2. id \in DOMAIN subs => id < nextID'
      BY <2>1, <2>2, <3>1
    <3> QED
      BY <1>2, <2>1, <2>2, <3>1, <3>2
  <2>6. ASSUME NEW id \in DOMAIN subs' PROVE subs'[id] \in Clients
    <3>1. id \in DOMAIN subs => subs[id] \in Clients
      BY DEF IInv, SubsTyped
    <3> QED
      BY <1>2, <3>1
  <2> QED
    BY <2>2, <2>3, <2>4, <2>5, <2>6 DEF SubsTyped
<1>4. RegistrationKept'
  BY <1>1, <1>2 DEF IInv, SubsTyped, RegistrationKept
<1>5. OwnersKnow'
  <2>1. ASSUME NEW id \in DOMAIN subs
        PROVE  mine'[subs'[id]] = id /\ pc'[subs'[id]] \in Registrable
    <3>1. /\ mine[subs[id]] = id
          /\ pc[subs[id]] \in Registrable
          /\ subs[id] \in Clients
      BY <1>1 DEF IInv, SubsTyped, OwnersKnow
    <3>2. subs[id] # s
      BY <1>1, <3>1 DEF Registrable
    <3>3. mine'[subs[id]] = mine[subs[id]] /\ pc'[subs[id]] = pc[subs[id]]
      BY <1>1, <3>1, <3>2 DEF IInv, SubsTyped
    <3> QED
      BY <1>2, <3>1, <3>3
  <2>2. mine'[subs'[nextID]] = nextID /\ pc'[subs'[nextID]] \in Registrable
    <3>1. mine'[s] = nextID /\ pc'[s] = "await id"
      BY <1>1 DEF IInv, SubsTyped
    <3> QED
      BY <1>2, <3>1 DEF Registrable
  <2> QED
    BY <1>2, <2>1, <2>2 DEF OwnersKnow
<1> QED
  BY <1>3, <1>4, <1>5 DEF IInv

LEMMA UnregisterIInv ==
  ASSUME IInv, NEW s \in Clients, Unregister(s)
  PROVE  IInv'
<1>1. /\ pc[s] = "unsubscribe"
      /\ pc' = [pc EXCEPT ![s] = "await ack"]
      /\ mine' = mine /\ nextID' = nextID /\ writer' = writer /\ writer = "select"
      /\ subs' = Without(subs, {mine[s]})
  BY DEF Unregister, WriterDrop, Goto
<1>2. /\ DOMAIN subs' = DOMAIN subs \ {mine[s]}
      /\ \A id \in DOMAIN subs' : subs'[id] = subs[id]
  BY <1>1 DEF Without
<1>3. SubsTyped'
  BY <1>1, <1>2 DEF IInv, SubsTyped, PCs
<1>4. ASSUME NEW t \in Clients \ {s}, mine[t] # 0, pc[t] \in Registrable
      PROVE  mine[t] # mine[s]
  <2>1. subs[mine[t]] = t
    BY <1>4 DEF IInv, RegistrationKept, Registrable
  <2>2. mine[s] # 0 => subs[mine[s]] = s
    BY <1>1 DEF IInv, RegistrationKept
  <2> QED
    BY <1>4, <2>1, <2>2
<1>5. RegistrationKept'
  BY <1>1, <1>2, <1>4 DEF IInv, SubsTyped, RegistrationKept, Registrable
<1>6. OwnersKnow'
  <2> SUFFICES ASSUME NEW id \in DOMAIN subs'
               PROVE  mine'[subs'[id]] = id /\ pc'[subs'[id]] \in Registrable
    BY DEF OwnersKnow
  <2>1. /\ mine[subs[id]] = id /\ pc[subs[id]] \in Registrable
        /\ subs[id] \in Clients /\ id # mine[s]
    BY <1>1, <1>2 DEF IInv, SubsTyped, OwnersKnow
  <2> QED
    BY <1>1, <1>2, <2>1 DEF IInv, SubsTyped
<1> QED
  BY <1>3, <1>5, <1>6 DEF IInv

\* mine is forgotten, but only when the writer has stopped.
LEMMA NotRegisteredIInv ==
  ASSUME IInv, NEW s \in Clients, NotRegistered(s)
  PROVE  IInv'
<1>1. /\ writer = "stopped"
      /\ UNCHANGED <<subs, nextID, writer>>
      /\ pc' = [pc EXCEPT ![s] = "live"]
      /\ mine' = [mine EXCEPT ![s] = 0]
  BY DEF NotRegistered, Goto, storeVars, subVars
<1>2. SubsTyped'
  BY <1>1 DEF IInv, SubsTyped, PCs
<1>3. RegistrationKept'
  BY <1>1 DEF IInv, SubsTyped, RegistrationKept
<1>4. OwnersKnow'
  BY <1>1 DEF OwnersKnow
<1> QED
  BY <1>2, <1>3, <1>4 DEF IInv

LEMMA CallIInv ==
  ASSUME IInv, Call
  PROVE  IInv'
<1>1. UNCHANGED <<pc, mine, subs, nextID>> /\ writer' = writer
  BY DEF Call, WriterCall
<1> QED
  BY <1>1, OthersIInv

LEMMA NextIInv == IInv /\ [Next]_vars => IInv'
<1> SUFFICES ASSUME IInv, [Next]_vars PROVE IInv'
  OBVIOUS
<1> USE DEF subVars, sessionVars
<1>1. CASE Arrive
  BY <1>1, OthersIInv DEF Arrive
<1>2. CASE ApplyEvent
  BY <1>2, OthersIInv DEF ApplyEvent, WriterApply
<1>3. CASE Ticker
  BY <1>3, OthersIInv DEF Ticker, Tick
<1>4. CASE Idle
  BY <1>4, OthersIInv DEF Idle, WriterIdle
<1>5. CASE Publish
  BY <1>5, OthersIInv DEF Publish, WriterPublish
<1>6. CASE PublishEnd
  BY <1>6, OthersIInv DEF PublishEnd, WriterPublished
<1>7. CASE Stop
  BY <1>7, OthersIInv DEF Stop, WriterStop
<1>8. CASE Call
  BY <1>8, CallIInv
<1>9. ASSUME NEW s \in Clients, Open(s) \/ Running(s) PROVE IInv'
  <2> USE DEF storeVars
  <2>1. CASE Quit(s) \/ End(s) \/ Take(s) \/ Show(s) \/ Discard(s) \/ LoopEnds(s)
    BY <2>1, OthersIInv DEF Quit, End, Take, Show, Discard, LoopEnds
  <2>2. CASE Open(s)
    BY <2>2, MoveIInv DEF Open, PCs, Registrable
  <2>3. CASE Register(s)
    BY <2>3, RegisterIInv
  <2>4. CASE Registered(s)
    BY <2>4, MoveIInv DEF Registered, PCs, Registrable
  <2>5. CASE NotRegistered(s)
    BY <2>5, NotRegisteredIInv
  <2>6. CASE Leave(s)
    <3>1. CASE mine[s] = 0
      BY <2>6, <3>1, MoveIInv DEF Leave, PCs, Registrable
    <3>2. CASE mine[s] # 0
      BY <2>6, <3>2, MoveIInv DEF Leave, PCs, Registrable
    <3> QED
      BY <3>1, <3>2
  <2>7. CASE Unregister(s)
    BY <2>7, UnregisterIInv
  <2>8. CASE Unregistered(s)
    BY <2>8, MoveIInv DEF Unregistered, PCs, Registrable
  <2>9. CASE StoreGone(s)
    BY <2>9, MoveIInv DEF StoreGone, PCs, Registrable
  <2>10. CASE Close(s)
    BY <2>10, MoveIInv DEF Close, PCs, Registrable
  <2> QED
    BY <1>9, <2>1, <2>2, <2>3, <2>4, <2>5, <2>6, <2>7, <2>8, <2>9, <2>10 DEF Running
<1>10. CASE UNCHANGED vars
  BY <1>10, OthersIInv DEF vars, storeVars
<1> QED
  BY <1>1, <1>2, <1>3, <1>4, <1>5, <1>6, <1>7, <1>8, <1>9, <1>10 DEF Next, StoreRuns

LEMMA Invariance == Spec => []IInv
<1> QED
  BY InitIInv, NextIInv, PTL DEF Spec

\* A session keeps the registration it was given, whatever the others do, until
\* it ends it itself.
THEOREM RegistrationsKept == Spec => []RegistrationKept
<1>1. IInv => RegistrationKept
  BY DEF IInv
<1> QED
  BY Invariance, <1>1, PTL

\* After unsub has returned, or done nothing because the store had stopped, the
\* writer has no registration of the session and calls it no more.
THEOREM UnsubscribeIsFinal == Spec => []Unhooked
<1>1. IInv => Unhooked
  BY DEF IInv, OwnersKnow, Unhooked, Called, Registrable
<1> QED
  BY Invariance, <1>1, PTL

===============================================================================
