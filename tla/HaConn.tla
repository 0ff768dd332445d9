-------------------------------- MODULE HaConn --------------------------------
(***************************************************************************)
(* internal/ha/conn.go and client.go: Run keeps one WebSocket connection   *)
(* to Home Assistant.  It dials, authenticates, subscribes to the entities *)
(* and to two forecasts, asks for the history behind the charts, and reads *)
(* until the connection fails; then it begins again.                       *)
(*                                                                         *)
(* Home Assistant and the network are external.  Home Assistant answers    *)
(* while it is healthy; while it is not, dialling fails, and connections   *)
(* break or go silent without breaking.  It tracks the highest message id  *)
(* of each connection and refuses one that is not higher.                  *)
(*                                                                         *)
(* Events go to the store.  Of its cache only the forecast is followed     *)
(* here, folded in at once: its queue is Mirror.tla's subject.  Statistics *)
(* go into a chart's ring, that of Ring.tla with a single bucket; no live  *)
(* values are put into a series that is backed by statistics.              *)
(***************************************************************************)
EXTENDS Compressed, Integers, FiniteSets, Sequences

CONSTANTS
    MinBackoff,     \* 1 second in Run
    MaxBackoff,     \* maxBackoff, 30 seconds in Run
    forecast,       \* ForecastEntity
    entityIDs,      \* the dashboard's entities, without forecast.home
    MaxRevisions,   \* bound: how often Home Assistant revises the statistics
    MaxWire         \* bound: messages underway

ASSUME HaConnAssumption ==
    /\ MinBackoff \in Nat \ {0}
    /\ MaxBackoff \in Nat
    /\ MinBackoff <= MaxBackoff
    /\ MaxRevisions \in Nat
    /\ MaxWire \in Nat \ {0}
    /\ Entities = {forecast}
    /\ Attributes = {"daily", "hourly"}
    /\ Cardinality(States) = 1 /\ Cardinality(AttrValues) = 1

VARIABLES
    phase,      \* where Run is
    backoff,    \* seconds to wait after the next failure
    cancelled,  \* ctx is done
    conn,       \* the Conn: ids.next, statsIDs, statsRev, forecastSeen
    cache,      \* the store's entities, as far as the forecast goes
    series,     \* the chart's ring
    tokenOK,    \* Home Assistant accepts the token
    healthy,    \* Home Assistant answers
    link,       \* the connection: "none", "up", "silent", "lost"
    wire,       \* messages on their way to Run
    peer,       \* Home Assistant's side: highest id, accepted commands, answers due
    hist,       \* how often the statistics have been revised
    reused,     \* it has refused an id
    got,        \* forecasts received on this connection
    fetched     \* the statistics received last: their revision, or -1

runVars == <<phase, backoff>>
storeVars == <<cache, series>>
envVars == <<cancelled, tokenOK, healthy, hist>>
historyVars == <<reused, got, fetched>>
vars == <<phase, backoff, cancelled, conn, cache, series, tokenOK, healthy, link, wire,
          peer, hist, reused, got, fetched>>

Chart == INSTANCE Ring WITH n <- 1, bucket <- 1, Values <- Nat, Times <- {0},
                            Revs <- Nat, ring <- series

NewConn == [next |-> 0, statsIDs |-> {}, statsRev |-> 0, forecastSeen |-> FALSE]
NewPeer == [highest |-> 0, accepted |-> {}, due |-> {}]

Init ==
    /\ phase = "dial"
    /\ backoff = MinBackoff
    /\ cancelled = FALSE
    /\ conn = NewConn
    /\ cache = EmptyCache
    /\ series = Chart!NewRing
    /\ tokenOK \in BOOLEAN
    /\ healthy \in BOOLEAN
    /\ link = "none"
    /\ wire = <<>>
    /\ peer = NewPeer
    /\ hist = 0
    /\ reused = FALSE
    /\ got = {}
    /\ fetched = -1

-------------------------------------------------------------------------------
(* The world around Run *)

Cancel ==
    /\ ~cancelled
    /\ cancelled' = TRUE
    /\ UNCHANGED <<runVars, conn, storeVars, tokenOK, healthy, link, wire, peer, hist,
                   historyVars>>

Falter ==
    /\ healthy
    /\ healthy' = FALSE
    /\ UNCHANGED <<runVars, cancelled, conn, storeVars, tokenOK, link, wire, peer, hist,
                   historyVars>>

Recover ==
    /\ ~healthy
    /\ healthy' = TRUE
    /\ UNCHANGED <<runVars, cancelled, conn, storeVars, tokenOK, link, wire, peer, hist,
                   historyVars>>

\* In the handshake, where Run reads without a deadline.
Handshaking == phase \in {"greeting", "auth reply"}

Lose ==
    /\ ~healthy
    /\ link \in {"up", "silent"}
    /\ link' = "lost"
    /\ UNCHANGED <<runVars, conn, storeVars, envVars, wire, peer, historyVars>>

\* Half open: what is sent either way disappears.  In the handshake Run waits until
\* the socket breaks, if ever it does.
GoSilent ==
    /\ ~healthy
    /\ link = "up"
    /\ link' = "silent"
    /\ UNCHANGED <<runVars, conn, storeVars, envVars, wire, peer, historyVars>>

Revise ==
    /\ hist < MaxRevisions
    /\ hist' = hist + 1
    /\ UNCHANGED <<runVars, cancelled, conn, storeVars, tokenOK, healthy, link, wire,
                   peer, historyVars>>

\* What Home Assistant sends in answer to a command with this id.
Answers(kind, id) ==
    CASE kind = "entities" -> {[kind |-> "result", id |-> id], [kind |-> "entities", id |-> id]}
      [] kind = "daily"    -> {[kind |-> "daily", id |-> id]}
      [] kind = "hourly"   -> {[kind |-> "hourly", id |-> id]}
      [] kind = "stats"    -> {[kind |-> "stats", id |-> id]}

\* An answer, or an error in place of one that is a result.
Answer ==
    /\ healthy
    /\ link = "up"
    /\ Len(wire) < MaxWire
    /\ \E m \in peer.due :
          /\ peer' = [peer EXCEPT !.due = @ \ {m}]
          /\ \/ wire' = Append(wire, [kind |-> m.kind, id |-> m.id, v |-> hist])
             \/ /\ m.kind = "stats"
                /\ wire' = Append(wire, [kind |-> "refusal", id |-> m.id, v |-> hist])
    /\ UNCHANGED <<runVars, conn, storeVars, envVars, link, historyVars>>

\* An entity changes, or a forecast is renewed.
Event ==
    /\ healthy
    /\ link = "up"
    /\ wire = <<>>
    /\ \E kind \in peer.accepted \cap {"entities", "daily", "hourly"} :
          wire' = Append(wire, [kind |-> kind, id |-> 0, v |-> hist])
    /\ UNCHANGED <<runVars, conn, storeVars, envVars, link, peer, historyVars>>

-------------------------------------------------------------------------------
(* Dial *)

\* Whatever goes wrong in Dial closes the socket, and Run waits.
DialFails ==
    /\ phase' = "backoff"
    /\ link' = "none"
    /\ wire' = <<>>

\* The head of Run's loop; the websocket's handshake fails, or succeeds.
Dial ==
    /\ phase = "dial"
    /\ ~cancelled
    /\ \/ /\ ~healthy
          /\ DialFails
          /\ UNCHANGED <<conn, peer, got>>
       \/ /\ healthy
          /\ phase' = "greeting"
          /\ link' = "up"
          /\ wire' = <<>>
          /\ conn' = NewConn
          /\ peer' = NewPeer
          /\ got' = {}
    /\ UNCHANGED <<backoff, storeVars, envVars, reused, fetched>>

\* auth_required, and the auth frame is written; or another greeting.
Greeted ==
    /\ phase = "greeting"
    /\ link = "up"
    /\ \/ healthy /\ phase' = "auth reply" /\ UNCHANGED <<link, wire>>
       \/ ~healthy /\ DialFails
    /\ UNCHANGED <<backoff, conn, storeVars, envVars, peer, historyVars>>

\* The wait is not reset by a success.
AuthOK_KeepsWait ==
    /\ phase = "auth reply"
    /\ link = "up"
    /\ healthy /\ tokenOK
    /\ conn' = [conn EXCEPT !.next = 0]
    /\ phase' = "subscribe"
    /\ UNCHANGED <<backoff, storeVars, envVars, link, wire, peer, historyVars>>

\* The reply is auth_ok, and Dial returns: the wait begins again at its least.
AuthOK ==
    /\ phase = "auth reply"
    /\ link = "up"
    /\ healthy /\ tokenOK
    /\ conn' = [conn EXCEPT !.next = 0]
    /\ backoff' = MinBackoff
    /\ phase' = "subscribe"
    /\ UNCHANGED <<storeVars, envVars, link, wire, peer, historyVars>>

\* auth_invalid is an error like the others to Run.
AuthInvalid ==
    /\ phase = "auth reply"
    /\ link = "up"
    /\ healthy /\ ~tokenOK
    /\ DialFails
    /\ UNCHANGED <<backoff, conn, storeVars, envVars, peer, historyVars>>

\* The connection breaks under Dial.
HandshakeLost ==
    /\ Handshaking
    /\ link = "lost"
    /\ DialFails
    /\ UNCHANGED <<backoff, conn, storeVars, envVars, peer, historyVars>>

-------------------------------------------------------------------------------
(* Run *)

Double(b) == IF 2 * b > MaxBackoff THEN MaxBackoff ELSE 2 * b

\* The select of ctx.Done() and time.After(backoff).
Wait ==
    /\ phase = "backoff"
    /\ \/ cancelled /\ phase' = "done" /\ UNCHANGED backoff
       \/ phase' = "dial" /\ backoff' = Double(backoff)
    /\ UNCHANGED <<conn, storeVars, envVars, link, wire, peer, historyVars>>

\* The head of the outer loop.
Done ==
    /\ phase = "dial"
    /\ cancelled
    /\ phase' = "done"
    /\ UNCHANGED <<backoff, conn, storeVars, envVars, link, wire, peer, historyVars>>

Close ==
    /\ phase' = "dial"
    /\ link' = "none"
    /\ wire' = <<>>

\* ids.Next() and the server's check of the id it gets.
Command(kind) ==
    LET id == conn.next + 1
    IN  /\ conn' = [conn EXCEPT !.next = id,
                                !.statsIDs = IF kind = "stats" THEN @ \cup {id} ELSE @]
        /\ IF link # "up"
           THEN UNCHANGED <<peer, reused>>
           ELSE IF id > peer.highest
           THEN /\ peer' = [highest |-> id, accepted |-> peer.accepted \cup {kind},
                            due |-> peer.due \cup Answers(kind, id)]
                /\ UNCHANGED reused
           ELSE reused' = TRUE /\ UNCHANGED peer

\* The subscriptions of a connection are taken for those of all connections.
Subscribe_Once ==
    /\ phase = "subscribe"
    /\ entityIDs # {}
    /\ phase' = "daily"
    /\ IF cache = EmptyCache THEN Command("entities") ELSE UNCHANGED <<conn, peer, reused>>
    /\ UNCHANGED <<backoff, storeVars, envVars, link, wire, got, fetched>>

Subscribe ==
    /\ phase = "subscribe"
    /\ entityIDs # {}
    /\ phase' = "daily"
    /\ Command("entities")
    /\ UNCHANGED <<backoff, storeVars, envVars, link, wire, got, fetched>>

\* No frame is made for an empty set of entities, or writing it fails: Run
\* closes the connection and dials again without waiting.
SubscribeFails ==
    /\ phase = "subscribe"
    /\ entityIDs = {} \/ link = "lost"
    /\ Close
    /\ conn' = [conn EXCEPT !.next = @ + 1]
    /\ UNCHANGED <<backoff, storeVars, envVars, peer, historyVars>>

\* The two forecasts.  That writing the frame fails changes nothing but the log.
Forecast ==
    /\ \/ phase = "daily" /\ phase' = "hourly"
       \/ phase = "hourly" /\ phase' = "stats"
    /\ Command(phase)
    /\ UNCHANGED <<backoff, storeVars, envVars, link, wire, got, fetched>>

\* The id is drawn for the frame and again for the record.
RequestStatistics_OtherID ==
    /\ phase = "stats"
    /\ phase' = "loop"
    /\ LET id == conn.next + 1
       IN  /\ conn' = [conn EXCEPT !.next = id + 1, !.statsIDs = @ \cup {id + 1}]
           /\ IF link # "up"
              THEN UNCHANGED peer
              ELSE peer' = [highest |-> id, accepted |-> peer.accepted \cup {"stats"},
                            due |-> peer.due \cup Answers("stats", id)]
    /\ UNCHANGED <<backoff, storeVars, envVars, link, wire, historyVars>>

\* RequestStatistics, and onConnect, which logs.
RequestStatistics ==
    /\ phase = "stats"
    /\ phase' = "loop"
    /\ Command("stats")
    /\ UNCHANGED <<backoff, storeVars, envVars, link, wire, got, fetched>>

\* The inner loop's condition does not look at ctx.
Loop_Blind ==
    /\ phase = "loop"
    /\ phase' = "read"
    /\ UNCHANGED <<backoff, conn, storeVars, envVars, link, wire, peer, historyVars>>

\* The inner loop's condition.
Loop ==
    /\ phase = "loop"
    /\ IF cancelled THEN Close ELSE phase' = "read" /\ UNCHANGED <<link, wire>>
    /\ UNCHANGED <<backoff, conn, storeVars, envVars, peer, historyVars>>

-------------------------------------------------------------------------------
(* Read, and Ingest of what it returns *)

Received(kinds) ==
    /\ phase = "read"
    /\ wire # <<>>
    /\ Head(wire).kind \in kinds
    /\ wire' = Tail(wire)

\* onStats, which is main's callback, and the store.
PutStatistics(rev, v) ==
    series' = Chart!PutInto(series, [t |-> 0, v |-> v, src |-> "stats", rev |-> rev])

\* A result that Read knows: it stays in its loop.  A refusal has no result.
ReadStatistics ==
    /\ Received({"result", "stats", "refusal"})
    /\ LET m == Head(wire)
       IN  IF m.id \notin conn.statsIDs
           THEN UNCHANGED <<conn, series, fetched>>
           ELSE IF m.kind = "stats"
           THEN /\ conn' = [conn EXCEPT !.statsIDs = @ \ {m.id}, !.statsRev = @ + 1]
                /\ PutStatistics(conn.statsRev + 1, m.v)
                /\ fetched' = m.v
           ELSE /\ conn' = [conn EXCEPT !.statsIDs = @ \ {m.id}]
                /\ UNCHANGED <<series, fetched>>
    /\ UNCHANGED <<runVars, cache, envVars, link, peer, reused, got>>

\* An entity event: Read returns it, and the store takes it.
ReadEvent ==
    /\ Received({"entities"})
    /\ phase' = "loop"
    /\ UNCHANGED <<backoff, conn, storeVars, envVars, link, peer, historyVars>>

\* Every forecast adds the pseudo-entity anew.
forecastEvent_Adds(type) ==
    [add    |-> [e \in {forecast} |->
                    [state |-> CHOOSE s \in States : TRUE,
                     attrs |-> [a \in {type} |-> CHOOSE v \in AttrValues : TRUE]]],
     change |-> EmptyCache, remove |-> {}]

\* The first forecast of a connection adds the pseudo-entity, others change it.
forecastEvent(type) ==
    LET attrs == [a \in {type} |-> CHOOSE v \in AttrValues : TRUE]
    IN  IF conn.forecastSeen
        THEN [add    |-> EmptyCache,
              change |-> [e \in {forecast} |->
                            [state |-> Same, set |-> attrs, unset |-> {}]],
              remove |-> {}]
        ELSE [add    |-> [e \in {forecast} |->
                            [state |-> CHOOSE s \in States : TRUE, attrs |-> attrs]],
              change |-> EmptyCache,
              remove |-> {}]

ReadForecast ==
    /\ Received({"daily", "hourly"})
    /\ \E r \in Apply(cache, forecastEvent(Head(wire).kind)) : cache' = r.cache
    /\ conn' = [conn EXCEPT !.forecastSeen = TRUE]
    /\ got' = got \cup {Head(wire).kind}
    /\ phase' = "loop"
    /\ UNCHANGED <<backoff, series, envVars, link, peer, reused, fetched>>

\* Read has no deadline: only a connection that is known to be lost is left.
ReadFails_NoDeadline ==
    /\ phase = "read"
    /\ link = "lost"
    /\ Close
    /\ UNCHANGED <<backoff, conn, storeVars, envVars, peer, historyVars>>

\* The connection is lost, or nothing has come for 90 seconds.
ReadFails ==
    /\ phase = "read"
    /\ link = "lost" \/ wire = <<>>
    /\ Close
    /\ UNCHANGED <<backoff, conn, storeVars, envVars, peer, historyVars>>

Next ==
    \/ Cancel \/ Falter \/ Recover \/ Lose \/ GoSilent \/ Revise \/ Answer \/ Event
    \/ Dial \/ Greeted \/ AuthOK \/ AuthInvalid \/ HandshakeLost
    \/ Wait \/ Done \/ Subscribe \/ SubscribeFails \/ Forecast \/ RequestStatistics
    \/ Loop \/ ReadStatistics \/ ReadEvent \/ ReadForecast \/ ReadFails

Spec == Init /\ [][Next]_vars

\* Run goes on and its timers expire.  Of Home Assistant it is assumed that while it
\* stays healthy and the connection up it answers; a handshake that it does not answer
\* goes on for as long as the socket stands.
Scheduling ==
    /\ WF_vars(Dial)
    /\ WF_vars(healthy /\ (Greeted \/ AuthOK \/ AuthInvalid))
    /\ WF_vars(HandshakeLost)
    /\ WF_vars(Wait)
    /\ WF_vars(Done)
    /\ WF_vars(Subscribe \/ SubscribeFails)
    /\ WF_vars(Forecast)
    /\ WF_vars(RequestStatistics)
    /\ WF_vars(Loop)
    /\ WF_vars(ReadStatistics \/ ReadEvent \/ ReadForecast \/ ReadFails)
    /\ WF_vars(Answer)

FairSpec == Spec /\ Scheduling

-------------------------------------------------------------------------------

Kinds == {"entities", "daily", "hourly", "stats"}

\* The connection stands: Dial has returned it, and Run has not closed it.
Standing == {"subscribe", "daily", "hourly", "stats", "loop", "read"}

\* Types, and the wait: it stays in its range, and a connection that stands has reset
\* it, so that the next outage is not waited out with the last one's.
TypeOK ==
    /\ phase \in {"dial", "greeting", "auth reply", "backoff", "subscribe", "daily",
                  "hourly", "stats", "loop", "read", "done"}
    /\ backoff \in MinBackoff .. MaxBackoff
    /\ phase \in Standing => backoff = MinBackoff
    /\ cache \in Caches
    /\ link \in {"none", "up", "silent", "lost"}
    /\ link = "none" <=> phase \in {"dial", "backoff", "done"}
    /\ conn.next \in 0 .. 4
    /\ conn.statsIDs \subseteq 1 .. conn.next
    /\ peer.accepted \subseteq Kinds
    /\ got \subseteq Attributes
    /\ fetched \in -1 .. hist

\* Nothing is read from a connection that was not asked for everything: all
\* subscriptions and the backfill are repeated on every connection, each under an id
\* higher than those before it, or Home Assistant would have refused it.
AskedEverything ==
    /\ ~reused
    /\ phase \in {"loop", "read"} /\ link = "up" => peer.accepted = Kinds

\* A result that answers the request for statistics is recognised, and no other
\* result is taken for it.
ResultsMatched ==
    \A i \in DOMAIN wire :
        wire[i].kind \in {"result", "stats", "refusal"} /\ phase \in {"loop", "read"} =>
            (wire[i].id \in conn.statsIDs <=> wire[i].kind # "result")

\* No forecast pushes out the other: the store holds all that came on this
\* connection.
ForecastsMerge ==
    got # {} => forecast \in DOMAIN cache /\ got \subseteq DOMAIN cache[forecast].attrs

\* No handshake is left without an answer and without an end.  The code takes this for
\* granted: Dial reads the greeting and the auth reply without a deadline and without
\* looking at ctx (conn.go:33-58), and a peer that falls silent there holds Run.
HandshakesEnd == []<>~Handshaking

\* When ctx is done Run returns from wherever it is, unless a peer leaves it waiting in a
\* handshake for ever.
RunReturns == HandshakesEnd => (cancelled ~> phase = "done")

\* Once Home Assistant stays healthy there is, again and again, a connection with
\* everything asked for.  No outage is the end, at whatever step the connection broke or
\* fell silent, but for one: silence in a handshake that never breaks off.
Reconnects ==
    HandshakesEnd /\ <>[](healthy /\ ~cancelled /\ tokenOK) =>
        []<>(phase = "read" /\ peer.accepted = Kinds)

\* What a backfill brings is in the chart afterwards, as the comments on
\* RequestStatistics and PutStatistics say: a refetch lands on a bucket that is
\* already full.
RefetchLands == fetched # -1 => series.slots[0].v = fetched

===============================================================================
