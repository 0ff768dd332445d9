----------------------------- MODULE HaConnProofs -----------------------------
(***************************************************************************)
(* Run's connections, for every wait, any number of messages underway, and *)
(* any number of outages, revisions and refusals.                          *)
(***************************************************************************)
EXTENDS HaConn, SequenceTheorems, FiniteSetTheorems, TLAPS

\* A cache that holds nothing is a cache.
LEMMA EmptyCacheType == EmptyCache \in Caches
<1>1. EmptyCache \in [{} -> EntityState]
  BY DEF EmptyCache
<1>2. {} \in SUBSET Entities
  OBVIOUS
<1> QED
  BY <1>1, <1>2 DEF Caches, Partial

\* The id each command has on every connection.
IdOf == [entities |-> 1, daily |-> 2, hourly |-> 3, stats |-> 4]

\* Run has sent n commands when it is in phase p.
SentIn(p, n) ==
    /\ p \in {"greeting", "auth reply", "subscribe"} => n = 0
    /\ p = "daily" => n = 1
    /\ p = "hourly" => n = 2
    /\ p = "stats" => n = 3
    /\ p \in {"loop", "read"} => n = 4

Apart == {"dial", "backoff", "done"}
Phases == Apart \cup {"greeting", "auth reply", "subscribe", "daily", "hourly", "stats",
                      "loop", "read"}

Due == [kind : Kinds \cup {"result"}, id : 1 .. 4]
OfStats == {"stats", "refusal"}
Underway == [kind : Kinds \cup {"result", "refusal"}, id : 0 .. 4, v : 0 .. hist]

Typed ==
    /\ phase \in Phases
    /\ backoff \in MinBackoff .. MaxBackoff
    /\ phase \in Standing => backoff = MinBackoff
    /\ cache \in Caches
    /\ link \in {"none", "up", "silent", "lost"}
    /\ conn \in [next : 0 .. 4, statsIDs : SUBSET {4}, statsRev : Nat,
                 forecastSeen : BOOLEAN]
    /\ peer \in [highest : 0 .. 4, accepted : SUBSET Kinds, due : SUBSET Due]
    /\ wire \in Seq(Underway)
    /\ hist \in Nat
    /\ got \subseteq Attributes
    /\ fetched \in -1 .. hist

\* The ids count the commands of the connection, and while the connection is up Home
\* Assistant has got them all.
InStep ==
    /\ link = "none" <=> phase \in Apart
    /\ link = "none" => wire = <<>>
    /\ SentIn(phase, conn.next)
    /\ link = "up" => /\ peer.highest = conn.next
                      /\ peer.accepted = {k \in Kinds : IdOf[k] <= conn.next}
    /\ conn.statsIDs # {} => conn.next = 4
    /\ ~reused

\* The request for statistics is answered once: its answer is due or underway, and
\* until it is read its id is on record.
AnsweredOnce ==
    /\ \A m \in peer.due :
          /\ m.kind = "result" => m.id # 4
          /\ m.kind = "stats" => /\ m.id = 4
                                 /\ conn.statsIDs = {4}
                                 /\ \A i \in 1 .. Len(wire) : wire[i].kind \notin OfStats
    /\ \A i \in 1 .. Len(wire) :
          /\ wire[i].kind = "result" => wire[i].id # 4
          /\ wire[i].kind \in OfStats =>
                /\ wire[i].id = 4
                /\ conn.statsIDs = {4}
                /\ \A j \in 1 .. Len(wire) : j # i => wire[j].kind \notin OfStats

Merged ==
    /\ conn.forecastSeen <=> got # {}
    /\ ForecastsMerge

IInv == Typed /\ InStep /\ AnsweredOnce /\ Merged

-------------------------------------------------------------------------------

LEMMA InitIInv == Init => IInv
<1> SUFFICES ASSUME Init PROVE IInv
  OBVIOUS
<1> USE DEF Init, NewConn, NewPeer
<1>1. Typed
  BY HaConnAssumption, EmptyCacheType, EmptySeq DEF Typed, Phases, Apart
<1>2. InStep
  BY DEF InStep, SentIn, Apart
<1>3. AnsweredOnce
  BY EmptySeq DEF AnsweredOnce
<1>4. Merged
  BY DEF Merged, ForecastsMerge
<1> QED
  BY <1>1, <1>2, <1>3, <1>4 DEF IInv

\* Run goes on, or the connection breaks or falls silent.
LEMMA OnwardIInv ==
  ASSUME IInv, link # "none", phase' \in Phases \ Apart, SentIn(phase', conn.next),
         link' \in {"up", "silent", "lost"}, link' = "up" => link = "up",
         backoff' \in MinBackoff .. MaxBackoff,
         phase' \in Standing => backoff' = MinBackoff,
         UNCHANGED <<conn, cache, wire, peer, hist, historyVars>>
  PROVE  IInv'
<1> USE DEF historyVars
<1>1. Typed'
  BY DEF IInv, Typed, Underway
<1>2. InStep'
  BY DEF IInv, InStep
<1>3. AnsweredOnce' /\ Merged'
  BY DEF IInv, AnsweredOnce, Merged, ForecastsMerge
<1> QED
  BY <1>1, <1>2, <1>3 DEF IInv

\* Run has no connection any more, or none yet.
LEMMA ApartIInv ==
  ASSUME IInv, phase' \in Apart, link' = "none", wire' = <<>>,
         backoff' \in MinBackoff .. MaxBackoff,
         \/ conn' = conn
         \/ conn.next = 0 /\ conn' = [conn EXCEPT !.next = @ + 1],
         UNCHANGED <<cache, peer, hist, historyVars>>
  PROVE  IInv'
<1> USE DEF historyVars
<1>1. /\ conn' \in [next : 0 .. 4, statsIDs : SUBSET {4}, statsRev : Nat,
                    forecastSeen : BOOLEAN]
      /\ conn'.statsIDs = conn.statsIDs
      /\ conn'.forecastSeen = conn.forecastSeen
      /\ conn.statsIDs # {} => conn'.next = 4
  BY DEF IInv, Typed, InStep
<1>2. Typed'
  BY <1>1, EmptySeq DEF IInv, Typed, Underway, Phases, Apart, Standing
<1>3. InStep'
  BY <1>1 DEF IInv, InStep, SentIn, Apart
<1>4. AnsweredOnce'
  BY <1>1, EmptySeq DEF IInv, AnsweredOnce
<1>5. Merged'
  BY <1>1 DEF IInv, Merged, ForecastsMerge
<1> QED
  BY <1>2, <1>3, <1>4, <1>5 DEF IInv

\* A command gets the next id, which is the one it has on every connection.
LEMMA CommandIInv ==
  ASSUME IInv, NEW kind \in Kinds, conn.next + 1 = IdOf[kind], link # "none",
         Command(kind), phase \in Standing, phase' \in Phases \ Apart, SentIn(phase', IdOf[kind]),
         UNCHANGED <<backoff, cache, hist, link, wire, got, fetched>>
  PROVE  IInv'
<1> DEFINE id == conn.next + 1
<1>1. /\ conn.next \in 0 .. 3
      /\ id \in 1 .. 4
      /\ conn.statsIDs = {}
      /\ id = 4 <=> kind = "stats"
  BY DEF IInv, Typed, InStep, Kinds, IdOf
<1> DEFINE ids == IF kind = "stats" THEN {4} ELSE {}
<1>2. conn' = [conn EXCEPT !.next = id, !.statsIDs = ids] /\ ids \in SUBSET {4}
  <2>1. ids = IF kind = "stats" THEN conn.statsIDs \cup {id} ELSE conn.statsIDs
    BY <1>1
  <2> HIDE DEF ids
  <2>2. conn' = [conn EXCEPT !.next = id, !.statsIDs = ids]
    BY <2>1 DEF Command
  <2> QED
    BY <2>2 DEF ids
<1> HIDE DEF id, ids
<1>3. /\ conn' \in [next : 0 .. 4, statsIDs : SUBSET {4}, statsRev : Nat,
                    forecastSeen : BOOLEAN]
      /\ conn'.next = id
      /\ conn'.statsIDs = ids
      /\ conn'.forecastSeen = conn.forecastSeen
  <2>1. conn' = [next |-> id, statsIDs |-> ids, statsRev |-> conn.statsRev,
                 forecastSeen |-> conn.forecastSeen]
    BY <1>2 DEF IInv, Typed
  <2>2. conn.statsRev \in Nat /\ conn.forecastSeen \in BOOLEAN
    BY DEF IInv, Typed
  <2> QED
    BY <1>1, <1>2, <2>1, <2>2
<1>4. /\ Answers(kind, id) \subseteq Due
      /\ \A m \in Answers(kind, id) :
            /\ m.kind = "result" => m.id # 4
            /\ m.kind = "stats" => m.id = 4 /\ kind = "stats"
  BY <1>1 DEF Answers, Due, Kinds
<1>5. \/ link # "up" /\ peer' = peer /\ reused' = reused
      \/ /\ link = "up"
         /\ peer' = [highest |-> id, accepted |-> peer.accepted \cup {kind},
                     due |-> peer.due \cup Answers(kind, id)]
         /\ reused' = reused
  BY <1>1 DEF Command, IInv, InStep, Typed, id
<1>6. Typed'
  BY <1>1, <1>3, <1>4, <1>5 DEF IInv, Typed, Underway
<1>7. InStep'
  <2>1. link' = "up" => /\ peer'.highest = conn'.next
                        /\ peer'.accepted = {k \in Kinds : IdOf[k] <= conn'.next}
    <3> SUFFICES ASSUME link = "up"
                 PROVE  /\ peer'.highest = conn'.next
                        /\ peer'.accepted = {k \in Kinds : IdOf[k] <= conn'.next}
      OBVIOUS
    <3>1. peer.accepted = {k \in Kinds : IdOf[k] <= conn.next}
      BY DEF IInv, InStep
    <3>2. {k \in Kinds : IdOf[k] <= conn.next} \cup {kind} =
            {k \in Kinds : IdOf[k] <= conn.next + 1}
      BY <1>1 DEF Kinds, IdOf
    <3> QED
      BY <1>3, <1>5, <3>1, <3>2 DEF id
  <2>2. conn'.statsIDs # {} => conn'.next = 4
    BY <1>1, <1>3 DEF ids
  <2>3. SentIn(phase', conn'.next)
    BY <1>3 DEF id
  <2> QED
    BY <1>5, <2>1, <2>2, <2>3 DEF IInv, InStep
<1>8. AnsweredOnce'
  <2>1. /\ \A m \in peer.due : (m.kind = "result" => m.id # 4) /\ m.kind # "stats"
        /\ \A i \in 1 .. Len(wire) : /\ wire[i].kind = "result" => wire[i].id # 4
                                     /\ wire[i].kind \notin OfStats
    BY <1>1 DEF IInv, AnsweredOnce
  <2>2. \A m \in peer'.due :
            /\ m.kind = "result" => m.id # 4
            /\ m.kind = "stats" => m.id = 4 /\ conn'.statsIDs = {4}
    BY <1>3, <1>4, <1>5, <2>1 DEF ids
  <2> QED
    BY <2>1, <2>2 DEF AnsweredOnce
<1>9. Merged'
  BY <1>3 DEF IInv, Merged, ForecastsMerge
<1> QED
  BY <1>6, <1>7, <1>8, <1>9 DEF IInv

\* A message joins those underway.
LEMMA WireAppend ==
  ASSUME Typed, NEW m \in Underway, wire' = Append(wire, m), UNCHANGED hist
  PROVE  /\ wire' \in Seq(Underway)'
         /\ Len(wire) \in Nat
         /\ Len(wire') = Len(wire) + 1
         /\ \A i \in 1 .. Len(wire) : wire'[i] = wire[i]
         /\ wire'[Len(wire')] = m
<1>1. wire \in Seq(Underway) /\ Underway' = Underway
  BY DEF Typed, Underway
<1> QED
  BY <1>1, AppendProperties, LenProperties

LEMMA AnswerIInv == IInv /\ Answer => IInv'
<1> SUFFICES ASSUME IInv, Answer PROVE IInv'
  OBVIOUS
<1>1. PICK m \in peer.due :
        /\ peer' = [peer EXCEPT !.due = @ \ {m}]
        /\ \/ wire' = Append(wire, [kind |-> m.kind, id |-> m.id, v |-> hist])
           \/ /\ m.kind = "stats"
              /\ wire' = Append(wire, [kind |-> "refusal", id |-> m.id, v |-> hist])
  BY DEF Answer
<1>2. /\ link = "up"
      /\ UNCHANGED <<phase, backoff, conn, cache, hist, link, reused, got, fetched>>
  BY DEF Answer, runVars, storeVars, envVars, historyVars
<1>3. /\ m \in Due
      /\ peer' \in [highest : 0 .. 4, accepted : SUBSET Kinds, due : SUBSET Due]
      /\ peer'.highest = peer.highest
      /\ peer'.accepted = peer.accepted
      /\ peer'.due = peer.due \ {m}
  BY <1>1 DEF IInv, Typed
<1>4. PICK a \in Underway :
        /\ wire' = Append(wire, a)
        /\ a.id = m.id
        /\ \/ a.kind = m.kind
           \/ m.kind = "stats" /\ a.kind = "refusal"
  BY <1>1, <1>3 DEF IInv, Typed, Underway, Due
<1>5. /\ wire' \in Seq(Underway)'
      /\ Len(wire) \in Nat
      /\ Len(wire') = Len(wire) + 1
      /\ \A i \in 1 .. Len(wire) : wire'[i] = wire[i]
      /\ wire'[Len(wire')] = a
  BY <1>2, <1>4, WireAppend DEF IInv
<1>6. Typed'
  BY <1>2, <1>3, <1>5 DEF IInv, Typed
<1>7. InStep'
  BY <1>2, <1>3 DEF IInv, InStep
<1>8. AnsweredOnce'
  <2>1. /\ m.kind = "result" => m.id # 4
        /\ m.kind = "stats" => /\ m.id = 4
                               /\ conn.statsIDs = {4}
                               /\ \A i \in 1 .. Len(wire) : wire[i].kind \notin OfStats
        /\ m.kind # "refusal"
    BY <1>3 DEF IInv, AnsweredOnce, Due, Kinds
  <2>2. a.kind \in OfStats <=> m.kind = "stats"
    BY <1>4, <2>1 DEF OfStats
  <2>3. ASSUME NEW d \in peer.due \ {m}, d.kind = "stats", m.kind = "stats" PROVE FALSE
    <3>1. d.id = 4 /\ m.id = 4 /\ d \in Due
      BY <2>1, <2>3 DEF IInv, AnsweredOnce, Typed
    <3>2. d = m
      BY <1>3, <2>3, <3>1 DEF Due
    <3> QED
      BY <2>3, <3>2
  <2>4. \A d \in peer'.due :
          /\ d.kind = "result" => d.id # 4
          /\ d.kind = "stats" => /\ d.id = 4
                                 /\ conn'.statsIDs = {4}
                                 /\ \A i \in 1 .. Len(wire') : wire'[i].kind \notin OfStats
    BY <1>2, <1>3, <1>5, <2>2, <2>3 DEF IInv, AnsweredOnce
  <2>5. ASSUME NEW i \in 1 .. Len(wire')
        PROVE  /\ wire'[i].kind = "result" => wire'[i].id # 4
               /\ wire'[i].kind \in OfStats =>
                     /\ wire'[i].id = 4
                     /\ conn'.statsIDs = {4}
                     /\ \A j \in 1 .. Len(wire') : j # i => wire'[j].kind \notin OfStats
    <3>1. CASE i = Len(wire')
      BY <1>2, <1>4, <1>5, <2>1, <2>2, <3>1 DEF OfStats
    <3>2. CASE i \in 1 .. Len(wire)
      BY <1>2, <1>5, <2>1, <2>2, <3>2 DEF IInv, AnsweredOnce
    <3> QED
      BY <1>5, <3>1, <3>2
  <2> QED
    BY <2>4, <2>5 DEF AnsweredOnce
<1>9. Merged'
  BY <1>2 DEF IInv, Merged, ForecastsMerge
<1> QED
  BY <1>6, <1>7, <1>8, <1>9 DEF IInv

LEMMA EventIInv == IInv /\ Event => IInv'
<1> SUFFICES ASSUME IInv, Event PROVE IInv'
  OBVIOUS
<1>1. PICK kind \in {"entities", "daily", "hourly"} :
        wire' = Append(wire, [kind |-> kind, id |-> 0, v |-> hist])
  BY DEF Event
<1>2. /\ link = "up"
      /\ wire = <<>>
      /\ UNCHANGED <<phase, backoff, conn, cache, hist, link, peer, reused, got, fetched>>
  BY DEF Event, runVars, storeVars, envVars, historyVars
<1> DEFINE a == [kind |-> kind, id |-> 0, v |-> hist]
<1>3. a \in Underway /\ a.kind \notin OfStats /\ a.kind # "result"
  BY DEF IInv, Typed, Underway, Kinds, OfStats
<1>4. /\ wire' \in Seq(Underway)'
      /\ Len(wire) \in Nat
      /\ Len(wire') = Len(wire) + 1
      /\ \A i \in 1 .. Len(wire) : wire'[i] = wire[i]
      /\ wire'[Len(wire')] = a
  BY <1>1, <1>2, <1>3, WireAppend DEF IInv
<1> HIDE DEF a
<1>5. Typed' /\ InStep'
  BY <1>2, <1>4 DEF IInv, Typed, InStep
<1>6. \A i \in 1 .. Len(wire') : wire'[i] = a
  BY <1>2, <1>4, EmptySeq
<1>7. AnsweredOnce'
  BY <1>2, <1>3, <1>6 DEF IInv, AnsweredOnce
<1>8. Merged'
  BY <1>2 DEF IInv, Merged, ForecastsMerge
<1> QED
  BY <1>5, <1>7, <1>8 DEF IInv

\* Whatever happens around Run.
LEMMA WorldIInv ==
  IInv /\ (Cancel \/ Falter \/ Recover \/ Lose \/ GoSilent \/ Revise) => IInv'
<1> SUFFICES ASSUME IInv, Cancel \/ Falter \/ Recover \/ Lose \/ GoSilent \/ Revise
             PROVE  IInv'
  OBVIOUS
<1> USE DEF runVars, storeVars, envVars, historyVars
<1>1. CASE Cancel \/ Falter \/ Recover \/ Revise
  <2>1. /\ UNCHANGED <<phase, backoff, conn, cache, link, wire, peer, reused, got, fetched>>
        /\ hist' \in {hist, hist + 1}
    BY <1>1 DEF Cancel, Falter, Recover, Revise
  <2>2. Typed'
    <3>1. Underway \subseteq Underway'
      BY <2>1 DEF IInv, Typed, Underway
    <3>2. wire \in Seq(Underway')
      BY <3>1, SeqMonotonic DEF IInv, Typed
    <3>3. fetched' \in -1 .. hist' /\ hist' \in Nat
      BY <2>1 DEF IInv, Typed
    <3> QED
      BY <2>1, <3>2, <3>3 DEF IInv, Typed
  <2>3. InStep' /\ AnsweredOnce' /\ Merged'
    BY <2>1 DEF IInv, InStep, AnsweredOnce, Merged, ForecastsMerge
  <2> QED
    BY <2>2, <2>3 DEF IInv
<1>2. CASE Lose \/ GoSilent
  <2>1. phase \in Phases \ Apart /\ SentIn(phase, conn.next)
    BY <1>2 DEF Lose, GoSilent, IInv, Typed, InStep
  <2>2. /\ UNCHANGED <<phase, backoff, conn, cache, wire, peer, hist, historyVars>>
        /\ link' \in {"silent", "lost"}
        /\ link # "none"
    BY <1>2 DEF Lose, GoSilent
  <2>3. backoff \in MinBackoff .. MaxBackoff /\ (phase \in Standing => backoff = MinBackoff)
    BY DEF IInv, Typed
  <2> QED
    BY <2>1, <2>2, <2>3, OnwardIInv
<1> QED
  BY <1>1, <1>2

-------------------------------------------------------------------------------
(* Dial and Run *)

LEMMA DialIInv == IInv /\ Dial => IInv'
<1> SUFFICES ASSUME IInv, Dial PROVE IInv'
  OBVIOUS
<1> USE DEF storeVars, envVars, historyVars
<1>1. phase = "dial" /\ UNCHANGED <<backoff, cache, hist, reused, fetched>>
  BY DEF Dial
<1>2. CASE DialFails /\ UNCHANGED <<conn, peer, got>>
  <2>1. phase' \in Apart /\ link' = "none" /\ wire' = <<>>
    BY <1>2 DEF DialFails, Apart
  <2>2. backoff' \in MinBackoff .. MaxBackoff
    BY <1>1 DEF IInv, Typed
  <2> QED
    BY <1>1, <1>2, <2>1, <2>2, ApartIInv
<1>3. CASE /\ phase' = "greeting" /\ link' = "up" /\ wire' = <<>>
           /\ conn' = NewConn /\ peer' = NewPeer /\ got' = {}
  <2> USE DEF NewConn, NewPeer
  <2>1. Typed'
    BY <1>1, <1>3, EmptySeq DEF IInv, Typed, Phases, Underway, Standing
  <2>2. InStep'
    BY <1>1, <1>3 DEF IInv, InStep, SentIn, Apart, Kinds, IdOf
  <2>3. AnsweredOnce' /\ Merged'
    BY <1>3, EmptySeq DEF AnsweredOnce, Merged, ForecastsMerge
  <2> QED
    BY <2>1, <2>2, <2>3 DEF IInv
<1> QED
  BY <1>2, <1>3 DEF Dial

LEMMA HandshakeIInv ==
  IInv /\ (Greeted \/ AuthOK \/ AuthInvalid \/ HandshakeLost) => IInv'
<1> SUFFICES ASSUME IInv, Greeted \/ AuthOK \/ AuthInvalid \/ HandshakeLost PROVE IInv'
  OBVIOUS
<1> USE DEF storeVars, envVars, historyVars
<1>1. /\ UNCHANGED <<cache, peer, hist, historyVars>>
      /\ link # "none"
      /\ backoff \in MinBackoff .. MaxBackoff
      /\ MinBackoff \in MinBackoff .. MaxBackoff
      /\ phase \in {"greeting", "auth reply"}
      /\ conn.next = 0
  <2>1. UNCHANGED <<cache, peer, hist, historyVars>>
    BY DEF Greeted, AuthOK, AuthInvalid, HandshakeLost
  <2>2. phase \in {"greeting", "auth reply"} /\ link \in {"up", "lost"}
    BY DEF Greeted, AuthOK, AuthInvalid, HandshakeLost, Handshaking
  <2>3. backoff \in MinBackoff .. MaxBackoff /\ MinBackoff \in MinBackoff .. MaxBackoff
    BY HaConnAssumption DEF IInv, Typed
  <2>4. conn.next = 0
    BY <2>2 DEF IInv, InStep, SentIn
  <2> QED
    BY <2>1, <2>2, <2>3, <2>4
<1>2. CASE DialFails /\ UNCHANGED <<backoff, conn>>
  <2>1. phase' \in Apart /\ link' = "none" /\ wire' = <<>>
    BY <1>2 DEF DialFails, Apart
  <2> QED
    BY <1>1, <1>2, <2>1, ApartIInv
<1>3. CASE phase' = "auth reply" /\ UNCHANGED <<backoff, conn, link, wire>>
  <2>1. phase' \in Phases \ Apart /\ SentIn(phase', conn.next)
    BY <1>1, <1>3 DEF Phases, Apart, SentIn
  <2>2. link' \in {"up", "silent", "lost"} /\ phase' \notin Standing
    BY <1>1, <1>3 DEF IInv, Typed, Standing
  <2> QED
    BY <1>1, <1>3, <2>1, <2>2, OnwardIInv
<1>4. CASE AuthOK
  <2>1. phase' = "subscribe" /\ backoff' = MinBackoff /\ UNCHANGED <<link, wire>>
    BY <1>4 DEF AuthOK
  <2>2. conn' = conn
    <3>1. conn' = [conn EXCEPT !.next = conn.next]
      BY <1>1, <1>4 DEF AuthOK
    <3> QED
      BY <3>1 DEF IInv, Typed
  <2>3. phase' \in Phases \ Apart /\ SentIn(phase', conn.next)
    BY <1>1, <2>1 DEF Phases, Apart, SentIn
  <2>4. link' \in {"up", "silent", "lost"}
    BY <1>1, <2>1 DEF IInv, Typed
  <2> QED
    BY <1>1, <2>1, <2>2, <2>3, <2>4, OnwardIInv
<1> QED
  BY <1>2, <1>3, <1>4 DEF Greeted, AuthInvalid, HandshakeLost

LEMMA WaitIInv == IInv /\ (Wait \/ Done) => IInv'
<1> SUFFICES ASSUME IInv, Wait \/ Done PROVE IInv'
  OBVIOUS
<1>1. /\ UNCHANGED <<conn, cache, link, wire, peer, hist, historyVars>>
      /\ phase \in Apart
      /\ phase' \in Apart
      /\ backoff' \in {backoff, Double(backoff)}
  BY DEF Wait, Done, storeVars, envVars, Apart
<1>2. link' = "none" /\ wire' = <<>>
  BY <1>1 DEF IInv, InStep
<1>3. backoff' \in MinBackoff .. MaxBackoff
  BY <1>1, HaConnAssumption DEF IInv, Typed, Double
<1> QED
  BY <1>1, <1>2, <1>3, ApartIInv

LEMMA SubscribeIInv ==
  IInv /\ (Subscribe \/ Forecast \/ RequestStatistics) => IInv'
<1> SUFFICES ASSUME IInv, Subscribe \/ Forecast \/ RequestStatistics PROVE IInv'
  OBVIOUS
<1>1. /\ UNCHANGED <<backoff, cache, hist, link, wire, got, fetched>>
      /\ \/ phase = "subscribe" /\ phase' = "daily" /\ Command("entities")
         \/ phase = "daily" /\ phase' = "hourly" /\ Command("daily")
         \/ phase = "hourly" /\ phase' = "stats" /\ Command("hourly")
         \/ phase = "stats" /\ phase' = "loop" /\ Command("stats")
  BY DEF Subscribe, Forecast, RequestStatistics, storeVars, envVars
<1>2. link # "none" /\ SentIn(phase, conn.next) /\ phase \in Standing
  BY <1>1 DEF IInv, InStep, Apart, Standing
<1>3. CASE phase = "subscribe" /\ phase' = "daily" /\ Command("entities")
  <2>1. /\ "entities" \in Kinds
        /\ conn.next + 1 = IdOf["entities"]
        /\ phase' \in Phases \ Apart
        /\ SentIn(phase', IdOf["entities"])
    BY <1>2, <1>3 DEF SentIn, Kinds, IdOf, Phases, Apart
  <2> QED
    BY <1>1, <1>2, <1>3, <2>1, CommandIInv
<1>4. CASE phase = "daily" /\ phase' = "hourly" /\ Command("daily")
  <2>1. /\ "daily" \in Kinds
        /\ conn.next + 1 = IdOf["daily"]
        /\ phase' \in Phases \ Apart
        /\ SentIn(phase', IdOf["daily"])
    BY <1>2, <1>4 DEF SentIn, Kinds, IdOf, Phases, Apart
  <2> QED
    BY <1>1, <1>2, <1>4, <2>1, CommandIInv
<1>5. CASE phase = "hourly" /\ phase' = "stats" /\ Command("hourly")
  <2>1. /\ "hourly" \in Kinds
        /\ conn.next + 1 = IdOf["hourly"]
        /\ phase' \in Phases \ Apart
        /\ SentIn(phase', IdOf["hourly"])
    BY <1>2, <1>5 DEF SentIn, Kinds, IdOf, Phases, Apart
  <2> QED
    BY <1>1, <1>2, <1>5, <2>1, CommandIInv
<1>6. CASE phase = "stats" /\ phase' = "loop" /\ Command("stats")
  <2>1. /\ "stats" \in Kinds
        /\ conn.next + 1 = IdOf["stats"]
        /\ phase' \in Phases \ Apart
        /\ SentIn(phase', IdOf["stats"])
    BY <1>2, <1>6 DEF SentIn, Kinds, IdOf, Phases, Apart
  <2> QED
    BY <1>1, <1>2, <1>6, <2>1, CommandIInv
<1> QED
  BY <1>1, <1>3, <1>4, <1>5, <1>6

LEMMA CloseIInv == IInv /\ (SubscribeFails \/ Loop \/ ReadFails) => IInv'
<1> SUFFICES ASSUME IInv, SubscribeFails \/ Loop \/ ReadFails PROVE IInv'
  OBVIOUS
<1>1. /\ UNCHANGED <<backoff, cache, peer, hist, historyVars>>
      /\ backoff \in MinBackoff .. MaxBackoff
  BY DEF SubscribeFails, Loop, ReadFails, storeVars, envVars, IInv, Typed
<1>2. CASE Close /\ \/ UNCHANGED conn
                    \/ conn.next = 0 /\ conn' = [conn EXCEPT !.next = @ + 1]
  <2>1. phase' \in Apart /\ link' = "none" /\ wire' = <<>>
    BY <1>2 DEF Close, Apart
  <2> QED
    BY <1>1, <1>2, <2>1, ApartIInv
<1>3. CASE phase = "loop" /\ phase' = "read" /\ UNCHANGED <<conn, link, wire>>
  <2>1. link # "none" /\ phase' \in Phases \ Apart /\ SentIn(phase', conn.next)
    BY <1>3 DEF IInv, InStep, SentIn, Phases, Apart
  <2>2. link' \in {"up", "silent", "lost"} /\ backoff = MinBackoff
    BY <1>3, <2>1 DEF IInv, Typed, Standing
  <2> QED
    BY <1>1, <1>3, <2>1, <2>2, OnwardIInv
<1> QED
  BY <1>2, <1>3 DEF SubscribeFails, Loop, ReadFails, IInv, InStep, SentIn

-------------------------------------------------------------------------------
(* Read *)

LEMMA WireTail ==
  ASSUME Typed, wire # <<>>, wire' = Tail(wire), UNCHANGED hist
  PROVE  /\ wire' \in Seq(Underway)'
         /\ Len(wire) \in Nat \ {0}
         /\ Len(wire') = Len(wire) - 1
         /\ \A i \in 1 .. Len(wire') : wire'[i] = wire[i + 1]
         /\ Head(wire) = wire[1]
         /\ Head(wire) \in Underway
<1>1. wire \in Seq(Underway) /\ Underway' = Underway
  BY DEF Typed, Underway
<1> QED
  BY <1>1, EmptySeq, HeadTailProperties

\* A message is read; the record of the request for statistics is struck if the
\* message is its answer, and only then.
LEMMA ReadIInv ==
  ASSUME IInv, phase = "read", wire # <<>>, wire' = Tail(wire),
         phase' \in {"read", "loop"}, cache' \in Caches, got' \subseteq Attributes,
         fetched' \in -1 .. hist, Merged',
         conn' \in [next : 0 .. 4, statsIDs : SUBSET {4}, statsRev : Nat,
                    forecastSeen : BOOLEAN],
         conn'.next = conn.next,
         conn'.statsIDs = IF Head(wire).kind \in OfStats THEN {} ELSE conn.statsIDs,
         UNCHANGED <<backoff, hist, link, peer, reused>>
  PROVE  IInv'
<1>1. /\ wire' \in Seq(Underway)'
      /\ Len(wire) \in Nat \ {0}
      /\ Len(wire') = Len(wire) - 1
      /\ \A i \in 1 .. Len(wire') : wire'[i] = wire[i + 1]
      /\ Head(wire) = wire[1]
  BY WireTail DEF IInv
<1>2. Typed'
  BY <1>1 DEF IInv, Typed, Phases, Standing
<1>3. InStep'
  BY DEF IInv, InStep, SentIn, Apart
<1>4. AnsweredOnce'
  <2> DEFINE m == Head(wire)
  <2>1. ASSUME NEW i \in 1 .. Len(wire')
        PROVE  i + 1 \in 1 .. Len(wire) /\ i + 1 # 1
    BY <1>1
  <2>2. 1 \in 1 .. Len(wire)
    BY <1>1
  <2> HIDE DEF m
  <2>3. CASE m.kind \in OfStats
    <3>1. \A j \in 1 .. Len(wire) : j # 1 => wire[j].kind \notin OfStats
      BY <1>1, <2>2, <2>3 DEF IInv, AnsweredOnce, m
    <3>2. \A d \in peer.due : d.kind # "stats" /\ (d.kind = "result" => d.id # 4)
      BY <1>1, <2>2, <2>3 DEF IInv, AnsweredOnce, m
    <3>3. \A i \in 1 .. Len(wire') : /\ wire'[i].kind \notin OfStats
                                     /\ wire'[i].kind = "result" => wire'[i].id # 4
      BY <1>1, <2>1, <3>1 DEF IInv, AnsweredOnce
    <3> QED
      BY <3>2, <3>3 DEF AnsweredOnce
  <2>4. CASE m.kind \notin OfStats
    <3>1. conn'.statsIDs = conn.statsIDs
      BY <2>4 DEF m
    <3>2. \A d \in peer.due :
            /\ d.kind = "result" => d.id # 4
            /\ d.kind = "stats" => /\ d.id = 4
                                   /\ conn.statsIDs = {4}
                                   /\ \A i \in 1 .. Len(wire') : wire'[i].kind \notin OfStats
      BY <1>1, <2>1 DEF IInv, AnsweredOnce
    <3>3. ASSUME NEW i \in 1 .. Len(wire')
          PROVE  /\ wire'[i].kind = "result" => wire'[i].id # 4
                 /\ wire'[i].kind \in OfStats =>
                       /\ wire'[i].id = 4
                       /\ conn.statsIDs = {4}
                       /\ \A j \in 1 .. Len(wire') : j # i => wire'[j].kind \notin OfStats
      <4>1. /\ wire[i + 1].kind = "result" => wire[i + 1].id # 4
            /\ wire[i + 1].kind \in OfStats =>
                  /\ wire[i + 1].id = 4
                  /\ conn.statsIDs = {4}
                  /\ \A j \in 1 .. Len(wire) : j # i + 1 => wire[j].kind \notin OfStats
        BY <2>1 DEF IInv, AnsweredOnce
      <4>2. ASSUME NEW j \in 1 .. Len(wire'), j # i
            PROVE  j + 1 # i + 1 /\ wire'[j] = wire[j + 1]
        BY <1>1, <4>2
      <4> QED
        BY <1>1, <2>1, <4>1, <4>2
    <3> QED
      BY <3>1, <3>2, <3>3 DEF AnsweredOnce
  <2> QED
    BY <2>3, <2>4
<1> QED
  BY <1>2, <1>3, <1>4 DEF IInv

LEMMA StatisticsIInv == IInv /\ ReadStatistics => IInv'
<1> SUFFICES ASSUME IInv, ReadStatistics PROVE IInv'
  OBVIOUS
<1> DEFINE m == Head(wire)
<1>1. /\ phase = "read" /\ phase' = "read"
      /\ wire # <<>>
      /\ wire' = Tail(wire)
      /\ m.kind \in {"result", "stats", "refusal"}
      /\ UNCHANGED <<backoff, cache, hist, link, peer, reused, got>>
  BY DEF ReadStatistics, Received, runVars, envVars
<1>2. /\ m \in Underway
      /\ m.kind = "result" => m.id # 4
      /\ m.kind \in OfStats => m.id = 4 /\ conn.statsIDs = {4}
  BY <1>1, WireTail DEF IInv, AnsweredOnce
<1>3. IF m.id \notin conn.statsIDs
      THEN UNCHANGED <<conn, series, fetched>>
      ELSE IF m.kind = "stats"
      THEN /\ conn' = [conn EXCEPT !.statsIDs = @ \ {m.id}, !.statsRev = @ + 1]
           /\ fetched' = m.v
      ELSE /\ conn' = [conn EXCEPT !.statsIDs = @ \ {m.id}]
           /\ UNCHANGED fetched
  BY DEF ReadStatistics
<1> HIDE DEF m
<1>4. conn.statsIDs \subseteq {4} /\ cache \in Caches /\ got \subseteq Attributes
  BY DEF IInv, Typed
<1>5. /\ conn' \in [next : 0 .. 4, statsIDs : SUBSET {4}, statsRev : Nat,
                    forecastSeen : BOOLEAN]
      /\ conn'.next = conn.next
      /\ conn'.forecastSeen = conn.forecastSeen
      /\ conn'.statsIDs = IF m.kind \in OfStats THEN {} ELSE conn.statsIDs
      /\ fetched' \in -1 .. hist
  <2>1. CASE m.kind = "result"
    <3>1. UNCHANGED <<conn, fetched>>
      BY <1>2, <1>3, <1>4, <2>1
    <3> QED
      BY <2>1, <3>1 DEF IInv, Typed, OfStats
  <2>2. CASE m.kind = "stats"
    <3>1. conn' = [conn EXCEPT !.statsIDs = {}, !.statsRev = @ + 1] /\ fetched' = m.v
      BY <1>2, <1>3, <2>2 DEF OfStats
    <3>2. m.v \in 0 .. hist /\ hist \in Nat
      BY <1>2 DEF Underway, IInv, Typed
    <3>3. conn' = [next |-> conn.next, statsIDs |-> {}, statsRev |-> conn.statsRev + 1,
                   forecastSeen |-> conn.forecastSeen]
      BY <3>1 DEF IInv, Typed
    <3>4. /\ conn.next \in 0 .. 4
          /\ conn.statsRev + 1 \in Nat
          /\ conn.forecastSeen \in BOOLEAN
      BY DEF IInv, Typed
    <3> QED
      BY <2>2, <3>1, <3>2, <3>3, <3>4 DEF OfStats
  <2>3. CASE m.kind = "refusal"
    <3>1. conn' = [conn EXCEPT !.statsIDs = {}] /\ UNCHANGED fetched
      BY <1>2, <1>3, <2>3 DEF OfStats
    <3> QED
      BY <2>3, <3>1 DEF IInv, Typed, OfStats
  <2> QED
    BY <1>1, <2>1, <2>2, <2>3 DEF m
<1>6. Merged'
  BY <1>1, <1>5 DEF IInv, Merged, ForecastsMerge
<1> QED
  BY <1>1, <1>4, <1>5, <1>6, ReadIInv DEF m

LEMMA EventReadIInv == IInv /\ ReadEvent => IInv'
<1> SUFFICES ASSUME IInv, ReadEvent PROVE IInv'
  OBVIOUS
<1>1. /\ phase = "read" /\ phase' = "loop"
      /\ wire # <<>>
      /\ wire' = Tail(wire)
      /\ Head(wire).kind \notin OfStats
      /\ UNCHANGED <<backoff, conn, cache, hist, link, peer, reused, got, fetched>>
  BY DEF ReadEvent, Received, storeVars, envVars, historyVars, OfStats
<1>2. /\ conn' \in [next : 0 .. 4, statsIDs : SUBSET {4}, statsRev : Nat,
                    forecastSeen : BOOLEAN]
      /\ cache' \in Caches
      /\ got' \subseteq Attributes
      /\ fetched' \in -1 .. hist
  BY <1>1 DEF IInv, Typed
<1>3. Merged'
  BY <1>1 DEF IInv, Merged, ForecastsMerge
<1> QED
  BY <1>1, <1>2, <1>3, ReadIInv

LEMMA ValuesExist ==
  (CHOOSE s \in States : TRUE) \in States /\ (CHOOSE v \in AttrValues : TRUE) \in AttrValues
<1>1. States # {} /\ AttrValues # {}
  BY HaConnAssumption, FS_EmptySet
<1> QED
  BY <1>1

\* Whatever Apply makes of a forecast, the store then holds it beside those that came
\* before it.
LEMMA ForecastApplied ==
  ASSUME IInv, NEW type \in Attributes, NEW r \in Apply(cache, forecastEvent(type))
  PROVE  /\ r.cache \in Caches
         /\ forecast \in DOMAIN r.cache
         /\ got \cup {type} \subseteq DOMAIN r.cache[forecast].attrs
<1> DEFINE attrs == [a \in {type} |-> CHOOSE v \in AttrValues : TRUE]
           st == CHOOSE s \in States : TRUE
<1>1. /\ attrs \in [{type} -> AttrValues]
      /\ {type} \subseteq Attributes
      /\ DOMAIN attrs = {type}
      /\ st \in States
  BY ValuesExist
<1> HIDE DEF attrs, st
<1>2. attrs \in Partial(Attributes, AttrValues)
  BY <1>1 DEF Partial
<1>3. ASSUME NEW c, DOMAIN c = {forecast}, c = [e \in DOMAIN c |-> c[e]],
             c[forecast] \in EntityState
      PROVE  c \in Caches
  <2>1. c \in [{forecast} -> EntityState]
    BY <1>3
  <2>2. {forecast} \in SUBSET Entities
    BY HaConnAssumption
  <2> QED
    BY <2>1, <2>2 DEF Caches, Partial
<1>4. cache \in Caches /\ conn.forecastSeen \in BOOLEAN
  BY DEF IInv, Typed
<1>5. DOMAIN cache \subseteq {forecast} /\ \A e \in DOMAIN cache : cache[e] \in EntityState
  BY <1>4, HaConnAssumption DEF Caches, Partial
<1>6. CASE ~conn.forecastSeen
  <2> DEFINE whole == [state |-> st, attrs |-> attrs]
             add == [e \in {forecast} |-> whole]
             ev == [add |-> add, change |-> EmptyCache, remove |-> {}]
             added == Over(cache, add)
             pending == Only(EmptyCache, DOMAIN added)
             changed == Changed(added, pending)
             result == Without(Over(added, changed), {})
  <2>1. forecastEvent(type) = ev
    BY <1>6 DEF forecastEvent, attrs, st
  <2>2. whole \in EntityState /\ whole # Malformed
    BY <1>1, <1>2, MarkersDistinct DEF EntityState
  <2>3. WellFormed(add) = DOMAIN add
    BY <2>2 DEF WellFormed
  <2>4. DOMAIN added = {forecast} /\ added[forecast] = whole
    <3>1. DOMAIN added = DOMAIN cache \cup {forecast}
      BY DEF Over
    <3>2. added[forecast] = whole
      BY DEF Over
    <3> QED
      BY <1>5, <3>1, <3>2
  <2> HIDE DEF whole, add, added
  <2>5. DOMAIN pending = {}
    BY DEF Only, EmptyCache
  <2> HIDE DEF pending
  <2>6. WellFormed(pending) = DOMAIN pending
    BY <2>5 DEF WellFormed
  <2>7. DOMAIN changed = {}
    BY <2>5 DEF Changed
  <2> HIDE DEF changed
  <2>8. r.cache = result
    BY <2>1, <2>3, <2>6 DEF Apply, added, pending, changed
  <2>9. /\ DOMAIN result = {forecast}
        /\ result = [e \in DOMAIN result |-> result[e]]
        /\ result[forecast] = whole
    BY <2>4, <2>7 DEF Over, Without
  <2> HIDE DEF result
  <2>10. result \in Caches
    BY <1>3, <2>2, <2>9
  <2>11. got = {}
    BY <1>6 DEF IInv, Merged
  <2> QED
    BY <1>1, <2>8, <2>9, <2>10, <2>11 DEF whole
<1>7. CASE conn.forecastSeen
  <2> DEFINE cur == cache[forecast]
             d == [state |-> Same, set |-> attrs, unset |-> {}]
             change == [e \in {forecast} |-> d]
             ev == [add |-> EmptyCache, change |-> change, remove |-> {}]
             added == Over(cache, EmptyCache)
             pending == Only(change, DOMAIN added)
             changed == Changed(added, pending)
             result == Without(Over(added, changed), {})
             merged == Over(Without(cur.attrs, {}), attrs)
             new == [state |-> cur.state, attrs |-> merged]
  <2>1. forecastEvent(type) = ev
    BY <1>7 DEF forecastEvent, attrs
  <2>2. d \in Diffs /\ d # Malformed
    BY <1>2, MarkersDistinct DEF Diffs
  <2>3. forecast \in DOMAIN cache /\ got \subseteq DOMAIN cur.attrs
    BY <1>7 DEF IInv, Merged, ForecastsMerge
  <2>4. DOMAIN cache = {forecast} /\ cur \in EntityState
    BY <1>5, <2>3
  <2>5. WellFormed(EmptyCache) = DOMAIN EmptyCache
    BY DEF WellFormed, EmptyCache
  <2>6. DOMAIN added = {forecast} /\ added[forecast] = cur
    BY <2>4 DEF Over, EmptyCache
  <2> HIDE DEF added, d, cur
  <2>7. DOMAIN pending = {forecast} /\ pending[forecast] = d
    BY <2>6 DEF Only
  <2> HIDE DEF pending
  <2>8. WellFormed(pending) = DOMAIN pending
    BY <2>2, <2>7 DEF WellFormed
  <2>9. DOMAIN changed = {forecast} /\ changed[forecast] = ApplyChange(cur, d)
    BY <2>6, <2>7 DEF Changed
  <2>10. ApplyChange(cur, d) = new
    BY DEF ApplyChange, d
  <2> HIDE DEF changed, change
  <2>11. r.cache = result
    BY <2>1, <2>5, <2>8 DEF Apply, added, pending, changed
  <2>12. /\ DOMAIN result = {forecast}
         /\ result = [e \in DOMAIN result |-> result[e]]
         /\ result[forecast] = ApplyChange(cur, d)
    BY <2>6, <2>9 DEF Over, Without
  <2> HIDE DEF result
  <2>13. merged \in Partial(Attributes, AttrValues) /\ DOMAIN merged = DOMAIN cur.attrs \cup {type}
    <3>1. /\ DOMAIN cur.attrs \subseteq Attributes
          /\ \A a \in DOMAIN cur.attrs : cur.attrs[a] \in AttrValues
          /\ cur.state \in States
      BY <2>4 DEF EntityState, Partial
    <3> DEFINE kept == Without(cur.attrs, {})
    <3>2. DOMAIN kept = DOMAIN cur.attrs /\ \A a \in DOMAIN cur.attrs : kept[a] = cur.attrs[a]
      BY DEF Without
    <3> HIDE DEF kept
    <3>3. DOMAIN Over(kept, attrs) = DOMAIN cur.attrs \cup {type}
      BY <1>1, <3>2 DEF Over
    <3>4. Over(kept, attrs) \in [DOMAIN cur.attrs \cup {type} -> AttrValues]
      BY <1>1, <3>1, <3>2 DEF Over
    <3>5. DOMAIN cur.attrs \cup {type} \in SUBSET Attributes
      BY <1>1, <3>1
    <3> QED
      BY <3>3, <3>4, <3>5 DEF Partial, kept
  <2> HIDE DEF merged
  <2>14. new \in EntityState /\ new.attrs = merged
    BY <2>4, <2>13 DEF EntityState
  <2> HIDE DEF new
  <2>15. result \in Caches
    BY <1>3, <2>10, <2>12, <2>14
  <2> QED
    BY <2>3, <2>10, <2>11, <2>12, <2>13, <2>14, <2>15 DEF cur
<1> QED
  BY <1>4, <1>6, <1>7

LEMMA ForecastReadIInv == IInv /\ ReadForecast => IInv'
<1> SUFFICES ASSUME IInv, ReadForecast PROVE IInv'
  OBVIOUS
<1> DEFINE type == Head(wire).kind
<1>1. /\ phase = "read" /\ phase' = "loop"
      /\ wire # <<>>
      /\ wire' = Tail(wire)
      /\ type \in {"daily", "hourly"}
      /\ UNCHANGED <<backoff, hist, link, peer, reused, fetched>>
      /\ conn' = [conn EXCEPT !.forecastSeen = TRUE]
      /\ got' = got \cup {type}
  BY DEF ReadForecast, Received, envVars
<1>2. PICK r \in Apply(cache, forecastEvent(type)) : cache' = r.cache
  BY DEF ReadForecast
<1> HIDE DEF type
<1>3. type \in Attributes
  BY <1>1, HaConnAssumption
<1>4. /\ cache' \in Caches
      /\ forecast \in DOMAIN cache'
      /\ got \cup {type} \subseteq DOMAIN cache'[forecast].attrs
  BY <1>2, <1>3, ForecastApplied
<1>5. /\ conn' \in [next : 0 .. 4, statsIDs : SUBSET {4}, statsRev : Nat,
                    forecastSeen : BOOLEAN]
      /\ conn'.next = conn.next
      /\ conn'.statsIDs = conn.statsIDs
      /\ conn'.forecastSeen
      /\ got' \subseteq Attributes
      /\ fetched' \in -1 .. hist
  BY <1>1, <1>3 DEF IInv, Typed
<1>6. Merged'
  BY <1>1, <1>4, <1>5 DEF Merged, ForecastsMerge
<1>7. Head(wire).kind \notin OfStats
  BY <1>1 DEF type, OfStats
<1> QED
  BY <1>1, <1>4, <1>5, <1>6, <1>7, ReadIInv

LEMMA NextIInv == IInv /\ [Next]_vars => IInv'
<1> SUFFICES ASSUME IInv, [Next]_vars PROVE IInv'
  OBVIOUS
<1>1. CASE Cancel \/ Falter \/ Recover \/ Lose \/ GoSilent \/ Revise
  BY <1>1, WorldIInv
<1>2. CASE Answer
  BY <1>2, AnswerIInv
<1>3. CASE Event
  BY <1>3, EventIInv
<1>4. CASE Dial
  BY <1>4, DialIInv
<1>5. CASE Greeted \/ AuthOK \/ AuthInvalid \/ HandshakeLost
  BY <1>5, HandshakeIInv
<1>6. CASE Wait \/ Done
  BY <1>6, WaitIInv
<1>7. CASE Subscribe \/ Forecast \/ RequestStatistics
  BY <1>7, SubscribeIInv
<1>8. CASE SubscribeFails \/ Loop \/ ReadFails
  BY <1>8, CloseIInv
<1>9. CASE ReadStatistics
  BY <1>9, StatisticsIInv
<1>10. CASE ReadEvent
  BY <1>10, EventReadIInv
<1>11. CASE ReadForecast
  BY <1>11, ForecastReadIInv
<1>12. CASE UNCHANGED vars
  BY <1>12
  DEF vars, IInv, Typed, InStep, AnsweredOnce, Merged, ForecastsMerge, Underway
<1> QED
  BY <1>1, <1>2, <1>3, <1>4, <1>5, <1>6, <1>7, <1>8, <1>9, <1>10, <1>11, <1>12 DEF Next

LEMMA IInvHolds == Spec => []IInv
<1> QED
  BY InitIInv, NextIInv, PTL DEF Spec

-------------------------------------------------------------------------------

\* Types; the wait stays between its bounds, and there is a connection just when Run
\* is using one.
THEOREM TypeCorrect == Spec => []TypeOK
<1>1. IInv => TypeOK
  <2> SUFFICES ASSUME IInv PROVE TypeOK
    OBVIOUS
  <2>1. conn.statsIDs \subseteq 1 .. conn.next
    BY DEF IInv, Typed, InStep
  <2> QED
    BY <2>1 DEF IInv, Typed, InStep, Phases, Apart, TypeOK
<1> QED
  BY <1>1, IInvHolds, PTL

\* No id is ever used twice on a connection, and nothing is read from one that was
\* not asked for the entities, both forecasts and the statistics.
THEOREM EverythingAsked == Spec => []AskedEverything
<1>1. IInv => AskedEverything
  <2> SUFFICES ASSUME IInv, phase \in {"loop", "read"}, link = "up"
               PROVE  peer.accepted = Kinds
    BY DEF AskedEverything, IInv, InStep
  <2>1. conn.next = 4 /\ peer.accepted = {k \in Kinds : IdOf[k] <= conn.next}
    BY DEF IInv, InStep, SentIn
  <2> QED
    BY <2>1 DEF Kinds, IdOf
<1> QED
  BY <1>1, IInvHolds, PTL

\* The answer to the request for statistics is recognised however it is delayed, and
\* no other result is taken for it.
THEOREM ResultsRecognised == Spec => []ResultsMatched
<1>1. IInv => ResultsMatched
  <2> SUFFICES ASSUME IInv, NEW i \in DOMAIN wire,
                      wire[i].kind \in {"result", "stats", "refusal"}
               PROVE  wire[i].id \in conn.statsIDs <=> wire[i].kind # "result"
    BY DEF ResultsMatched
  <2>1. i \in 1 .. Len(wire)
    BY LenProperties DEF IInv, Typed
  <2>2. conn.statsIDs \subseteq {4}
    BY DEF IInv, Typed
  <2> QED
    BY <2>1, <2>2 DEF IInv, AnsweredOnce, OfStats
<1> QED
  BY <1>1, IInvHolds, PTL

\* Whatever order the forecasts come in, and whatever the store kept from earlier
\* connections, neither pushes out the other.
THEOREM ForecastsKept == Spec => []ForecastsMerge
<1>1. IInv => ForecastsMerge
  BY DEF IInv, Merged
<1> QED
  BY <1>1, IInvHolds, PTL

===============================================================================
