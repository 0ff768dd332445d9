---------------------------- MODULE AdmissionProofs ----------------------------
(***************************************************************************)
(* The allow-list, for every set of keys, every number of edits, and every *)
(* order of edits, signals, reloads, handshakes and the end.               *)
(***************************************************************************)
EXTENDS Admission, TLAPS

Stages == {"wait", "read", "swap"}

\* The list in force, and what a reload holds, come from the file.
Founded ==
    /\ file \in past
    /\ keys \in past \ {{}, NoFile}
    /\ reload \in [at : Stages, got : past \cup {NoFile}]

\* Every client is in one of the stages of a connection.
Staged ==
    client \in [Keys -> {"away", "admitted", "in"}]

\* NewestListInForce is not inductive: what a reload has read since the last edit
\* is the file too, or a signal waits that will have it read again.
OnItsWay ==
    told /\ ~hup =>
        /\ reload.at = "wait" /\ Holds(file) => keys = file
        /\ reload.at = "swap" => reload.got = file

IInv == Founded /\ Staged /\ OnItsWay

-------------------------------------------------------------------------------

LEMMA InitIInv == Init => IInv
<1> SUFFICES ASSUME Init PROVE IInv
  OBVIOUS
<1>1. Founded
  BY AdmissionAssumption DEF Init, Founded, Waiting, Stages
<1>2. Staged
  BY DEF Init, Staged
<1>3. OnItsWay
  BY DEF Init, OnItsWay
<1> QED
  BY <1>1, <1>2, <1>3 DEF IInv

\* Nothing but the stage of a client changes.
LEMMA OthersIInv ==
  ASSUME IInv, UNCHANGED <<file, past, told, hup, reload, keys>>,
         \/ UNCHANGED client
         \/ \E k \in Keys, c \in {"away", "admitted", "in"} : client' = [client EXCEPT ![k] = c]
  PROVE  IInv'
<1>1. Founded' /\ OnItsWay'
  BY DEF IInv, Founded, OnItsWay, Holds
<1>2. Staged'
  BY DEF IInv, Staged
<1> QED
  BY <1>1, <1>2 DEF IInv

LEMMA EditIInv ==
  ASSUME IInv, Edit
  PROVE  IInv'
<1>1. PICK f \in Contents \ {file} : file' = f /\ past' = past \cup {f}
  BY DEF Edit
<1>2. Founded'
  BY <1>1 DEF IInv, Founded, Edit, reloadVars
<1>3. Staged'
  BY <1>1 DEF IInv, Staged, Edit
<1>4. OnItsWay'
  BY DEF OnItsWay, Edit
<1> QED
  BY <1>2, <1>3, <1>4 DEF IInv

LEMMA ReloadIInv ==
  ASSUME IInv, Reload
  PROVE  IInv'
<1> USE DEF fileVars
<1>1. CASE ReloadBegins
  BY <1>1 DEF ReloadBegins, IInv, Founded, Staged, OnItsWay, Stages
<1>2. CASE ReloadReads
  BY <1>2 DEF ReloadReads, IInv, Founded, Staged, OnItsWay, Stages
<1>3. CASE ReloadSwaps
  <2>1. Founded'
    BY <1>3 DEF ReloadSwaps, IInv, Founded, Holds, Waiting, Stages
  <2>2. Staged'
    BY <1>3 DEF ReloadSwaps, IInv, Staged
  <2>3. OnItsWay'
    BY <1>3 DEF ReloadSwaps, IInv, OnItsWay, Holds, Waiting
  <2> QED
    BY <2>1, <2>2, <2>3 DEF IInv
<1> QED
  BY <1>1, <1>2, <1>3 DEF Reload

LEMMA NextIInv == IInv /\ [Next]_vars => IInv'
<1> SUFFICES ASSUME IInv, [Next]_vars PROVE IInv'
  OBVIOUS
<1> USE DEF fileVars, reloadVars
<1>1. CASE Edit
  BY <1>1, EditIInv
<1>2. CASE Hangup
  BY <1>2 DEF Hangup, IInv, Founded, Staged, OnItsWay
<1>3. CASE Reload
  BY <1>3, ReloadIInv
<1>4. CASE Terminate \/ Shutdown
  BY <1>4, OthersIInv DEF Terminate, Shutdown
<1>5. ASSUME NEW k \in Keys, Handshake(k) \/ Opens(k) \/ Leaves(k) PROVE IInv'
  <2>1. UNCHANGED <<file, past, told, hup, reload, keys>>
    BY <1>5 DEF Handshake, Opens, Leaves
  <2>2. \E c \in {"away", "admitted", "in"} : client' = [client EXCEPT ![k] = c]
    BY <1>5 DEF Handshake, Opens, Leaves
  <2> QED
    BY <2>1, <2>2, OthersIInv
<1>6. CASE UNCHANGED vars
  BY <1>6, OthersIInv DEF vars
<1> QED
  BY <1>1, <1>2, <1>3, <1>4, <1>5, <1>6 DEF Next

LEMMA Invariance == Spec => []IInv
<1> QED
  BY InitIInv, NextIInv, PTL DEF Spec

\* What a step lets in is on the list in force, and in the file once that is served.
LEMMA LetInListed ==
  ASSUME IInv, [Next]_vars, NEW k \in Keys, client[k] = "away", client'[k] # "away"
  PROVE  k \in keys /\ (Served => k \in file)
<1> USE DEF fileVars, reloadVars
<1>1. Handshake(k)
  <2>1. PICK l \in Keys : Handshake(l) \/ Opens(l) \/ Leaves(l)
    BY DEF Next, vars, Edit, Hangup, Reload, ReloadBegins, ReloadReads, ReloadSwaps, Terminate, Shutdown
  <2>2. l = k /\ ~Leaves(l)
    BY <2>1 DEF Handshake, Opens, Leaves, IInv, Staged
  <2>3. ~Opens(k)
    BY DEF Opens
  <2> QED
    BY <2>1, <2>2, <2>3
<1>2. Served => keys = file
  BY DEF Served, IInv, OnItsWay, Holds
<1> QED
  BY <1>1, <1>2 DEF Handshake

\* Reload's promise to fail closed, and the handler's: the list in force is one the
\* file has held, never empty, and only who is on it is let in.
THEOREM FailsClosed == Spec => OnlyListed
<1>1. IInv => keys \in past \ {{}, NoFile}
  BY DEF IInv, Founded
<1>2. IInv /\ [Next]_vars =>
         [\A k \in Keys : client[k] = "away" /\ client'[k] # "away" =>
                             k \in keys /\ (Served => k \in file)]_vars
  BY LetInListed
<1> QED
  BY Invariance, <1>1, <1>2, PTL DEF Spec, OnlyListed

\* The channel of one is enough: no SIGHUP is lost, however many come and whenever.
THEOREM NoSignalLost == Spec => []NewestListInForce
<1>1. IInv => NewestListInForce
  BY DEF IInv, OnItsWay, NewestListInForce, Served, Holds
<1> QED
  BY Invariance, <1>1, PTL

===============================================================================
