------------------------------- MODULE Admission -------------------------------
(***************************************************************************)
(* internal/server/authkeys.go, and what serve.go and main.go do around    *)
(* it: who may open a session, and until when.                             *)
(*                                                                         *)
(* The operator writes authorized_keys and sends SIGHUP.  The signals go   *)
(* into a channel of one, which Go's runtime never waits for: a goroutine  *)
(* of main takes them out and reads the file, and puts the keys in force   *)
(* in one assignment if it found any.  Handshakes look a key up at any     *)
(* time between; the session is opened later, and keeps running when its   *)
(* key goes.  What it does then is in Sessions.tla.  SIGTERM cancels the   *)
(* context; the listener closes, with it Serve returns, and the process    *)
(* exits without waiting for its sessions.                                 *)
(***************************************************************************)
EXTENDS Naturals

CONSTANTS
    Keys,           \* public keys; a client is known by its key
    NoFile,         \* authorized_keys is missing, or cannot be read
    MaxEdits        \* bound: how often authorized_keys is written

ASSUME AdmissionAssumption ==
    /\ MaxEdits \in Nat
    /\ \A S \in SUBSET Keys : NoFile # S

VARIABLES
    file,       \* authorized_keys: NoFile, or the keys on lines that can be parsed
    past,       \* everything that has been in it
    edits,      \* how often it has been written
    told,       \* SIGHUP has been sent since then
    hup,        \* a signal is in the channel
    reload,     \* the goroutine: at "wait", "read", or "swap" with what it has got
    keys,       \* a.keys
    client,     \* per key: "away", "admitted" by the handshake, "in" a session
    server      \* "up", "down" when ctx is done, "closed" when the process is gone

fileVars == <<file, past, edits, told>>
reloadVars == <<hup, reload, keys>>
vars == <<fileVars, reloadVars, client, server>>

Contents == (SUBSET Keys) \cup {NoFile}

Waiting == [at |-> "wait", got |-> NoFile]

\* main: a daemon that finds no key does not start.
Init ==
    /\ keys \in (SUBSET Keys) \ {{}}
    /\ file = keys
    /\ past = {file}
    /\ edits = 0
    /\ told = FALSE
    /\ hup = FALSE
    /\ reload = Waiting
    /\ client = [k \in Keys |-> "away"]
    /\ server = "up"

Alive == server # "closed"

-------------------------------------------------------------------------------
(* The operator *)

\* Not every editor replaces a file in one step: one that truncates it first makes
\* two edits.
Edit ==
    /\ Alive
    /\ edits < MaxEdits
    /\ \E f \in Contents \ {file} :
          /\ file' = f
          /\ past' = past \cup {f}
    /\ edits' = edits + 1
    /\ told' = FALSE
    /\ UNCHANGED <<reloadVars, client, server>>

\* signal.Notify with a channel that has no room: the signal is lost unless the
\* goroutine waits for it at that moment.
Hangup_Unbuffered ==
    /\ Alive
    /\ told' = TRUE
    /\ hup' = (hup \/ reload = Waiting)
    /\ UNCHANGED <<file, past, edits, reload, keys, client, server>>

\* SIGHUP: one that finds the channel full is dropped.
Hangup ==
    /\ Alive
    /\ told' = TRUE
    /\ hup' = TRUE
    /\ UNCHANGED <<file, past, edits, reload, keys, client, server>>

-------------------------------------------------------------------------------
(* for range hup: Reload *)

ReloadBegins ==
    /\ Alive
    /\ reload.at = "wait"
    /\ hup
    /\ hup' = FALSE
    /\ reload' = [reload EXCEPT !.at = "read"]
    /\ UNCHANGED <<fileVars, keys, client, server>>

ReloadReads ==
    /\ Alive
    /\ reload.at = "read"
    /\ reload' = [at |-> "swap", got |-> file]
    /\ UNCHANGED <<fileVars, hup, keys, client, server>>

\* Reload returns an error for a file it cannot read or finds no key in.
Holds(got) == got \notin {NoFile, {}}

\* After an error the goroutine returns instead of waiting for the next signal.
ReloadSwaps_Returns ==
    /\ Alive
    /\ reload.at = "swap"
    /\ keys' = IF Holds(reload.got) THEN reload.got ELSE keys
    /\ reload' = IF Holds(reload.got) THEN Waiting ELSE [reload EXCEPT !.at = "over"]
    /\ UNCHANGED <<fileVars, hup, client, server>>

\* a.keys = keys, under the lock; after an error the list in force stays.
ReloadSwaps ==
    /\ Alive
    /\ reload.at = "swap"
    /\ keys' = IF Holds(reload.got) THEN reload.got ELSE keys
    /\ reload' = Waiting
    /\ UNCHANGED <<fileVars, hup, client, server>>

Reload == ReloadBegins \/ ReloadReads \/ ReloadSwaps

-------------------------------------------------------------------------------
(* Connections, and the end *)

\* wish's default when there is no handler: any key will do.
Handshake_Default(k) ==
    /\ Alive
    /\ client[k] = "away"
    /\ client' = [client EXCEPT ![k] = "admitted"]
    /\ UNCHANGED <<fileVars, reloadVars, server>>

\* The server's handler looks the key up.  A handshake that fails leaves nothing
\* behind.
Handshake(k) ==
    /\ Alive
    /\ client[k] = "away"
    /\ k \in keys
    /\ client' = [client EXCEPT ![k] = "admitted"]
    /\ UNCHANGED <<fileVars, reloadVars, server>>

\* The middleware calls newProgram, which does not look at the list again.
Opens(k) ==
    /\ Alive
    /\ client[k] = "admitted"
    /\ client' = [client EXCEPT ![k] = "in"]
    /\ UNCHANGED <<fileVars, reloadVars, server>>

Leaves(k) ==
    /\ Alive
    /\ client[k] # "away"
    /\ client' = [client EXCEPT ![k] = "away"]
    /\ UNCHANGED <<fileVars, reloadVars, server>>

\* SIGINT or SIGTERM.
Terminate ==
    /\ server = "up"
    /\ server' = "down"
    /\ UNCHANGED <<fileVars, reloadVars, client>>

\* srv.Shutdown closes the listener, and ListenAndServe returns at once.
Shutdown ==
    /\ server = "down"
    /\ server' = "closed"
    /\ UNCHANGED <<fileVars, reloadVars, client>>

Next ==
    \/ Edit \/ Hangup \/ Reload \/ Terminate \/ Shutdown
    \/ \E k \in Keys : Handshake(k) \/ Opens(k) \/ Leaves(k)

Spec == Init /\ [][Next]_vars

\* The reloading goroutine runs.  Nothing is assumed of the operator or of clients.
FairSpec == Spec /\ WF_vars(Reload)

-------------------------------------------------------------------------------

\* SIGHUP has been sent after the last edit, and the goroutine has nothing left to do.
Served == told /\ file \notin {{}, NoFile} /\ ~hup /\ reload.at = "wait"

\* However edits, signals, reloads and handshakes fall together, the list in force is
\* always one that the file has held, whole, and never an empty one: a file that is
\* gone, empty or being written over neither opens the door nor locks it for all.  And
\* nobody is let in whose key is not on the list in force at the handshake, nor, once
\* the last signal has been served, one whose key is not in the file.
OnlyListed ==
    /\ [](keys \in past \ {{}, NoFile})
    /\ [][\A k \in Keys :
            client[k] = "away" /\ client'[k] # "away" => k \in keys /\ (Served => k \in file)]_vars

\* No signal is lost: when SIGHUP has been sent after the last edit, and the
\* goroutine has nothing left to do, the list in force is the file's.  A signal
\* that comes while an earlier one is being served waits in the channel, and two
\* that wait are as good as one.
NewestListInForce == Served => keys = file

\* A revocation lands: when a key has been taken out of the file, and the signal
\* sent, new handshakes with it are refused in the end, also when reloads before
\* that have failed.
RevocationLands ==
    \A k \in Keys :
        told /\ file \notin {{}, NoFile} /\ k \notin file
            ~> k \notin keys \/ ~told \/ server = "closed"

===============================================================================
