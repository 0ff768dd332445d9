------------------------------- MODULE Mailbox -------------------------------
(***************************************************************************)
(* What a session's frame sink promises, without the machinery that keeps  *)
(* the promise: a slot that holds one frame, the newest.  Frames are       *)
(* numbered in the order they are offered.  The consumer takes the newest  *)
(* frame there is, delivers it, and only then takes another; everything    *)
(* offered in between is skipped.  Sink.tla is shown to implement this     *)
(* specification, and Sessions.tla composes the store with it.             *)
(***************************************************************************)
EXTENDS Naturals

VARIABLES
    offered,    \* number of the newest frame offered
    taken,      \* number of the newest frame taken out of the slot
    seen,       \* number of the newest frame delivered to the client
    open        \* FALSE once the consumer has stopped for good

mailboxVars == <<offered, taken, seen, open>>

Init ==
    /\ offered = 0
    /\ taken = 0
    /\ seen = 0
    /\ open = TRUE

Offer ==
    /\ offered' = offered + 1
    /\ UNCHANGED <<taken, seen, open>>

\* The slot is emptied: the consumer holds what was newest at that moment.
Take ==
    /\ open
    /\ taken = seen
    /\ taken < offered
    /\ taken' = offered
    /\ UNCHANGED <<offered, seen, open>>

Deliver ==
    /\ open
    /\ seen < taken
    /\ seen' = taken
    /\ UNCHANGED <<offered, taken, open>>

\* The session has ended.  A frame taken and not delivered is lost with it.
Shut ==
    /\ open
    /\ open' = FALSE
    /\ UNCHANGED <<offered, taken, seen>>

Next == Offer \/ Take \/ Deliver \/ Shut

SafeSpec == Init /\ [][Next]_mailboxVars

\* A client that keeps reading is eventually shown the newest frame.
Fairness == WF_mailboxVars(Take) /\ WF_mailboxVars(Deliver)

Spec == SafeSpec /\ Fairness

===============================================================================
