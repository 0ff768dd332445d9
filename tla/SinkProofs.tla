------------------------------ MODULE SinkProofs ------------------------------
(***************************************************************************)
(* Proofs about the frame sink, for every number of frames.  The safety    *)
(* properties of Sink.tla are proved together: none is inductive alone.    *)
(* NewestWins needs to know where the loop can be while it holds a frame,  *)
(* FramesAccounted needs the same to know that LoopSwap does not overwrite *)
(* one, and QuietAfterClose that a loop which has left has a cancelled     *)
(* context and that Close returns only after it.                           *)
(***************************************************************************)
EXTENDS Sink, TLAPS

\* Where the loop can be while it holds a frame, and what a frame can be.
LoopHolds ==
    /\ loop \in {"select", "swap"} => frame = NoFrame
    /\ frame <= pushed

\* What the end of a session implies.
Ending ==
    /\ loop \in {"return", "done"} => ctxDone
    /\ close # "open" => ctxDone
    /\ close = "returned" => loop = "done"

IInv ==
    /\ TypeOK
    /\ LoopHolds
    /\ NoLostWakeup
    /\ FramesAccounted
    /\ NewestWins
    /\ Ending

USE DEF NoFrame, Holds

-------------------------------------------------------------------------------

LEMMA InitIInv == Init => IInv
<1> SUFFICES ASSUME Init PROVE IInv
  OBVIOUS
<1> USE DEF Init
<1>a. wake \in BOOLEAN /\ ctxDone \in BOOLEAN
  OBVIOUS
<1>1. TypeOK
  BY <1>a, MaxFramesAssumption DEF TypeOK, LoopSteps
<1>2. LoopHolds /\ NoLostWakeup /\ FramesAccounted /\ NewestWins /\ Ending
  BY DEF LoopHolds, NoLostWakeup, FramesAccounted, NewestWins, Ending
<1> QED
  BY <1>1, <1>2 DEF IInv

\* Every step keeps the types.
LEMMA NextTypeOK == IInv /\ [Next]_vars => TypeOK'
<1> SUFFICES ASSUME IInv, [Next]_vars PROVE TypeOK'
  OBVIOUS
<1> USE MaxFramesAssumption DEF IInv, TypeOK, LoopSteps, pushVars, loopVars
<1>1. CASE PushSwap
  BY <1>1 DEF PushSwap
<1>2. CASE PushCount
  BY <1>2 DEF PushCount
<1>3. CASE PushWake
  BY <1>3 DEF PushWake
<1>4. CASE LoopWake
  BY <1>4 DEF LoopWake
<1>5. CASE LoopCancelled
  BY <1>5 DEF LoopCancelled
<1>6. CASE LoopSwap
  BY <1>6 DEF LoopSwap
<1>7. CASE LoopCount
  BY <1>7 DEF LoopCount
<1>8. CASE LoopDone
  BY <1>8 DEF LoopDone
<1>9. CASE SendOk
  BY <1>9 DEF SendOk
<1>10. CASE SendError
  BY <1>10 DEF SendError
<1>11. CASE CloseCancel
  BY <1>11 DEF CloseCancel
<1>12. CASE CloseReturn
  BY <1>12 DEF CloseReturn
<1>13. CASE ParentCancelled
  BY <1>13 DEF ParentCancelled
<1>14. CASE UNCHANGED vars
  BY <1>14 DEF vars
<1> QED
  BY <1>1, <1>2, <1>3, <1>4, <1>5, <1>6, <1>7, <1>8, <1>9, <1>10, <1>11, <1>12,
     <1>13, <1>14 DEF Next

\* Every step keeps the invariant.
LEMMA NextIInv == IInv /\ [Next]_vars => IInv'
<1> SUFFICES ASSUME IInv, [Next]_vars PROVE IInv'
  OBVIOUS
<1>t. TypeOK'
  BY NextTypeOK
<1>r. SUFFICES (LoopHolds /\ NoLostWakeup /\ FramesAccounted /\ NewestWins /\ Ending)'
  BY <1>t DEF IInv
<1> USE DEF IInv, TypeOK, LoopSteps, LoopHolds, NoLostWakeup, FramesAccounted,
            NewestWins, Ending, pushVars, loopVars
<1>1. CASE PushSwap
  BY <1>1, <1>t DEF PushSwap
<1>2. CASE PushCount
  BY <1>2, <1>t DEF PushCount
<1>3. CASE PushWake
  BY <1>3, <1>t DEF PushWake
<1>4. CASE LoopWake
  BY <1>4, <1>t DEF LoopWake
<1>5. CASE LoopCancelled
  BY <1>5, <1>t DEF LoopCancelled
<1>6. CASE LoopSwap
  BY <1>6, <1>t DEF LoopSwap
<1>7. CASE LoopCount
  BY <1>7, <1>t DEF LoopCount
<1>8. CASE LoopDone
  BY <1>8, <1>t DEF LoopDone
<1>9. CASE SendOk
  BY <1>9, <1>t DEF SendOk
<1>10. CASE SendError
  BY <1>10, <1>t DEF SendError
<1>11. CASE CloseCancel
  BY <1>11, <1>t DEF CloseCancel
<1>12. CASE CloseReturn
  BY <1>12, <1>t DEF CloseReturn
<1>13. CASE ParentCancelled
  BY <1>13, <1>t DEF ParentCancelled
<1>14. CASE UNCHANGED vars
  BY <1>14 DEF vars
<1> QED
  BY <1>1, <1>2, <1>3, <1>4, <1>5, <1>6, <1>7, <1>8, <1>9, <1>10, <1>11, <1>12, <1>13, <1>14 DEF Next

LEMMA Invariance == Spec => []IInv
<1>1. Init => IInv
  BY InitIInv
<1>2. IInv /\ [Next]_vars => IInv'
  BY NextIInv
<1> QED
  BY <1>1, <1>2, PTL DEF Spec

-------------------------------------------------------------------------------

\* The sink's words have their types in every reachable state, and the loop
\* never dereferences a nil pointer.
THEOREM TypeCorrect == Spec => []TypeOK
<1>1. IInv => TypeOK
  BY DEF IInv
<1> QED
  BY <1>1, Invariance, PTL

\* No frame in the slot is forgotten, however Push and the loop interleave.
THEOREM WakeupSafe == Spec => []NoLostWakeup
<1>1. IInv => NoLostWakeup
  BY DEF IInv
<1> QED
  BY <1>1, Invariance, PTL

\* Sent and dropped account for every frame pushed (Stats is exact).
THEOREM AccountsBalance == Spec => []FramesAccounted
<1>1. IInv => FramesAccounted
  BY DEF IInv
<1> QED
  BY <1>1, Invariance, PTL

\* A client never sees frames out of order, nor an old one when the slot holds
\* a newer.
THEOREM OrderKept == Spec => []NewestWins
<1>1. IInv => NewestWins
  BY DEF IInv
<1> QED
  BY <1>1, Invariance, PTL

\* When Close has returned nothing of the sink runs any more.
THEOREM CloseIsFinal == Spec => QuietAfterClose
<1>1. IInv /\ [Next]_vars => [Quiet]_vars
  <2> SUFFICES ASSUME IInv, [Next]_vars, close = "returned"
               PROVE  UNCHANGED <<delivered, sent, frame, loop, ctxDone>>
    BY DEF Quiet
  <2>1. loop = "done" /\ ctxDone
    BY DEF IInv, Ending
  <2>2. CASE Push
    BY <2>2 DEF Push, PushSwap, PushCount, PushWake, loopVars
  <2>3. CASE LoopStep \/ Send
    BY <2>1, <2>3 DEF LoopStep, LoopWake, LoopCancelled, LoopSwap, LoopCount,
                      LoopDone, Send, SendOk, SendError
  <2>4. CASE CloseCancel \/ CloseReturn \/ ParentCancelled
    BY <2>1, <2>4 DEF CloseCancel, CloseReturn, ParentCancelled
  <2>5. CASE UNCHANGED vars
    BY <2>5 DEF vars
  <2> QED
    BY <2>2, <2>3, <2>4, <2>5 DEF Next, Push, LoopStep, Send
<1> QED
  BY <1>1, Invariance, PTL DEF Spec, QuietAfterClose

-------------------------------------------------------------------------------
(* Refinement.  PushSwap is the mailbox's Offer, LoopSwap its Take, SendOk its *)
(* Deliver; leaving the loop is Shut, and every other step is invisible.       *)

LEMMA InitRefines == Init => Abstract!Init
  BY DEF Init, Abstract!Init

LEMMA NextRefines == IInv /\ [Next]_vars => [Abstract!Next]_(Abstract!mailboxVars)
<1> SUFFICES ASSUME IInv, [Next]_vars
             PROVE  [Abstract!Next]_(Abstract!mailboxVars)
  OBVIOUS
<1> USE DEF IInv, TypeOK, LoopSteps, LoopHolds, NewestWins, pushVars, loopVars,
            Abstract!mailboxVars
<1>1. PushSwap => Abstract!Offer
  BY DEF PushSwap, Abstract!Offer
<1>2. LoopSwap => Abstract!Take \/ UNCHANGED Abstract!mailboxVars
  BY DEF LoopSwap, Abstract!Take
<1>3. SendOk => Abstract!Deliver
  BY DEF SendOk, Abstract!Deliver
<1>4. LoopCancelled \/ SendError => Abstract!Shut
  BY DEF LoopCancelled, SendError, Abstract!Shut
<1>5. PushCount \/ PushWake \/ LoopWake \/ LoopCount \/ LoopDone
        => UNCHANGED Abstract!mailboxVars
  BY DEF PushCount, PushWake, LoopWake, LoopCount, LoopDone
<1>6. CloseCancel \/ CloseReturn \/ ParentCancelled
        => UNCHANGED Abstract!mailboxVars
  BY DEF CloseCancel, CloseReturn, ParentCancelled
<1>7. UNCHANGED vars => UNCHANGED Abstract!mailboxVars
  BY DEF vars
<1> QED
  BY <1>1, <1>2, <1>3, <1>4, <1>5, <1>6, <1>7 DEF Next, Abstract!Next

\* The sink implements the mailbox: what a session sees of the three goroutines
\* is a slot whose newest frame is taken, delivered, and only then replaced.
THEOREM SinkIsMailbox == Spec => ImplementsMailbox
<1>1. Init => Abstract!Init
  BY InitRefines
<1>2. IInv /\ [Next]_vars => [Abstract!Next]_(Abstract!mailboxVars)
  BY NextRefines
<1> QED
  BY <1>1, <1>2, Invariance, PTL DEF Spec, ImplementsMailbox, Abstract!SafeSpec

===============================================================================
