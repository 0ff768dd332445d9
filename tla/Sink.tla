--------------------------------- MODULE Sink ---------------------------------
(***************************************************************************)
(* internal/server/sink.go: the frame sink of one SSH session.             *)
(*                                                                         *)
(* Three threads of control meet in it:                                    *)
(*   - the pusher: the store's single writer, inside Push;                 *)
(*   - the loop: the delivery goroutine NewSink starts;                    *)
(*   - the closer: the session goroutine, inside Close.                    *)
(* They share an atomic pointer (latest), a channel of capacity one        *)
(* (wake), two atomic counters, a context and the channel done.  Every     *)
(* operation on one of these is one step.  Frames are numbered in the      *)
(* order they are pushed; NoFrame stands for the nil pointer.              *)
(***************************************************************************)
EXTENDS Naturals

CONSTANT MaxFrames      \* bound: how many frames are pushed

ASSUME MaxFramesAssumption == MaxFrames \in Nat

VARIABLES
    pushed,     \* number of the newest frame given to Push
    latest,     \* s.latest: the frame waiting in the slot, or NoFrame
    wake,       \* a token is in s.wake
    ctxDone,    \* s.ctx is cancelled: by its parent, by Close or by the loop
    dropped,    \* s.dropped
    sent,       \* s.sent
    push,       \* where Push is: "idle", "count", "wake"
    loop,       \* where loop is, see LoopSteps
    frame,      \* p in loop: the frame taken out of the slot, or NoFrame
    delivered,  \* number of the newest frame send has delivered, 0 for none
    close       \* where Close is: "open" (not called), "wait", "returned"

pushVars == <<pushed, latest, dropped, push>>
loopVars == <<loop, frame, sent, delivered>>
vars == <<pushed, latest, wake, ctxDone, dropped, sent, push, loop, frame,
          delivered, close>>

NoFrame == 0

\* "select": the select statement; "swap": woken, about to empty the slot;
\* "send": inside send; "count": send returned nil, s.sent not yet raised;
\* "return": leaving, the deferred close(s.done) not yet run; "done".
LoopSteps == {"select", "swap", "send", "count", "return", "done"}

\* Types, and the pointer the loop dereferences is never nil.
TypeOK ==
    /\ pushed \in 0 .. MaxFrames
    /\ latest \in 0 .. MaxFrames
    /\ wake \in BOOLEAN
    /\ ctxDone \in BOOLEAN
    /\ dropped \in Nat
    /\ sent \in Nat
    /\ push \in {"idle", "count", "wake"}
    /\ loop \in LoopSteps
    /\ frame \in 0 .. MaxFrames
    /\ delivered \in 0 .. MaxFrames
    /\ close \in {"open", "wait", "returned"}
    /\ loop \in {"send", "count"} => frame # NoFrame

\* NewSink
Init ==
    /\ pushed = 0
    /\ latest = NoFrame
    /\ wake = FALSE
    /\ ctxDone = FALSE
    /\ dropped = 0
    /\ sent = 0
    /\ push = "idle"
    /\ loop = "select"
    /\ frame = NoFrame
    /\ delivered = 0
    /\ close = "open"

-------------------------------------------------------------------------------
(* Push.  A definition X_Slip is the X below it with a slip a programmer could make:  *)
(* it is no part of the specification, and shows what the properties exclude.  *)

\* The older frame is kept and the newer one dropped.
PushSwap_KeepsOldest ==
    /\ push = "idle"
    /\ pushed < MaxFrames
    /\ pushed' = pushed + 1
    /\ latest' = IF latest = NoFrame THEN pushed + 1 ELSE latest
    /\ push' = IF latest = NoFrame THEN "wake" ELSE "count"
    /\ UNCHANGED <<wake, ctxDone, dropped, loopVars, close>>

\* The result of Swap is ignored.
PushSwap_Uncounted ==
    /\ push = "idle"
    /\ pushed < MaxFrames
    /\ pushed' = pushed + 1
    /\ latest' = pushed + 1
    /\ push' = "wake"
    /\ UNCHANGED <<wake, ctxDone, dropped, loopVars, close>>

\* s.latest.Swap(&f): the new frame is in; was one displaced?
PushSwap ==
    /\ push = "idle"
    /\ pushed < MaxFrames
    /\ pushed' = pushed + 1
    /\ latest' = pushed + 1
    /\ push' = IF latest = NoFrame THEN "wake" ELSE "count"
    /\ UNCHANGED <<wake, ctxDone, dropped, loopVars, close>>

\* s.dropped.Add(1)
PushCount ==
    /\ push = "count"
    /\ dropped' = dropped + 1
    /\ push' = "wake"
    /\ UNCHANGED <<pushed, latest, wake, ctxDone, loopVars, close>>

\* The select without its default.
PushWake_Blocks ==
    /\ push = "wake"
    /\ ~wake
    /\ wake' = TRUE
    /\ push' = "idle"
    /\ UNCHANGED <<pushed, latest, dropped, ctxDone, loopVars, close>>

\* The send on s.wake, or its default when a token is there already.
PushWake ==
    /\ push = "wake"
    /\ wake' = TRUE
    /\ push' = "idle"
    /\ UNCHANGED <<pushed, latest, dropped, ctxDone, loopVars, close>>

Push == PushSwap \/ PushCount \/ PushWake

-------------------------------------------------------------------------------
(* loop.  The select chooses at random when both its cases are ready.        *)

LoopWake ==
    /\ loop = "select"
    /\ wake
    /\ wake' = FALSE
    /\ loop' = "swap"
    /\ UNCHANGED <<pushVars, ctxDone, frame, sent, delivered, close>>

LoopCancelled ==
    /\ loop = "select"
    /\ ctxDone
    /\ loop' = "return"
    /\ UNCHANGED <<pushVars, wake, ctxDone, frame, sent, delivered, close>>

\* s.latest.Swap(nil), and the continue when there was nothing.
LoopSwap ==
    /\ loop = "swap"
    /\ frame' = latest
    /\ latest' = NoFrame
    /\ loop' = IF latest = NoFrame THEN "select" ELSE "send"
    /\ UNCHANGED <<pushed, dropped, push, wake, ctxDone, sent, delivered, close>>

\* send has delivered the frame and returns nil.
SendOk ==
    /\ loop = "send"
    /\ delivered' = frame
    /\ loop' = "count"
    /\ UNCHANGED <<pushVars, wake, ctxDone, frame, sent, close>>

\* send reports that the channel is gone: cancel and return.
SendError ==
    /\ loop = "send"
    /\ ctxDone' = TRUE
    /\ loop' = "return"
    /\ UNCHANGED <<pushVars, wake, frame, sent, delivered, close>>

\* The wake channel is drained after a send, for the frame just sent.
LoopCount_DrainsWake ==
    /\ loop = "count"
    /\ sent' = sent + 1
    /\ frame' = NoFrame
    /\ wake' = FALSE
    /\ loop' = "select"
    /\ UNCHANGED <<pushVars, ctxDone, delivered, close>>

\* s.sent.Add(1)
LoopCount ==
    /\ loop = "count"
    /\ sent' = sent + 1
    /\ frame' = NoFrame
    /\ loop' = "select"
    /\ UNCHANGED <<pushVars, wake, ctxDone, delivered, close>>

\* The deferred close(s.done)
LoopDone ==
    /\ loop = "return"
    /\ loop' = "done"
    /\ UNCHANGED <<pushVars, wake, ctxDone, frame, sent, delivered, close>>

Send == SendOk \/ SendError
LoopStep == LoopWake \/ LoopCancelled \/ LoopSwap \/ LoopCount \/ LoopDone

-------------------------------------------------------------------------------
(* Close, and the cancellation of the session's context it derives from.     *)

CloseCancel ==
    /\ close = "open"
    /\ ctxDone' = TRUE
    /\ close' = "wait"
    /\ UNCHANGED <<pushVars, wake, loopVars>>

\* Close does not wait for done.
CloseReturn_Early ==
    /\ close = "wait"
    /\ close' = "returned"
    /\ UNCHANGED <<pushVars, wake, ctxDone, loopVars>>

\* <-s.done
CloseReturn ==
    /\ close = "wait"
    /\ loop = "done"
    /\ close' = "returned"
    /\ UNCHANGED <<pushVars, wake, ctxDone, loopVars>>

\* wish cancels the session's context when the connection dies.
ParentCancelled ==
    /\ ~ctxDone
    /\ ctxDone' = TRUE
    /\ UNCHANGED <<pushVars, wake, loopVars, close>>

Next ==
    \/ PushSwap \/ PushCount \/ PushWake
    \/ LoopWake \/ LoopCancelled \/ LoopSwap \/ LoopCount \/ LoopDone
    \/ SendOk \/ SendError
    \/ CloseCancel \/ CloseReturn \/ ParentCancelled

Spec == Init /\ [][Next]_vars

\* Goroutines that can run are run.  send is another matter: a stalled client
\* may block it for ever, until the context it was given is cancelled.
Scheduling ==
    /\ WF_vars(PushCount \/ PushWake)
    /\ WF_vars(LoopStep)
    /\ WF_vars(CloseReturn)
    /\ WF_vars(ctxDone /\ Send)

FairSpec == Spec /\ Scheduling

-------------------------------------------------------------------------------
(* Safety *)

Holds(x) == IF x = NoFrame THEN 0 ELSE 1

\* No wakeup is lost.  A frame in the slot is never forgotten: the pusher is
\* still on its way to the wake channel, or a token is in it, or the loop has
\* taken a token and not yet looked into the slot, or the sink is stopping.
\* The 1-slot wake channel and the default of Push's select rest on it.
NoLostWakeup ==
    latest # NoFrame =>
        \/ push \in {"count", "wake"}
        \/ wake
        \/ loop = "swap"
        \/ loop \in {"return", "done"}

\* Every frame pushed is accounted for exactly once: delivered and counted,
\* superseded and counted, waiting in the slot, in the loop's hands (for good
\* when send failed), or superseded and about to be counted.
FramesAccounted ==
    pushed = sent + dropped + Holds(latest) + Holds(frame)
                + (IF push = "count" THEN 1 ELSE 0)

\* Frames reach the client in the order they were pushed, whatever was dropped
\* in between: what was delivered is older than what the loop holds, which is
\* older than what the slot holds, and the slot holds only the newest.
NewestWins ==
    /\ delivered <= pushed
    /\ latest # NoFrame => latest = pushed /\ delivered < latest
    /\ frame # NoFrame => /\ delivered <= frame
                          /\ delivered = frame <=> loop = "count"
                          /\ latest # NoFrame => frame < latest

Quiet == close = "returned" => UNCHANGED <<delivered, sent, frame, loop, ctxDone>>

\* Once Close has returned nothing of the sink runs any more: no frame is
\* delivered to a session that has ended, and none of its counters moves.
QuietAfterClose == [][Quiet]_vars

(* Liveness *)

\* Push returns, even when send blocks for ever; so does Close, even if the
\* client was stalled in the middle of a frame; and the goroutine does not outlive
\* the session.
NothingHangs ==
    /\ push # "idle" ~> push = "idle"
    /\ close = "wait" ~> close = "returned"
    /\ ctxDone ~> loop = "done"

\* The client reads, however slowly.
ClientReads == WF_vars(Send)

(* Refinement *)

Abstract == INSTANCE Mailbox WITH
    offered <- pushed,
    taken <- IF frame = NoFrame THEN delivered ELSE frame,
    seen <- delivered,
    open <- loop \notin {"return", "done"}

\* The sink is a mailbox: three goroutines and their shared words do together
\* what Mailbox does in one step.
ImplementsMailbox == Abstract!SafeSpec

\* And a mailbox that keeps delivering when its client reads: every frame pushed,
\* or a newer one, is shown, and the frame in the slot is not forgotten.
ImplementsDelivery == ClientReads => Abstract!Fairness

===============================================================================
