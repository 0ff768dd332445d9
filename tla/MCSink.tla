-------------------------------- MODULE MCSink --------------------------------
(* Sink.tla for TLC: enough frames for the slot to be overwritten before, and  *)
(* while, the loop delivers an earlier one, and for a last frame after that.   *)
EXTENDS Sink

Frames == 5
===============================================================================
