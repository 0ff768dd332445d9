------------------------------- MODULE MCMirror -------------------------------
(* Mirror.tla for TLC.  From one world to another an entity appears, goes,     *)
(* changes its state with an attribute that stays, and gets, loses and changes *)
(* attributes.  The queue holds one event, so that a second finds it full.     *)
EXTENDS Mirror, TLC

CONSTANTS e1, e2, a1, a2, v1, v2, on, off

MCWorlds ==
    { e1 :> [state |-> on,  attrs |-> a1 :> v1],
      e1 :> [state |-> off, attrs |-> a1 :> v1 @@ a2 :> v1]
        @@ e2 :> [state |-> on, attrs |-> EmptyCache],
      e1 :> [state |-> off, attrs |-> a2 :> v2] }

===============================================================================
