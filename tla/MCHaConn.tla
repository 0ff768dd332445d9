------------------------------- MODULE MCHaConn -------------------------------
(* HaConn.tla for TLC: a wait of one, two and three seconds.  The answers due   *)
(* come in every order, one at a time.                                          *)
EXTENDS HaConn, TLC

CONSTANTS home, temp, known, data
===============================================================================
