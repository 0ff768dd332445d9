------------------------------ MODULE MCSessions ------------------------------
(* Sessions.tla for TLC.  A session opens before, while and after a snapshot   *)
(* that differs is published, and ends whenever it likes.                      *)
EXTENDS Sessions

CONSTANT c1

===============================================================================
