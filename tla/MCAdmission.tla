----------------------------- MODULE MCAdmission -----------------------------
(* Admission.tla for TLC: two keys, so that one can stay when the other goes, *)
(* and three edits, so that the file can be ruined and repaired while a       *)
(* reload is under way.                                                       *)
EXTENDS Admission

CONSTANTS k1, k2

===============================================================================
