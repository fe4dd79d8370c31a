------------------------------- MODULE MCAnswer -------------------------------
(***************************************************************************)
(* Answer for TLC: up to four entries of one or two solutions, and a       *)
(* buffer that is full after two entries at most, so that a response has   *)
(* no, one or several chunks before its last one.                          *)
(***************************************************************************)
EXTENDS Answer
=============================================================================
