------------------------------- MODULE MCServer -------------------------------
(***************************************************************************)
(* Server for TLC: two connections and two workers, two I/O threads, so    *)
(* that both may pass the admission check at once, and one task more than  *)
(* can be admitted.                                                        *)
(***************************************************************************)
EXTENDS Server
=============================================================================
