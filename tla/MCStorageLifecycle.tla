------------------------- MODULE MCStorageLifecycle -------------------------
(* StorageLifecycle for TLC: the processes are model values. *)
EXTENDS StorageLifecycle, TLC

Symmetry == Permutations(Servers)
=============================================================================
