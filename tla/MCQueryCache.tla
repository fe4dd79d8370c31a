----------------------------- MODULE MCQueryCache -----------------------------
(***************************************************************************)
(* QueryCache for TLC.  The sizes cover an unbounded cache, a cache of one *)
(* query, and an elasticity of none, one and two; four addresses are       *)
(* enough for a full cache and one node left behind.                       *)
(***************************************************************************)
EXTENDS QueryCache

MCMaxSizes     == {0, 1, 2}
MCElasticities == {0, 1, 2}
=============================================================================
