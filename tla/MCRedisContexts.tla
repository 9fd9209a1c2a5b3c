--------------------------- MODULE MCRedisContexts ---------------------------
(***************************************************************************)
(* Instances of RedisContexts for TLC.  Tasks are interchangeable, and so  *)
(* are session ids: only equality of ids matters.                          *)
(***************************************************************************)
EXTENDS RedisContexts, TLC

Symmetry == Permutations(Calls) \cup Permutations(Sessions)
=============================================================================
