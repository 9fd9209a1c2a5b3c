---------------------------- MODULE MCA2AExecutor ----------------------------
(***************************************************************************)
(* Instances of A2AExecutor for TLC.  Tasks are interchangeable.           *)
(***************************************************************************)
EXTENDS A2AExecutor, TLC

Symmetry == Permutations(Tasks)
=============================================================================
