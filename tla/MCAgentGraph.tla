---------------------------- MODULE MCAgentGraph ----------------------------
(***************************************************************************)
(* Instances of AgentGraph for TLC.  Runs are interchangeable.             *)
(***************************************************************************)
EXTENDS AgentGraph, TLC

CONSTANTS p1, p2

TwoProviders == <<p1, p2>>

Symmetry == Permutations(Runs)
=============================================================================
