--------------------------- MODULE MCRedisSessions ---------------------------
(***************************************************************************)
(* The session and the task store of Redis have keys of their own: they    *)
(* share the workers and the clock.  A behaviour explores one of them, and *)
(* every state of either is reached.  Requests are interchangeable, and so *)
(* are workers.                                                            *)
(***************************************************************************)
EXTENDS RedisSessions, RedisTasks, TLC

VARIABLE explored

MCInit == explored \in {"sessions", "tasks"} /\ Init /\ TasksInit

MCNext ==
  \/ explored = "sessions" /\ Next
     /\ UNCHANGED <<explored, keys, call, memory, saved, clashed>>
  \/ explored = "tasks" /\ TasksNext
     /\ UNCHANGED <<explored, db, created, deleted, req>>

MCSpec == MCInit /\ [][MCNext]_<<explored, vars, taskVars>>

Symmetry == Permutations(Requests) \cup Permutations(Workers)
=============================================================================
