-------------------------------- MODULE Redis --------------------------------
(***************************************************************************)
(* What the stores of repositories/redis/task_repository.py use of a Redis *)
(* server: SET with EX, GET, EXPIRE, DEL.  The server executes one command *)
(* at a time.  The keyspace is a function from keys to values, each with   *)
(* the time at which its key is gone.                                      *)
(***************************************************************************)
EXTENDS Naturals, Functions

CONSTANTS
  Workers,      \* the processes that share the server
  NoWorker,     \* none of them
  MaxTime       \* bound: the clock

VARIABLE now    \* the server's clock

NoKeys == [k \in {} |-> 0]

Present(db, k, t) == k \in DOMAIN db /\ t < db[k].until

AfterSet(db, k, value, until) ==
  [x \in DOMAIN db \cup {k} |->
     IF x = k THEN [value |-> value, until |-> until] ELSE db[x]]

AfterExpire(db, k, t, until) ==
  IF Present(db, k, t) THEN [db EXCEPT ![k].until = until] ELSE db

AfterDel(db, k) == Restrict(db, DOMAIN db \ {k})
=============================================================================
