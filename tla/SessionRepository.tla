-------------------------- MODULE SessionRepository --------------------------
(***************************************************************************)
(* The in-memory session store, repositories/memory/session_repository.py. *)
(*                                                                         *)
(* The store is a value: a function from the session ids in the dict to    *)
(* their entries.  Every method is given as an operator on that value and  *)
(* on the clock reading the method takes, so that the modules that use the *)
(* store can say which calls happen between two awaits of a handler.       *)
(*                                                                         *)
(* Abstracted: last_accessed, which only sorts the list the UI shows; the  *)
(* session id's text (ids are never reused: uuid4).                        *)
(***************************************************************************)
EXTENDS Naturals, Sequences, Functions

CONSTANTS
  SessionIds,   \* the ids create() can hand out
  TTL           \* settings.session_ttl_seconds

ASSUME TTLAssumption == TTL \in Nat

(* A fresh entry.                                                          *)
Entry(prompted, t) == [history |-> <<>>, prompted |-> prompted, created |-> t]

(* An entry lives until strictly more than TTL seconds after its creation, *)
(* whether it is used or not.                                              *)
Expired(e, t) == t - e.created > TTL

(* What list_all() returns at t, and active_count() counts.                *)
Live(store, t) == {s \in DOMAIN store : ~Expired(store[s], t)}

AfterDelete(store, s) == Restrict(store, DOMAIN store \ {s})

(* get(): an expired entry is evicted by the first call that asks for it.  *)
AfterGet(store, s, t) ==
  IF s \in DOMAIN store /\ Expired(store[s], t) THEN AfterDelete(store, s)
                                                ELSE store

AfterCreate(store, s, prompted, t) ==
  [x \in DOMAIN store \cup {s} |->
     IF x = s THEN Entry(prompted, t) ELSE store[x]]

(* update_history(): replaces the history, does not look at the clock, and *)
(* does nothing for an id that is not there.                               *)
AfterUpdateHistory(store, s, history) ==
  IF s \in DOMAIN store THEN [store EXCEPT ![s].history = history] ELSE store
=============================================================================
