---------------------------- MODULE RedisContexts ----------------------------
(***************************************************************************)
(* RedisContextStore (repositories/redis/task_repository.py): A2A tasks of *)
(* several workers resolve the sessions of their contexts against one      *)
(* Redis.  The client is synchronous, so a worker is inside one            *)
(* resolve_session() at a time; the commands of different workers          *)
(* interleave.                                                             *)
(***************************************************************************)
EXTENDS Redis

CONSTANTS
  Calls,        \* calls of resolve_session(), each for one A2A task
  Contexts, Sessions,
  ContextTTL,   \* settings.a2a_context_ttl_seconds
  NoSession

ASSUME ContextTTLAssumption == ContextTTL \in Nat /\ MaxTime \in Nat
ASSUME SetsAssumption ==
  Contexts # {} /\ NoWorker \notin Workers /\ NoSession \notin Sessions

VARIABLES
  bindings,     \* the keys a2a:context:*
  issued,       \* sessions ever created
  task          \* the calls of resolve_session()

contextVars == <<bindings, issued, now, task>>

(* A task's record keeps, besides the locals, when its binding was made    *)
(* (before that: when it looked), and, if it found none, which tasks had   *)
(* their sessions by then.                                                 *)
NotResolving ==
  [pc |-> "idle", at |-> NoWorker, ctx |-> CHOOSE c \in Contexts : TRUE,
   sid |-> NoSession, bound |-> 0, seen |-> {}]

ContextsInit ==
  /\ bindings = NoKeys
  /\ issued = {}
  /\ now = 0
  /\ task = [t \in Calls |-> NotResolving]

Busy(w) == \E t \in Calls : task[t].at = w /\ task[t].pc \in {"create", "set"}

(* GET: a session that is bound is the task's.                             *)
Get(t) ==
  /\ task[t].pc = "idle"
  /\ \E w \in Workers, c \in Contexts :
       /\ ~Busy(w)
       /\ task' = [task EXCEPT ![t] =
                     IF Present(bindings, c, now)
                     THEN [@ EXCEPT !.pc = "routed", !.at = w, !.ctx = c,
                                    !.sid = bindings[c].value,
                                    !.bound = bindings[c].until - ContextTTL]
                     ELSE [@ EXCEPT !.pc = "create", !.at = w, !.ctx = c, !.bound = now,
                                    !.seen = {u \in Calls : task[u].pc = "routed"}]]
  /\ UNCHANGED <<bindings, issued, now>>

(* create_fn(): a session of its own.                                      *)
CreateSession(t) ==
  /\ task[t].pc = "create"
  /\ \E s \in Sessions \ issued :
       /\ issued' = issued \cup {s}
       /\ task' = [task EXCEPT ![t].pc = "set", ![t].sid = s]
  /\ UNCHANGED <<bindings, now>>

(* Seeded fault: the binding is kept under one key for all contexts.       *)
SetShared(t) ==
  /\ task[t].pc = "set"
  /\ bindings' = AfterSet(bindings, CHOOSE c \in Contexts : TRUE, task[t].sid, now + ContextTTL)
  /\ task' = [task EXCEPT ![t].pc = "routed", ![t].bound = now]
  /\ UNCHANGED <<issued, now>>

(* Seeded fault: SET takes the lifetime of a session.                      *)
SetShort(t) ==
  /\ task[t].pc = "set"
  /\ bindings' = AfterSet(bindings, task[t].ctx, task[t].sid, now + 1)
  /\ task' = [task EXCEPT ![t].pc = "routed", ![t].bound = now]
  /\ UNCHANGED <<issued, now>>

(* SET ... EX.                                                             *)
Set(t) ==
  /\ task[t].pc = "set"
  /\ bindings' = AfterSet(bindings, task[t].ctx, task[t].sid, now + ContextTTL)
  /\ task' = [task EXCEPT ![t].pc = "routed", ![t].bound = now]
  /\ UNCHANGED <<issued, now>>

(* A worker dies: what it was doing is left where it is.  Redis goes on.   *)
CrashResolving(w) ==
  /\ Busy(w)
  /\ task' = [t \in Calls |->
                IF task[t].at = w /\ task[t].pc \in {"create", "set"}
                THEN [task[t] EXCEPT !.pc = "lost"] ELSE task[t]]
  /\ UNCHANGED <<bindings, issued, now>>

ContextsTick ==
  /\ now < MaxTime /\ now' = now + 1
  /\ UNCHANGED <<bindings, issued, task>>

ContextsNext ==
  \/ ContextsTick
  \/ \E t \in Calls : Get(t) \/ CreateSession(t) \/ Set(t)
  \/ \E w \in Workers : CrashResolving(w)

ContextsSpec == ContextsInit /\ [][ContextsNext]_contextVars

(***************************************************************************)
(* Properties                                                              *)
(***************************************************************************)

(* Types of the variables.                                                 *)
ContextsTyped ==
  /\ DOMAIN bindings \subseteq Contexts
  /\ \A c \in DOMAIN bindings :
       /\ bindings[c].value \in issued
       /\ bindings[c].until \in ContextTTL..(now + ContextTTL)
  /\ issued \subseteq Sessions
  /\ now \in Nat
  /\ task \in [Calls -> [pc    : {"idle", "create", "set", "routed", "lost"},
                         at    : Workers \cup {NoWorker},
                         ctx   : Contexts,
                         sid   : issued \cup {NoSession},
                         bound : 0..now,
                         seen  : SUBSET Calls]]

(* Whatever the order in which workers look up, create and bind, and       *)
(* whichever of them dies in between, no session serves two contexts: one  *)
(* user's conversation never continues another's                           *)
(* (task_repository.py:127-134).                                           *)
ContextsApart ==
  /\ \A t, u \in Calls :
       task[t].sid = task[u].sid /\ task[t].sid # NoSession =>
         task[t].ctx = task[u].ctx
  /\ \A t \in Calls : \A c \in DOMAIN bindings :
       task[t].sid = bindings[c].value => task[t].ctx = c

(* A context is given a second session only by a race or by time: when a   *)
(* task finds its context unbound and creates a session, each task of that *)
(* context that had its session by then has it from a binding that is at   *)
(* least a lifetime old.  So on one worker a context keeps its session for *)
(* as long as its binding lives (task_repository.py:127-134).              *)
SplitOnlyByRace ==
  \A v \in Calls : \A t \in task[v].seen :
    task[t].ctx = task[v].ctx => task[v].bound >= task[t].bound + ContextTTL
=============================================================================
