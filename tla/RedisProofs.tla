---------------------------- MODULE RedisProofs ----------------------------
(***************************************************************************)
(* Proofs about the three stores of Redis, each on its own: for any number *)
(* of workers, of requests, sessions, contexts and tasks, and any          *)
(* lifetimes.                                                              *)
(***************************************************************************)
EXTENDS RedisContexts, RedisSessions, RedisTasks, TLAPS

(***************************************************************************)
(* Contexts                                                                *)
(***************************************************************************)

(* A binding belongs to one context.  Needed because a task takes its      *)
(* session from a binding, not from the task that made the binding.        *)
BindingsApart ==
  \A c, d \in DOMAIN bindings : bindings[c].value = bindings[d].value => c = d

(* Only a task that has its session sets it.                               *)
SetHasSession ==
  \A t \in Calls :
    /\ task[t].pc = "set" => task[t].sid \in Sessions
    /\ task[t].pc \in {"idle", "create"} => task[t].sid = NoSession

(* A task that has its session still finds its binding there, or one made  *)
(* later; those another task saw with a session have it for good.  Needed  *)
(* because a lookup sees only the binding, not the tasks it served.        *)
BindingLasts ==
  /\ \A t \in Calls : task[t].pc = "routed" =>
       /\ task[t].ctx \in DOMAIN bindings
       /\ task[t].bound + ContextTTL <= bindings[task[t].ctx].until
  /\ \A v \in Calls :
       /\ \A t \in task[v].seen : task[t].pc = "routed"
       /\ task[v].pc = "idle" => task[v].seen = {}

ContextsIInv ==
  /\ ContextsTyped /\ SetHasSession /\ BindingsApart /\ ContextsApart
  /\ BindingLasts /\ SplitOnlyByRace

(* The invariant holds initially.                                          *)
LEMMA InitContextsIInv == ContextsInit => ContextsIInv
  <1> SUFFICES ASSUME ContextsInit PROVE ContextsIInv
    OBVIOUS
  <1>1. NotResolving.ctx \in Contexts
    BY SetsAssumption DEF NotResolving
  <1>2. DOMAIN bindings = {}
    BY DEF ContextsInit, NoKeys
  <1>3. ContextsTyped
    BY <1>1, <1>2, ContextTTLAssumption DEF ContextsInit, ContextsTyped, NotResolving
  <1>4. \A t \in Calls : /\ task[t].sid = NoSession /\ task[t].pc = "idle"
                        /\ task[t].seen = {}
    BY DEF ContextsInit, NotResolving
  <1> QED
    BY <1>2, <1>3, <1>4, SetsAssumption
       DEF ContextsIInv, SetHasSession, BindingsApart, ContextsApart, BindingLasts, SplitOnlyByRace

(* The records a task may have, given the sessions and the time.           *)
TaskRecord(sessions, time) ==
  [pc    : {"idle", "create", "set", "routed", "lost"},
   at    : Workers \cup {NoWorker},
   ctx   : Contexts,
   sid   : sessions \cup {NoSession},
   bound : 0..time,
   seen  : SUBSET Calls]

(* A record stays one as sessions are created and time passes.             *)
LEMMA RecordsGrow ==
  ASSUME NEW S, NEW T, S \subseteq T, NEW n \in Nat, NEW k \in Nat, n <= k
  PROVE  TaskRecord(S, n) \subseteq TaskRecord(T, k)
  BY DEF TaskRecord

(***************************************************************************)
(* One lemma per action.                                                   *)
(***************************************************************************)
LEMMA StepGet ==
  ASSUME ContextsIInv, NEW t \in Calls, Get(t)
  PROVE  ContextsIInv'
  <1>0. /\ ContextsTyped /\ SetHasSession /\ BindingsApart /\ ContextsApart
        /\ BindingLasts /\ SplitOnlyByRace
        /\ task \in [Calls -> TaskRecord(issued, now)]
    BY DEF ContextsIInv, ContextsTyped, TaskRecord
  <1> DEFINE routed == {u \in Calls : task[u].pc = "routed"}
  <1>1. PICK w \in Workers, c \in Contexts :
          task' = [task EXCEPT ![t] =
                     IF Present(bindings, c, now)
                     THEN [@ EXCEPT !.pc = "routed", !.at = w, !.ctx = c,
                                    !.sid = bindings[c].value,
                                    !.bound = bindings[c].until - ContextTTL]
                     ELSE [@ EXCEPT !.pc = "create", !.at = w, !.ctx = c, !.bound = now,
                                    !.seen = routed]]
    BY DEF Get
  <1>2. task[t].pc = "idle" /\ task[t].sid = NoSession /\ UNCHANGED <<bindings, issued, now>>
    BY <1>0 DEF Get, SetHasSession
  <1>3. \A u \in Calls : u # t => task'[u] = task[u]
    BY <1>0, <1>1
  <1>4. \A v \in Calls : t \notin task[v].seen
    BY <1>0, <1>2 DEF BindingLasts
  <1>5. ASSUME task'[t] \in TaskRecord(issued, now) PROVE ContextsTyped'
    <2>1. task' \in [Calls -> TaskRecord(issued, now)]
      BY <1>0, <1>1, <1>3, <1>5
    <2> QED
      BY <1>0, <1>2, <2>1 DEF ContextsTyped, TaskRecord
  <1>6. CASE Present(bindings, c, now)
    <2> DEFINE sid == bindings[c].value
               bound == bindings[c].until - ContextTTL
    <2>1. c \in DOMAIN bindings
      BY <1>6 DEF Present
    <2>2. bound \in 0..now /\ bound + ContextTTL = bindings[c].until
      BY <1>0, <2>1, ContextTTLAssumption DEF ContextsTyped
    <2>3. sid \in issued
      BY <1>0, <2>1 DEF ContextsTyped
    <2>4. task'[t] = [task[t] EXCEPT !.pc = "routed", !.at = w, !.ctx = c,
                                     !.sid = sid, !.bound = bound]
      BY <1>0, <1>1, <1>6
    <2> HIDE DEF sid, bound
    <2>5. /\ task'[t].pc = "routed" /\ task'[t].ctx = c /\ task'[t].sid = sid
          /\ task'[t].bound = bound /\ task'[t].seen = task[t].seen
      BY <1>0, <2>4 DEF TaskRecord
    <2>6. ContextsTyped'
      <3>1. task'[t] \in TaskRecord(issued, now)
        <4>1. task[t] \in TaskRecord(issued, now)
          BY <1>0
        <4>2. task'[t].at = w /\ DOMAIN task'[t] = DOMAIN task[t]
          BY <2>4, <4>1 DEF TaskRecord
        <4>3. task'[t] = [pc |-> task'[t].pc, at |-> task'[t].at, ctx |-> task'[t].ctx,
                          sid |-> task'[t].sid, bound |-> task'[t].bound,
                          seen |-> task'[t].seen]
          BY <2>4, <4>1 DEF TaskRecord
        <4>4. task[t].seen \subseteq Calls
          BY <4>1 DEF TaskRecord
        <4> QED
          BY <2>2, <2>3, <2>5, <4>2, <4>3, <4>4 DEF TaskRecord
      <3> QED
        BY <1>5, <3>1
    <2>7. SetHasSession'
      BY <1>0, <1>3, <2>5 DEF SetHasSession
    <2>8. ContextsApart' /\ BindingsApart'
      BY <1>0, <1>2, <1>3, <2>1, <2>5 DEF ContextsApart, BindingsApart, sid
    <2>9. BindingLasts'
      BY <1>0, <1>2, <1>3, <1>4, <2>1, <2>2, <2>5, ContextTTLAssumption DEF BindingLasts, ContextsTyped
    <2>10. task[t].bound <= now
      BY <1>0 DEF TaskRecord
    <2>11. task[t].seen = {}
      BY <1>0, <1>2 DEF BindingLasts
    <2>12. SplitOnlyByRace'
      BY <1>0, <1>3, <1>4, <2>5, <2>11 DEF SplitOnlyByRace, TaskRecord
    <2> QED
      BY <2>6, <2>7, <2>8, <2>9, <2>12 DEF ContextsIInv
  <1>7. CASE ~Present(bindings, c, now)
    <2>1. task'[t] = [task[t] EXCEPT !.pc = "create", !.at = w, !.ctx = c, !.bound = now,
                                     !.seen = routed]
      BY <1>0, <1>1, <1>7
    <2>2. routed \subseteq Calls /\ now \in 0..now /\ (\A u \in Calls : u \in routed <=> task[u].pc = "routed")
      BY <1>0 DEF ContextsTyped
    <2> HIDE DEF routed
    <2>3. /\ task'[t].pc = "create" /\ task'[t].ctx = c /\ task'[t].sid = NoSession
          /\ task'[t].bound = now /\ task'[t].seen = routed
      BY <1>0, <1>2, <2>1 DEF TaskRecord
    <2>4. ContextsTyped'
      <3>1. task'[t] \in TaskRecord(issued, now)
        BY <1>0, <2>1, <2>2 DEF TaskRecord
      <3> QED
        BY <1>5, <3>1
    <2>5. SetHasSession'
      BY <1>0, <1>3, <2>3 DEF SetHasSession
    <2>6. \A d \in DOMAIN bindings : bindings[d].value # NoSession
      BY <1>0, SetsAssumption DEF ContextsTyped
    <2>7. ContextsApart' /\ BindingsApart'
      BY <1>0, <1>2, <1>3, <2>3, <2>6 DEF ContextsApart, BindingsApart
    <2>8. BindingLasts'
      BY <1>0, <1>2, <1>3, <1>4, <2>2, <2>3 DEF BindingLasts, TaskRecord
    <2>9. \A u \in routed : task[u].ctx = c => now >= task[u].bound + ContextTTL
      BY <1>0, <1>7, <2>2, ContextTTLAssumption DEF BindingLasts, Present, ContextsTyped
    <2>10. SplitOnlyByRace'
      BY <1>0, <1>2, <1>3, <1>4, <2>2, <2>3, <2>9 DEF SplitOnlyByRace, TaskRecord
    <2> QED
      BY <2>4, <2>5, <2>7, <2>8, <2>10 DEF ContextsIInv
  <1> QED
    BY <1>6, <1>7

LEMMA StepCreateSession ==
  ASSUME ContextsIInv, NEW t \in Calls, CreateSession(t)
  PROVE  ContextsIInv'
  <1> USE DEF ContextsIInv
  <1>1. PICK s \in Sessions \ issued :
          /\ issued' = issued \cup {s}
          /\ task' = [task EXCEPT ![t].pc = "set", ![t].sid = s]
    BY DEF CreateSession
  <1>2. UNCHANGED <<bindings, now>>
    BY DEF CreateSession
  <1>3. task'[t].pc = "set" /\ task'[t].sid = s /\ task'[t].ctx = task[t].ctx
    BY <1>1 DEF ContextsTyped
  <1>4. \A u \in Calls : u # t => task'[u] = task[u]
    BY <1>1 DEF ContextsTyped
  <1>5. /\ \A u \in Calls : task[u].sid # s
        /\ \A c \in DOMAIN bindings : bindings[c].value # s
    BY <1>1, SetsAssumption DEF ContextsTyped
  <1>6. ContextsTyped'
    <2>1. task \in [Calls -> TaskRecord(issued', now)]
      BY <1>1, RecordsGrow DEF ContextsTyped, TaskRecord
    <2>2. task'[t] \in TaskRecord(issued', now)
      <3>1. task'[t] = [task[t] EXCEPT !.pc = "set", !.sid = s]
        BY <1>1, <2>1
      <3>2. task[t] \in TaskRecord(issued', now) /\ s \in issued'
        BY <1>1, <2>1
      <3> QED
        BY <3>1, <3>2, SetsAssumption DEF TaskRecord
    <2>3. task' \in [Calls -> TaskRecord(issued', now)]
      BY <1>1, <1>4, <2>1, <2>2
    <2> QED
      BY <1>1, <1>2, <2>3 DEF ContextsTyped, TaskRecord
  <1>7. SetHasSession'
    BY <1>1, <1>3, <1>4 DEF SetHasSession
  <1>8. ContextsApart'
    BY <1>2, <1>3, <1>4, <1>5 DEF ContextsApart
  <1>9. BindingLasts' /\ SplitOnlyByRace'
    BY <1>1, <1>2, <1>4 DEF CreateSession, BindingLasts, SplitOnlyByRace, ContextsTyped
  <1> QED
    BY <1>2, <1>6, <1>7, <1>8, <1>9 DEF BindingsApart

LEMMA StepSet ==
  ASSUME ContextsIInv, NEW t \in Calls, Set(t)
  PROVE  ContextsIInv'
  <1> USE DEF ContextsIInv
  <1> DEFINE c == task[t].ctx
             s == task[t].sid
  <1>1. c \in Contexts /\ s \in issued /\ s # NoSession
    BY SetsAssumption DEF Set, SetHasSession, ContextsTyped
  <1>2. /\ task' = [task EXCEPT ![t].pc = "routed", ![t].bound = now]
        /\ bindings' = AfterSet(bindings, c, s, now + ContextTTL)
        /\ UNCHANGED <<issued, now>>
    BY DEF Set
  <1>3. /\ DOMAIN bindings' = DOMAIN bindings \cup {c}
        /\ bindings'[c] = [value |-> s, until |-> now + ContextTTL]
        /\ \A x \in DOMAIN bindings : x # c => bindings'[x] = bindings[x]
    BY <1>2 DEF AfterSet
  <1>4. \A u \in Calls : task'[u].sid = task[u].sid /\ task'[u].ctx = task[u].ctx
    BY <1>2 DEF ContextsTyped
  <1>5. ContextsTyped'
    <2>1. \A x \in DOMAIN bindings' :
            bindings'[x].value \in issued /\ bindings'[x].until \in ContextTTL..(now + ContextTTL)
      BY <1>1, <1>3, ContextTTLAssumption DEF ContextsTyped
    <2>2. now \in 0..now
      BY DEF ContextsTyped
    <2>3. task' \in [Calls -> TaskRecord(issued, now)]
      <3>1. task \in [Calls -> TaskRecord(issued, now)]
        BY DEF ContextsTyped, TaskRecord
      <3>2. task'[t] = [task[t] EXCEPT !.pc = "routed", !.bound = now]
        BY <1>2, <3>1
      <3>3. task'[t] \in TaskRecord(issued, now)
        BY <2>2, <3>1, <3>2 DEF TaskRecord
      <3> QED
        BY <1>2, <3>1, <3>3
    <2> QED
      BY <1>1, <1>2, <1>3, <2>1, <2>3 DEF ContextsTyped, TaskRecord
  <1>6. SetHasSession'
    BY <1>2 DEF SetHasSession, ContextsTyped
  <1>7. BindingsApart'
    BY <1>1, <1>3 DEF BindingsApart, ContextsApart
  <1>8. ContextsApart'
    BY <1>1, <1>3, <1>4 DEF ContextsApart
  <1>9. /\ task[t].pc = "set" /\ task'[t].bound = now /\ task'[t].pc = "routed"
        /\ \A u \in Calls : u # t => task'[u] = task[u]
        /\ \A u \in Calls : task'[u].seen = task[u].seen
    BY <1>2 DEF Set, ContextsTyped
  <1>10. BindingLasts'
    BY <1>1, <1>3, <1>4, <1>9, ContextTTLAssumption DEF BindingLasts, ContextsTyped
  <1>11. SplitOnlyByRace'
    BY <1>2, <1>4, <1>9, ContextTTLAssumption DEF SplitOnlyByRace, BindingLasts, ContextsTyped
  <1> QED
    BY <1>5, <1>6, <1>7, <1>8, <1>10, <1>11

LEMMA StepCrashResolving ==
  ASSUME ContextsIInv, NEW w \in Workers, CrashResolving(w)
  PROVE  ContextsIInv'
  <1>0. /\ ContextsTyped /\ SetHasSession /\ BindingsApart /\ ContextsApart
        /\ BindingLasts /\ SplitOnlyByRace
        /\ task \in [Calls -> TaskRecord(issued, now)]
    BY DEF ContextsIInv, ContextsTyped, TaskRecord
  <1>1. UNCHANGED <<bindings, issued, now>>
    BY DEF CrashResolving
  <1>2. \A t \in Calls : \/ task'[t] = task[t]
                        \/ /\ task[t].pc # "routed"
                           /\ task'[t] = [task[t] EXCEPT !.pc = "lost"]
    BY DEF CrashResolving
  <1>3. ContextsTyped'
    BY <1>0, <1>1, <1>2 DEF ContextsTyped, CrashResolving
  <1>4. \A t \in Calls :
          /\ task'[t].sid = task[t].sid /\ task'[t].ctx = task[t].ctx
          /\ task'[t].seen = task[t].seen /\ task'[t].bound = task[t].bound
          /\ task'[t].pc = task[t].pc \/ (task'[t].pc = "lost" /\ task[t].pc # "routed")
    <2> SUFFICES ASSUME NEW t \in Calls
                 PROVE  /\ task'[t].sid = task[t].sid /\ task'[t].ctx = task[t].ctx
                        /\ task'[t].seen = task[t].seen /\ task'[t].bound = task[t].bound
                        /\ \/ task'[t].pc = task[t].pc
                           \/ task'[t].pc = "lost" /\ task[t].pc # "routed"
      OBVIOUS
    <2>1. task[t] \in TaskRecord(issued, now)
      BY <1>0
    <2>2. CASE task'[t] = task[t]
      BY <2>2
    <2>3. CASE task[t].pc # "routed" /\ task'[t] = [task[t] EXCEPT !.pc = "lost"]
      BY <2>1, <2>3 DEF TaskRecord
    <2> QED
      BY <1>2, <2>2, <2>3
  <1>6. \A v \in Calls : task[v].seen \subseteq Calls
    BY <1>0 DEF TaskRecord
  <1>7. BindingLasts'
    <2>1. ASSUME NEW t \in Calls, task'[t].pc = "routed"
          PROVE  /\ task'[t].ctx \in DOMAIN bindings'
                 /\ task'[t].bound + ContextTTL <= bindings'[task'[t].ctx].until
      BY <1>0, <1>1, <1>4, <2>1 DEF BindingLasts
    <2>2. ASSUME NEW v \in Calls, NEW t \in task'[v].seen
          PROVE  task'[t].pc = "routed"
      BY <1>0, <1>4, <1>6, <2>2 DEF BindingLasts
    <2>3. ASSUME NEW v \in Calls, task'[v].pc = "idle"
          PROVE  task'[v].seen = {}
      BY <1>0, <1>4, <2>3 DEF BindingLasts
    <2> QED
      BY <2>1, <2>2, <2>3 DEF BindingLasts
  <1>8. SplitOnlyByRace'
    <2> SUFFICES ASSUME NEW v \in Calls, NEW t \in task'[v].seen, task'[t].ctx = task'[v].ctx
                 PROVE  task'[v].bound >= task'[t].bound + ContextTTL
      BY DEF SplitOnlyByRace
    <2>1. t \in Calls /\ t \in task[v].seen
      BY <1>4, <1>6
    <2> QED
      BY <1>0, <1>4, <2>1 DEF SplitOnlyByRace
  <1> QED
    BY <1>0, <1>1, <1>3, <1>4, <1>7, <1>8
       DEF ContextsIInv, SetHasSession, BindingsApart, ContextsApart

LEMMA StepContextsTick ==
  ASSUME ContextsIInv, ContextsTick
  PROVE  ContextsIInv'
  <1> USE DEF ContextsIInv
  <1>1. now' = now + 1 /\ UNCHANGED <<bindings, issued, task>>
    BY DEF ContextsTick
  <1>2. ContextsTyped'
    <2>1. now \in Nat /\ now' \in Nat /\ now <= now'
      BY <1>1 DEF ContextsTyped
    <2>2. task \in [Calls -> TaskRecord(issued, now')]
      BY <2>1, RecordsGrow DEF ContextsTyped, TaskRecord
    <2>3. \A c \in DOMAIN bindings :
            bindings[c].value \in issued /\ bindings[c].until \in ContextTTL..(now' + ContextTTL)
      BY <1>1, <2>1, ContextTTLAssumption DEF ContextsTyped
    <2> QED
      BY <1>1, <2>1, <2>2, <2>3 DEF ContextsTyped, TaskRecord
  <1> QED
    BY <1>1, <1>2
       DEF SetHasSession, BindingsApart, ContextsApart, BindingLasts, SplitOnlyByRace

(* The invariant is inductive.                                             *)
LEMMA NextContextsIInv == ContextsIInv /\ [ContextsNext]_contextVars => ContextsIInv'
  <1> SUFFICES ASSUME ContextsIInv, [ContextsNext]_contextVars PROVE ContextsIInv'
    OBVIOUS
  <1>1. CASE ContextsTick
    BY <1>1, StepContextsTick
  <1>2. ASSUME NEW t \in Calls, Get(t) PROVE ContextsIInv'
    BY <1>2, StepGet
  <1>3. ASSUME NEW t \in Calls, CreateSession(t) PROVE ContextsIInv'
    BY <1>3, StepCreateSession
  <1>4. ASSUME NEW t \in Calls, Set(t) PROVE ContextsIInv'
    BY <1>4, StepSet
  <1>5. ASSUME NEW w \in Workers, CrashResolving(w) PROVE ContextsIInv'
    BY <1>5, StepCrashResolving
  <1>6. CASE UNCHANGED contextVars
    BY <1>6 DEF contextVars, ContextsIInv, ContextsTyped, SetHasSession, BindingsApart, ContextsApart,
                 BindingLasts, SplitOnlyByRace
  <1> QED
    BY <1>1, <1>2, <1>3, <1>4, <1>5, <1>6 DEF ContextsNext

(* The invariant holds in every reachable state.                           *)
THEOREM ContextsInductive == ContextsSpec => []ContextsIInv
  <1> QED
    BY InitContextsIInv, NextContextsIInv, PTL DEF ContextsSpec

(* The variables keep their types, whatever workers interleave.            *)
THEOREM ContextsTypes == ContextsSpec => []ContextsTyped
  <1>1. ContextsIInv => ContextsTyped
    BY DEF ContextsIInv
  <1> QED
    BY <1>1, ContextsInductive, PTL

(* No session serves two contexts, for any number of workers that look up, *)
(* create, bind and die in any order (task_repository.py:127-134).         *)
THEOREM SessionsOfOneContext == ContextsSpec => []ContextsApart
  <1>1. ContextsIInv => ContextsApart
    BY DEF ContextsIInv
  <1> QED
    BY <1>1, ContextsInductive, PTL

(* A context gets a second session only from a task that looked it up      *)
(* before the first was bound, or after its binding ended, for any number  *)
(* of workers and any lifetime (task_repository.py:127-134).               *)
THEOREM SecondSessionOnlyByRace == ContextsSpec => []SplitOnlyByRace
  <1>1. ContextsIInv => SplitOnlyByRace
    BY DEF ContextsIInv
  <1> QED
    BY <1>1, ContextsInductive, PTL

(***************************************************************************)
(* Sessions                                                                *)
(***************************************************************************)

Pcs == Resting \cup {"load", "delete", "renew", "renewsave", "update"}

(* The records a request may have, given the time.                         *)
Handler(time) ==
  [pc : Pcs, at : Workers \cup {NoWorker}, sid : SessionIds,
   renewed : BOOLEAN, used : 0..time, history : Seq(Requests)]

Kinds ==
  /\ now \in 0..MaxTime
  /\ req \in [Requests -> Handler(now)]

(* The sessions stored were created, and have a lifetime at most to go.    *)
Key(time) == [value : Seq(Requests), until : 0..(time + TTL)]

Keys ==
  /\ DOMAIN db \subseteq created /\ created \subseteq SessionIds
  /\ db \in [DOMAIN db -> Key(now)]

(* A deleted session is not stored: stronger than not being alive, because *)
(* EXPIRE gives a stored key another lifetime.                             *)
Gone == deleted \subseteq created /\ deleted \cap DOMAIN db = {}

(* Before the session is renewed nothing says that it was, and a request   *)
(* that is under way is for one that was created.                          *)
Sound(rec, ids) ==
  /\ rec.pc \in {"idle", "load", "renew", "delete"} => ~rec.renewed
  /\ rec.pc \notin {"idle", "lost"} => rec.sid \in ids

NotYet == \A r \in Requests : Sound(req[r], created)

(* The key of a session that a request renewed has what it needs: later    *)
(* renewals only lengthen it.                                              *)
Backed == \A r \in Requests :
  req[r].pc = "streaming" /\ req[r].renewed /\ req[r].sid \notin deleted =>
    req[r].sid \in DOMAIN db /\ req[r].used + TTL <= db[req[r].sid].until

IInv == Kinds /\ Keys /\ Gone /\ NotYet /\ Backed

(* The invariant holds initially.                                          *)
LEMMA InitIInv == Init => IInv
  <1> SUFFICES ASSUME Init PROVE IInv
    OBVIOUS
  <1>1. (CHOOSE s \in SessionIds : TRUE) \in SessionIds
    BY SessionTTLAssumption
  <1>2. Idle \in Handler(0)
    BY <1>1 DEF Idle, Handler, Pcs, Resting
  <1>3. Idle.pc = "idle" /\ Idle.renewed = FALSE
    BY DEF Idle
  <1>4. now = 0 /\ 0 \in 0..MaxTime /\ \A r \in Requests : req[r] = Idle
    BY SessionTTLAssumption DEF Init
  <1>5. Kinds
    BY <1>2, <1>4 DEF Init, Kinds
  <1>6. Keys /\ Gone
    BY DEF Init, NoKeys, Keys, Gone
  <1>7. NotYet /\ Backed
    BY <1>3, <1>4 DEF NotYet, Backed, Sound
  <1> QED
    BY <1>5, <1>6, <1>7 DEF IInv

(* A handler and a key stay such as time passes.                           *)
LEMMA RecordsAge ==
  ASSUME NEW n \in Nat, NEW k \in Nat, n <= k
  PROVE  Handler(n) \subseteq Handler(k) /\ Key(n) \subseteq Key(k)
  BY SessionTTLAssumption DEF Handler, Key

(* EXPIRE changes no key but its own, whose time is then a lifetime from   *)
(* now.                                                                    *)
LEMMA ExpireLengthens ==
  ASSUME IInv, NEW s, db' = AfterExpire(db, s, now, now + TTL)
  PROVE  /\ DOMAIN db' = DOMAIN db /\ db' \in [DOMAIN db -> Key(now)]
         /\ \A x \in DOMAIN db : db[x].until <= db'[x].until
         /\ Present(db, s, now) => db'[s].until = now + TTL
  <1>1. db \in [DOMAIN db -> Key(now)] /\ now \in Nat /\ TTL \in Nat
    BY SessionTTLAssumption DEF IInv, Keys, Kinds
  <1>2. CASE ~Present(db, s, now)
    BY <1>1, <1>2 DEF AfterExpire, Key
  <1>3. CASE Present(db, s, now)
    <2>1. s \in DOMAIN db
      BY <1>3 DEF Present
    <2>2. db' = [db EXCEPT ![s].until = now + TTL]
      BY <1>3 DEF AfterExpire
    <2>3. [db[s] EXCEPT !.until = now + TTL] \in Key(now) /\ db[s].until <= now + TTL
          /\ [db[s] EXCEPT !.until = now + TTL].until = now + TTL
      BY <1>1, <2>1 DEF Key
    <2>4. db'[s] = [db[s] EXCEPT !.until = now + TTL]
      BY <1>1, <2>1, <2>2
    <2>5. DOMAIN db' = DOMAIN db /\ \A x \in DOMAIN db : x # s => db'[x] = db[x]
      BY <1>1, <2>2
    <2>6. \A x \in DOMAIN db : db[x].until <= db[x].until
      BY <1>1 DEF Key
    <2> QED
      BY <1>1, <2>1, <2>2, <2>3, <2>4, <2>5, <2>6
  <1> QED
    BY <1>2, <1>3

(* A request takes a step and the keys only gain time: it is enough that   *)
(* its new record is sound.                                                *)
LEMMA OneMoves ==
  ASSUME IInv, NEW r \in Requests, NEW rec \in Handler(now),
         req' = [req EXCEPT ![r] = rec], UNCHANGED <<created, deleted, now>>,
         DOMAIN db' = DOMAIN db, db' \in [DOMAIN db -> Key(now)],
         \A x \in DOMAIN db : db[x].until <= db'[x].until,
         Sound(rec, created),
         rec.pc = "streaming" /\ rec.renewed =>
           rec.sid \in DOMAIN db /\ rec.used + TTL <= db'[rec.sid].until
  PROVE  IInv'
  <1>1. req'[r] = rec /\ \A q \in Requests : q # r => req'[q] = req[q]
    BY DEF IInv, Kinds
  <1>2. Kinds'
    BY DEF IInv, Kinds
  <1>3. Keys' /\ Gone'
    BY DEF IInv, Keys, Gone, Key
  <1>4. NotYet'
    BY <1>1 DEF IInv, NotYet
  <1>5. ASSUME NEW q \in Requests, req'[q].pc = "streaming", req'[q].renewed,
               req'[q].sid \notin deleted
        PROVE  req'[q].sid \in DOMAIN db' /\ req'[q].used + TTL <= db'[req'[q].sid].until
    <2>1. CASE q = r
      BY <1>1, <1>5, <2>1
    <2>2. CASE q # r
      <3> DEFINE s == req[q].sid
      <3>1. req'[q] = req[q] /\ s \in DOMAIN db /\ req[q].used + TTL <= db[s].until
        BY <1>1, <1>5, <2>2 DEF IInv, Backed
      <3>2. req[q].used \in Nat /\ TTL \in Nat /\ db[s].until \in Nat /\ db'[s].until \in Nat
        BY <3>1, SessionTTLAssumption DEF IInv, Kinds, Keys, Handler, Key
      <3>3. db[s].until <= db'[s].until
        BY <3>1
      <3>4. req[q].used + TTL <= db'[s].until
        BY <3>1, <3>2, <3>3
      <3> QED
        BY <3>1, <3>4
    <2> QED
      BY <2>1, <2>2
  <1>6. Backed'
    BY <1>5 DEF Backed
  <1> QED
    BY <1>2, <1>3, <1>4, <1>6 DEF IInv

(* ... in particular when the keys stay as they are.                       *)
LEMMA OneMovesAlone ==
  ASSUME IInv, NEW r \in Requests, NEW rec \in Handler(now),
         req' = [req EXCEPT ![r] = rec], UNCHANGED <<db, created, deleted, now>>,
         Sound(rec, created), rec.pc # "streaming" \/ ~rec.renewed
  PROVE  IInv'
  <1>1. \A x \in DOMAIN db : db[x].until <= db[x].until
    BY DEF IInv, Keys, Key
  <1>2. db \in [DOMAIN db -> Key(now)]
    BY DEF IInv, Keys
  <1> QED
    BY <1>1, <1>2, OneMoves

(* Goto() changes the place only.                                          *)
LEMMA Goes ==
  ASSUME IInv, NEW r \in Requests, NEW pc \in Pcs, Goto(r, pc)
  PROVE  \E rec \in Handler(now) :
           /\ req' = [req EXCEPT ![r] = rec]
           /\ rec.pc = pc /\ rec.renewed = req[r].renewed /\ rec.sid = req[r].sid
  <1>1. req[r] \in Handler(now)
    BY DEF IInv, Kinds
  <1>2. [req[r] EXCEPT !.pc = pc] \in Handler(now)
    BY <1>1 DEF Handler
  <1>3. /\ [req[r] EXCEPT !.pc = pc].pc = pc
        /\ [req[r] EXCEPT !.pc = pc].renewed = req[r].renewed
        /\ [req[r] EXCEPT !.pc = pc].sid = req[r].sid
    BY <1>1 DEF Handler
  <1>4. req' = [req EXCEPT ![r] = [req[r] EXCEPT !.pc = pc]]
    BY DEF Goto, IInv, Kinds
  <1> QED
    BY <1>2, <1>3, <1>4

(***************************************************************************)
(* One lemma per action.                                                   *)
(***************************************************************************)
LEMMA StepInitSession ==
  ASSUME IInv, InitSession
  PROVE  IInv'
  <1>1. PICK s \in SessionIds \ created :
          db' = AfterSet(db, s, <<>>, now + TTL) /\ created' = created \cup {s}
    BY DEF InitSession
  <1>2. UNCHANGED <<deleted, now, req>>
    BY DEF InitSession
  <1>3. db' = [x \in DOMAIN db \cup {s} |->
                 IF x = s THEN [value |-> <<>>, until |-> now + TTL] ELSE db[x]]
        /\ s \notin DOMAIN db
    BY <1>1 DEF AfterSet, IInv, Keys
  <1>4. [value |-> <<>>, until |-> now + TTL] \in Key(now)
    BY SessionTTLAssumption DEF IInv, Kinds, Key
  <1>5. Keys'
    BY <1>1, <1>2, <1>3, <1>4 DEF IInv, Keys, Key
  <1>6. NotYet'
    BY <1>1, <1>2 DEF IInv, NotYet, Sound
  <1>7. Gone' /\ Backed'
    BY <1>1, <1>2, <1>3 DEF IInv, Gone, Backed
  <1> QED
    BY <1>2, <1>5, <1>6, <1>7 DEF IInv, Kinds

LEMMA StepExists ==
  ASSUME IInv, NEW r \in Requests, Exists(r)
  PROVE  IInv'
  <1>1. PICK w \in Workers, s \in created, next \in {"load", "delete"} :
          req' = [req EXCEPT ![r] =
                    [@ EXCEPT !.at = w, !.sid = s,
                              !.pc = IF Present(db, s, now) THEN next ELSE "done"]]
    BY DEF Exists
  <1>2. ~req[r].renewed /\ req[r] \in Handler(now)
    BY DEF Exists, IInv, NotYet, Sound, Kinds
  <1> DEFINE pc == IF Present(db, s, now) THEN next ELSE "done"
             rec == [req[r] EXCEPT !.at = w, !.sid = s, !.pc = pc]
  <1>3. pc \in Pcs /\ pc # "streaming" /\ s \in SessionIds
    BY DEF Pcs, Resting, IInv, Keys
  <1>4. req' = [req EXCEPT ![r] = rec]
    BY <1>1, <1>2 DEF IInv, Kinds
  <1> HIDE DEF pc
  <1>5. rec \in Handler(now) /\ rec.pc = pc /\ ~rec.renewed /\ rec.sid = s
    BY <1>2, <1>3 DEF Handler
  <1>6. Sound(rec, created)
    BY <1>5 DEF Sound
  <1> HIDE DEF rec
  <1> QED
    BY <1>3, <1>4, <1>5, <1>6, OneMovesAlone DEF Exists

LEMMA StepDelete ==
  ASSUME IInv, NEW r \in Requests, Delete(r)
  PROVE  IInv'
  <1> DEFINE s == req[r].sid
  <1>1. /\ DOMAIN db' = DOMAIN db \ {s} /\ deleted' = deleted \cup {s}
        /\ \A x \in DOMAIN db' : db'[x] = db[x]
        /\ db' = [x \in DOMAIN db' |-> db'[x]]
        /\ UNCHANGED <<created, now>>
    BY DEF Delete, AfterDel, Restrict
  <1>2. PICK rec \in Handler(now) :
          req' = [req EXCEPT ![r] = rec] /\ rec.pc = "done" /\ rec.sid = s
    BY Goes DEF Delete, Pcs, Resting
  <1>3. s \in created
    BY DEF Delete, IInv, NotYet, Sound
  <1>4. req'[r] = rec /\ \A q \in Requests : q # r => req'[q] = req[q]
    BY <1>2 DEF IInv, Kinds
  <1>5. Kinds' /\ Keys'
    BY <1>1, <1>2 DEF IInv, Kinds, Keys
  <1>6. Gone'
    BY <1>1, <1>3 DEF IInv, Gone
  <1>7. NotYet'
    BY <1>1, <1>2, <1>3, <1>4 DEF IInv, NotYet, Sound
  <1>8. Backed'
    BY <1>1, <1>2, <1>4 DEF IInv, Backed
  <1> QED
    BY <1>5, <1>6, <1>7, <1>8 DEF IInv

LEMMA StepLoadGet ==
  ASSUME IInv, NEW r \in Requests, LoadGet(r)
  PROVE  IInv'
  <1>1. PICK pc \in {"renew", "streaming"} : Goto(r, pc)
    BY DEF LoadGet
  <1>2. pc \in Pcs
    BY DEF Pcs, Resting
  <1>3. PICK rec \in Handler(now) :
          /\ req' = [req EXCEPT ![r] = rec]
          /\ rec.pc = pc /\ rec.renewed = req[r].renewed /\ rec.sid = req[r].sid
    BY <1>1, <1>2, Goes
  <1>4. Sound(rec, created) /\ ~rec.renewed
    BY <1>3 DEF LoadGet, IInv, NotYet, Sound
  <1> QED
    BY <1>3, <1>4, OneMovesAlone DEF LoadGet

LEMMA StepLoadExpire ==
  ASSUME IInv, NEW r \in Requests, LoadExpire(r)
  PROVE  IInv'
  <1> DEFINE s == req[r].sid
             rec == [req[r] EXCEPT !.pc = "streaming", !.used = now, !.renewed = Here(r)]
  <1>1. req[r] \in Handler(now) /\ now \in Nat /\ TTL \in Nat /\ s \in created
    BY SessionTTLAssumption DEF LoadExpire, IInv, Kinds, NotYet, Sound
  <1>2. Here(r) \in BOOLEAN /\ (Here(r) <=> Present(db, s, now))
    BY DEF Here, Present
  <1>3. req' = [req EXCEPT ![r] = rec]
    BY DEF LoadExpire, IInv, Kinds
  <1>4. rec \in Handler(now) /\ rec.pc = "streaming" /\ rec.used = now
        /\ rec.renewed = Here(r) /\ rec.sid = s
    <2> DEFINE here == Here(r)
    <2>1. here \in BOOLEAN /\ now \in 0..now /\ "streaming" \in Pcs
      BY <1>1, <1>2 DEF Pcs, Resting
    <2> HIDE DEF here
    <2>2. [req[r] EXCEPT !.pc = "streaming", !.used = now, !.renewed = here] \in Handler(now)
      BY <1>1, <2>1 DEF Handler
    <2>3. /\ [req[r] EXCEPT !.pc = "streaming", !.used = now, !.renewed = here].pc = "streaming"
          /\ [req[r] EXCEPT !.pc = "streaming", !.used = now, !.renewed = here].used = now
          /\ [req[r] EXCEPT !.pc = "streaming", !.used = now, !.renewed = here].renewed = here
          /\ [req[r] EXCEPT !.pc = "streaming", !.used = now, !.renewed = here].sid = s
      BY <1>1, <2>1 DEF Handler
    <2> QED
      BY <2>2, <2>3 DEF here
  <1>5. /\ DOMAIN db' = DOMAIN db /\ db' \in [DOMAIN db -> Key(now)]
        /\ \A x \in DOMAIN db : db[x].until <= db'[x].until
        /\ Present(db, s, now) => db'[s].until = now + TTL
    BY ExpireLengthens DEF LoadExpire
  <1>6. Present(db, s, now) => s \in DOMAIN db
    BY DEF Present
  <1>7. Sound(rec, created)
    BY <1>1, <1>4 DEF Sound
  <1>8. rec.renewed => rec.sid \in DOMAIN db /\ rec.used + TTL <= db'[rec.sid].until
    BY <1>1, <1>2, <1>4, <1>5, <1>6
  <1> HIDE DEF rec, s
  <1> QED
    BY <1>3, <1>4, <1>5, <1>7, <1>8, OneMoves DEF LoadExpire

LEMMA StepSaveGet ==
  ASSUME IInv, NEW r \in Requests, SaveGet(r)
  PROVE  IInv'
  <1> DEFINE history == Append(db[req[r].sid].value, r)
  <1>1. req[r] \in Handler(now) /\ req[r].sid \in created
    BY DEF SaveGet, IInv, Kinds, NotYet, Sound
  <1>2. CASE Here(r)
    <2> DEFINE rec == [req[r] EXCEPT !.pc = "renewsave", !.history = history]
    <2>1. history \in Seq(Requests)
      BY <1>2 DEF Here, Present, IInv, Keys, Key
    <2>2. req' = [req EXCEPT ![r] = rec]
      BY <1>2 DEF SaveGet, IInv, Kinds
    <2> HIDE DEF history
    <2>3. rec \in Handler(now) /\ rec.pc = "renewsave" /\ rec.sid = req[r].sid
      BY <1>1, <2>1 DEF Handler, Pcs
    <2>4. Sound(rec, created)
      BY <1>1, <2>3 DEF Sound
    <2> HIDE DEF rec
    <2> QED
      BY <2>2, <2>3, <2>4, OneMovesAlone DEF SaveGet
  <1>3. CASE ~Here(r)
    <2> DEFINE rec == [req[r] EXCEPT !.pc = "done"]
    <2>1. req' = [req EXCEPT ![r] = rec]
      BY <1>3 DEF SaveGet, IInv, Kinds
    <2>2. rec \in Handler(now) /\ rec.pc = "done" /\ rec.sid = req[r].sid
      BY <1>1 DEF Handler, Pcs, Resting
    <2>3. Sound(rec, created)
      BY <1>1, <2>2 DEF Sound
    <2> HIDE DEF rec
    <2> QED
      BY <2>1, <2>2, <2>3, OneMovesAlone DEF SaveGet
  <1> QED
    BY <1>2, <1>3

LEMMA StepSaveExpire ==
  ASSUME IInv, NEW r \in Requests, SaveExpire(r)
  PROVE  IInv'
  <1>1. PICK rec \in Handler(now) :
          /\ req' = [req EXCEPT ![r] = rec]
          /\ rec.pc = "update" /\ rec.sid = req[r].sid
    BY Goes DEF SaveExpire, Pcs
  <1>2. Sound(rec, created)
    BY <1>1 DEF SaveExpire, IInv, NotYet, Sound
  <1>3. /\ DOMAIN db' = DOMAIN db /\ db' \in [DOMAIN db -> Key(now)]
        /\ \A x \in DOMAIN db : db[x].until <= db'[x].until
    BY ExpireLengthens DEF SaveExpire
  <1> QED
    BY <1>1, <1>2, <1>3, OneMoves DEF SaveExpire

LEMMA StepUpdateHistory ==
  ASSUME IInv, NEW r \in Requests, UpdateHistory(r)
  PROVE  IInv'
  <1>1. PICK rec \in Handler(now) :
          /\ req' = [req EXCEPT ![r] = rec]
          /\ rec.pc = "done" /\ rec.sid = req[r].sid
    BY Goes DEF UpdateHistory, Pcs, Resting
  <1>2. Sound(rec, created)
    BY <1>1 DEF UpdateHistory, IInv, NotYet, Sound
  <1> QED
    BY <1>1, <1>2, OneMovesAlone DEF UpdateHistory

LEMMA StepCrash ==
  ASSUME IInv, NEW w \in Workers, Crash(w)
  PROVE  IInv'
  <1>1. UNCHANGED <<db, created, deleted, now>>
    BY DEF Crash
  <1>2. ASSUME NEW r \in Requests
        PROVE  req'[r] = req[r] \/ (req'[r] \in Handler(now) /\ req'[r].pc = "lost")
    <2>1. req[r] \in Handler(now)
      BY DEF IInv, Kinds
    <2>2. [req[r] EXCEPT !.pc = "lost"] \in Handler(now)
          /\ [req[r] EXCEPT !.pc = "lost"].pc = "lost"
      BY <2>1 DEF Handler, Pcs, Resting
    <2> QED
      BY <2>2 DEF Crash
  <1>3. Kinds'
    <2>1. req' = [q \in Requests |-> req'[q]]
      BY DEF Crash
    <2>2. ASSUME NEW q \in Requests
          PROVE  req'[q] \in Handler(now)
      BY <1>2 DEF IInv, Kinds
    <2>3. req' \in [Requests -> Handler(now)]
      BY <2>1, <2>2
    <2> QED
      BY <1>1, <2>3 DEF IInv, Kinds
  <1>4. Keys' /\ Gone'
    BY <1>1 DEF IInv, Keys, Gone
  <1>5. NotYet'
    BY <1>1, <1>2 DEF IInv, NotYet, Sound
  <1>6. Backed'
    BY <1>1, <1>2 DEF IInv, Backed
  <1> QED
    BY <1>3, <1>4, <1>5, <1>6 DEF IInv

LEMMA StepTick ==
  ASSUME IInv, Tick
  PROVE  IInv'
  <1>1. now \in Nat /\ now' \in Nat /\ now <= now' /\ now' \in 0..MaxTime
    BY SessionTTLAssumption DEF Tick, IInv, Kinds
  <1>2. Handler(now) \subseteq Handler(now') /\ Key(now) \subseteq Key(now')
    BY <1>1, RecordsAge
  <1>3. UNCHANGED <<db, created, deleted, req>>
    BY DEF Tick
  <1>4. Kinds'
    BY <1>1, <1>2, <1>3 DEF IInv, Kinds
  <1>5. Keys'
    BY <1>2, <1>3 DEF IInv, Keys
  <1> QED
    BY <1>3, <1>4, <1>5 DEF IInv, Gone, NotYet, Backed

(* Every step preserves the invariant.                                     *)
LEMMA NextIInv == IInv /\ [Next]_vars => IInv'
  <1> SUFFICES ASSUME IInv, [Next]_vars PROVE IInv'
    OBVIOUS
  <1>1. CASE Tick
    BY <1>1, StepTick
  <1>2. CASE InitSession
    BY <1>2, StepInitSession
  <1>3. CASE \E w \in Workers : Crash(w)
    BY <1>3, StepCrash
  <1>4. ASSUME NEW r \in Requests,
               \/ Exists(r) \/ Delete(r) \/ LoadGet(r) \/ LoadExpire(r)
               \/ SaveGet(r) \/ SaveExpire(r) \/ UpdateHistory(r)
        PROVE  IInv'
    BY <1>4, StepExists, StepDelete, StepLoadGet, StepLoadExpire, StepSaveGet,
       StepSaveExpire, StepUpdateHistory
  <1>5. CASE UNCHANGED vars
    BY <1>5 DEF vars, IInv, Kinds, Keys, Gone, NotYet, Backed
  <1> QED
    BY <1>1, <1>2, <1>3, <1>4, <1>5 DEF Next

(* The invariant gives the types ...                                       *)
LEMMA IInvTypes == IInv => TypeOK
  <1> SUFFICES ASSUME IInv PROVE TypeOK
    OBVIOUS
  <1>1. \A s \in DOMAIN db : db[s].until \in 0..(now + TTL) /\ db[s].value \in Seq(Requests)
    BY DEF IInv, Keys, Key
  <1>2. ASSUME NEW r \in Requests
        PROVE  /\ req[r].pc \in Pcs /\ req[r].at \in Workers \cup {NoWorker}
               /\ req[r].sid \in SessionIds
               /\ req[r].renewed \in BOOLEAN /\ req[r].used \in 0..now
    BY DEF IInv, Kinds, Handler
  <1> QED
    BY <1>1, <1>2 DEF IInv, Kinds, Keys, Gone, TypeOK, Pcs

(* ... and that a session in use is there.                                 *)
LEMMA IInvKept == IInv => KeptWhileUsed
  <1> SUFFICES ASSUME IInv PROVE KeptWhileUsed
    OBVIOUS
  <1>1. ASSUME NEW r \in Requests, req[r].pc = "streaming", req[r].renewed,
               now < req[r].used + TTL, req[r].sid \notin deleted
        PROVE  Here(r)
    <2>1. req[r].sid \in DOMAIN db /\ req[r].used + TTL <= db[req[r].sid].until
      BY <1>1 DEF IInv, Backed
    <2>2. req[r].used \in Nat /\ TTL \in Nat /\ now \in Nat /\ db[req[r].sid].until \in Nat
      BY <2>1, SessionTTLAssumption DEF IInv, Kinds, Keys, Handler, Key
    <2> QED
      BY <1>1, <2>1, <2>2 DEF Here, Present
  <1> QED
    BY <1>1, IInvTypes DEF KeptWhileUsed

(* The invariant holds throughout.                                         *)
LEMMA SpecIInv == Spec => []IInv
  BY InitIInv, NextIInv, PTL DEF Spec

(* A reply that takes less than the session's lifetime finds its session,  *)
(* whatever the other workers do and whichever of them restart, unless it  *)
(* is deleted (repositories/redis/task_repository.py:70-77).               *)
THEOREM SessionKept == Spec => []KeptWhileUsed
  BY SpecIInv, IInvKept, PTL

(* A session whose deletion was answered never comes back: no EXPIRE and   *)
(* no half-finished save of another worker writes its key again            *)
(* (repositories/redis/task_repository.py:79-92).                          *)
THEOREM DeletedGone == Spec => []DeletedStaysDeleted
  <1>1. IInv => DeletedStaysDeleted
    BY DEF IInv, Gone, DeletedStaysDeleted, Present
  <1> QED
    BY <1>1, SpecIInv, PTL

(***************************************************************************)
(* Tasks                                                                   *)
(***************************************************************************)

(* The keys are those of the tasks ever created, and each has its lifetime *)
(* from its last write.                                                    *)
KeysDated ==
  /\ DOMAIN keys = DOMAIN memory /\ DOMAIN saved = DOMAIN memory
  /\ DOMAIN memory \subseteq Tasks /\ clashed \subseteq DOMAIN memory
  /\ \A t \in DOMAIN memory : saved[t] \in 0..now /\ keys[t].until = saved[t] + TaskTTL

(* What an update loaded is still what is stored, or the task has clashed. *)
(* Needed because the SET writes what the GET returned, whatever happened  *)
(* in between.                                                             *)
LoadedCurrent ==
  \A w \in Workers :
    \/ call[w] = NoCall
    \/ /\ call[w].op \in {"add", "complete", "fail"}
       /\ call[w].task \in DOMAIN memory
       /\ call[w].task \notin clashed => call[w].data = keys[call[w].task].value

StoredAsInMemory == \A t \in DOMAIN memory \ clashed : keys[t].value = memory[t]

TasksIInv ==
  /\ now \in 0..MaxTime
  /\ call = [w \in Workers |-> call[w]] /\ memory = [t \in DOMAIN memory |-> memory[t]]
  /\ KeysDated /\ LoadedCurrent /\ StoredAsInMemory

(* The invariant holds initially.                                          *)
LEMMA InitTasksIInv == TasksInit => TasksIInv
  BY RedisTasksAssumption
     DEF TasksInit, TasksIInv, KeysDated, LoadedCurrent, StoredAsInMemory, NoKeys, NoTasks

(* What a SET leaves: the task it writes has its lifetime from now, the    *)
(* others are as they were.                                                *)
LEMMA SaveSets ==
  ASSUME TasksIInv, NEW t \in Tasks, NEW data, Save(t, data)
  PROVE  /\ DOMAIN keys' = DOMAIN memory \cup {t} /\ DOMAIN saved' = DOMAIN memory \cup {t}
         /\ keys'[t].value = data /\ keys'[t].until = now + TaskTTL /\ saved'[t] = now
         /\ \A x \in DOMAIN memory : x # t => keys'[x] = keys[x] /\ saved'[x] = saved[x]
  BY DEF TasksIInv, KeysDated, Save, AfterSet

(***************************************************************************)
(* One lemma per action that writes.                                       *)
(***************************************************************************)
LEMMA StepCreate ==
  ASSUME TasksIInv, NEW w \in Workers, Create(w)
  PROVE  TasksIInv'
  <1>1. PICK t \in Tasks \ DOMAIN memory :
          /\ Save(t, [state |-> "working", artifacts |-> <<>>, error |-> None])
          /\ memory' = Created(memory, t)
    BY DEF Create
  <1>2. UNCHANGED <<call, now, clashed>>
    BY DEF Create
  <1>3. /\ DOMAIN memory' = DOMAIN memory \cup {t} /\ memory'[t] = NewTask
        /\ \A x \in DOMAIN memory : memory'[x] = memory[x]
        /\ memory' = [x \in DOMAIN memory' |-> memory'[x]]
    BY <1>1 DEF Created
  <1>4. /\ DOMAIN keys' = DOMAIN memory \cup {t} /\ DOMAIN saved' = DOMAIN memory \cup {t}
        /\ keys'[t].value = NewTask /\ keys'[t].until = now + TaskTTL /\ saved'[t] = now
        /\ \A x \in DOMAIN memory : x # t => keys'[x] = keys[x] /\ saved'[x] = saved[x]
    BY <1>1, SaveSets DEF NewTask
  <1>5. KeysDated'
    BY <1>2, <1>3, <1>4 DEF TasksIInv, KeysDated
  <1>6. LoadedCurrent'
    BY <1>1, <1>2, <1>3, <1>4 DEF TasksIInv, LoadedCurrent
  <1>7. StoredAsInMemory'
    BY <1>2, <1>3, <1>4 DEF TasksIInv, StoredAsInMemory
  <1> QED
    BY <1>2, <1>3, <1>5, <1>6, <1>7 DEF TasksIInv

LEMMA StepLoad ==
  ASSUME TasksIInv, NEW w \in Workers, Load(w)
  PROVE  TasksIInv'
  <1>1. PICK t \in Tasks \ clashed, op \in {"add", "complete", "fail"} :
          /\ Present(keys, t, now)
          /\ call' = [call EXCEPT ![w] = [op |-> op, task |-> t, data |-> keys[t].value]]
    BY DEF Load
  <1>2. UNCHANGED <<keys, now, ghosts>>
    BY DEF Load
  <1>3. /\ call'[w] = [op |-> op, task |-> t, data |-> keys[t].value]
        /\ \A v \in Workers : v # w => call'[v] = call[v]
        /\ call' = [v \in Workers |-> call'[v]]
    BY <1>1 DEF TasksIInv
  <1>4. t \in DOMAIN memory
    BY <1>1 DEF TasksIInv, KeysDated, Present
  <1>5. LoadedCurrent'
    BY <1>2, <1>3, <1>4 DEF TasksIInv, LoadedCurrent, ghosts
  <1> QED
    BY <1>2, <1>3, <1>5 DEF TasksIInv, KeysDated, StoredAsInMemory, ghosts

(* What the end of an update makes of the in-memory task.                  *)
LEMMA MemoryFollows ==
  ASSUME TasksIInv, NEW w \in Workers, Write(w)
  PROVE  /\ call[w].op \in {"add", "complete", "fail"} /\ call[w].task \in DOMAIN memory
         /\ DOMAIN memory' = DOMAIN memory
         /\ memory' = [x \in DOMAIN memory' |-> memory'[x]]
         /\ \A x \in DOMAIN memory : x # call[w].task => memory'[x] = memory[x]
         /\ call[w].task \notin clashed => memory'[call[w].task] = Changed(w)
  <1> DEFINE t == call[w].task
  <1>1. /\ call[w].op \in {"add", "complete", "fail"} /\ t \in DOMAIN memory
        /\ t \notin clashed => call[w].data = memory[t]
    BY DEF Write, TasksIInv, LoadedCurrent, StoredAsInMemory
  <1>2. memory = [x \in DOMAIN memory |-> memory[x]]
    BY DEF TasksIInv
  <1>3. CASE call[w].op = "add"
    <2>1. memory' = Added(memory, t, w)
      BY <1>3 DEF Write
    <2>2. memory' = [memory EXCEPT ![t].artifacts = Append(@, [text |-> w, index |-> Len(@)])]
      BY <1>1, <2>1 DEF Added
    <2>3. t \notin clashed =>
            Changed(w) = [memory[t] EXCEPT !.artifacts = Append(@, [text |-> w, index |-> Len(@)])]
      BY <1>1, <1>3 DEF Changed
    <2> QED
      BY <1>1, <1>2, <2>2, <2>3
  <1>4. CASE call[w].op = "complete"
    <2>1. memory' = [memory EXCEPT ![t].state = "completed"]
      BY <1>1, <1>4 DEF Write, Completed
    <2>2. t \notin clashed => Changed(w) = [memory[t] EXCEPT !.state = "completed"]
      BY <1>1, <1>4 DEF Changed
    <2> QED
      BY <1>1, <1>2, <2>1, <2>2
  <1>5. CASE call[w].op = "fail"
    <2>1. memory' = [memory EXCEPT ![t].state = "failed", ![t].error = w]
      BY <1>1, <1>5 DEF Write, Failed
    <2>2. t \notin clashed => Changed(w) = [memory[t] EXCEPT !.state = "failed", !.error = w]
      BY <1>1, <1>5 DEF Changed
    <2> QED
      BY <1>1, <1>2, <2>1, <2>2
  <1> QED
    BY <1>1, <1>3, <1>4, <1>5

LEMMA StepWrite ==
  ASSUME TasksIInv, NEW w \in Workers, Write(w)
  PROVE  TasksIInv'
  <1> DEFINE t == call[w].task
  <1>1. /\ t \in DOMAIN memory /\ DOMAIN memory' = DOMAIN memory
        /\ memory' = [x \in DOMAIN memory' |-> memory'[x]]
        /\ \A x \in DOMAIN memory : x # t => memory'[x] = memory[x]
        /\ t \notin clashed => memory'[t] = Changed(w)
    BY MemoryFollows
  <1>2. t \in Tasks /\ Save(t, Changed(w))
    BY <1>1 DEF Write, TasksIInv, KeysDated
  <1>3. /\ DOMAIN keys' = DOMAIN memory \cup {t} /\ DOMAIN saved' = DOMAIN memory \cup {t}
        /\ keys'[t].value = Changed(w) /\ keys'[t].until = now + TaskTTL /\ saved'[t] = now
        /\ \A x \in DOMAIN memory : x # t => keys'[x] = keys[x] /\ saved'[x] = saved[x]
    BY <1>2, SaveSets
  <1>4. /\ clashed \subseteq clashed' /\ clashed' \subseteq clashed \cup {t}
        /\ \A v \in Workers \ {w} : call[v].task = t => t \in clashed'
        /\ call' = [call EXCEPT ![w] = NoCall] /\ now' = now
    BY DEF Write
  <1>5. /\ call'[w] = NoCall /\ \A v \in Workers : v # w => call'[v] = call[v]
        /\ call' = [v \in Workers |-> call'[v]]
    BY <1>4 DEF TasksIInv
  <1>6. KeysDated'
    <2>1. DOMAIN memory \cup {t} = DOMAIN memory
      BY <1>1
    <2>2. KeysDated /\ now \in Nat
      BY DEF TasksIInv
    <2>3. \A x \in DOMAIN memory : saved'[x] \in 0..now /\ keys'[x].until = saved'[x] + TaskTTL
      BY <1>3, <2>2 DEF KeysDated
    <2> QED
      BY <1>1, <1>3, <1>4, <2>1, <2>2, <2>3 DEF KeysDated
  <1>7. LoadedCurrent'
    BY <1>1, <1>3, <1>4, <1>5 DEF TasksIInv, LoadedCurrent
  <1>8. StoredAsInMemory'
    BY <1>1, <1>3, <1>4 DEF TasksIInv, StoredAsInMemory
  <1> QED
    BY <1>1, <1>4, <1>5, <1>6, <1>7, <1>8 DEF TasksIInv

(* Every step keeps the invariant.                                         *)
LEMMA NextTasksIInv == TasksIInv /\ [TasksNext]_taskVars => TasksIInv'
  <1> SUFFICES ASSUME TasksIInv, [TasksNext]_taskVars PROVE TasksIInv'
    OBVIOUS
  <1>1. CASE TasksTick
    BY <1>1, RedisTasksAssumption
       DEF TasksTick, TasksIInv, KeysDated, LoadedCurrent, StoredAsInMemory, ghosts
  <1>2. ASSUME NEW w \in Workers, LoseCall(w) PROVE TasksIInv'
    <2>1. /\ call'[w] = NoCall /\ \A v \in Workers : v # w => call'[v] = call[v]
          /\ call' = [v \in Workers |-> call'[v]]
      BY <1>2 DEF LoseCall, TasksIInv
    <2> QED
      BY <1>2, <2>1 DEF LoseCall, TasksIInv, KeysDated, LoadedCurrent, StoredAsInMemory, ghosts
  <1>3. CASE UNCHANGED taskVars
    BY <1>3 DEF taskVars, ghosts, TasksIInv, KeysDated, LoadedCurrent, StoredAsInMemory
  <1> QED
    BY <1>1, <1>2, <1>3, StepCreate, StepLoad, StepWrite DEF TasksNext

(* The invariant implies the property.                                     *)
LEMMA TasksIInvKept == TasksIInv => TaskUpdatesKept
  <1> SUFFICES ASSUME TasksIInv PROVE TaskUpdatesKept
    OBVIOUS
  <1>1. TasksTyped
    BY RedisTasksAssumption DEF TasksIInv, KeysDated, LoadedCurrent, TasksTyped
  <1>2. ASSUME NEW t \in DOMAIN memory \ clashed
        PROVE  /\ now < saved[t] + TaskTTL => Present(keys, t, now)
               /\ keys[t].value = Got(memory, t)
    BY <1>2 DEF TasksIInv, KeysDated, StoredAsInMemory, Present, Got
  <1> QED
    BY <1>1, <1>2 DEF TaskUpdatesKept

(* A stored task is what the in-memory store would hold, and is there for  *)
(* its lifetime after its last update, unless two updates of it overlapped *)
(* (task_repository.py:193-231), for any number of workers, tasks and      *)
(* updates, wherever workers are restarted.                                *)
THEOREM UpdatesKept == TasksSpec => []TaskUpdatesKept
  BY InitTasksIInv, NextTasksIInv, TasksIInvKept, PTL DEF TasksSpec
=============================================================================
