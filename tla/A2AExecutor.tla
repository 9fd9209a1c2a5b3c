----------------------------- MODULE A2AExecutor -----------------------------
(***************************************************************************)
(* The A2A surface: ResilientAgentExecutor.execute() and cancel()          *)
(* (a2a/executor.py) over the in-memory ContextStore                       *)
(* (repositories/memory/context_repository.py) and the session store it    *)
(* shares with the REST surface, which may delete a session at any time.   *)
(*                                                                         *)
(* Tasks run at the same time on one event loop.  An action is a segment   *)
(* of execute() between two awaits; within one, the clock may move by one  *)
(* tick between two readings (now').  "text" numbers the TEXT chunks of a  *)
(* task's stream in their order.                                           *)
(*                                                                         *)
(* The a2a-sdk is external.  It calls execute() once for a task and        *)
(* cancel() for a task that is not terminal, applies the events of a       *)
(* task's queue in their order, and may cancel the coroutine of execute()  *)
(* at an await.                                                            *)
(***************************************************************************)
EXTENDS ChatService, FiniteSets, SequencesExt

CONSTANTS
  Tasks,        \* A2A task ids
  Contexts,     \* A2A context ids
  NoSession,    \* the "session" of a task that has none yet
  ContextTTL,   \* settings.a2a_context_ttl_seconds
  MaxTime,      \* bound: the clock
  MaxTexts      \* bound: TEXT chunks of one task

ASSUME ContextAssumption ==
  /\ ContextTTL \in Nat /\ MaxTime \in Nat /\ MaxTexts \in Nat
  /\ NoSession \notin SessionIds /\ Contexts # {} /\ IsFiniteSet(Tasks)

VARIABLES
  store,        \* the session store
  created,      \* session ids ever handed out
  contexts,     \* the context store: context id -> session id, creation time
  now,          \* time.time()
  task,         \* the executions of the tasks
  events,       \* the events enqueued for each task
  a2aTasks,     \* metrics: a2a_tasks_total
  hits          \* metrics: session_cache_hits

counts == <<a2aTasks, hits>>
vars   == <<store, created, contexts, now, task, events, counts>>

(* Besides the locals of execute() a task's record keeps two facts for the *)
(* properties: when the binding it was routed by was made, and which tasks *)
(* of its context had been completed and saved when it was admitted.       *)
Idle == [pc |-> "idle", ctx |-> CHOOSE c \in Contexts : TRUE,
         sid |-> NoSession, history |-> <<>>, text |-> <<>>,
         bound |-> 0, earlier |-> {}]

Init ==
  /\ store = [s \in {} |-> Idle] /\ created = {}
  /\ contexts = [c \in {} |-> Idle]
  /\ now = 0
  /\ task = [t \in Tasks |-> Idle]
  /\ events = [t \in Tasks |-> <<>>]
  /\ a2aTasks = 0 /\ hits = 0

Later == {t \in now..MaxTime : t <= now + 1}

Enqueue(t, e) == events' = [events EXCEPT ![t] = Append(@, e)]
Goto(t, pc)   == task' = [task EXCEPT ![t].pc = pc]

(***************************************************************************)
(* ContextStore                                                            *)
(***************************************************************************)

(* Seeded fault: the comparison of the binding's age is the wrong way      *)
(* round.                                                                  *)
FreshWhenOld(c) ==
  c \in DOMAIN contexts /\ now - contexts[c].created > ContextTTL

(* A binding is used while it is younger than ContextTTL; whether its      *)
(* session is still there is not asked.                                    *)
Fresh(c) == c \in DOMAIN contexts /\ now - contexts[c].created < ContextTTL

(* Seeded fault: a new binding replaces those of all contexts.             *)
BoundEverywhere(c, s) ==
  [x \in DOMAIN contexts \cup {c} |-> [sid |-> s, created |-> now]]

Bound(c, s) ==
  [x \in DOMAIN contexts \cup {c} |->
     IF x = c THEN [sid |-> s, created |-> now] ELSE contexts[x]]

(* resolve_session(): the session of a fresh binding, else a new session   *)
(* and a new binding.  sessions is the store after the call.               *)
ResolveSession(c, s, sessions) ==
  \/ /\ Fresh(c)
     /\ s = contexts[c].sid
     /\ sessions = store
     /\ UNCHANGED <<created, contexts>>
  \/ /\ ~Fresh(c)
     /\ s \in SessionIds \ created
     /\ sessions = AfterCreate(store, s, TRUE, now)
     /\ created' = created \cup {s}
     /\ contexts' = Bound(c, s)

(***************************************************************************)
(* execute()                                                               *)
(***************************************************************************)

(* The Task itself is the first event of its queue.                        *)
Start(t) ==
  /\ task[t].pc = "idle"
  /\ \E c \in Contexts : task' = [task EXCEPT ![t].pc = "started", ![t].ctx = c]
  /\ Enqueue(t, "task")
  /\ UNCHANGED <<store, created, contexts, now, counts>>

(* Seeded fault: the task is counted before its input is looked at.        *)
EmptyInputCounted(t) ==
  /\ task[t].pc = "started"
  /\ Enqueue(t, "failed")
  /\ Goto(t, "done")
  /\ a2aTasks' = a2aTasks + 1
  /\ UNCHANGED <<store, created, contexts, now, hits>>

(* A message without text fails the task before anything else happens.     *)
EmptyInput(t) ==
  /\ task[t].pc = "started"
  /\ Enqueue(t, "failed")
  /\ Goto(t, "done")
  /\ UNCHANGED <<store, created, contexts, now, counts>>

Remembered(c) ==
  {u \in Tasks : task[u].ctx = c /\ task[u].pc = "done"
                                 /\ "completed" \in ToSet(events[u])}

(* The session is resolved, the task counted, the history loaded, which is *)
(* empty if the session has expired or was deleted, and the stream opened. *)
Admit(t) ==
  /\ task[t].pc = "started"
  /\ now' \in Later
  /\ \E s \in SessionIds, sessions \in
          {store} \cup {AfterCreate(store, x, TRUE, now) : x \in SessionIds \ created} :
       /\ ResolveSession(task[t].ctx, s, sessions)
       /\ store' = AfterGet(sessions, s, now')
       /\ task' = [task EXCEPT ![t] =
                     [@ EXCEPT !.pc = "streaming", !.sid = s,
                               !.history = LoadHistory(sessions, s, now'),
                               !.bound = contexts'[task[t].ctx].created,
                               !.earlier = Remembered(task[t].ctx)]]
       /\ hits' = IF s \in Live(sessions, now') THEN hits + 1 ELSE hits
  /\ a2aTasks' = a2aTasks + 1
  /\ UNCHANGED events

(* A TEXT chunk is sent as (a further part of) the task's one artifact.    *)
TextChunk(t) ==
  /\ task[t].pc = "streaming"
  /\ Len(task[t].text) < MaxTexts
  /\ task' = [task EXCEPT ![t].text = Append(@, Len(@) + 1)]
  /\ Enqueue(t, "artifact")
  /\ UNCHANGED <<store, created, contexts, now, counts>>

(* STATUS COMPLETE (or the end of the stream without one): the task is     *)
(* reported as completed first ...                                         *)
Complete(t) ==
  /\ task[t].pc = "streaming"
  /\ Enqueue(t, "completed")
  /\ Goto(t, "saving")
  /\ UNCHANGED <<store, created, contexts, now, counts>>

(* Seeded fault: the loop goes on after the turn was saved.                *)
SaveTurnNoReturn(t) ==
  /\ task[t].pc = "saving"
  /\ store' = AfterSaveTurn(store, task[t].sid, now, t, task[t].text)
  /\ Goto(t, "streaming")
  /\ UNCHANGED <<created, contexts, now, events, counts>>

(* Seeded fault: the turn is added to the history loaded at the start.     *)
SaveTurnStale(t) ==
  /\ task[t].pc = "saving"
  /\ store' = AfterUpdateHistory(store, task[t].sid,
                task[t].history \o <<HumanMessage(t), AIMessage(t, task[t].text)>>)
  /\ Goto(t, "done")
  /\ UNCHANGED <<created, contexts, now, events, counts>>

(* ... and its turn is saved after that await.                             *)
SaveTurn(t) ==
  /\ task[t].pc = "saving"
  /\ store' = AfterSaveTurn(store, task[t].sid, now, t, task[t].text)
  /\ Goto(t, "done")
  /\ UNCHANGED <<created, contexts, now, events, counts>>

(* Seeded fault: what a failed stream had sent is saved.                   *)
FailSaving(t) ==
  /\ task[t].pc = "streaming"
  /\ Enqueue(t, "failed")
  /\ store' = AfterSaveTurn(store, task[t].sid, now, t, task[t].text)
  /\ Goto(t, "done")
  /\ UNCHANGED <<created, contexts, now, counts>>

(* Seeded fault: an ERROR chunk ends the execution without a report.       *)
FailSilently(t) ==
  /\ task[t].pc = "streaming"
  /\ Goto(t, "done")
  /\ UNCHANGED <<store, created, contexts, now, events, counts>>

(* An ERROR chunk, or an exception of the stream: no turn is saved.        *)
Fail(t) ==
  /\ task[t].pc = "streaming"
  /\ Enqueue(t, "failed")
  /\ Goto(t, "done")
  /\ UNCHANGED <<store, created, contexts, now, counts>>

(***************************************************************************)
(* cancel(), the SDK, and the rest of the process                          *)
(***************************************************************************)
TerminalEvents == {"completed", "failed", "canceled"}
Terminal(t)    == \E e \in ToSet(events[t]) : e \in TerminalEvents

(* cancel() only reports: execute() is not told, and goes on.              *)
Cancel(t) ==
  /\ task[t].pc # "idle" /\ ~Terminal(t)
  /\ Enqueue(t, "canceled")
  /\ UNCHANGED <<store, created, contexts, now, task, counts>>

(* The SDK cancels the coroutine of a canceled task, or of one whose       *)
(* client went away, at an await: CancelledError is not an Exception, so   *)
(* nothing of execute() runs any more.                                     *)
Kill(t) ==
  /\ task[t].pc \in {"started", "streaming", "saving"}
  /\ Goto(t, "killed")
  /\ UNCHANGED <<store, created, contexts, now, events, counts>>

Tick ==
  /\ now < MaxTime /\ now' = now + 1
  /\ UNCHANGED <<store, created, contexts, task, events, counts>>

(* DELETE /v1/session/{id}, which the UI offers for every session listed,  *)
(* those of A2A contexts included.                                         *)
DeleteSession ==
  /\ \E s \in Live(store, now) : store' = AfterDelete(store, s)
  /\ UNCHANGED <<created, contexts, now, task, events, counts>>

Run(t) == EmptyInput(t) \/ Admit(t) \/ TextChunk(t) \/ Complete(t) \/ SaveTurn(t) \/ Fail(t)

Next ==
  \/ Tick \/ DeleteSession
  \/ \E t \in Tasks : Start(t) \/ Run(t) \/ Cancel(t) \/ Kill(t)

Spec == Init /\ [][Next]_vars

(* The stream ends (AlwaysAnswers of LangGraphProcessor) and the event     *)
(* loop runs every execution that can run.                                 *)
FairSpec == Spec /\ \A t \in Tasks : WF_vars(Run(t))

(***************************************************************************)
(* Properties                                                              *)
(***************************************************************************)

(* Types of the variables.                                                 *)
Messages ==
  [role : {"system", "human", "ai"}, turn : Tasks \cup {NoTurn}, text : Seq(Nat)]
Entries    == [history : Seq(Messages), prompted : BOOLEAN, created : 0..now]
Bindings   == [sid : created, created : 0..now]
Executions ==
  [pc : {"idle", "started", "streaming", "saving", "done", "killed"},
   ctx : Contexts, sid : created \cup {NoSession}, history : Seq(Messages),
   text : Seq(Nat), bound : 0..now, earlier : SUBSET Tasks]
TypeOK ==
  /\ DOMAIN store \subseteq created /\ created \subseteq SessionIds
  /\ store \in [DOMAIN store -> Entries]
  /\ DOMAIN contexts \subseteq Contexts
  /\ contexts \in [DOMAIN contexts -> Bindings]
  /\ now \in 0..MaxTime
  /\ task \in [Tasks -> Executions]
  /\ events \in [Tasks -> Seq({"task", "artifact"} \cup TerminalEvents)]
  /\ a2aTasks \in Nat /\ hits \in Nat

(* What a client can follow in a task's queue: the Task comes first, and   *)
(* one execution reports an end at most once and no artifact after it; all *)
(* that can still come then is a cancellation, and one that came before    *)
(* does not change this (executor.py:57-67, 117-163).                      *)
QueueOrder ==
  \A t \in Tasks : \A i \in DOMAIN events[t] :
    /\ events[t][i] = "task" <=> i = 1
    /\ events[t][i] \in {"completed", "failed"} =>
         \A j \in DOMAIN events[t] : j > i => events[t][j] = "canceled"

(* Types, and the order of the events in a task's queue (above).           *)
QueueSound == TypeOK /\ QueueOrder

(* What is remembered is what was reported: every saved turn is that of a  *)
(* task whose completion was enqueued, with all its artifacts as the       *)
(* answer; tasks that failed, had no input or were stopped before that     *)
(* left nothing (executor.py:137-163).                                     *)
Artifacts(t) == {i \in DOMAIN events[t] : events[t][i] = "artifact"}
OnlyCompletedRemembered ==
  \A s \in DOMAIN store :
    \A i \in DOMAIN store[s].history :
      LET m == store[s].history[i]
      IN  m.role = "ai" =>
            /\ "completed" \in ToSet(events[m.turn])
            /\ m.text = [k \in 1..Cardinality(Artifacts(m.turn)) |-> k]
            /\ task[m.turn].sid = s

(* No turn is lost to another task of the context: an execution that ran   *)
(* to its end after reporting completion has its turn in the history, if   *)
(* the session is still alive, its question and then its answer, exactly   *)
(* once (executor.py:137-142).                                             *)
CompletedRemembered ==
  \A t \in Tasks :
    task[t].pc = "done" /\ "completed" \in ToSet(events[t])
      /\ task[t].sid \in Live(store, now) =>
      LET h     == store[task[t].sid].history
          asked == {i \in DOMAIN h : h[i] = HumanMessage(t)}
      IN  \E i \in asked : /\ asked = {i} /\ i < Len(h)
                           /\ h[i + 1] = AIMessage(t, task[t].text)

(* The history of a session is exactly the completed tasks' turns (the two *)
(* statements above, executor.py:137-163).                                 *)
CompletedIffRemembered == OnlyCompletedRemembered /\ CompletedRemembered

(* Conversations of different contexts never mix: no session serves two    *)
(* contexts, whatever expires or is deleted in between                     *)
(* (context_repository.py:29-38).                                          *)
ContextsApart ==
  /\ \A t, u \in Tasks :
       task[t].sid = task[u].sid /\ task[t].sid # NoSession =>
         task[t].ctx = task[u].ctx
  /\ \A t \in Tasks, c \in DOMAIN contexts :
       task[t].sid = contexts[c].sid => task[t].ctx = c

(* A context keeps its session for the life of a binding: two tasks of one *)
(* context that ran in different sessions were routed by bindings made at  *)
(* least ContextTTL apart.  In particular tasks that arrive together do    *)
(* not each bind a session of their own (context_repository.py:29-38).     *)
OneSessionPerBinding ==
  \A t, u \in Tasks :
    /\ task[t].sid # NoSession /\ task[u].sid # NoSession
    /\ task[t].ctx = task[u].ctx /\ task[t].sid # task[u].sid
    /\ task[t].bound <= task[u].bound
    => task[u].bound - task[t].bound >= ContextTTL

(* Contexts and sessions belong to each other one to one, for as long as a *)
(* binding lives (the two statements above, context_repository.py:29-38).  *)
ContextsKeepSessions == ContextsApart /\ OneSessionPerBinding

(* The counters agree with what happened: a task with input is counted     *)
(* once, and is a cache hit exactly when it found its session alive        *)
(* (executor.py:101, chat_service.py:36-39).                               *)
TaskLedger ==
  /\ a2aTasks = Cardinality({t \in Tasks : task[t].sid # NoSession})
  /\ hits = Cardinality({t \in Tasks : SystemMessage \in ToSet(task[t].history)})

(* Every task the SDK starts and does not stop ends in a terminal event.   *)
TasksEnd ==
  \A t \in Tasks :
    task[t].pc = "started" ~> (Terminal(t) \/ task[t].pc = "killed")

(* "Reusing the same contextId routes each task to the same chat session,  *)
(* preserving conversation history across multiple A2A calls"              *)
(* (docs/architecture.md:304): a task that reuses a bound contextId and is *)
(* routed to the session of earlier tasks is answered from a history that  *)
(* holds their turns.                                                      *)
HistoryPreserved ==
  \A t \in Tasks :
    \A u \in task[t].earlier :
      task[u].sid = task[t].sid => u \in ToSet(Turns(task[t].history))
=============================================================================
