----------------------------- MODULE RedisTasks -----------------------------
(***************************************************************************)
(* RedisTaskStore (repositories/redis/task_repository.py) on several       *)
(* workers, beside what InMemoryTaskStore holds after the same updates in  *)
(* the order in which they are written: get_task_store() says that the     *)
(* two implement the same interface.                                       *)
(*                                                                         *)
(* An update is a GET and a SET of the whole task; the workers' commands   *)
(* interleave, and each worker runs one call at a time.                    *)
(***************************************************************************)
EXTENDS Redis, TaskStore

CONSTANTS
  Tasks,        \* task ids
  TaskTTL,      \* _TTL (1 h)
  MaxArtifacts  \* bound: the artifacts of a task

ASSUME RedisTasksAssumption ==
  /\ None \notin Workers
  /\ TaskTTL \in Nat \ {0} /\ MaxTime \in Nat /\ MaxArtifacts \in Nat

VARIABLES
  keys,         \* the keys a2a:task:*
  call,         \* each worker's update: none, or its task and what it loaded
  memory,       \* ghost: what InMemoryTaskStore would hold
  saved,        \* ghost: when each task was last written
  clashed       \* ghost: tasks written between an update's GET and its SET

ghosts   == <<memory, saved, clashed>>
taskVars == <<keys, call, now, ghosts>>

NoCall == [op |-> "none", task |-> None, data |-> None]

TasksInit ==
  /\ keys = NoKeys
  /\ call = [w \in Workers |-> NoCall]
  /\ now = 0
  /\ memory = NoTasks /\ saved = NoTasks /\ clashed = {}

TasksTick ==
  /\ now < MaxTime /\ now' = now + 1
  /\ UNCHANGED <<keys, call, ghosts>>

(* Seeded fault: the task expires when it would have without the write.    *)
SaveKeepingTTL(t, data) ==
  /\ keys' = AfterSet(keys, t, data,
                      IF Present(keys, t, now) THEN keys[t].until ELSE now + TaskTTL)
  /\ saved' = [x \in DOMAIN saved \cup {t} |-> IF x = t THEN now ELSE saved[x]]

(* _save(), and the SET of create().                                       *)
Save(t, data) ==
  /\ keys' = AfterSet(keys, t, data, now + TaskTTL)
  /\ saved' = [x \in DOMAIN saved \cup {t} |-> IF x = t THEN now ELSE saved[x]]

Create(w) ==
  /\ call[w] = NoCall
  /\ \E t \in Tasks \ DOMAIN memory :
       /\ Save(t, [state |-> "working", artifacts |-> <<>>, error |-> None])
       /\ memory' = Created(memory, t)
  /\ UNCHANGED <<call, now, clashed>>

(* _load(): GET.  A task that is not there is not updated.  (A task is     *)
(* followed until two updates of it clash.)                                *)
Load(w) ==
  /\ call[w] = NoCall
  /\ \E t \in Tasks \ clashed, op \in {"add", "complete", "fail"} :
       /\ Present(keys, t, now)
       /\ op = "add" => Len(keys[t].value.artifacts) < MaxArtifacts
       /\ call' = [call EXCEPT ![w] = [op |-> op, task |-> t, data |-> keys[t].value]]
  /\ UNCHANGED <<keys, now, ghosts>>

(* Seeded fault: a failure leaves no artifacts.                            *)
ChangedAfresh(w) ==
  LET data == call[w].data
  IN  CASE call[w].op = "add" ->
             [data EXCEPT !.artifacts = Append(@, [text |-> w, index |-> Len(@)])]
        [] call[w].op = "complete" -> [data EXCEPT !.state = "completed"]
        [] call[w].op = "fail" ->
             [state |-> "failed", artifacts |-> <<>>, error |-> w]

(* What add_artifact(), complete() and fail() make of the loaded task.     *)
Changed(w) ==
  LET data == call[w].data
  IN  CASE call[w].op = "add" ->
             [data EXCEPT !.artifacts = Append(@, [text |-> w, index |-> Len(@)])]
        [] call[w].op = "complete" -> [data EXCEPT !.state = "completed"]
        [] call[w].op = "fail" -> [data EXCEPT !.state = "failed", !.error = w]

(* SET: the end of an update.                                              *)
Write(w) ==
  /\ call[w] # NoCall
  /\ LET t == call[w].task
     IN  /\ Save(t, Changed(w))
         /\ memory' = CASE call[w].op = "add" -> Added(memory, t, w)
                        [] call[w].op = "complete" -> Completed(memory, t)
                        [] call[w].op = "fail" -> Failed(memory, t, w)
         /\ clashed' = clashed \cup {x \in {t} : \E v \in Workers \ {w} : call[v].task = t}
  /\ call' = [call EXCEPT ![w] = NoCall]
  /\ UNCHANGED now

(* A worker is restarted between the GET and the SET.                      *)
LoseCall(w) ==
  /\ call[w] # NoCall /\ call' = [call EXCEPT ![w] = NoCall]
  /\ UNCHANGED <<keys, now, ghosts>>

TasksNext ==
  \/ TasksTick
  \/ \E w \in Workers : Create(w) \/ Load(w) \/ Write(w) \/ LoseCall(w)

TasksSpec == TasksInit /\ [][TasksNext]_taskVars

(***************************************************************************)
(* Properties                                                              *)
(***************************************************************************)

(* Types of the variables.                                                 *)
TasksTyped ==
  /\ DOMAIN keys = DOMAIN memory /\ DOMAIN saved = DOMAIN memory
  /\ DOMAIN memory \subseteq Tasks /\ clashed \subseteq DOMAIN memory
  /\ now \in 0..MaxTime
  /\ \A w \in Workers : call[w] # NoCall => call[w].task \in DOMAIN memory
  /\ \A t \in DOMAIN keys : keys[t].until \in 0..(now + TaskTTL)

(* A task is there for an hour after its last update, and it is what the   *)
(* in-memory store would hold, whichever workers updated it and where they *)
(* were restarted, unless it was written between the GET and the SET of    *)
(* another update: add_artifact() is no RPUSH                              *)
(* (task_repository.py:154-155, 195-232, task_store.py:76-82).             *)
TaskUpdatesKept ==
  /\ TasksTyped
  /\ \A t \in DOMAIN memory \ clashed :
       /\ now < saved[t] + TaskTTL => Present(keys, t, now)
       /\ keys[t].value = Got(memory, t)
=============================================================================
