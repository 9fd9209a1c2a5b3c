------------------------------ MODULE TaskStore ------------------------------
(***************************************************************************)
(* a2a/task_store.py: InMemoryTaskStore, one dictionary of tasks whose     *)
(* operations do not interleave.                                           *)
(*                                                                         *)
(* Of a task the model keeps its state, its artifacts and its error; a     *)
(* text or a reason is the worker that gave it.                            *)
(***************************************************************************)
EXTENDS Naturals, Sequences

CONSTANT None     \* Python's None

NoTasks == [t \in {} |-> 0]

NewTask == [state |-> "working", artifacts |-> <<>>, error |-> None]

Created(tasks, t) ==
  [x \in DOMAIN tasks \cup {t} |-> IF x = t THEN NewTask ELSE tasks[x]]

(* get(), which to_dict() answers with, too.                               *)
Got(tasks, t) == IF t \in DOMAIN tasks THEN tasks[t] ELSE None

(* add_artifact(), complete() and fail(): nothing, for a task that is not  *)
(* there.                                                                  *)
Added(tasks, t, text) ==
  IF t \notin DOMAIN tasks THEN tasks
  ELSE [tasks EXCEPT ![t].artifacts = Append(@, [text |-> text, index |-> Len(@)])]

Completed(tasks, t) ==
  IF t \notin DOMAIN tasks THEN tasks ELSE [tasks EXCEPT ![t].state = "completed"]

Failed(tasks, t, reason) ==
  IF t \notin DOMAIN tasks THEN tasks
  ELSE [tasks EXCEPT ![t].state = "failed", ![t].error = reason]
=============================================================================
