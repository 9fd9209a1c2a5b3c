---------------------------- MODULE MCMonitoring ----------------------------
(* Monitoring and StatusPage share the clock and nothing else: a behaviour *)
(* explores one of them, and every state of either is reached.             *)
EXTENDS Monitoring

CONSTANTS Contexts, MetricsTTL, MaxTotal, MaxTasks

VARIABLES explored, total, tasks, page, last_a2a_result, last_a2a_context,
          fetch, cache, shown, unlabelled, totals

P == INSTANCE StatusPage

ASSUME PageAssumption == P!StatusPageAssumption

seen == <<total, tasks, page, last_a2a_result, last_a2a_context,
          fetch, cache, shown, unlabelled, totals>>

MCInit == explored \in {"server", "page"} /\ Init /\ P!Init

MCNext ==
  \/ explored = "server" /\ Next /\ UNCHANGED <<explored, seen>>
  \/ /\ explored = "page" /\ P!Next /\ UNCHANGED <<explored, measured>>
     /\ now' + Len(tasks') + total' <= MaxTime    \* bound: all three together

MCSpec == MCInit /\ [][MCNext]_<<explored, vars, seen>>

Alike == RequestsAlike \cup P!ContextsAlike

(* See StatusPage: the labels of a task and the age of the figures         *)
(* (streamlit_app.py:465-504, 84-91).                                      *)
PageCurrent == explored = "page" => P!PageCurrent
=============================================================================
