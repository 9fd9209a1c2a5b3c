------------------------------ MODULE StatusPage ------------------------------
(***************************************************************************)
(* What ui/streamlit_app.py shows of the server besides the chat: the A2A  *)
(* tab and the figures of the Monitoring tab, in the order in which a run  *)
(* of the script comes to them (its health indicator is in Monitoring).    *)
(* Runs of the script and interactions are as in Dashboard.                *)
(*                                                                         *)
(* The server is what the page can see of it: a counter that goes up and   *)
(* tasks that end.  st.cache_data is external: it calls a function whose   *)
(* last result is out of date or missing, one call at a time for all       *)
(* browsers, and dates the result when the call has returned.              *)
(***************************************************************************)
EXTENDS Naturals, Sequences, TLC

CONSTANTS
  Contexts,     \* context ids A2A tasks are sent with
  None,         \* Python's None, a key that is not set
  MetricsTTL,   \* ttl of the cache of _get_metrics (10 s)
  MaxTime,      \* bound: the clock
  MaxTotal,     \* bound: requests_total
  MaxTasks      \* bound: A2A tasks, numbered in their order

(* What an instance must give them.                                       *)
StatusPageAssumption ==
  /\ None \notin Contexts /\ "refresh" \notin Contexts \cup {None}
  /\ None \notin [asked : Nat, total : Nat \cup {None}]
  /\ MetricsTTL \in Nat \ {0}
  /\ MaxTime \in Nat /\ MaxTotal \in Nat /\ MaxTasks \in Nat

VARIABLES
  now,
  total,        \* server: requests_total
  tasks,        \* server: the A2A tasks
  page,         \* where the run of the script is, the button it runs for, and
                \* those clicked while it was blocked, for the run after it
  last_a2a_result,      \* st.session_state: a task and its state
  last_a2a_context,     \* st.session_state
  fetch,        \* the call of _get_metrics() under way: since when, the answer
  cache,        \* st.cache_data: what it returned last, since when and when
  shown,        \* what the figures on the page are from, and when they were put there
  unlabelled,   \* ghost: an interaction came before the label of the task
  totals        \* ghost: the total when each tick began

server == <<total, tasks, totals>>
a2a    == <<last_a2a_result, last_a2a_context, unlabelled>>
figs   == <<fetch, cache, shown>>

At(pc, button) == [pc |-> pc, button |-> button, next |-> {}]

Init ==
  /\ now = 0 /\ total = 0 /\ tasks = <<>> /\ totals = <<0>>
  /\ page = At("tabs", None)
  /\ last_a2a_result = None /\ last_a2a_context = None /\ unlabelled = FALSE
  /\ fetch = None /\ cache = None /\ shown = None

Tick ==
  /\ now < MaxTime /\ now' = now + 1 /\ totals' = Append(totals, total)
  /\ UNCHANGED <<total, tasks, page, a2a, figs>>

(***************************************************************************)
(* The server                                                              *)
(***************************************************************************)
RecordRequest ==
  /\ total < MaxTotal /\ total' = total + 1
  /\ UNCHANGED <<now, tasks, totals, page, a2a, figs>>

TaskEnds ==
  /\ \E t \in DOMAIN tasks :
       tasks[t].state = "working" /\ tasks' = [tasks EXCEPT ![t].state = "ended"]
  /\ UNCHANGED <<now, total, totals, page, a2a, figs>>

(***************************************************************************)
(* A run of the script                                                     *)
(***************************************************************************)

(* A click or an input, the buttons of the A2A tab among them: the run     *)
(* under way ends, at once or when _get_metrics() returns to it, and       *)
(* another one starts, for one of the buttons clicked until then.          *)
Interact ==
  /\ \E button \in Contexts \cup {None} \cup (IF last_a2a_result = None THEN {} ELSE {"refresh"}) :
       page' = IF page.pc \in {"waiting", "fetching"} THEN [page EXCEPT !.next = @ \cup {button}]
               ELSE At("tabs", button)
  /\ unlabelled' = (unlabelled \/ page.pc = "label")
  /\ UNCHANGED <<now, server, last_a2a_result, last_a2a_context, figs>>

(* The Send button.  The server may make a task of it.  The call fails, is *)
(* answered with an error or with the task; both answers are kept.         *)
Send ==
  /\ page.pc = "tabs" /\ page.button \in Contexts
  /\ \E state \in {None, "working", "ended"} :
       /\ IF state = None THEN UNCHANGED tasks
          ELSE /\ Len(tasks) < MaxTasks
               /\ tasks' = Append(tasks, [context |-> page.button, state |-> state])
       /\ \/ UNCHANGED last_a2a_result /\ page' = At("metrics", None)
          \/ /\ last_a2a_result' = IF state = None THEN None
                                     ELSE [task |-> Len(tasks'), state |-> state]
             /\ page' = [page EXCEPT !.pc = "label"]
  /\ UNCHANGED <<now, total, totals, last_a2a_context, unlabelled, figs>>

(* Seeded fault: the context of the first task is kept.                    *)
LabelOnce ==
  /\ page.pc = "label"
  /\ last_a2a_context' = IF last_a2a_context = None THEN page.button ELSE last_a2a_context
  /\ unlabelled' = FALSE
  /\ page' = At("metrics", None)
  /\ UNCHANGED <<now, server, last_a2a_result, figs>>

(* The second assignment: the context of the task.                         *)
Label ==
  /\ page.pc = "label"
  /\ last_a2a_context' = page.button
  /\ unlabelled' = FALSE
  /\ page' = At("metrics", None)
  /\ UNCHANGED <<now, server, last_a2a_result, figs>>

(* The Refresh button asks for the task that is shown.  An answer without  *)
(* a task leaves what is known of it.  The script then runs again.         *)
Refresh ==
  /\ page.pc = "tabs" /\ page.button = "refresh"
  /\ \/ UNCHANGED last_a2a_result
     \/ last_a2a_result' = [last_a2a_result EXCEPT !.state = tasks[last_a2a_result.task].state]
  /\ page' = At("tabs", None)
  /\ UNCHANGED <<now, server, last_a2a_context, unlabelled, figs>>

NoButton ==
  /\ page.pc = "tabs" /\ page.button = None
  /\ page' = At("metrics", None)
  /\ UNCHANGED <<now, server, a2a, figs>>

(* Seeded fault: a result is kept for as long as it was good.              *)
FreshForever == cache # None /\ (now - cache.at < MetricsTTL \/ cache.total # None)

(* The last result is used again for MetricsTTL, also one of a failed call.*)
Fresh == cache # None /\ now - cache.at < MetricsTTL

(* The run has called _get_metrics(), which has still to look at the cache.*)
Called == page.pc \in {"metrics", "waiting"}

(* The call returns to the run: the figures are put on the page and the    *)
(* run ends, unless it was to end before.                                  *)
Return(metrics) ==
  IF page.next = {}
  THEN shown' = [metrics |-> metrics, at |-> now] /\ page' = At("idle", None)
  ELSE /\ \E button \in page.next : page' = At("tabs", button)
       /\ UNCHANGED shown

ShowCached ==
  /\ Called /\ Fresh
  /\ Return(cache)
  /\ UNCHANGED <<now, server, a2a, fetch, cache>>

(* Somebody else's call is under way.                                      *)
AwaitFetch ==
  /\ page.pc = "metrics" /\ ~Fresh /\ fetch # None
  /\ page' = At("waiting", None)
  /\ UNCHANGED <<now, server, a2a, figs>>

(* The request of GET /metrics, by this page or by that of another browser.*)
GetMetrics ==
  /\ ~Fresh /\ fetch = None
  /\ fetch' = [asked |-> now, total |-> None]
  /\ \/ Called /\ page' = [page EXCEPT !.pc = "fetching"]
     \/ UNCHANGED page
  /\ UNCHANGED <<now, server, a2a, cache, shown>>

(* The server answers it.                                                  *)
Answer ==
  /\ fetch # None /\ fetch.total = None
  /\ fetch' = [fetch EXCEPT !.total = total]
  /\ UNCHANGED <<now, server, page, a2a, cache, shown>>

(* The answer is there, or the request failed or took too long; the result *)
(* is kept either way.                                                     *)
FetchEnds ==
  /\ fetch # None
  /\ \E reading \in {fetch.total, None} :
       cache' = [total |-> reading, asked |-> fetch.asked, at |-> now]
  /\ IF page.pc = "fetching" THEN Return(cache') ELSE UNCHANGED <<page, shown>>
  /\ fetch' = None
  /\ UNCHANGED <<now, server, a2a>>

Next ==
  \/ Tick \/ RecordRequest \/ TaskEnds
  \/ Interact \/ Send \/ Label \/ Refresh \/ NoButton
  \/ ShowCached \/ AwaitFetch \/ GetMetrics \/ Answer \/ FetchEnds

(* The context ids are interchangeable.                                    *)
ContextsAlike == Permutations(Contexts)

(***************************************************************************)
(* Properties                                                              *)
(***************************************************************************)

(* Types of the variables.                                                 *)
TypeOK ==
  /\ now \in 0..MaxTime /\ total \in 0..MaxTotal /\ Len(totals) = now + 1
  /\ page.pc \in {"tabs", "label", "metrics", "waiting", "fetching", "idle"}
  /\ page.pc = "fetching" => fetch # None
  /\ last_a2a_result # None => last_a2a_result.task \in DOMAIN tasks
  /\ last_a2a_context \in Contexts \cup {None}
  /\ unlabelled \in BOOLEAN

(* The context id above a task is that task's, unless an interaction came  *)
(* between the two assignments, and a task that is shown as ended has      *)
(* (streamlit_app.py:465-466, 485, 488-510).                               *)
TaskShown ==
  last_a2a_result # None =>
    LET task == tasks[last_a2a_result.task]
    IN  /\ page.pc = "label" \/ unlabelled \/ last_a2a_context = task.context
        /\ last_a2a_result.state = "ended" => task.state = "ended"

(* The figures a run of the page shows were the server's at some moment    *)
(* of a call that had ended less than MetricsTTL before, whoever made it:  *)
(* they may be older than MetricsTTL by as long as that call took          *)
(* (streamlit_app.py:84-91, 541).                                          *)
FiguresFresh ==
  shown # None /\ shown.metrics.total # None =>
    LET read == shown.metrics
    IN  /\ shown.at - read.at < MetricsTTL
        /\ \E t \in read.asked..read.at :
             /\ totals[t + 1] <= read.total
             /\ read.total <= IF t = now THEN total ELSE totals[t + 2]

(* What the page shows besides the chat is right and recent.               *)
PageCurrent == TypeOK /\ TaskShown /\ FiguresFresh
=============================================================================
