------------------------------ MODULE Monitoring ------------------------------
(***************************************************************************)
(* What is measured and who looks at it: api/middleware/                   *)
(* logging_middleware.py around every request, the metrics it and the      *)
(* streams record, what /metrics answers, and the health indicator in the  *)
(* sidebar of ui/streamlit_app.py, which is the first thing a run of the   *)
(* page's script does.                                                     *)
(*                                                                         *)
(* Interactions are as in Dashboard.  The page's polls of /health and      *)
(* /metrics pass the middleware without a trace.                           *)
(***************************************************************************)
EXTENDS Metrics, TLC

CONSTANTS
  Requests,     \* HTTP requests, other than the polls, at a time
  None,         \* Python's None
  HealthTTL,    \* _HEALTH_RATE_LIMIT_S (30 s)
  MaxTime,      \* bound: the clock
  MaxRecorded   \* bound: chat and stream requests

ASSUME MonitoringAssumption ==
  HealthTTL \in Nat /\ MaxTime \in Nat /\ MaxRecorded \in Nat

VARIABLES
  now,          \* the clocks: time(), monotonic(), perf_counter()
  metrics,      \* get_metrics()
  req,          \* the requests in the middleware
  trace,        \* the context variable _trace_id, in each request's context
  health_ts,    \* st.session_state: the start of the last check that ended
  script,       \* where the run of the script is
  latencies,    \* ghost: all latencies recorded
  errors,       \* ghost: when each error was recorded
  checked,      \* ghost: the start of the last check
  cut           \* ghost: an interaction ended the last check half way

server == <<metrics, req, trace, latencies, errors>>
health == <<health_ts, script, checked, cut>>
measured == <<server, health>>             \* all but the clock
vars   == <<now, measured>>

Init ==
  /\ now = 0
  /\ metrics = GatewayMetrics
  /\ req = [r \in Requests |-> [pc |-> "done", path |-> "other", start |-> 0, lines |-> <<>>]]
  /\ trace = [r \in Requests |-> None]
  /\ health_ts = 0 /\ checked = 0
  /\ script = "top"
  /\ latencies = <<>> /\ errors = <<>> /\ cut = FALSE

Tick ==
  /\ now < MaxTime /\ now' = now + 1
  /\ UNCHANGED measured

(***************************************************************************)
(* LoggerMiddleware                                                        *)
(***************************************************************************)

(* Seeded fault: the trace id is a variable of the process.                *)
SetTraceEverywhere(r) == trace' = [x \in Requests |-> r]

(* set_trace_id() in the context of the request's own task; the id is the  *)
(* client's or a new one.                                                  *)
SetTrace(r) == trace' = [trace EXCEPT ![r] = r]

(* The REQUEST line; the endpoint runs.                                    *)
Dispatch(r) ==
  /\ req[r].pc = "done"
  /\ Len(latencies) + Cardinality({x \in Requests : req[x].pc = "called"}) < MaxRecorded
  /\ SetTrace(r)
  /\ \E path \in {"chat", "stream", "other"} :
       req' = [req EXCEPT ![r] = [pc |-> "called", path |-> path, start |-> now,
                                  lines |-> <<trace'[r]>>]]
  /\ UNCHANGED <<now, metrics, latencies, errors, health>>

(* Seeded fault: all requests are recorded.                                *)
RespondCounting(r) ==
  /\ req[r].pc = "called"
  /\ req' = [req EXCEPT ![r].pc = IF req[r].path = "stream" THEN "body" ELSE "done",
                        ![r].start = 0, ![r].lines = Append(@, trace[r])]
  /\ metrics' = RecordRequest(metrics, now - req[r].start)
  /\ latencies' = IF req[r].path = "other" THEN latencies
                  ELSE Append(latencies, now - req[r].start)
  /\ UNCHANGED <<now, trace, errors, health>>

(* The response starts, which for a stream is before its first chunk: the  *)
(* RESPONSE line, and the latency of chat and stream requests, whatever    *)
(* their status.                                                           *)
Respond(r) ==
  /\ req[r].pc = "called"
  /\ req' = [req EXCEPT ![r].pc = IF req[r].path = "stream" THEN "body" ELSE "done",
                        ![r].start = 0, ![r].lines = Append(@, trace[r])]
  /\ IF req[r].path \in {"chat", "stream"}
     THEN /\ metrics' = RecordRequest(metrics, now - req[r].start)
          /\ latencies' = Append(latencies, now - req[r].start)
     ELSE UNCHANGED <<metrics, latencies>>
  /\ UNCHANGED <<now, trace, errors, health>>

(* The endpoint raises: the exception passes the middleware by.            *)
Raise(r) ==
  /\ req[r].pc = "called"
  /\ req' = [req EXCEPT ![r].pc = "done", ![r].start = 0]
  /\ UNCHANGED <<now, metrics, trace, latencies, errors, health>>

(* The body of a stream ends; its exceptions are the errors of the graph.  *)
EndBody(r) ==
  /\ req[r].pc = "body"
  /\ req' = [req EXCEPT ![r].pc = "done"]
  /\ \/ UNCHANGED <<metrics, errors>>
     \/ metrics' = RecordError(metrics, now) /\ errors' = Append(errors, now)
  /\ UNCHANGED <<now, trace, latencies, health>>

(***************************************************************************)
(* The page                                                                *)
(***************************************************************************)

(* A click or an input: the run under way ends, another one starts.        *)
Interact ==
  /\ script' = "top" /\ cut' = (cut \/ script = "checking")
  /\ UNCHANGED <<now, server, health_ts, checked>>

(* Seeded fault: the limit is a tick too short.                            *)
CheckHealthEager ==
  /\ script = "top"
  /\ IF now - health_ts + 1 < HealthTTL
     THEN script' = "idle" /\ UNCHANGED <<checked, cut>>
     ELSE script' = "checking" /\ checked' = now /\ cut' = FALSE
  /\ UNCHANGED <<now, server, health_ts>>

(* _check_health(): within HealthTTL of the start of the last check (and   *)
(* of the clock's zero) its result is used again.                          *)
CheckHealth ==
  /\ script = "top"
  /\ IF now - health_ts < HealthTTL
     THEN script' = "idle" /\ UNCHANGED <<checked, cut>>
     ELSE script' = "checking" /\ checked' = now /\ cut' = FALSE
  /\ UNCHANGED <<now, server, health_ts>>

(* The answer, or what is made of an error, is kept with the time at which *)
(* the check began.                                                        *)
Checked ==
  /\ script = "checking"
  /\ health_ts' = checked /\ script' = "idle"
  /\ UNCHANGED <<now, server, checked, cut>>

Next ==
  \/ Tick \/ Interact \/ CheckHealth \/ Checked
  \/ \E r \in Requests : Dispatch(r) \/ Respond(r) \/ Raise(r) \/ EndBody(r)

Spec == Init /\ [][Next]_vars

(* The requests are interchangeable.                                       *)
RequestsAlike == Permutations(Requests)

(***************************************************************************)
(* Properties                                                              *)
(***************************************************************************)

(* Types of the variables.                                                 *)
TypeOK ==
  /\ now \in 0..MaxTime /\ health_ts \in 0..now /\ checked \in 0..now
  /\ \A r \in Requests :
       /\ req[r].pc \in {"called", "body", "done"}
       /\ req[r].path \in {"chat", "stream", "other"} /\ req[r].start \in 0..now
       /\ trace[r] \in Requests \cup {None}
  /\ script \in {"top", "checking", "idle"} /\ cut \in BOOLEAN

(* The request figures: one for each chat or stream request that got a     *)
(* response, however requests overlap, and the chart and the average are   *)
(* those of the last ones (logging_middleware.py:68-71, metrics.py:34-40). *)
LatencyFigures ==
  /\ TypeOK
  /\ metrics.requests_total = Len(latencies)
  /\ LET s == Snapshot(metrics, now)
     IN  /\ IsSuffix(s.latency_history, latencies)
         /\ Len(s.latency_history) = (IF Len(latencies) < HistoryMax THEN Len(latencies) ELSE HistoryMax)
         /\ latencies # <<>> =>
              \E n \in 1..BufferMax :
                /\ n = BufferMax \/ n = Len(latencies)
                /\ s.avg_latency_ms = Mean(SubSeq(latencies, Len(latencies) - n + 1, Len(latencies)))

(* Each bar of the error graph is the number of errors in that minute of   *)
(* the clock, and never more; it is less only where more errors than the   *)
(* deque keeps have come since that minute began (metrics.py:30, 80-99).   *)
ErrorGraphExact ==
  LET bars == ErrorsPerMinute(metrics, now)
      In(b)    == Cardinality({i \in DOMAIN errors : errors[i] \div Minute = b})
      Since(b) == Cardinality({i \in DOMAIN errors : errors[i] \div Minute >= b})
  IN  /\ DOMAIN bars = {now \div Minute - k : k \in 0..(Buckets - 1)}
      /\ \A b \in DOMAIN bars :
           /\ bars[b] <= In(b)
           /\ Since(b) <= ErrorsMax => bars[b] = In(b)

(* The log lines of a request carry one trace id, that of its response,    *)
(* whatever other requests are handled in between                          *)
(* (logging_middleware.py:29-57, 73).                                      *)
LinesTraced ==
  \A r \in Requests : \A i \in DOMAIN req[r].lines : req[r].lines[i] = r

(* The API is not asked for its health twice within the limit, unless an   *)
(* interaction ended the run that was waiting for the first answer, which  *)
(* is then not kept (streamlit_app.py:60-81).                              *)
ChecksSpaced ==
  [][ script = "top" /\ script' = "checking" =>
        now - checked >= HealthTTL \/ cut ]_vars
=============================================================================
