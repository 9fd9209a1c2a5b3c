------------------------------- MODULE Metrics -------------------------------
(***************************************************************************)
(* config/metrics.py: the buffers of GatewayMetrics and what is computed   *)
(* from them, as operators on the metrics' value.  (Its plain counters are *)
(* variables of the modules whose code counts.)  Every method holds the    *)
(* lock, and all of them are called on the event loop, without an await.   *)
(***************************************************************************)
EXTENDS Integers, Sequences, FiniteSets, SequencesExt

CONSTANTS
  BufferMax,    \* latencies averaged (20 in the code)
  HistoryMax,   \* latencies drawn (100)
  ErrorsMax,    \* error timestamps kept (500)
  Buckets,      \* minutes of the error graph (10)
  Minute        \* ticks of the clock in a minute

ASSUME MetricsAssumption ==
  /\ BufferMax \in Nat \ {0} /\ HistoryMax \in Nat \ {0} /\ ErrorsMax \in Nat \ {0}
  /\ Buckets \in Nat \ {0} /\ Minute \in Nat \ {0}

GatewayMetrics ==
  [requests_total |-> 0, latency_buffer |-> <<>>, latency_history |-> <<>>,
   error_timestamps |-> <<>>]

(* The last n elements: a deque of that length, or a slice.                *)
Recent(s, n) == SubSeq(s, IF Len(s) > n THEN Len(s) - n + 1 ELSE 1, Len(s))

(* Seeded fault: the history is emptied when it is full.                   *)
RecordRequestRestarting(m, latency) ==
  [m EXCEPT !.requests_total  = @ + 1,
            !.latency_buffer  = Recent(Append(@, latency), BufferMax),
            !.latency_history = IF Len(@) = HistoryMax THEN <<latency>> ELSE Append(@, latency)]

RecordRequest(m, latency) ==
  [m EXCEPT !.requests_total  = @ + 1,
            !.latency_buffer  = Recent(Append(@, latency), BufferMax),
            !.latency_history = Recent(Append(@, latency), HistoryMax)]

RecordError(m, t) ==
  [m EXCEPT !.error_timestamps = Recent(Append(@, t), ErrorsMax)]

Mean(s) == IF s = <<>> THEN 0 ELSE FoldSeq(+, 0, s) \div Len(s)

(* Seeded fault: the buckets are minutes back from now, the labels are not.*)
ErrorsPerMinuteSliding(m, t) ==
  [b \in (t \div Minute - Buckets + 1)..(t \div Minute) |->
     Cardinality({i \in DOMAIN m.error_timestamps :
                    (t - m.error_timestamps[i]) \div Minute = t \div Minute - b})]

(* errors_per_minute(): the last minutes of the clock, each with its       *)
(* errors; one that is too old for the window, or has no bucket, is left   *)
(* out.                                                                    *)
ErrorsPerMinute(m, t) ==
  [b \in (t \div Minute - Buckets + 1)..(t \div Minute) |->
     Cardinality({i \in DOMAIN m.error_timestamps :
                    /\ t - m.error_timestamps[i] < Buckets * Minute
                    /\ m.error_timestamps[i] \div Minute = b})]

Snapshot(m, t) ==
  [requests_total    |-> m.requests_total,
   avg_latency_ms    |-> Mean(m.latency_buffer),
   latency_history   |-> m.latency_history,
   errors_per_minute |-> ErrorsPerMinute(m, t)]
=============================================================================
