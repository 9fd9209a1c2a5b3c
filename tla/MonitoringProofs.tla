-------------------------- MODULE MonitoringProofs --------------------------
(***************************************************************************)
(* Proofs about Monitoring and StatusPage: for any number of requests,     *)
(* errors and tasks, any windows, and any limits of the page.              *)
(***************************************************************************)
EXTENDS MCMonitoring, FunctionTheorems, FiniteSetTheorems, SequenceTheorems, TLAPS

(***************************************************************************)
(* Windows: the last elements of a sequence                                *)
(***************************************************************************)
Skipped(s, n) == IF Len(s) > n THEN Len(s) - n ELSE 0

LEMMA RecentIs ==
  ASSUME NEW S, NEW s \in Seq(S), NEW n \in Nat
  PROVE  /\ Skipped(s, n) \in 0..Len(s) /\ Recent(s, n) \in Seq(S)
         /\ Len(Recent(s, n)) = Len(s) - Skipped(s, n)
         /\ \A i \in 1..Len(Recent(s, n)) :
              Skipped(s, n) + i \in 1..Len(s) /\ Recent(s, n)[i] = s[Skipped(s, n) + i]
  <1> PICK k : k = Skipped(s, n)
    OBVIOUS
  <1>1. Len(s) \in Nat /\ k \in 0..Len(s) /\ \A i \in 1..Len(s) : s[i] \in S
    BY DEF Skipped
  <1>2. Recent(s, n) = SubSeq(s, k + 1, Len(s))
    BY <1>1 DEF Recent, Skipped
  <1>3. \A i \in (k + 1)..Len(s) : s[i] \in S
    BY <1>1
  <1>4. /\ SubSeq(s, k + 1, Len(s)) \in Seq(S)
        /\ Len(SubSeq(s, k + 1, Len(s))) = IF k + 1 <= Len(s) THEN Len(s) - (k + 1) + 1 ELSE 0
        /\ \A i \in 1..(Len(s) - (k + 1) + 1) : SubSeq(s, k + 1, Len(s))[i] = s[(k + 1) + i - 1]
    BY <1>1, <1>3, SubSeqProperties
  <1> PICK w : w = Recent(s, n)
    OBVIOUS
  <1>5. Len(w) = Len(s) - k
    BY <1>1, <1>2, <1>4
  <1>6. ASSUME NEW i \in 1..Len(w) PROVE k + i \in 1..Len(s) /\ w[i] = s[k + i]
    <2>1. i \in 1..(Len(s) - (k + 1) + 1) /\ (k + 1) + i - 1 = k + i /\ k + i \in 1..Len(s)
      BY <1>1, <1>5
    <2> QED
      BY <1>2, <1>4, <2>1
  <1> QED
    BY <1>1, <1>2, <1>4, <1>5, <1>6

Window(u, s, n) ==
  /\ Len(u) = Len(s) - Skipped(s, n)
  /\ \A i \in 1..Len(u) : u[i] = s[Skipped(s, n) + i]

Longer(t, s, x) ==
  /\ Len(t) = Len(s) + 1 /\ t[Len(s) + 1] = x
  /\ \A i \in 1..Len(s) : t[i] = s[i]

LEMMA WindowMoves ==
  ASSUME NEW S, NEW s \in Seq(S), NEW w \in Seq(S), NEW a \in Seq(S), NEW b \in Seq(S),
         NEW u \in Seq(S), NEW x, NEW n \in Nat, n # 0,
         Window(w, s, n), Longer(a, w, x), Longer(b, s, x), Window(u, a, n)
  PROVE  Window(u, b, n)
  <1> PICK k : k = Skipped(s, n)
    OBVIOUS
  <1> PICK ka : ka = Skipped(a, n)
    OBVIOUS
  <1> PICK kb : kb = Skipped(b, n)
    OBVIOUS
  <1>1. Len(s) \in Nat /\ Len(w) \in Nat /\ Len(a) \in Nat /\ Len(b) \in Nat /\ Len(u) \in Nat
    OBVIOUS
  <1>2. /\ Len(w) = Len(s) - k /\ \A i \in 1..Len(w) : w[i] = s[k + i]
        /\ Len(u) = Len(a) - ka /\ \A i \in 1..Len(u) : u[i] = a[ka + i]
    BY DEF Window
  <1>3. /\ Len(a) = Len(w) + 1 /\ a[Len(w) + 1] = x /\ \A i \in 1..Len(w) : a[i] = w[i]
        /\ Len(b) = Len(s) + 1 /\ b[Len(s) + 1] = x /\ \A i \in 1..Len(s) : b[i] = s[i]
    BY DEF Longer
  <1>4. /\ k = IF Len(s) > n THEN Len(s) - n ELSE 0
        /\ ka = IF Len(a) > n THEN Len(a) - n ELSE 0
        /\ kb = IF Len(b) > n THEN Len(b) - n ELSE 0
    BY DEF Skipped
  <1>5. /\ Len(u) = Len(b) - kb
        /\ \A i \in 1..Len(u) : /\ kb + i = k + (ka + i) /\ ka + i \in 1..(Len(w) + 1)
                                /\ ka + i = Len(w) + 1 => kb + i = Len(s) + 1
                                /\ ka + i \in 1..Len(w) => kb + i \in 1..Len(s)
    <2>1. Len(w) = Len(s) - k /\ Len(a) = Len(w) + 1 /\ Len(b) = Len(s) + 1 /\ Len(u) = Len(a) - ka
      BY <1>2, <1>3
    <2>2. CASE Len(s) > n
      <3>1. k = Len(s) - n /\ Len(w) = n /\ Len(a) = n + 1
        BY <1>1, <1>4, <2>1, <2>2
      <3>2. ka = 1 /\ kb = k + 1 /\ Len(u) = n
        BY <1>1, <1>4, <2>1, <2>2, <3>1
      <3>3. k \in Nat /\ ka \in Nat /\ kb \in Nat /\ Len(u) = Len(b) - kb
        BY <1>1, <2>1, <2>2, <3>1, <3>2
      <3>4. ASSUME NEW i \in 1..Len(u)
            PROVE  /\ kb + i = k + (ka + i) /\ ka + i \in 1..(Len(w) + 1)
                   /\ ka + i = Len(w) + 1 => kb + i = Len(s) + 1
                   /\ ka + i \in 1..Len(w) => kb + i \in 1..Len(s)
        <4>1. Len(s) = k + n /\ Len(w) = n /\ i \in 1..n /\ ka = 1 /\ kb = k + 1
          BY <1>1, <3>1, <3>2, <3>3, <3>4
        <4>2. ka + i = 1 + i /\ kb + i = k + (1 + i)
          BY <3>3, <4>1
        <4>3. 1 + i = n + 1 => k + (1 + i) = k + n + 1
          <5>1. i \in Nat /\ k \in Nat
            BY <3>3, <4>1
          <5>2. 1 + i = n + 1 => i = n
            BY <5>1
          <5>3. k + (1 + n) = k + n + 1
            BY <5>1
          <5> QED
            BY <5>2, <5>3
        <4>4. 1 + i \in 1..n => k + (1 + i) \in 1..(k + n)
          <5>1. \A l, m, h \in Nat : l \in 1..m => h + l \in 1..(h + m)
            OBVIOUS
          <5>2. 1 + i \in Nat
            BY <4>1
          <5> QED
            BY <3>3, <5>1, <5>2
        <4> QED
          BY <4>1, <4>2, <4>3, <4>4
      <3> QED
        BY <3>3, <3>4
    <2>3. CASE ~(Len(s) > n)
      <3>1. k = 0 /\ Len(w) = Len(s) /\ Len(a) = Len(b)
        BY <1>1, <1>4, <2>1, <2>3
      <3>2. ka = kb
        BY <1>4, <3>1
      <3>3. ka \in Nat
        BY <1>1, <1>4
      <3>4. Len(u) = Len(b) - kb
        BY <2>1, <3>1, <3>2
      <3>5. ASSUME NEW i \in 1..Len(u)
            PROVE  /\ kb + i = k + (ka + i) /\ ka + i \in 1..(Len(w) + 1)
                   /\ ka + i = Len(w) + 1 => kb + i = Len(s) + 1
                   /\ ka + i \in 1..Len(w) => kb + i \in 1..Len(s)
        BY <1>1, <2>1, <3>1, <3>2, <3>3, <3>5
      <3> QED
        BY <3>4, <3>5
    <2> QED
      BY <2>2, <2>3
  <1>6. ASSUME NEW i \in 1..Len(u) PROVE u[i] = b[kb + i]
    <2> PICK j, l : j = ka + i /\ l = kb + i
      OBVIOUS
    <2>1. u[i] = a[j] /\ l = k + j /\ (j = Len(w) + 1 \/ j \in 1..Len(w))
      BY <1>1, <1>2, <1>5
    <2>2. CASE j = Len(w) + 1
      BY <1>3, <1>5, <2>1, <2>2
    <2>3. CASE j \in 1..Len(w)
      <3>1. l \in 1..Len(s)
        BY <1>5, <2>3
      <3>2. a[j] = w[j] /\ w[j] = s[k + j] /\ b[l] = s[l]
        BY <1>2, <1>3, <2>3, <3>1
      <3> QED
        BY <2>1, <3>2
    <2> QED
      BY <2>1, <2>2, <2>3
  <1> QED
    BY <1>5, <1>6 DEF Window

LEMMA WindowsEqual ==
  ASSUME NEW S, NEW u \in Seq(S), NEW v \in Seq(S), NEW s, NEW n, Window(u, s, n), Window(v, s, n)
  PROVE  u = v
  BY SeqEqual DEF Window

LEMMA Appended ==
  ASSUME NEW S, NEW s \in Seq(S), NEW x \in S
  PROVE  Append(s, x) \in Seq(S) /\ Longer(Append(s, x), s, x)
  BY AppendProperties DEF Longer

LEMMA RecentIsWindow ==
  ASSUME NEW S, NEW s \in Seq(S), NEW n \in Nat
  PROVE  Recent(s, n) \in Seq(S) /\ Window(Recent(s, n), s, n)
  BY RecentIs DEF Window

(* A window is moved by one, without what it left behind.                  *)
LEMMA RecentMoves ==
  ASSUME NEW S, NEW s \in Seq(S), NEW x \in S, NEW n \in Nat, n # 0
  PROVE  Recent(Append(Recent(s, n), x), n) = Recent(Append(s, x), n)
  <1>1. Recent(s, n) \in Seq(S) /\ Window(Recent(s, n), s, n)
    BY RecentIsWindow
  <1>2. Append(s, x) \in Seq(S) /\ Longer(Append(s, x), s, x)
    BY Appended
  <1>3. \A w \in Seq(S) : Append(w, x) \in Seq(S) /\ Longer(Append(w, x), w, x)
    BY Appended
  <1>4. \A a \in Seq(S) : Recent(a, n) \in Seq(S) /\ Window(Recent(a, n), a, n)
    BY RecentIsWindow
  <1>5. \A w, a, b, u \in Seq(S) :
          /\ Window(w, s, n) /\ Longer(a, w, x) /\ Longer(b, s, x) /\ Window(u, a, n)
          => Window(u, b, n)
    BY WindowMoves
  <1>8. Append(Recent(s, n), x) \in Seq(S) /\ Longer(Append(Recent(s, n), x), Recent(s, n), x)
    BY <1>1, <1>3, Zenon
  <1>9. /\ Recent(Append(Recent(s, n), x), n) \in Seq(S)
        /\ Window(Recent(Append(Recent(s, n), x), n), Append(Recent(s, n), x), n)
    BY <1>4, <1>8, Zenon
  <1>a. \A u \in Seq(S) : Window(u, Append(Recent(s, n), x), n) => Window(u, Append(s, x), n)
    BY <1>1, <1>2, <1>5, <1>8, Zenon
  <1>6. Window(Recent(Append(Recent(s, n), x), n), Append(s, x), n)
    BY <1>9, <1>a, Zenon
  <1>7. Recent(Append(Recent(s, n), x), n) \in Seq(S)
    BY <1>1, <1>3, <1>4, Zenon
  <1> QED
    BY <1>2, <1>4, <1>6, <1>7, WindowsEqual, Zenon

LEMMA RecentEmpty == ASSUME NEW n \in Nat PROVE Recent(<<>>, n) = <<>>
  <1>1. ~(0 > n) /\ Len(<<>>) = 0
    OBVIOUS
  <1>2. Recent(<<>>, n) = SubSeq(<<>>, 1, 0)
    BY <1>1 DEF Recent
  <1> QED
    BY <1>2, SubSeqEmpty

(* The i-th element from the end, in a sequence and in its window.         *)
LEMMA Mirrored ==
  ASSUME NEW l \in Nat, NEW m \in Nat, NEW k \in Nat, m = l - k, NEW i \in 1..m
  PROVE  (m - i) + 1 \in 1..m /\ k + ((m - i) + 1) = (l - i) + 1 /\ (l - i) + 1 \in 1..l
  OBVIOUS

LEMMA SuffixIs ==
  ASSUME NEW S, NEW s \in Seq(S), NEW w \in Seq(S), NEW k \in Nat, Len(w) = Len(s) - k,
         \A i \in 1..Len(w) : w[i] = s[k + i]
  PROVE  IsSuffix(w, s)
  <1>1. Len(s) \in Nat /\ Len(w) \in Nat /\ k \in 0..Len(s)
    OBVIOUS
  <1> DEFINE u == Reverse(w)
             v == Reverse(s)
  <1>2. /\ u = [i \in 1..Len(w) |-> w[(Len(w) - i) + 1]]
        /\ v = [i \in 1..Len(s) |-> s[(Len(s) - i) + 1]]
    BY DEF Reverse
  <1> HIDE DEF u, v
  <1>3. ASSUME NEW i \in 1..Len(s) PROVE s[(Len(s) - i) + 1] \in S
    <2>1. (Len(s) - i) + 1 \in 1..Len(s)
      BY <1>1
    <2> QED
      BY <2>1
  <1>4. ASSUME NEW i \in 1..Len(w)
        PROVE  w[(Len(w) - i) + 1] \in S /\ w[(Len(w) - i) + 1] = s[(Len(s) - i) + 1]
    <2>1. /\ (Len(w) - i) + 1 \in 1..Len(w) /\ k + ((Len(w) - i) + 1) = (Len(s) - i) + 1
          /\ (Len(s) - i) + 1 \in 1..Len(s)
      BY <1>1, Mirrored
    <2>2. \A j \in 1..Len(w) : w[j] = s[k + j]
      OBVIOUS
    <2>3. \A j \in 1..Len(s) : s[j] \in S
      OBVIOUS
    <2>4. w[(Len(w) - i) + 1] = s[k + ((Len(w) - i) + 1)]
      BY <2>1, <2>2, Zenon
    <2> QED
      BY <2>1, <2>3, <2>4, Zenon
  <1>5. /\ u \in Seq(S) /\ v \in Seq(S) /\ Len(u) = Len(w) /\ Len(v) = Len(s)
        /\ DOMAIN u = 1..Len(w) /\ DOMAIN v = 1..Len(s)
    BY <1>1, <1>2, <1>3, <1>4
  <1>6. \A i \in 1..Len(u) : u[i] = v[i]
    BY <1>1, <1>2, <1>4, <1>5
  <1>7. /\ SubSeq(u, 1, Len(u)) \in Seq(S) /\ SubSeq(v, 1, Len(u)) \in Seq(S)
        /\ Len(SubSeq(u, 1, Len(u))) = Len(u) /\ Len(SubSeq(v, 1, Len(u))) = Len(u)
        /\ \A i \in 1..Len(u) : /\ SubSeq(u, 1, Len(u))[i] = u[i]
                               /\ SubSeq(v, 1, Len(u))[i] = v[i]
    <2>1. /\ 1 \in Int /\ Len(u) \in Int /\ Len(u) \in Nat
          /\ \A i \in 1..Len(u) : u[i] \in S /\ v[i] \in S
      BY <1>1, <1>5
    <2>2. \A z : (\A i \in 1..Len(u) : z[i] \in S) =>
            /\ SubSeq(z, 1, Len(u)) \in Seq(S)
            /\ Len(SubSeq(z, 1, Len(u))) = IF 1 <= Len(u) THEN Len(u) - 1 + 1 ELSE 0
            /\ \A i \in 1..(Len(u) - 1 + 1) : SubSeq(z, 1, Len(u))[i] = z[1 + i - 1]
      BY <2>1, SubSeqProperties
    <2> QED
      BY <2>1, <2>2
  <1>8. SubSeq(u, 1, Len(u)) = SubSeq(v, 1, Len(u))
    BY <1>6, <1>7, SeqEqual
  <1> QED
    BY <1>1, <1>5, <1>8 DEF IsSuffix, IsPrefix, u, v

LEMMA RecentIsSuffix ==
  ASSUME NEW S, NEW s \in Seq(S), NEW n \in Nat
  PROVE  IsSuffix(Recent(s, n), s)
  <1>1. \A w \in Seq(S) : \A k \in Nat :
          Len(w) = Len(s) - k /\ (\A i \in 1..Len(w) : w[i] = s[k + i]) => IsSuffix(w, s)
    BY SuffixIs
  <1>2. Recent(s, n) \in Seq(S) /\ Skipped(s, n) \in Nat
    BY RecentIs
  <1>3. /\ Len(Recent(s, n)) = Len(s) - Skipped(s, n)
        /\ \A i \in 1..Len(Recent(s, n)) : Recent(s, n)[i] = s[Skipped(s, n) + i]
    BY RecentIs
  <1> QED
    BY <1>1, <1>2, <1>3, Zenon

(***************************************************************************)
(* Minutes                                                                 *)
(***************************************************************************)
LEMMA MinuteOf ==
  ASSUME NEW a \in Nat
  PROVE  /\ a \div Minute \in Nat /\ Minute \in Nat \ {0}
         /\ (a \div Minute) * Minute <= a /\ a < (a \div Minute) * Minute + Minute
  BY MetricsAssumption

LEMMA MinutesAscend ==
  ASSUME NEW a \in Nat, NEW b \in Nat, a <= b
  PROVE  a \div Minute <= b \div Minute
  BY MetricsAssumption

LEMMA TimesMonotonic ==
  ASSUME NEW a \in Int, NEW b \in Int, a <= b, NEW m \in Nat
  PROVE  a * m <= b * m
  OBVIOUS

(* Who is in one of the buckets is not too old for the window.             *)
LEMMA BucketInWindow ==
  ASSUME NEW t \in Nat, NEW e \in Nat, e \div Minute >= t \div Minute - Buckets + 1
  PROVE  t - e < Buckets * Minute
  <1> PICK m, q, b : m = Minute /\ q = t \div Minute /\ b = e \div Minute
    OBVIOUS
  <1>1. /\ q \in Nat /\ b \in Nat /\ m \in Nat \ {0} /\ Buckets \in Nat
        /\ t < q * m + m /\ b * m <= e
    BY MinuteOf, MetricsAssumption
  <1>2. q * m <= (b + Buckets - 1) * m
    BY <1>1, TimesMonotonic
  <1>3. (b + Buckets - 1) * m = b * m + Buckets * m - m
    BY <1>1
  <1>4. q * m \in Int /\ b * m \in Int /\ Buckets * m \in Int /\ m \in Int
    BY <1>1
  <1> QED
    BY <1>1, <1>2, <1>3, <1>4

(***************************************************************************)
(* The inductive invariant of Monitoring                                   *)
(***************************************************************************)

(* A request's lines are its own, and it has its own trace while the       *)
(* endpoint runs.                                                          *)
Request == [pc : {"called", "body", "done"}, path : {"chat", "stream", "other"},
            start : Nat, lines : Seq(Requests)]

Traced ==
  /\ req \in [Requests -> Request]
  /\ trace \in [Requests -> Requests \cup {None}]
  /\ \A r \in Requests :
       /\ req[r].start <= now
       /\ req[r].pc = "called" => trace[r] = r
       /\ \A i \in 1..Len(req[r].lines) : req[r].lines[i] = r

(* The buffers are the windows of all that was recorded, and the errors    *)
(* are in the order of the clock.                                          *)
Measured ==
  /\ latencies \in Seq(Nat)
  /\ metrics = [requests_total   |-> Len(latencies),
                latency_buffer   |-> Recent(latencies, BufferMax),
                latency_history  |-> Recent(latencies, HistoryMax),
                error_timestamps |-> Recent(errors, ErrorsMax)]

Ascend(s, t) ==
  /\ s \in Seq(Nat)
  /\ \A i \in 1..Len(s) : s[i] <= t
  /\ \A i, j \in 1..Len(s) : i <= j => s[i] <= s[j]

(* The kept time is that of the last check, unless it was cut short.       *)
Spaced ==
  /\ now \in 0..MaxTime /\ health_ts \in 0..now /\ checked \in 0..now
  /\ script \in {"top", "checking", "idle"} /\ cut \in BOOLEAN
  /\ script # "checking" /\ ~cut => health_ts = checked

IInv == Traced /\ Measured /\ Ascend(errors, now) /\ Spaced

LEMMA Start == Init => IInv
  <1> SUFFICES ASSUME Init PROVE IInv
    OBVIOUS
  <1>1. Traced
    BY DEF Init, Traced, Request
  <1>2. Measured
    <2>1. <<>> \in Seq(Nat) /\ Len(<<>>) = 0
      OBVIOUS
    <2>2. Recent(<<>>, BufferMax) = <<>> /\ Recent(<<>>, HistoryMax) = <<>> /\ Recent(<<>>, ErrorsMax) = <<>>
      BY RecentEmpty, MetricsAssumption
    <2> QED
      BY <2>1, <2>2 DEF Init, Measured, GatewayMetrics
  <1>3. Ascend(errors, now)
    BY DEF Init, Ascend
  <1>4. Spaced
    <2>1. now = 0 /\ health_ts = 0 /\ checked = 0 /\ script = "top" /\ MaxTime \in Nat
      BY MonitoringAssumption DEF Init
    <2>2. cut = FALSE
      BY Zenon DEF Init
    <2>3. now \in 0..MaxTime /\ health_ts \in 0..now /\ checked \in 0..now /\ health_ts = checked
      BY <2>1
    <2> QED
      BY <2>1, <2>2, <2>3, Zenon DEF Spaced
  <1> QED
    BY <1>1, <1>2, <1>3, <1>4 DEF IInv

(* What a step does to the requests, the clock aside.                      *)
LEMMA TracedKept ==
  ASSUME IInv, [Next]_vars
  PROVE  Traced'
  <1>0. now \in Nat /\ Traced
    BY DEF IInv, Spaced
  <1>1. CASE now' \in Nat /\ now <= now' /\ UNCHANGED <<req, trace>>
    BY <1>0, <1>1 DEF Traced, Request
  <1>2. ASSUME NEW r \in Requests, NEW f \in Request, now' = now, req' = [req EXCEPT ![r] = f],
               f.start <= now, \A i \in 1..Len(f.lines) : f.lines[i] = r,
               trace' \in {trace, [trace EXCEPT ![r] = r]}, f.pc = "called" => trace'[r] = r
        PROVE  Traced'
    BY <1>0, <1>2 DEF Traced
  <1>3. ASSUME NEW r \in Requests, Dispatch(r) PROVE Traced'
    <2>1. PICK path \in {"chat", "stream", "other"} :
            req' = [req EXCEPT ![r] = [pc |-> "called", path |-> path, start |-> now,
                                       lines |-> <<trace'[r]>>]]
      BY <1>3, Zenon DEF Dispatch
    <2>2. trace' = [trace EXCEPT ![r] = r] /\ trace'[r] = r /\ now' = now
      BY <1>0, <1>3 DEF Dispatch, SetTrace, Traced
    <2>3. PICK f : f = [pc |-> "called", path |-> path, start |-> now, lines |-> <<trace'[r]>>]
      OBVIOUS
    <2>4. <<r>> \in Seq(Requests) /\ \A i \in 1..Len(<<r>>) : <<r>>[i] = r
      OBVIOUS
    <2>5. f \in Request /\ f.start = now /\ f.lines = <<r>>
      BY <1>0, <2>2, <2>3, <2>4 DEF Request
    <2>6. req' = [req EXCEPT ![r] = f] /\ f.start <= now
      BY <1>0, <2>1, <2>3, <2>5
    <2> QED
      BY <1>2, <2>2, <2>4, <2>5, <2>6
  <1>4. ASSUME NEW r \in Requests, Respond(r) PROVE Traced'
    <2>1. req[r] \in Request /\ req[r].pc = "called" /\ trace[r] = r /\ now' = now /\ trace' = trace
      BY <1>0, <1>4 DEF Respond, Traced
    <2>2. PICK f : f = [req[r] EXCEPT !.pc = IF req[r].path = "stream" THEN "body" ELSE "done",
                                      !.start = 0, !.lines = Append(@, trace[r])]
      OBVIOUS
    <2>3. req' = [req EXCEPT ![r] = f]
      BY <1>0, <1>4, <2>1, <2>2 DEF Respond, Traced, Request
    <2>5. req[r].lines \in Seq(Requests) /\ \A i \in 1..Len(req[r].lines) : req[r].lines[i] = r
      BY <1>0, <2>1 DEF Request, Traced
    <2>7. PICK l : l = Append(req[r].lines, r)
      OBVIOUS
    <2>8. l \in Seq(Requests) /\ \A i \in 1..Len(l) : l[i] = r
      BY <2>5, <2>7
    <2>9. f = [req[r] EXCEPT !.pc = IF req[r].path = "stream" THEN "body" ELSE "done",
                             !.start = 0, !.lines = l]
      BY <2>1, <2>2, <2>7
    <2>4. f \in Request /\ f.start = 0 /\ f.pc # "called" /\ f.lines = l
      BY <2>1, <2>8, <2>9 DEF Request
    <2>6. \A i \in 1..Len(f.lines) : f.lines[i] = r
      BY <2>4, <2>8
    <2>a. /\ f.start <= now /\ trace' \in {trace, [trace EXCEPT ![r] = r]}
          /\ f.pc = "called" => trace'[r] = r
      BY <1>0, <2>1, <2>4
    <2> QED
      BY <1>2, <2>1, <2>3, <2>4, <2>6, <2>a, Zenon
  <1>5. ASSUME NEW r \in Requests, Raise(r) PROVE Traced'
    <2>1. PICK f : f = [req[r] EXCEPT !.pc = "done", !.start = 0]
      OBVIOUS
    <2>2. req[r] \in Request /\ now' = now /\ trace' = trace /\ req' = [req EXCEPT ![r] = f]
      BY <1>0, <1>5, <2>1 DEF Raise, Traced, Request
    <2>3. f \in Request /\ f.start = 0 /\ f.pc # "called" /\ f.lines = req[r].lines
      BY <2>1, <2>2 DEF Request
    <2> QED
      BY <1>0, <1>2, <2>2, <2>3 DEF Traced
  <1>6. ASSUME NEW r \in Requests, EndBody(r) PROVE Traced'
    <2>1. PICK f : f = [req[r] EXCEPT !.pc = "done"]
      OBVIOUS
    <2>2. req[r] \in Request /\ now' = now /\ trace' = trace /\ req' = [req EXCEPT ![r] = f]
      BY <1>0, <1>6, <2>1 DEF EndBody, Traced, Request
    <2>3. f \in Request /\ f.start = req[r].start /\ f.pc # "called" /\ f.lines = req[r].lines
      BY <2>1, <2>2 DEF Request
    <2> QED
      BY <1>0, <1>2, <2>2, <2>3 DEF Traced
  <1>7. CASE Tick \/ Interact \/ CheckHealth \/ Checked \/ UNCHANGED vars
    BY <1>0, <1>1, <1>7 DEF Tick, Interact, CheckHealth, Checked, vars, measured, server
  <1> QED
    BY <1>3, <1>4, <1>5, <1>6, <1>7 DEF Next

LEMMA RecordsRequest ==
  ASSUME Measured, NEW x \in Nat, latencies' = Append(latencies, x), errors' = errors,
         metrics' = RecordRequest(metrics, x)
  PROVE  Measured'
  <1>1. latencies \in Seq(Nat) /\ latencies' \in Seq(Nat) /\ Len(latencies') = Len(latencies) + 1
    BY DEF Measured
  <1>2. /\ Recent(Append(Recent(latencies, BufferMax), x), BufferMax) = Recent(latencies', BufferMax)
        /\ Recent(Append(Recent(latencies, HistoryMax), x), HistoryMax) = Recent(latencies', HistoryMax)
    BY <1>1, RecentMoves, MetricsAssumption
  <1> DEFINE b == Recent(latencies, BufferMax)
             h == Recent(latencies, HistoryMax)
             e == Recent(errors, ErrorsMax)
  <1> HIDE DEF b, h, e
  <1>3. metrics = [requests_total |-> Len(latencies), latency_buffer |-> b, latency_history |-> h,
                   error_timestamps |-> e]
    BY DEF Measured, b, h, e
  <1>4. metrics' = [requests_total |-> Len(latencies) + 1, latency_buffer |-> Recent(Append(b, x), BufferMax),
                    latency_history |-> Recent(Append(h, x), HistoryMax), error_timestamps |-> e]
    BY <1>3 DEF RecordRequest
  <1>5. metrics' = [requests_total   |-> Len(latencies'), latency_buffer |-> Recent(latencies', BufferMax),
                    latency_history  |-> Recent(latencies', HistoryMax), error_timestamps |-> e']
    BY <1>1, <1>2, <1>4 DEF b, h, e
  <1> QED
    BY <1>1, <1>5, Zenon DEF Measured, e

LEMMA RecordsError ==
  ASSUME Measured, errors \in Seq(Nat), now \in Nat, latencies' = latencies,
         errors' = Append(errors, now), metrics' = RecordError(metrics, now)
  PROVE  Measured'
  <1>1. Recent(Append(Recent(errors, ErrorsMax), now), ErrorsMax) = Recent(errors', ErrorsMax)
    BY RecentMoves, MetricsAssumption
  <1> DEFINE e == Recent(errors, ErrorsMax)
  <1> HIDE DEF e
  <1>3. metrics = [requests_total |-> Len(latencies), latency_buffer |-> Recent(latencies, BufferMax),
                   latency_history |-> Recent(latencies, HistoryMax), error_timestamps |-> e]
    BY DEF Measured, e
  <1>4. metrics' = [metrics EXCEPT !.error_timestamps = Recent(Append(e, now), ErrorsMax)]
    BY <1>3 DEF RecordError
  <1>5. metrics' = [requests_total   |-> Len(latencies'), latency_buffer |-> Recent(latencies', BufferMax),
                    latency_history  |-> Recent(latencies', HistoryMax),
                    error_timestamps |-> Recent(errors', ErrorsMax)]
    BY <1>1, <1>3, <1>4 DEF e
  <1>6. latencies' \in Seq(Nat)
    BY DEF Measured
  <1> QED
    BY <1>5, <1>6, Zenon DEF Measured

LEMMA MeasuredKept ==
  ASSUME IInv, [Next]_vars
  PROVE  Measured' /\ Ascend(errors, now)'
  <1>0. now \in Nat /\ Traced /\ Measured /\ Ascend(errors, now)
    BY DEF IInv, Spaced
  <1>1. CASE now' \in Nat /\ now <= now' /\ UNCHANGED <<metrics, latencies, errors>>
    <2>1. Measured'
      BY <1>0, <1>1 DEF Measured
    <2>2. Ascend(errors, now)'
      BY <1>0, <1>1 DEF Ascend
    <2> QED
      BY <2>1, <2>2
  <1>2. ASSUME NEW r \in Requests, Respond(r) PROVE Measured' /\ Ascend(errors, now)'
    <2>1. now' = now /\ errors' = errors /\ now - req[r].start \in Nat
      BY <1>0, <1>2 DEF Respond, Traced, Request
    <2>2. Ascend(errors, now)'
      BY <1>0, <2>1 DEF Ascend
    <2>3. CASE req[r].path \in {"chat", "stream"}
      <3>1. metrics' = RecordRequest(metrics, now - req[r].start) /\ latencies' = Append(latencies, now - req[r].start)
        BY <1>2, <2>3 DEF Respond
      <3> QED
        BY <1>0, <2>1, <2>2, <3>1, RecordsRequest
    <2>4. CASE ~(req[r].path \in {"chat", "stream"})
      BY <1>0, <1>1, <1>2, <2>1, <2>4 DEF Respond
    <2> QED
      BY <2>3, <2>4
  <1>3. ASSUME NEW r \in Requests, EndBody(r) PROVE Measured' /\ Ascend(errors, now)'
    <2>1. now' = now /\ latencies' = latencies
      BY <1>3 DEF EndBody
    <2>2. CASE UNCHANGED <<metrics, errors>>
      BY <1>0, <1>1, <2>1, <2>2
    <2>3. CASE metrics' = RecordError(metrics, now) /\ errors' = Append(errors, now)
      <3>1. Measured'
        BY <1>0, <2>1, <2>3, RecordsError DEF Ascend
      <3>2. Ascend(errors, now)'
        <4>1. /\ errors \in Seq(Nat) /\ Len(errors) \in Nat /\ errors' \in Seq(Nat)
              /\ Len(errors') = Len(errors) + 1 /\ errors'[Len(errors) + 1] = now
              /\ \A i \in 1..Len(errors) : errors'[i] = errors[i]
          BY <1>0, <2>3 DEF Ascend
        <4>2. \A i \in 1..Len(errors') : i \in 1..Len(errors) \/ i = Len(errors) + 1
          BY <4>1
        <4>3. \A i \in 1..Len(errors') : errors'[i] <= now'
          BY <1>0, <2>1, <4>1, <4>2 DEF Ascend
        <4>4. ASSUME NEW i \in 1..Len(errors'), NEW j \in 1..Len(errors'), i <= j
              PROVE  errors'[i] <= errors'[j]
          <5>1. CASE j = Len(errors) + 1
            BY <2>1, <4>1, <4>3, <5>1
          <5>2. CASE j \in 1..Len(errors)
            <6>1. i \in 1..Len(errors)
              BY <4>1, <4>4, <5>2
            <6> QED
              BY <1>0, <4>1, <4>4, <5>2, <6>1 DEF Ascend
          <5> QED
            BY <4>2, <5>1, <5>2
        <4> QED
          BY <4>1, <4>3, <4>4 DEF Ascend
      <3> QED
        BY <3>1, <3>2
    <2> QED
      BY <1>3, <2>2, <2>3 DEF EndBody
  <1>4. CASE \E r \in Requests : Dispatch(r) \/ Raise(r)
    BY <1>0, <1>1, <1>4 DEF Dispatch, Raise
  <1>5. CASE Tick \/ Interact \/ CheckHealth \/ Checked \/ UNCHANGED vars
    BY <1>0, <1>1, <1>5 DEF Tick, Interact, CheckHealth, Checked, vars, measured, server
  <1> QED
    BY <1>2, <1>3, <1>4, <1>5 DEF Next

LEMMA SpacedKept ==
  ASSUME IInv, [Next]_vars
  PROVE  Spaced'
  <1>0. Spaced
    BY DEF IInv
  <1>1. CASE UNCHANGED <<now, health>>
    BY <1>0, <1>1 DEF Spaced, health
  <1>2. CASE \E r \in Requests : Dispatch(r) \/ Respond(r) \/ Raise(r) \/ EndBody(r)
    BY <1>1, <1>2 DEF Dispatch, Respond, Raise, EndBody
  <1>3. CASE UNCHANGED vars
    BY <1>1, <1>3 DEF vars, measured
  <1>4. CASE Tick
    BY <1>0, <1>4, MonitoringAssumption DEF Tick, Spaced, measured, health
  <1>5. CASE Interact
    BY <1>0, <1>5 DEF Interact, Spaced
  <1>6. CASE CheckHealth
    <2>1. CASE script' = "idle" /\ UNCHANGED <<now, checked, cut, health_ts>>
      <3>1. script # "checking"
        BY <1>6 DEF CheckHealth
      <3> QED
        BY <1>0, <2>1, <3>1 DEF Spaced
    <2>2. CASE script' = "checking" /\ checked' = now /\ cut' = FALSE /\ UNCHANGED <<now, health_ts>>
      <3>1. /\ now' \in 0..MaxTime /\ health_ts' \in 0..now' /\ checked' \in 0..now'
            /\ script' \in {"top", "checking", "idle"}
        BY <1>0, <2>2 DEF Spaced
      <3>2. cut' \in BOOLEAN
        BY <2>2, Zenon
      <3> QED
        BY <2>2, <3>1, <3>2, Zenon DEF Spaced
    <2> QED
      BY <1>6, <2>1, <2>2 DEF CheckHealth
  <1>7. CASE Checked
    BY <1>0, <1>7 DEF Checked, Spaced
  <1> QED
    BY <1>2, <1>3, <1>4, <1>5, <1>6, <1>7 DEF Next

(* The buffers, the traces and the kept time stay as described.            *)
THEOREM MonitoringInvariant == Spec => []IInv
  <1>1. IInv /\ [Next]_vars => IInv'
    BY TracedKept, MeasuredKept, SpacedKept DEF IInv
  <1> QED
    BY Start, <1>1, PTL DEF Spec

(***************************************************************************)
(* The latencies, the trace ids and the health checks                      *)
(***************************************************************************)
LEMMA Figures ==
  ASSUME IInv
  PROVE  LatencyFigures
  <1> USE DEF IInv
  <1>1. TypeOK
    <2>1. ASSUME NEW r \in Requests
          PROVE  /\ req[r].pc \in {"called", "body", "done"}
                 /\ req[r].path \in {"chat", "stream", "other"} /\ req[r].start \in 0..now
                 /\ trace[r] \in Requests \cup {None}
      <3>1. req[r] \in Request /\ trace[r] \in Requests \cup {None} /\ req[r].start <= now /\ now \in Nat
        BY DEF Traced, Spaced
      <3> QED
        BY <3>1 DEF Request
    <2> QED
      BY <2>1, Zenon DEF TypeOK, Spaced
  <1>2. /\ latencies \in Seq(Nat) /\ metrics.requests_total = Len(latencies) /\ Len(latencies) \in Nat
        /\ metrics.latency_buffer = Recent(latencies, BufferMax)
        /\ metrics.latency_history = Recent(latencies, HistoryMax)
    BY DEF Measured
  <1>3. /\ Snapshot(metrics, now).latency_history = Recent(latencies, HistoryMax)
        /\ Snapshot(metrics, now).avg_latency_ms = Mean(Recent(latencies, BufferMax))
    BY <1>2 DEF Snapshot
  <1>4. IsSuffix(Recent(latencies, HistoryMax), latencies)
    BY <1>2, RecentIsSuffix, MetricsAssumption
  <1>5. Len(Recent(latencies, HistoryMax)) = (IF Len(latencies) < HistoryMax THEN Len(latencies) ELSE HistoryMax)
    <2>1. Len(Recent(latencies, HistoryMax)) = Len(latencies) - Skipped(latencies, HistoryMax)
      BY <1>2, RecentIs, MetricsAssumption
    <2>2. Skipped(latencies, HistoryMax) = IF Len(latencies) > HistoryMax THEN Len(latencies) - HistoryMax ELSE 0
      BY DEF Skipped
    <2>3. \A l, h, k \in Nat : k = (IF l > h THEN l - h ELSE 0) => l - k = IF l < h THEN l ELSE h
      OBVIOUS
    <2>4. HistoryMax \in Nat /\ Skipped(latencies, HistoryMax) \in Nat
      BY <1>2, <2>2, MetricsAssumption
    <2> QED
      BY <1>2, <2>1, <2>2, <2>3, <2>4
  <1>6. ASSUME latencies # <<>>
        PROVE  \E n \in 1..BufferMax :
                 /\ n = BufferMax \/ n = Len(latencies)
                 /\ Mean(Recent(latencies, BufferMax))
                      = Mean(SubSeq(latencies, Len(latencies) - n + 1, Len(latencies)))
    <2>1. Len(latencies) # 0
      BY <1>2, <1>6
    <2>2. CASE Len(latencies) > BufferMax
      <3>1. BufferMax \in 1..BufferMax
        BY MetricsAssumption
      <3> QED
        BY <2>2, <3>1 DEF Recent
    <2>3. CASE ~(Len(latencies) > BufferMax)
      <3>1. Len(latencies) \in 1..BufferMax /\ Len(latencies) - Len(latencies) + 1 = 1
        BY <1>2, <2>1, <2>3, MetricsAssumption
      <3>2. Recent(latencies, BufferMax) = SubSeq(latencies, 1, Len(latencies))
        BY <2>3 DEF Recent
      <3> QED
        BY <3>1, <3>2
    <2> QED
      BY <2>2, <2>3
  <1> DEFINE s == Snapshot(metrics, now)
  <1>7. /\ IsSuffix(s.latency_history, latencies)
        /\ Len(s.latency_history) = (IF Len(latencies) < HistoryMax THEN Len(latencies) ELSE HistoryMax)
        /\ latencies # <<>> =>
             \E n \in 1..BufferMax :
               /\ n = BufferMax \/ n = Len(latencies)
               /\ s.avg_latency_ms = Mean(SubSeq(latencies, Len(latencies) - n + 1, Len(latencies)))
    BY <1>3, <1>4, <1>5, <1>6, Zenon
  <1> QED
    BY <1>1, <1>2, <1>7, Zenon DEF LatencyFigures

LEMMA OwnTrace ==
  ASSUME IInv
  PROVE  LinesTraced
  <1>1. ASSUME NEW r \in Requests PROVE req[r].lines \in Seq(Requests)
    BY DEF IInv, Traced, Request
  <1> QED
    BY <1>1 DEF IInv, Traced, LinesTraced

LEMMA ChecksApart ==
  ASSUME IInv, [Next]_vars, script = "top", script' = "checking"
  PROVE  now - checked >= HealthTTL \/ cut
  <1>1. CheckHealth
    BY DEF Next, Tick, Interact, Checked, Dispatch, Respond, Raise, EndBody, vars, measured, health
  <1>2. now \in Nat /\ health_ts \in Nat /\ (~cut => health_ts = checked)
    BY DEF IInv, Spaced
  <1>3. ~(now - health_ts < HealthTTL)
    BY <1>1 DEF CheckHealth
  <1> QED
    BY <1>2, <1>3, MonitoringAssumption

(***************************************************************************)
(* The error graph                                                         *)
(***************************************************************************)

(* The errors of a minute, in all of them and in a window of them.         *)
OfMinute(s, b) == {i \in 1..Len(s) : s[i] \div Minute = b}
FromMinute(s, b) == {i \in 1..Len(s) : s[i] \div Minute >= b}

LEMMA Finite ==
  ASSUME NEW s \in Seq(Nat), NEW T \in SUBSET (1..Len(s))
  PROVE  IsFiniteSet(T) /\ Cardinality(T) \in Nat
  <1>1. Len(s) \in Int /\ 1 \in Int
    OBVIOUS
  <1>2. IsFiniteSet(1..Len(s))
    BY <1>1, FS_Interval
  <1> QED
    BY <1>2, FS_Subset, FS_CardinalityType

(* Not more of them are in the window, and all are, if none was skipped.   *)
LEMMA CountInWindow ==
  ASSUME NEW s \in Seq(Nat), NEW w \in Seq(Nat), NEW n \in Nat, Window(w, s, n), NEW b
  PROVE  /\ Cardinality(OfMinute(w, b)) <= Cardinality(OfMinute(s, b))
         /\ (\A j \in OfMinute(s, b) : j > Skipped(s, n)) =>
              Cardinality(OfMinute(w, b)) = Cardinality(OfMinute(s, b))
  <1> PICK k : k = Skipped(s, n)
    OBVIOUS
  <1>1. Len(s) \in Nat /\ Len(w) \in Nat /\ k \in 0..Len(s) /\ Len(w) = Len(s) - k
    BY DEF Skipped, Window
  <1>2. \A i \in 1..Len(w) : w[i] = s[k + i] /\ k + i \in 1..Len(s)
    BY <1>1 DEF Window
  <1> PICK W, E : W = OfMinute(w, b) /\ E = OfMinute(s, b)
    OBVIOUS
  <1> DEFINE f == [i \in W |-> k + i]
  <1>3. \A i \in W : i \in 1..Len(w) /\ k + i \in E
    BY <1>2 DEF OfMinute
  <1>4. f \in Injection(W, E)
    <2>1. f \in [W -> E]
      BY <1>3
    <2>2. \A i, j \in W : f[i] = f[j] => i = j
      BY <1>1, <1>3
    <2> QED
      BY <2>1, <2>2, Fun_IsInj
  <1>5. E \in SUBSET (1..Len(s))
    BY DEF OfMinute
  <1>6. IsFiniteSet(E)
    BY <1>5, Finite
  <1>7. Cardinality(W) <= Cardinality(E) /\ (f \in Surjection(W, E) => Cardinality(W) = Cardinality(E))
    BY <1>4, <1>6, FS_Injection
  <1>8. ASSUME \A j \in E : j > k PROVE f \in Surjection(W, E)
    <2>1. f \in [W -> E]
      BY <1>3
    <2>2. ASSUME NEW j \in E PROVE \E i \in W : f[i] = j
      <3>1. j \in 1..Len(s) /\ j > k /\ s[j] \div Minute = b
        BY <1>8, <2>2 DEF OfMinute
      <3>2. j - k \in 1..Len(w) /\ k + (j - k) = j
        BY <1>1, <3>1
      <3>3. j - k \in W
        BY <1>2, <3>1, <3>2 DEF OfMinute
      <3> QED
        BY <3>2, <3>3
    <2> QED
      BY <2>1, <2>2, Fun_IsSurj
  <1> QED
    BY <1>7, <1>8

(* One of the minute was skipped only if more came since than are kept.    *)
LEMMA SkippedOnlyIfFull ==
  ASSUME NEW s \in Seq(Nat), \A i, j \in 1..Len(s) : i <= j => s[i] <= s[j],
         NEW n \in Nat, NEW b \in Nat, NEW j \in OfMinute(s, b), ~(j > Skipped(s, n))
  PROVE  Cardinality(FromMinute(s, b)) > n
  <1>1. Len(s) \in Nat /\ j \in 1..Len(s) /\ s[j] \div Minute = b
    BY DEF OfMinute
  <1>2. Len(s) - j >= n
    BY <1>1 DEF Skipped
  <1>3. ASSUME NEW i \in j..Len(s) PROVE i \in FromMinute(s, b)
    <2>1. i \in 1..Len(s) /\ s[i] \in Nat /\ s[j] \in Nat /\ s[j] <= s[i]
      BY <1>1, <1>3
    <2>2. s[j] \div Minute <= s[i] \div Minute /\ s[i] \div Minute \in Nat
      BY <2>1, MinutesAscend, MinuteOf
    <2> QED
      BY <1>1, <2>1, <2>2 DEF FromMinute
  <1>4. IsFiniteSet(FromMinute(s, b)) /\ Cardinality(FromMinute(s, b)) \in Nat
    BY Finite DEF FromMinute
  <1>5. Cardinality(j..Len(s)) <= Cardinality(FromMinute(s, b))
    BY <1>3, <1>4, FS_Subset
  <1>6. Cardinality(j..Len(s)) = Len(s) - j + 1
    BY <1>1, FS_Interval
  <1> QED
    BY <1>1, <1>2, <1>4, <1>5, <1>6

LEMMA Graph ==
  ASSUME IInv
  PROVE  ErrorGraphExact
  <1> DEFINE hi == now \div Minute
             lo == hi - Buckets + 1
             w  == Recent(errors, ErrorsMax)
             bars == ErrorsPerMinute(metrics, now)
  <1>1. /\ now \in Nat /\ errors \in Seq(Nat) /\ \A i \in 1..Len(errors) : errors[i] <= now
        /\ \A i, j \in 1..Len(errors) : i <= j => errors[i] <= errors[j]
        /\ metrics.error_timestamps = w
    BY DEF IInv, Spaced, Ascend, Measured
  <1>2. w \in Seq(Nat) /\ Window(w, errors, ErrorsMax) /\ ErrorsMax \in Nat
    BY <1>1, RecentIsWindow, MetricsAssumption
  <1>3. hi \in Nat /\ Buckets \in Nat \ {0} /\ lo \in Int
    BY <1>1, MinuteOf, MetricsAssumption
  <1> HIDE DEF hi, w
  <1>4. bars = [b \in lo..hi |-> Cardinality({i \in DOMAIN w :
                                   now - w[i] < Buckets * Minute /\ w[i] \div Minute = b})]
    BY <1>1 DEF ErrorsPerMinute, hi
  <1>5. ASSUME NEW b \in lo..hi
        PROVE  {i \in DOMAIN w : now - w[i] < Buckets * Minute /\ w[i] \div Minute = b} = OfMinute(w, b)
    <2>1. \A i \in DOMAIN w : w[i] \in Nat /\ (w[i] \div Minute >= lo => now - w[i] < Buckets * Minute)
      BY <1>1, <1>2, BucketInWindow DEF hi
    <2>2. b >= lo /\ DOMAIN w = 1..Len(w)
      BY <1>2, <1>3
    <2> QED
      BY <2>1, <2>2 DEF OfMinute
  <1>6. DOMAIN bars = lo..hi /\ \A b \in lo..hi : bars[b] = Cardinality(OfMinute(w, b))
    BY <1>4, <1>5, Zenon
  <1> HIDE DEF bars
  <1>7. lo..hi = {hi - k : k \in 0..(Buckets - 1)}
    <2>1. ASSUME NEW b \in lo..hi PROVE b \in {hi - k : k \in 0..(Buckets - 1)}
      <3>1. hi - b \in 0..(Buckets - 1) /\ b = hi - (hi - b)
        BY <1>3
      <3> QED
        BY <3>1
    <2>2. \A k \in 0..(Buckets - 1) : hi - k \in lo..hi
      BY <1>3
    <2> QED
      BY <2>1, <2>2
  <1>8. ASSUME NEW b \in lo..hi
        PROVE  /\ bars[b] <= Cardinality(OfMinute(errors, b))
               /\ Cardinality(FromMinute(errors, b)) <= ErrorsMax =>
                    bars[b] = Cardinality(OfMinute(errors, b))
    <2>1. Cardinality(OfMinute(w, b)) <= Cardinality(OfMinute(errors, b))
      BY <1>1, <1>2, CountInWindow
    <2>2. ASSUME Cardinality(FromMinute(errors, b)) <= ErrorsMax, NEW j \in OfMinute(errors, b)
          PROVE  j > Skipped(errors, ErrorsMax)
      <3>0. errors[j] \in Nat /\ errors[j] \div Minute = b
        BY <1>1 DEF OfMinute
      <3>1. b \in Nat
        BY <3>0, MinuteOf
      <3>2. Cardinality(FromMinute(errors, b)) \in Nat
        BY <1>1, Finite DEF FromMinute
      <3>3. ~(j > Skipped(errors, ErrorsMax)) => Cardinality(FromMinute(errors, b)) > ErrorsMax
        BY <1>1, <1>2, <3>1, SkippedOnlyIfFull
      <3> QED
        BY <1>2, <2>2, <3>2, <3>3
    <2>3. Cardinality(FromMinute(errors, b)) <= ErrorsMax =>
            Cardinality(OfMinute(w, b)) = Cardinality(OfMinute(errors, b))
      BY <1>1, <1>2, <2>2, CountInWindow
    <2> QED
      BY <1>6, <2>1, <2>3
  <1>9. \A b : /\ {i \in DOMAIN errors : errors[i] \div Minute = b} = OfMinute(errors, b)
               /\ {i \in DOMAIN errors : errors[i] \div Minute >= b} = FromMinute(errors, b)
    BY <1>1 DEF OfMinute, FromMinute
  <1> QED
    BY <1>6, <1>7, <1>8, <1>9, Zenon DEF ErrorGraphExact, bars, hi

(* The total, the chart and the average are those of the recorded          *)
(* requests and of the last of them, for any windows (metrics.py:34-40).   *)
THEOREM FiguresOfTheLast == Spec => []LatencyFigures
  BY MonitoringInvariant, Figures, PTL

(* A bar never shows more than its minute had, and less only where more    *)
(* errors came since than the deque keeps (metrics.py:80-99).              *)
THEOREM GraphIsExact == Spec => []ErrorGraphExact
  BY MonitoringInvariant, Graph, PTL

(* A request's lines carry its trace id, for any number of requests        *)
(* handled at once (logging_middleware.py:29-57, 73).                      *)
THEOREM TracesApart == Spec => []LinesTraced
  BY MonitoringInvariant, OwnTrace, PTL

(* Two checks are a limit apart, unless the first was cut short            *)
(* (streamlit_app.py:60-81).                                               *)
THEOREM HealthChecksSpaced == Spec => ChecksSpaced
  <1>1. IInv /\ [Next]_vars =>
          [ script = "top" /\ script' = "checking" =>
              now - checked >= HealthTTL \/ cut ]_vars
    BY ChecksApart
  <1> QED
    BY MonitoringInvariant, <1>1, PTL DEF Spec, ChecksSpaced

(***************************************************************************)
(* The page                                                                *)
(***************************************************************************)

(* The inductive invariant of StatusPage: what is known of the task that   *)
(* is shown, and which button a run can be for ...                         *)
Task == [context : Contexts, state : {"working", "ended"}]

Result ==
  last_a2a_result # None =>
    /\ last_a2a_result \in [task : 1..Len(tasks), state : {"working", "ended"}]
    /\ page.pc = "label" => tasks[last_a2a_result.task].context = page.button
    /\ \/ page.pc = "label" \/ unlabelled
       \/ last_a2a_context = tasks[last_a2a_result.task].context
    /\ last_a2a_result.state = "ended" => tasks[last_a2a_result.task].state = "ended"

Buttons == Contexts \cup {None, "refresh"}

Pages ==
  [pc : {"tabs", "label", "metrics", "waiting", "fetching", "idle"},
   button : Buttons, next : SUBSET Buttons]

Turn ==
  /\ page \in Pages
  /\ page.pc = "label" => page.button \in Contexts
  /\ page.button = "refresh" => last_a2a_result # None /\ page.pc = "tabs"
  /\ page.next # {} => page.pc \in {"waiting", "fetching"}
  /\ "refresh" \in page.next => last_a2a_result # None

Labels ==
  /\ tasks \in Seq(Task)
  /\ last_a2a_context \in Contexts \cup {None} /\ unlabelled \in BOOLEAN
  /\ Turn /\ Result

(* ... and that every reading was the server's total during its call.      *)
Counted ==
  /\ now \in 0..MaxTime /\ total \in 0..MaxTotal
  /\ totals \in Seq(Nat) /\ Len(totals) = now + 1 /\ totals[now + 1] <= total

(* At tick t the total was v, by the clock n, the total k and those of the *)
(* ticks.                                                                  *)
TotalAt(v, t, n, k, ticks) ==
  /\ v \in Nat /\ t \in 0..n
  /\ ticks[t + 1] <= v /\ v <= (IF t = n THEN k ELSE ticks[t + 2])

(* ... at some tick of those from a to b.                                  *)
TotalIn(v, a, b, n, k, ticks) == \E t \in a..b : TotalAt(v, t, n, k, ticks)

FetchRead ==
  /\ page.pc = "fetching" => fetch # None
  /\ fetch # None =>
       /\ fetch \in [asked : 0..now, total : Nat \cup {None}]
       /\ fetch.total # None => TotalIn(fetch.total, fetch.asked, now, now, total, totals)

CacheRead ==
  cache # None =>
    /\ cache.at \in 0..now
    /\ cache.total # None => TotalIn(cache.total, cache.asked, cache.at, now, total, totals)

ShownRead ==
  shown # None /\ shown.metrics.total # None =>
    /\ shown.at - shown.metrics.at < MetricsTTL
    /\ TotalIn(shown.metrics.total, shown.metrics.asked, shown.metrics.at, now, total, totals)

PageIInv == Labels /\ Counted /\ FetchRead /\ CacheRead /\ ShownRead

PageVars == <<now, seen>>

LEMMA PageStarts == P!Init => PageIInv
  <1> SUFFICES ASSUME P!Init PROVE PageIInv
    OBVIOUS
  <1>1. Labels
    <2>1. tasks = <<>> /\ page = [pc |-> "tabs", button |-> None, next |-> {}] /\ last_a2a_result = None
          /\ last_a2a_context = None
      BY DEF P!Init, P!At
    <2>2. unlabelled \in BOOLEAN
      BY Zenon DEF P!Init
    <2>3. page.button # "refresh"
      BY <2>1, PageAssumption DEF P!StatusPageAssumption
    <2>4. Turn
      BY <2>1, <2>3 DEF Turn, Pages, Buttons
    <2> QED
      BY <2>1, <2>2, <2>4 DEF Labels, Result
  <1>2. Counted
    BY PageAssumption DEF P!Init, Counted, P!StatusPageAssumption
  <1>3. FetchRead /\ CacheRead /\ ShownRead
    BY DEF P!Init, P!At, FetchRead, CacheRead, ShownRead
  <1> QED
    BY <1>1, <1>2, <1>3 DEF PageIInv

(* The total of a tick, as it was known in it, does not change.            *)
LEMMA TotalsKept ==
  ASSUME Counted, P!Next \/ UNCHANGED PageVars
  PROVE  /\ Counted' /\ now <= now'
         /\ \A v, t : TotalAt(v, t, now, total, totals) => TotalAt(v, t, now', total', totals')
  <1>1. /\ now \in Nat /\ total \in Nat /\ totals \in Seq(Nat) /\ Len(totals) = now + 1
        /\ totals[now + 1] <= total /\ now \in 0..MaxTime /\ total \in 0..MaxTotal
        /\ MaxTime \in Nat /\ MaxTotal \in Nat
    BY PageAssumption DEF Counted, P!StatusPageAssumption
  <1>2. CASE UNCHANGED <<now, total, totals>>
    BY <1>1, <1>2 DEF Counted, TotalAt
  <1>3. CASE P!Tick
    <2>1. now < MaxTime /\ now' = now + 1 /\ totals' = Append(totals, total) /\ total' = total
      BY <1>3 DEF P!Tick
    <2>2. /\ totals' \in Seq(Nat) /\ Len(totals') = now + 2 /\ totals'[now + 2] = total
          /\ \A i \in 1..(now + 1) : totals'[i] = totals[i]
      BY <1>1, <2>1
    <2>3. Counted'
      <3>1. now' \in 0..MaxTime /\ total' \in 0..MaxTotal /\ now' + 1 = now + 2
        BY <1>1, <2>1
      <3> QED
        BY <1>1, <2>1, <2>2, <3>1 DEF Counted
    <2>4. ASSUME NEW v, NEW t, TotalAt(v, t, now, total, totals) PROVE TotalAt(v, t, now', total', totals')
      <3>1. v \in Nat /\ t \in 0..now /\ totals[t + 1] <= v /\ v <= (IF t = now THEN total ELSE totals[t + 2])
        BY <2>4 DEF TotalAt
      <3>2. t + 1 \in 1..(now + 1) /\ t # now' /\ t \in 0..now'
        BY <1>1, <2>1, <3>1
      <3>3. totals'[t + 1] <= v
        BY <2>2, <3>1, <3>2
      <3>4. v <= totals'[t + 2]
        <4>1. CASE t = now
          BY <2>2, <3>1, <4>1
        <4>2. CASE t # now
          <5>1. t + 2 \in 1..(now + 1)
            BY <1>1, <3>1, <4>2
          <5> QED
            BY <2>2, <3>1, <4>2, <5>1
        <4> QED
          BY <4>1, <4>2
      <3> QED
        BY <3>1, <3>2, <3>3, <3>4 DEF TotalAt
    <2> QED
      BY <1>1, <2>1, <2>3, <2>4
  <1>4. CASE P!RecordRequest
    <2>1. total < MaxTotal /\ total' = total + 1 /\ UNCHANGED <<now, totals>>
      BY <1>4 DEF P!RecordRequest
    <2>2. Counted'
      <3>1. total' \in 0..MaxTotal /\ totals'[now' + 1] <= total'
        BY <1>1, <2>1
      <3> QED
        BY <1>1, <2>1, <3>1 DEF Counted
    <2>3. ASSUME NEW v, NEW t, TotalAt(v, t, now, total, totals) PROVE TotalAt(v, t, now', total', totals')
      BY <1>1, <2>1, <2>3 DEF TotalAt
    <2> QED
      BY <1>1, <2>1, <2>2, <2>3
  <1>5. CASE \/ P!TaskEnds \/ P!Interact \/ P!Send \/ P!Label \/ P!Refresh \/ P!NoButton
             \/ P!ShowCached \/ P!AwaitFetch \/ P!GetMetrics \/ P!Answer \/ P!FetchEnds
             \/ UNCHANGED PageVars
    BY <1>2, <1>5 DEF P!TaskEnds, P!Interact, P!Send, P!Label, P!Refresh, P!NoButton,
         P!ShowCached, P!AwaitFetch, P!GetMetrics, P!Answer, P!FetchEnds,
         PageVars, seen, P!server
  <1> QED
    BY <1>3, <1>4, <1>5 DEF P!Next

(* What a call returns is put on the page, or dropped.                     *)
LEMMA Returned ==
  ASSUME NEW entry, P!Return(entry), now - entry.at < MetricsTTL,
         entry.total # None =>
           TotalIn(entry.total, entry.asked, entry.at, now', total', totals'),
         shown' = shown => ShownRead'
  PROVE  ShownRead'
  <1>1. CASE page.next = {}
    <2>1. shown' = [metrics |-> entry, at |-> now]
      BY <1>1 DEF P!Return
    <2>2. shown'.metrics = entry /\ shown'.at = now
      BY <2>1
    <2> QED
      BY <2>2 DEF ShownRead
  <1>2. CASE page.next # {}
    BY <1>2 DEF P!Return
  <1> QED
    BY <1>1, <1>2

(* The run that waits for a call is there for as long as the call is.      *)
LEMMA PageFetching ==
  ASSUME PageIInv, P!Next \/ UNCHANGED PageVars, page'.pc = "fetching"
  PROVE  fetch' # None
  <1>1. \A pc, b : P!At(pc, b).pc = pc
    BY DEF P!At
  <1>2. page \in Pages /\ (page.pc = "fetching" => fetch # None) /\ now \in Nat
    BY DEF PageIInv, Labels, Turn, FetchRead, Counted
  <1>3. CASE P!GetMetrics
    <2>1. fetch' = [asked |-> now, total |-> None]
      BY <1>3 DEF P!GetMetrics
    <2>2. fetch' \in [asked : Nat, total : Nat \cup {None}]
      BY <1>2, <2>1
    <2> QED
      BY <2>2, PageAssumption DEF P!StatusPageAssumption
  <1>4. CASE P!FetchEnds
    <2>1. CASE page.pc = "fetching"
      BY <1>1, <1>4, <2>1 DEF P!FetchEnds, P!Return
    <2>2. CASE page.pc # "fetching"
      BY <1>4, <2>2 DEF P!FetchEnds
    <2> QED
      BY <2>1, <2>2
  <1>5. CASE P!Answer
    <2>1. fetch # None /\ fetch' = [fetch EXCEPT !.total = total] /\ page' = page
      BY <1>5 DEF P!Answer
    <2>2. fetch \in [asked : 0..now, total : Nat \cup {None}] /\ total \in Nat
      BY <2>1, PageAssumption DEF PageIInv, FetchRead, Counted, P!StatusPageAssumption
    <2>3. fetch' \in [asked : Nat, total : Nat \cup {None}]
      BY <1>2, <2>1, <2>2
    <2> QED
      BY <2>3, PageAssumption DEF P!StatusPageAssumption
  <1>6. CASE P!Interact
    <2>1. fetch' = fetch
      BY <1>6 DEF P!Interact, P!figs
    <2>2. page.pc = "fetching"
      BY <1>1, <1>2, <1>6 DEF P!Interact, Pages
    <2> QED
      BY <1>2, <2>1, <2>2
  <1>7. CASE P!Send
    BY <1>1, <1>2, <1>7 DEF P!Send, Pages
  <1>8. CASE P!ShowCached
    BY <1>1, <1>8 DEF P!ShowCached, P!Return
  <1>9. CASE P!Label \/ P!Refresh \/ P!NoButton \/ P!AwaitFetch
    BY <1>1, <1>9 DEF P!Label, P!Refresh, P!NoButton, P!AwaitFetch
  <1>10. CASE P!Tick \/ P!RecordRequest \/ P!TaskEnds \/ UNCHANGED PageVars
    BY <1>2, <1>10 DEF P!Tick, P!RecordRequest, P!TaskEnds, PageVars, seen, P!figs
  <1> QED
    BY <1>3, <1>4, <1>5, <1>6, <1>7, <1>8, <1>9, <1>10 DEF P!Next

LEMMA FiguresKept ==
  ASSUME PageIInv, P!Next \/ UNCHANGED PageVars
  PROVE  Counted' /\ FetchRead' /\ CacheRead' /\ ShownRead'
  <1>0. /\ Counted /\ FetchRead /\ CacheRead /\ ShownRead /\ now \in Nat /\ total \in Nat
        /\ MetricsTTL \in Nat \ {0}
    BY PageAssumption DEF PageIInv, Counted, P!StatusPageAssumption
  <1>1. /\ Counted' /\ now <= now' /\ now' \in Nat
        /\ \A v, t : TotalAt(v, t, now, total, totals) => TotalAt(v, t, now', total', totals')
    BY <1>0, TotalsKept DEF Counted
  <1>2. \A v, a, b : TotalIn(v, a, b, now, total, totals) => TotalIn(v, a, b, now', total', totals')
    BY <1>1 DEF TotalIn
  <1>3. ASSUME cache' = cache PROVE CacheRead'
    BY <1>0, <1>1, <1>2, <1>3 DEF CacheRead
  <1>4. ASSUME shown' = shown PROVE ShownRead'
    BY <1>0, <1>2, <1>4 DEF ShownRead
  <1>5. page'.pc = "fetching" => fetch' # None
    BY PageFetching
  <1>6. ASSUME fetch' = fetch PROVE FetchRead'
    <2>1. ASSUME fetch # None, fetch.total # None
          PROVE  TotalIn(fetch.total, fetch.asked, now', now', total', totals')
      <3>1. PICK t \in fetch.asked..now : TotalAt(fetch.total, t, now, total, totals)
        BY <1>0, <2>1 DEF FetchRead, TotalIn
      <3>2. t \in fetch.asked..now'
        BY <1>0, <1>1, <2>1 DEF FetchRead
      <3> QED
        BY <1>1, <3>1, <3>2 DEF TotalIn
    <2>2. ASSUME fetch # None PROVE fetch \in [asked : 0..now', total : Nat \cup {None}]
      <3>1. 0..now \subseteq 0..now'
        BY <1>0, <1>1
      <3> QED
        BY <1>0, <2>2, <3>1 DEF FetchRead
    <2> QED
      BY <1>5, <1>6, <2>1, <2>2 DEF FetchRead
  <1>7. CASE P!ShowCached
    <2>1. P!Return(cache) /\ cache # None /\ now - cache.at < MetricsTTL
          /\ UNCHANGED <<cache, fetch>>
      BY <1>7 DEF P!ShowCached, P!Fresh
    <2>2. cache.total # None => TotalIn(cache.total, cache.asked, cache.at, now', total', totals')
      BY <1>0, <1>2, <2>1 DEF CacheRead
    <2>3. ShownRead'
      BY <1>4, <2>1, <2>2, Returned
    <2> QED
      BY <1>1, <1>3, <1>6, <2>1, <2>3
  <1>8. CASE P!GetMetrics
    <2>1. fetch' = [asked |-> now, total |-> None] /\ UNCHANGED <<now, cache, shown>>
      BY <1>8 DEF P!GetMetrics
    <2>2. fetch'.total = None /\ fetch' \in [asked : 0..now', total : Nat \cup {None}]
      BY <1>0, <2>1
    <2>3. FetchRead'
      BY <1>5, <2>2 DEF FetchRead
    <2> QED
      BY <1>1, <1>3, <1>4, <2>1, <2>3
  <1>9. CASE P!Answer
    <2>1. /\ fetch # None /\ fetch' = [fetch EXCEPT !.total = total]
          /\ UNCHANGED <<now, total, totals, cache, shown>>
      BY <1>9 DEF P!Answer, P!server
    <2>2. /\ fetch'.asked = fetch.asked /\ fetch'.total = total /\ fetch.asked \in 0..now
          /\ fetch' \in [asked : 0..now', total : Nat \cup {None}]
      BY <1>0, <2>1 DEF FetchRead
    <2>3. TotalAt(total, now, now, total, totals)
      BY <1>0 DEF TotalAt, Counted
    <2>4. TotalIn(total, fetch.asked, now, now, total, totals)
      <3>1. now \in fetch.asked..now
        BY <1>0, <2>2
      <3> QED
        BY <2>3, <3>1 DEF TotalIn
    <2>5. FetchRead'
      BY <1>5, <2>1, <2>2, <2>4 DEF FetchRead
    <2> QED
      BY <1>1, <1>3, <1>4, <2>1, <2>5
  <1>10. CASE P!FetchEnds
    <2>1. PICK reading \in {fetch.total, None} :
            cache' = [total |-> reading, asked |-> fetch.asked, at |-> now]
      BY <1>10 DEF P!FetchEnds
    <2>2. fetch # None /\ fetch' = None /\ now' = now
      BY <1>10 DEF P!FetchEnds
    <2>3. cache'.total = reading /\ cache'.asked = fetch.asked /\ cache'.at = now
      BY <2>1
    <2>4. cache'.total # None => TotalIn(cache'.total, cache'.asked, cache'.at, now', total', totals')
      BY <1>0, <1>2, <2>1, <2>2, <2>3 DEF FetchRead
    <2>5. CacheRead'
      BY <1>0, <2>2, <2>3, <2>4 DEF CacheRead
    <2>6. ShownRead'
      <3>1. CASE page.pc = "fetching"
        <4>1. P!Return(cache')
          BY <1>10, <3>1 DEF P!FetchEnds
        <4>2. now - cache'.at < MetricsTTL
          BY <1>0, <2>3
        <4> QED
          BY <1>4, <2>4, <4>1, <4>2, Returned
      <3>2. CASE page.pc # "fetching"
        BY <1>4, <1>10, <3>2 DEF P!FetchEnds
      <3> QED
        BY <3>1, <3>2
    <2>7. FetchRead'
      BY <1>5, <2>2 DEF FetchRead
    <2> QED
      BY <1>1, <2>5, <2>6, <2>7
  <1>11. CASE \/ P!Tick \/ P!RecordRequest \/ P!TaskEnds \/ P!Interact \/ P!Send \/ P!Label
              \/ P!Refresh \/ P!NoButton \/ P!AwaitFetch \/ UNCHANGED PageVars
    <2>1. cache' = cache /\ shown' = shown /\ fetch' = fetch
      BY <1>11 DEF P!Tick, P!RecordRequest, P!TaskEnds, P!Interact, P!Send, P!Label, P!Refresh,
           P!NoButton, P!AwaitFetch, PageVars, seen, P!figs, P!a2a
    <2> QED
      BY <1>1, <1>3, <1>4, <1>6, <2>1
  <1> QED
    BY <1>7, <1>8, <1>9, <1>10, <1>11 DEF P!Next

LEMMA LabelsKept ==
  ASSUME PageIInv, P!Next \/ UNCHANGED PageVars
  PROVE  Labels'
  <1>0. Labels
    BY DEF PageIInv
  <1>n. None \notin Contexts /\ "refresh" \notin Contexts /\ None # "refresh"
    BY PageAssumption DEF P!StatusPageAssumption
  <1>a. \A pc \in {"tabs", "label", "metrics", "waiting", "idle"} : \A b \in Buttons :
          /\ P!At(pc, b) \in Pages /\ P!At(pc, b).pc = pc /\ P!At(pc, b).button = b
          /\ P!At(pc, b).next = {}
    BY DEF P!At, Pages
  <1>m. None \in Buttons
    BY DEF Buttons
  <1>1. CASE UNCHANGED <<tasks, page, last_a2a_result, last_a2a_context, unlabelled>>
    BY <1>0, <1>1 DEF Labels, Result, Turn
  (* The run goes on to where no task is labelled.                         *)
  <1>2. ASSUME UNCHANGED <<tasks, last_a2a_result, last_a2a_context, unlabelled>>,
               page.pc # "label", page'.pc # "label", Turn'
        PROVE  Labels'
    BY <1>0, <1>2 DEF Labels, Result
  <1>c. ASSUME NEW pc \in {"tabs", "metrics", "waiting", "idle"}, page' = P!At(pc, None)
        PROVE  Turn' /\ page'.pc = pc /\ page'.pc # "label"
    BY <1>a, <1>c, <1>m, <1>n DEF Turn
  <1>3. CASE P!TaskEnds
    <2>1. PICK t \in DOMAIN tasks :
            tasks[t].state = "working" /\ tasks' = [tasks EXCEPT ![t].state = "ended"]
      BY <1>3 DEF P!TaskEnds
    <2>2. UNCHANGED <<page, last_a2a_result, last_a2a_context, unlabelled>>
      BY <1>3 DEF P!TaskEnds, P!a2a
    <2>3. tasks \in Seq(Task) /\ tasks[t] \in Task
      BY <1>0, <2>1 DEF Labels
    <2>4. PICK u : u = [tasks[t] EXCEPT !.state = "ended"]
      OBVIOUS
    <2>5. u \in Task /\ u.context = tasks[t].context /\ u.state = "ended" /\ tasks' = [tasks EXCEPT ![t] = u]
      BY <2>1, <2>3, <2>4 DEF Task
    <2>6. /\ tasks' \in Seq(Task) /\ Len(tasks') = Len(tasks)
          /\ \A i \in 1..Len(tasks) : /\ tasks'[i].context = tasks[i].context
                                      /\ tasks'[i].state \in {tasks[i].state, "ended"}
      BY <2>1, <2>3, <2>5
    <2>7. Result'
      BY <1>0, <2>2, <2>6 DEF Labels, Result
    <2>8. Turn'
      BY <1>0, <2>2 DEF Labels, Turn
    <2> QED
      BY <1>0, <2>2, <2>6, <2>7, <2>8 DEF Labels
  <1>4. CASE P!Interact
    <2>1. PICK button \in Contexts \cup {None} \cup (IF last_a2a_result = None THEN {} ELSE {"refresh"}) :
            page' = IF page.pc \in {"waiting", "fetching"} THEN [page EXCEPT !.next = @ \cup {button}]
                    ELSE P!At("tabs", button)
      BY <1>4 DEF P!Interact
    <2>2. UNCHANGED <<tasks, last_a2a_result, last_a2a_context>>
      BY <1>4 DEF P!Interact, P!server
    <2>3. button \in Buttons /\ (button = "refresh" => last_a2a_result # None)
      BY <1>n, <2>1 DEF Buttons
    <2>4. Turn' /\ page'.pc # "label"
      <3>1. CASE page.pc \in {"waiting", "fetching"}
        <4>1. page' = [page EXCEPT !.next = page.next \cup {button}] /\ page \in Pages
          BY <1>0, <2>1, <3>1 DEF Labels, Turn
        <4>2. /\ page' \in Pages /\ page'.pc = page.pc /\ page'.button = page.button
              /\ page'.next = page.next \cup {button}
          BY <2>3, <4>1 DEF Pages
        <4> QED
          BY <1>0, <2>2, <2>3, <3>1, <4>2 DEF Labels, Turn
      <3>2. CASE page.pc \notin {"waiting", "fetching"}
        <4>1. page' \in Pages /\ page'.pc = "tabs" /\ page'.button = button /\ page'.next = {}
          BY <1>a, <2>1, <2>3, <3>2
        <4> QED
          BY <2>2, <2>3, <4>1 DEF Turn
      <3> QED
        BY <3>1, <3>2
    <2>5. unlabelled' = (unlabelled \/ page.pc = "label")
      BY <1>4 DEF P!Interact
    <2>6. unlabelled' \in BOOLEAN /\ (unlabelled \/ page.pc = "label" => unlabelled')
      BY <2>5, Zenon
    <2>7. Result'
      BY <1>0, <2>2, <2>4, <2>6 DEF Labels, Result
    <2> QED
      BY <1>0, <2>2, <2>4, <2>6, <2>7 DEF Labels
  <1>5. CASE P!Send
    <2>1. PICK state \in {None, "working", "ended"} :
            /\ IF state = None THEN UNCHANGED tasks
               ELSE /\ Len(tasks) < MaxTasks
                    /\ tasks' = Append(tasks, [context |-> page.button, state |-> state])
            /\ \/ UNCHANGED last_a2a_result /\ page' = P!At("metrics", None)
               \/ /\ last_a2a_result' = IF state = None THEN None
                                          ELSE [task |-> Len(tasks'), state |-> state]
                  /\ page' = [page EXCEPT !.pc = "label"]
      BY <1>5 DEF P!Send
    <2>2. page.pc = "tabs" /\ page.button \in Contexts /\ UNCHANGED <<last_a2a_context, unlabelled>>
      BY <1>5 DEF P!Send
    <2>3. tasks \in Seq(Task) /\ Len(tasks) \in Nat
      BY <1>0 DEF Labels
    <2>4. ASSUME state # None
          PROVE  /\ tasks' \in Seq(Task) /\ Len(tasks') = Len(tasks) + 1
                 /\ tasks'[Len(tasks) + 1] = [context |-> page.button, state |-> state]
                 /\ \A i \in 1..Len(tasks) : tasks'[i] = tasks[i]
      <3>1. PICK u : u = [context |-> page.button, state |-> state]
        OBVIOUS
      <3>2. u \in Task
        BY <2>1, <2>2, <2>4, <3>1 DEF Task
      <3>3. tasks' = Append(tasks, u)
        BY <2>1, <2>4, <3>1
      <3> QED
        BY <2>3, <3>1, <3>2, <3>3
    <2>5. tasks' \in Seq(Task) /\ Len(tasks') >= Len(tasks) /\ \A i \in 1..Len(tasks) : tasks'[i] = tasks[i]
      BY <2>1, <2>3, <2>4
    <2>6. CASE UNCHANGED last_a2a_result /\ page' = P!At("metrics", None)
      <3>1. Turn' /\ page'.pc = "metrics"
        BY <1>c, <2>6
      <3>2. Result'
        <4>1. ASSUME last_a2a_result # None
              PROVE  /\ last_a2a_result.task \in 1..Len(tasks)
                     /\ last_a2a_result \in [task : 1..Len(tasks'), state : {"working", "ended"}]
                     /\ tasks'[last_a2a_result.task] = tasks[last_a2a_result.task]
          <5>1. last_a2a_result \in [task : 1..Len(tasks), state : {"working", "ended"}]
            BY <1>0, <4>1 DEF Labels, Result
          <5>2. 1..Len(tasks) \subseteq 1..Len(tasks')
            BY <2>3, <2>5
          <5> QED
            BY <2>5, <5>1, <5>2
        <4> QED
          BY <1>0, <2>2, <2>6, <3>1, <4>1 DEF Labels, Result
      <3> QED
        BY <1>0, <2>2, <2>5, <3>1, <3>2 DEF Labels
    <2>7. CASE /\ last_a2a_result' = IF state = None THEN None
                                       ELSE [task |-> Len(tasks'), state |-> state]
               /\ page' = [page EXCEPT !.pc = "label"]
      <3>1. /\ page' \in Pages /\ page'.pc = "label" /\ page'.button = page.button
            /\ page'.next = page.next
        BY <1>0, <2>7 DEF Labels, Turn, Pages
      <3>2. Result'
        <4>1. CASE state = None
          BY <2>7, <4>1 DEF Result
        <4>2. CASE state # None
          <5>1. last_a2a_result' = [task |-> Len(tasks) + 1, state |-> state]
            BY <2>4, <2>7, <4>2
          <5>2. /\ last_a2a_result'.task = Len(tasks) + 1 /\ last_a2a_result'.state = state
                /\ last_a2a_result' \in [task : 1..Len(tasks'), state : {"working", "ended"}]
            BY <2>1, <2>3, <2>4, <4>2, <5>1
          <5>3. tasks'[last_a2a_result'.task].context = page'.button /\ tasks'[last_a2a_result'.task].state = state
            BY <2>4, <3>1, <4>2, <5>2
          <5> QED
            BY <3>1, <5>2, <5>3 DEF Result
        <4> QED
          BY <4>1, <4>2
      <3>3. Turn'
        <4>1. page.next = {}
          BY <1>0, <2>2 DEF Labels, Turn
        <4> QED
          BY <1>n, <2>2, <3>1, <4>1 DEF Turn
      <3> QED
        BY <1>0, <2>2, <2>5, <3>1, <3>2, <3>3 DEF Labels
    <2> QED
      BY <2>1, <2>6, <2>7
  <1>6. CASE P!Label
    <2>1. /\ page.pc = "label" /\ last_a2a_context' = page.button /\ page' = P!At("metrics", None)
          /\ UNCHANGED <<tasks, last_a2a_result>>
      BY <1>6 DEF P!Label, P!server
    <2>2. unlabelled' \in BOOLEAN
      BY <1>6, Zenon DEF P!Label
    <2>3. Turn' /\ page'.pc = "metrics" /\ page.button \in Contexts
      BY <1>0, <1>c, <2>1 DEF Labels, Turn
    <2>4. Result'
      BY <1>0, <2>1, <2>3 DEF Labels, Result
    <2> QED
      BY <1>0, <2>1, <2>2, <2>3, <2>4 DEF Labels
  <1>7. CASE P!Refresh
    <2>1. /\ page.pc = "tabs" /\ page.button = "refresh" /\ page' = P!At("tabs", None)
          /\ UNCHANGED <<tasks, last_a2a_context, unlabelled>>
      BY <1>7 DEF P!Refresh, P!server
    <2>4. Turn' /\ page'.pc = "tabs"
      BY <1>c, <2>1
    <2>2. CASE UNCHANGED last_a2a_result
      BY <1>2, <2>1, <2>2, <2>4
    <2>3. CASE last_a2a_result' = [last_a2a_result EXCEPT !.state = tasks[last_a2a_result.task].state]
      <3>1. last_a2a_result # None /\ last_a2a_result \in [task : 1..Len(tasks), state : {"working", "ended"}]
        BY <1>0, <2>1 DEF Labels, Result, Turn
      <3>2. tasks[last_a2a_result.task] \in Task
        BY <1>0, <3>1 DEF Labels
      <3>3. /\ last_a2a_result' \in [task : 1..Len(tasks), state : {"working", "ended"}]
            /\ last_a2a_result'.task = last_a2a_result.task
            /\ last_a2a_result'.state = tasks[last_a2a_result.task].state
        BY <2>3, <3>1, <3>2 DEF Task
      <3>5. Result'
        BY <1>0, <2>1, <2>4, <3>1, <3>3 DEF Labels, Result
      <3> QED
        BY <1>0, <2>1, <2>4, <3>5 DEF Labels
    <2> QED
      BY <1>7, <2>2, <2>3 DEF P!Refresh
  <1>8. CASE P!NoButton
    BY <1>2, <1>8, <1>c DEF P!NoButton, P!server, P!a2a
  (* The figures: a run that is blocked, and what comes back to it.        *)
  <1>b. ASSUME UNCHANGED <<tasks, last_a2a_result, last_a2a_context, unlabelled>>, page.pc # "label",
               NEW entry, P!Return(entry)
        PROVE  Labels'
    <2>1. CASE page.next = {}
      BY <1>2, <1>b, <1>c, <2>1 DEF P!Return
    <2>2. CASE page.next # {}
      <3>1. PICK button \in page.next : page' = P!At("tabs", button)
        BY <1>b, <2>2 DEF P!Return
      <3>2. button \in Buttons /\ (button = "refresh" => last_a2a_result # None)
        BY <1>0, <3>1 DEF Labels, Turn, Pages
      <3>3. page' \in Pages /\ page'.pc = "tabs" /\ page'.button = button /\ page'.next = {}
        BY <1>a, <3>1, <3>2
      <3>4. Turn'
        BY <1>b, <3>2, <3>3 DEF Turn
      <3> QED
        BY <1>2, <1>b, <3>3, <3>4 
    <2> QED
      BY <2>1, <2>2
  <1>9. CASE P!ShowCached
    BY <1>9, <1>b DEF P!ShowCached, P!Called, P!server, P!a2a
  <1>10. CASE P!AwaitFetch
    BY <1>2, <1>10, <1>c DEF P!AwaitFetch, P!server, P!a2a
  <1>11. CASE P!GetMetrics
    <2>1. CASE P!Called /\ page' = [page EXCEPT !.pc = "fetching"]
      <3>1. page \in Pages /\ page.pc \in {"metrics", "waiting"} /\ page.button # "refresh"
        BY <1>0, <2>1 DEF P!Called, Labels, Turn
      <3>2. /\ page' \in Pages /\ page'.pc = "fetching" /\ page'.button = page.button
            /\ page'.next = page.next
        BY <2>1, <3>1 DEF Pages
      <3>3. Turn'
        BY <1>0, <1>11, <3>1, <3>2 DEF P!GetMetrics, P!a2a, Labels, Turn
      <3> QED
        BY <1>2, <1>11, <3>1, <3>2, <3>3 DEF P!GetMetrics, P!server, P!a2a
    <2>2. CASE UNCHANGED page
      BY <1>1, <1>11, <2>2 DEF P!GetMetrics, P!server, P!a2a
    <2> QED
      BY <1>11, <2>1, <2>2 DEF P!GetMetrics
  <1>12. CASE P!FetchEnds
    <2>1. CASE page.pc = "fetching"
      BY <1>12, <1>b, <2>1 DEF P!FetchEnds, P!server, P!a2a
    <2>2. CASE page.pc # "fetching"
      BY <1>1, <1>12, <2>2 DEF P!FetchEnds, P!server, P!a2a
    <2> QED
      BY <2>1, <2>2
  <1>13. CASE P!Tick \/ P!RecordRequest \/ P!Answer \/ UNCHANGED PageVars
    BY <1>1, <1>13 DEF P!Tick, P!RecordRequest, P!Answer, PageVars, seen, P!server, P!a2a
  <1> QED
    BY <1>3, <1>4, <1>5, <1>6, <1>7, <1>8, <1>9, <1>10, <1>11, <1>12, <1>13 DEF P!Next

LEMMA PageInvariant == MCSpec => [](explored = "page" => PageIInv)
  <1> DEFINE I == explored = "page" => PageIInv
  <1>1. MCInit => I
    BY PageStarts DEF MCInit
  <1>2. I /\ [MCNext]_<<explored, vars, seen>> => I'
    <2> SUFFICES ASSUME I, [MCNext]_<<explored, vars, seen>>, explored' = "page" PROVE PageIInv'
      OBVIOUS
    <2>1. explored = "page" /\ (P!Next \/ UNCHANGED PageVars)
      BY DEF MCNext, PageVars, vars
    <2> QED
      BY <2>1, FiguresKept, LabelsKept DEF PageIInv
  <1> QED
    BY <1>1, <1>2, PTL DEF MCSpec

LEMMA PageRight ==
  ASSUME PageIInv
  PROVE  P!PageCurrent
  <1>1. /\ now \in 0..MaxTime /\ total \in 0..MaxTotal /\ Len(totals) = now + 1
        /\ page \in Pages /\ (page.pc = "fetching" => fetch # None)
        /\ last_a2a_context \in Contexts \cup {None} /\ unlabelled \in BOOLEAN
    BY DEF PageIInv, Labels, Turn, Counted, FetchRead
  <1>a. page.pc \in {"tabs", "label", "metrics", "waiting", "fetching", "idle"}
    BY <1>1 DEF Pages
  <1>2. last_a2a_result # None => last_a2a_result.task \in DOMAIN tasks
    BY DEF PageIInv, Labels, Result
  <1>3. P!TypeOK
    BY <1>1, <1>2, <1>a, Zenon DEF P!TypeOK
  <1>4. P!TaskShown
    BY DEF PageIInv, Labels, Result, P!TaskShown
  <1>5. P!FiguresFresh
    BY DEF PageIInv, ShownRead, TotalIn, TotalAt, P!FiguresFresh
  <1> QED
    BY <1>3, <1>4, <1>5 DEF P!PageCurrent

(* The task that is shown, its context and its state, and the age of the   *)
(* figures, for any number of tasks, contexts and pages                    *)
(* (streamlit_app.py:84-91, 465-510, 541).                                 *)
THEOREM PageIsCurrent == MCSpec => []PageCurrent
  <1>1. (explored = "page" => PageIInv) => PageCurrent
    BY PageRight DEF PageCurrent
  <1> QED
    BY PageInvariant, <1>1, PTL

(* What is proved of Monitoring holds of the behaviours that are checked.  *)
THEOREM ExploresMonitoring == MCSpec => Spec
  <1>1. MCInit => Init
    BY DEF MCInit
  <1>2. [MCNext]_<<explored, vars, seen>> => [Next]_vars
    <2>1. P!Next /\ UNCHANGED measured => Tick \/ UNCHANGED vars
      BY DEF P!Next, P!Tick, P!RecordRequest, P!TaskEnds, P!Interact, P!Send, P!Label, P!Refresh,
             P!NoButton, P!ShowCached, P!AwaitFetch, P!GetMetrics, P!Answer, P!FetchEnds, Tick, vars
    <2> QED
      BY <2>1 DEF MCNext, Next
  <1> QED
    BY <1>1, <1>2, PTL DEF MCSpec, Spec
=============================================================================
