------------------------------- MODULE Logging -------------------------------
(***************************************************************************)
(* Log records from the loggers to the files (config/logging_config.py):   *)
(* handlers put records on one queue per category, a listener thread per   *)
(* category writes them to its file, which is renamed every hour, and the  *)
(* application's lifespan (main.py) starts and stops the listeners.        *)
(*                                                                         *)
(* A record is stamped with the trace id of its caller by a filter; the    *)
(* listener threads have no trace id.  Left out: formatting, and the       *)
(* deletion of files after three days.  Records below the configured level *)
(* (INFO) do not exist.  Records are numbered in the order in which they   *)
(* are put on the queues.                                                  *)
(***************************************************************************)
EXTENDS Naturals, Sequences, FiniteSets, SequencesExt

CONSTANTS
  Sources,      \* bound: loggers that log
  Hour,         \* ticks of the clock in an hour
  MaxRecords,   \* bound: records
  MaxLifespans, \* bound: starts of the application in one process
  MaxTime       \* bound: the clock

(* The order of _listeners.                                                *)
Categories == <<"SYSTEM", "ERROR", "REQ_RESP", "UI">>
Named      == ToSet(Categories)
Loggers    == {"app"} \cup Named      \* "app": any logger below the root
Levels     == {"INFO", "WARNING"}
TraceIds   == {"-", "id"}             \* "-": outside of a request

ASSUME LoggingAssumption ==
  /\ Sources \subseteq Loggers /\ Hour \in Nat \ {0}
  /\ MaxRecords \in Nat /\ MaxLifespans \in Nat /\ MaxTime \in Nat

VARIABLES
  now,
  configured,
  queue,        \* category -> records and sentinels not yet handled
  file,         \* category -> the open file: when it was opened, its records
  rotated,      \* category -> the renamed files, by the hour in their names
  running,      \* categories whose listener thread runs
  main,         \* what the lifespan has done
  joining,      \* the listener it is stopping, 0 if none
  lifespans,
  sent,         \* ghost: category -> records put on its queue
  logged,       \* ghost: number of records so far
  before        \* ghost: number of records when stop_logging_listener() was called

disk   == <<file, rotated>>
thread == <<main, joining, lifespans>>
ghosts == <<sent, logged, before>>
vars   == <<now, configured, queue, disk, running, thread, ghosts>>

Sentinel == [id |-> 0, origin |-> "-", stamp |-> "-"]

Init ==
  /\ now = 0 /\ configured = FALSE
  /\ queue = [c \in Named |-> <<>>] /\ sent = [c \in Named |-> {}]
  /\ file = [c \in Named |-> [opened |-> 0, records |-> <<>>]]
  /\ rotated = [c \in Named |-> [h \in 0..MaxTime |-> <<>>]]
  /\ running = {}
  /\ main = "new" /\ joining = 0 /\ lifespans = 0
  /\ logged = 0 /\ before = 0

Tick ==
  /\ now < MaxTime /\ now' = now + 1
  /\ UNCHANGED <<configured, queue, disk, running, thread, ghosts>>

(***************************************************************************)
(* Loggers and handlers                                                    *)
(***************************************************************************)

(* Seeded fault: the root's queue comes before its console.                *)
HandlersSwapped(logger) ==
  IF logger = "app"
  THEN << [to |-> {"ERROR"}, stamps |-> FALSE, warnings |-> FALSE],
          [to |-> {},        stamps |-> TRUE,  warnings |-> FALSE] >>
  ELSE << [to |-> {logger}, stamps |-> TRUE, warnings |-> logger = "ERROR"] >>

(* The handlers a record meets, in their order, with their filters: the    *)
(* context filter, which sets fields of the record itself, and the one     *)
(* that passes warnings only.  The four named loggers do not propagate;    *)
(* any other logger reaches the root's console, and its QueueHandler, to   *)
(* the queue of the error log, which has no filter.                        *)
Handlers(logger) ==
  IF logger = "app"
  THEN << [to |-> {},        stamps |-> TRUE,  warnings |-> FALSE],
          [to |-> {"ERROR"}, stamps |-> FALSE, warnings |-> FALSE] >>
  ELSE << [to |-> {logger}, stamps |-> TRUE, warnings |-> logger = "ERROR"] >>

(* ContextFilter, in the caller's context.                                 *)
Stamp(record) == [record EXCEPT !.stamp = record.origin]

(* ErrorOnlyFilter.                                                        *)
WarningsOnly(level) == level = "WARNING"

(* What each queue gets: a copy of the record as it is by then.            *)
Pass(record, logger, level) ==
  LET handlers == Handlers(logger)
      At(j)    == IF \E i \in 1..j : handlers[i].stamps THEN Stamp(record) ELSE record
      Takes(c) == {j \in DOMAIN handlers :
                     /\ c \in handlers[j].to
                     /\ handlers[j].warnings => WarningsOnly(level)}
  IN  [c \in Named |-> SetToSeq({At(j) : j \in Takes(c)})]

(* A record of any thread, at any time after the loggers were set up.      *)
Log ==
  /\ configured /\ logged < MaxRecords
  /\ logged' = logged + 1
  /\ \E logger \in Sources, level \in Levels, origin \in TraceIds :
       LET gets == Pass([id |-> logged', origin |-> origin, stamp |-> "none"], logger, level)
       IN  /\ queue' = [c \in Named |-> queue[c] \o gets[c]]
           /\ sent'  = [c \in Named |-> sent[c] \cup ToSet(gets[c])]
  /\ UNCHANGED <<now, configured, disk, running, thread, before>>

(***************************************************************************)
(* The lifespan, and the listener threads                                  *)
(***************************************************************************)

(* configure_logging(), which does nothing the second time; the files are  *)
(* opened.                                                                 *)
Configure ==
  /\ main \in {"new", "stopped"} /\ lifespans < MaxLifespans
  /\ main' = "configured" /\ configured' = TRUE
  /\ lifespans' = lifespans + 1
  /\ file' = IF configured THEN file
             ELSE [c \in Named |-> [opened |-> now, records |-> <<>>]]
  /\ UNCHANGED <<now, queue, rotated, running, joining, ghosts>>

(* start_logging_listener().                                               *)
Start ==
  /\ main = "configured"
  /\ main' = "started" /\ running' = Named
  /\ UNCHANGED <<now, configured, queue, disk, joining, lifespans, ghosts>>

(* AgentRunnerManager.initialize() builds the agent, or raises.            *)
InitializeRunner == main' \in {"serving", "failed"}

(* The registry and the runner are built before requests are served.  An   *)
(* exception ends the start, and with it the process: the listeners are    *)
(* not stopped.                                                            *)
Initialize ==
  /\ main = "started"
  /\ InitializeRunner
  /\ UNCHANGED <<now, configured, queue, disk, running, joining, lifespans, ghosts>>

(* Seeded fault: a file is renamed when it is a tick old.                  *)
DueAtOnce(c) == now >= file[c].opened + 1

Due(c) == now >= file[c].opened + Hour

(* doRollover(): the open file is renamed after the hour in which it was   *)
(* opened, in place of a file of that name.                                *)
Rollover(c) ==
  rotated' = [rotated EXCEPT ![c][file[c].opened \div Hour] = file[c].records]

(* The file handler: a file that is an hour old is renamed and another one *)
(* opened; then the record is written.                                     *)
Write(c, record) ==
  IF Due(c)
  THEN /\ Rollover(c)
       /\ file' = [file EXCEPT ![c] = [opened |-> now, records |-> <<record>>]]
  ELSE /\ file' = [file EXCEPT ![c].records = Append(@, record)]
       /\ UNCHANGED rotated

(* Seeded fault: the thread goes on after a sentinel.                      *)
DeliverOnAndOn(c) ==
  /\ c \in running /\ queue[c] # <<>>
  /\ queue' = [queue EXCEPT ![c] = Tail(@)]
  /\ IF Head(queue[c]) = Sentinel THEN UNCHANGED disk ELSE Write(c, Head(queue[c]))
  /\ UNCHANGED <<now, configured, running, thread, ghosts>>

(* QueueListener's thread: it writes what it takes, and ends at a sentinel.*)
Deliver(c) ==
  /\ c \in running /\ queue[c] # <<>>
  /\ queue' = [queue EXCEPT ![c] = Tail(@)]
  /\ IF Head(queue[c]) = Sentinel
     THEN running' = running \ {c} /\ UNCHANGED disk
     ELSE Write(c, Head(queue[c])) /\ UNCHANGED running
  /\ UNCHANGED <<now, configured, thread, ghosts>>

(* stop_logging_listener(): one listener after the other is sent a         *)
(* sentinel and waited for.                                                *)
SendSentinel(i) ==
  /\ joining' = i
  /\ queue' = [queue EXCEPT ![Categories[i]] = Append(@, Sentinel)]

BeginStop ==
  /\ main = "serving"
  /\ main' = "stopping" /\ before' = logged
  /\ SendSentinel(1)
  /\ UNCHANGED <<now, configured, disk, running, lifespans, sent, logged>>

StopNextOrEnd ==
  /\ IF joining < Len(Categories)
     THEN SendSentinel(joining + 1) /\ UNCHANGED main
     ELSE main' = "stopped" /\ joining' = 0 /\ UNCHANGED queue
  /\ UNCHANGED <<now, configured, disk, running, lifespans, ghosts>>

(* Seeded fault: the listeners are not waited for.                         *)
StopUnjoined == main = "stopping" /\ StopNextOrEnd

StopNext ==
  /\ main = "stopping" /\ Categories[joining] \notin running
  /\ StopNextOrEnd

Next ==
  \/ Tick \/ Log
  \/ Configure \/ Start \/ Initialize \/ BeginStop \/ StopNext
  \/ \E c \in Named : Deliver(c)

Spec == Init /\ [][Next]_vars

(* The listener threads run, and so does the lifespan while it stops them. *)
FairSpec ==
  /\ Spec
  /\ \A c \in Named : WF_vars(Deliver(c))
  /\ WF_vars(StopNext)

(***************************************************************************)
(* Properties                                                              *)
(***************************************************************************)

(* Where records of a category are: its files, by the hours in their       *)
(* names, then the open file, then its queue.                              *)
Places(c) ==
  [p \in 0..(MaxTime + 2) |->
     CASE p <= MaxTime -> rotated[c][p]
       [] p = MaxTime + 1 -> file[c].records
       [] p = MaxTime + 2 -> queue[c]]

Lines(s) == ToSet(s) \ {Sentinel}

(* The records of a place, and of two, are in the order of their numbers.  *)
Ascends(s) ==
  \A i, j \in DOMAIN s : i < j => Sentinel \in {s[i], s[j]} \/ s[i].id < s[j].id
Precedes(s, t) == \A r \in Lines(s), l \in Lines(t) : r.id < l.id

(* Types of the variables.                                                 *)
TypeOK ==
  /\ now \in 0..MaxTime
  /\ configured \in BOOLEAN /\ running \subseteq Named
  /\ \A c \in Named :
       /\ file[c].opened \in 0..now
       /\ \A i \in DOMAIN queue[c] : queue[c][i] = Sentinel \/ queue[c][i].id \in 1..logged
  /\ main \in {"new", "configured", "started", "serving", "failed", "stopping", "stopped"}
  /\ joining \in 0..Len(Categories) /\ (joining # 0 <=> main = "stopping")
  /\ lifespans \in 0..MaxLifespans
  /\ logged \in 0..MaxRecords /\ before \in 0..logged

(* What is put on the queue of a category is in one of its files or still  *)
(* queued, once and as it was sent; none is lost and none overtakes        *)
(* another, also when files are renamed and listeners were stopped and     *)
(* started again in between (logging_config.py:93-99, 244-262).            *)
WrittenOnceInOrder ==
  \A c \in Named :
    LET place == Places(c)
    IN  /\ UNION {Lines(place[p]) : p \in DOMAIN place} = sent[c]
        /\ \A p \in DOMAIN place :
             /\ Ascends(place[p])
             /\ \A o \in DOMAIN place : o < p => Precedes(place[o], place[p])

(* Types, and what the files hold (above).                                 *)
FilesSound == TypeOK /\ WrittenOnceInOrder

(* A line has the trace id of the code that logged it: the filter runs in  *)
(* the caller's context, before the copy for the listener thread is made.  *)
(* The root's QueueHandler has no filter of its own and depends on the     *)
(* console handler in front of it (logging_config.py:68-74, 188-193, 231). *)
LinesStamped ==
  \A c \in Named : \A p \in DOMAIN Places(c) :
    \A r \in Lines(Places(c)[p]) : r.stamp = r.origin

(* stop_logging_listener() flushes: when it has returned, what was still   *)
(* queued was logged after it was called, and no listener runs             *)
(* (logging_config.py:265-268, main.py:72).                                *)
FlushedAtStop ==
  main = "stopped" =>
    /\ running = {}
    /\ \A c \in Named : \A i \in DOMAIN queue[c] : queue[c][i].id > before

(* Stopping does not hang, whatever is logged meanwhile.                   *)
StopReturns == main = "stopping" ~> main = "stopped"
=============================================================================
