-------------------------- MODULE A2AExecutorProofs --------------------------
(***************************************************************************)
(* What holds of A2AExecutor for every set of tasks, contexts and          *)
(* sessions, every lifetime and every bound on the clock and the chunks:   *)
(* the order of a task's queue, the routes of contexts to sessions, the    *)
(* histories the turns are saved in, and the counters.                     *)
(*                                                                         *)
(* Four invariants are proved one after the other over the types: Queues   *)
(* and Routes alone, Histories with the help of Queues, and the counters   *)
(* with the help of Routes and Histories.                                  *)
(***************************************************************************)
EXTENDS A2AExecutor, FiniteSetTheorems, SequenceTheorems, TLAPS

(***************************************************************************)
(* What an action changes                                                  *)
(***************************************************************************)
(* What can be in a queue.                                                 *)
EventKinds == {"task", "artifact"} \cup TerminalEvents
(* Completion was reported in a task's queue.                              *)
Reported(t) == \E i \in DOMAIN events[t] : events[t][i] = "completed"

(* The properties say the same with the set of a queue's events.           *)
LEMMA ReportedSet == \A t : "completed" \in ToSet(events[t]) <=> Reported(t)
BY DEF ToSet, Reported

(* An event is enqueued at the end of one queue.                           *)
LEMMA Enqueued ==
  ASSUME TypeOK, NEW t \in Tasks, NEW e \in EventKinds, Enqueue(t, e)
  PROVE  /\ events' \in [Tasks -> Seq(EventKinds)]
         /\ \A u \in Tasks : u # t => events'[u] = events[u]
         /\ Len(events[t]) \in Nat /\ DOMAIN events[t] = 1..Len(events[t])
         /\ DOMAIN events'[t] = 1..(Len(events[t]) + 1)
         /\ events'[t][Len(events[t]) + 1] = e
         /\ \A i \in DOMAIN events[t] : events'[t][i] = events[t][i]
<1>1. events \in [Tasks -> Seq(EventKinds)]
  BY DEF TypeOK, EventKinds
<1>2. PICK q : q = Append(events[t], e)
  OBVIOUS
<1>3. /\ q \in Seq(EventKinds) /\ Len(q) = Len(events[t]) + 1 /\ q[Len(events[t]) + 1] = e
      /\ \A i \in DOMAIN events[t] : q[i] = events[t][i]
      /\ Len(events[t]) \in Nat /\ DOMAIN events[t] = 1..Len(events[t])
      /\ DOMAIN q = 1..(Len(events[t]) + 1)
  BY <1>1, <1>2
<1>4. events' = [events EXCEPT ![t] = q]
  BY <1>1, <1>2 DEF Enqueue
<1> QED
  BY <1>1, <1>3, <1>4

(* The types of what has not changed, after time has passed or a session   *)
(* was created.                                                            *)
LEMMA TypesGrow ==
  ASSUME TypeOK, created \subseteq created', now' \in Nat, now <= now'
  PROVE  /\ store \in [DOMAIN store -> Entries'] /\ contexts \in [DOMAIN contexts -> Bindings']
         /\ task \in [Tasks -> Executions'] /\ Entries \subseteq Entries'
         /\ Bindings \subseteq Bindings' /\ Executions \subseteq Executions'
<1>1. 0..now \subseteq 0..now'
  BY DEF TypeOK
<1>2. /\ Entries \subseteq Entries' /\ Bindings \subseteq Bindings'
      /\ Executions \subseteq Executions'
  BY <1>1 DEF Entries, Bindings, Executions
<1> QED
  BY <1>2 DEF TypeOK

(* The parts of the state a step may leave alone.                          *)
LEMMA TypesKept ==
  ASSUME TypeOK
  PROVE  /\ UNCHANGED <<created, now>> => Entries' = Entries /\ Bindings' = Bindings
                                         /\ Executions' = Executions
         /\ now \in Nat /\ a2aTasks + 1 \in Nat /\ hits + 1 \in Nat
         /\ MaxTime \in Nat /\ \A n \in now..MaxTime : n \in Nat /\ now <= n /\ n \in 0..MaxTime
<1>1. UNCHANGED <<created, now>> => Entries' = Entries /\ Bindings' = Bindings
                                         /\ Executions' = Executions
  BY DEF Entries, Bindings, Executions
<1> QED
  BY <1>1, ContextAssumption DEF TypeOK

(* The pc of one task moves.                                               *)
LEMMA Moved ==
  ASSUME TypeOK, NEW t \in Tasks, NEW pc, Goto(t, pc),
         pc \in {"idle", "started", "streaming", "saving", "done", "killed"}
  PROVE  /\ task' \in [Tasks -> Executions]
         /\ \A u \in Tasks : u # t => task'[u] = task[u]
         /\ task'[t].pc = pc /\ task'[t].ctx = task[t].ctx /\ task'[t].sid = task[t].sid
         /\ task'[t].history = task[t].history /\ task'[t].text = task[t].text
         /\ task'[t].bound = task[t].bound /\ task'[t].earlier = task[t].earlier
<1>1. task \in [Tasks -> Executions] /\ task[t] \in Executions
  BY DEF TypeOK
<1>2. task' = [task EXCEPT ![t] = [task[t] EXCEPT !.pc = pc]]
  BY <1>1 DEF Goto
<1>3. PICK x : x = [task[t] EXCEPT !.pc = pc]
  OBVIOUS
<1>4. /\ x \in Executions /\ x.pc = pc /\ x.ctx = task[t].ctx /\ x.sid = task[t].sid
      /\ x.history = task[t].history /\ x.text = task[t].text
      /\ x.bound = task[t].bound /\ x.earlier = task[t].earlier
  BY <1>1, <1>3 DEF Executions
<1> QED
  BY <1>1, <1>2, <1>3, <1>4

(* A task is started for a context.                                        *)
LEMMA Started ==
  ASSUME TypeOK, NEW t \in Tasks, Start(t)
  PROVE  /\ task' \in [Tasks -> Executions]
         /\ \A u \in Tasks : u # t => task'[u] = task[u]
         /\ task'[t].pc = "started" /\ task'[t].sid = task[t].sid
         /\ task'[t].history = task[t].history /\ task'[t].text = task[t].text
         /\ task'[t].bound = task[t].bound
<1>1. task \in [Tasks -> Executions] /\ task[t] \in Executions
  BY DEF TypeOK
<1>2. PICK c \in Contexts : task' = [task EXCEPT ![t].pc = "started", ![t].ctx = c]
  BY DEF Start
<1>3. PICK x : x = [[task[t] EXCEPT !.pc = "started"] EXCEPT !.ctx = c]
  OBVIOUS
<1>4. task' = [task EXCEPT ![t] = x]
  BY <1>1, <1>2, <1>3
<1>5. /\ x \in Executions /\ x.pc = "started" /\ x.sid = task[t].sid
      /\ x.history = task[t].history /\ x.text = task[t].text
      /\ x.bound = task[t].bound
  BY <1>1, <1>3 DEF Executions
<1> QED
  BY <1>1, <1>4, <1>5

(* A part is added to a task's text.                                       *)
LEMMA TextAdded ==
  ASSUME TypeOK, NEW t \in Tasks, TextChunk(t)
  PROVE  /\ task' \in [Tasks -> Executions]
         /\ \A u \in Tasks : u # t => task'[u] = task[u]
         /\ task'[t].pc = "streaming" /\ task'[t].ctx = task[t].ctx
         /\ task'[t].sid = task[t].sid /\ task'[t].history = task[t].history
         /\ task'[t].text = Append(task[t].text, Len(task[t].text) + 1)
         /\ task'[t].bound = task[t].bound
<1>1. task \in [Tasks -> Executions] /\ task[t] \in Executions /\ task[t].pc = "streaming"
  BY DEF TypeOK, TextChunk
<1>2. PICK text : text = Append(task[t].text, Len(task[t].text) + 1)
  OBVIOUS
<1>3. text \in Seq(Nat)
  BY <1>1, <1>2 DEF Executions
<1>4. PICK x : x = [task[t] EXCEPT !.text = text]
  OBVIOUS
<1>5. task' = [task EXCEPT ![t] = x]
  BY <1>1, <1>2, <1>4 DEF TextChunk
<1>6. /\ x \in Executions /\ x.pc = "streaming" /\ x.ctx = task[t].ctx
      /\ x.sid = task[t].sid /\ x.history = task[t].history /\ x.text = text
      /\ x.bound = task[t].bound
  BY <1>1, <1>3, <1>4 DEF Executions
<1> QED
  BY <1>1, <1>2, <1>5, <1>6

(* Sessions are only taken out of the store.                               *)
Smaller(st) == DOMAIN st \subseteq DOMAIN store /\ st = [s \in DOMAIN st |-> store[s]]

(* delete() and get() take sessions out of the store and change none;      *)
(* after get() an expired session is gone.                                 *)
LEMMA StoreSmaller ==
  ASSUME TypeOK, NEW s, NEW n
  PROVE  /\ Smaller(store) /\ Smaller(AfterDelete(store, s)) /\ Smaller(AfterGet(store, s, n))
         /\ s \in DOMAIN AfterGet(store, s, n) => s \in Live(store, n)
<1>1. store = [x \in DOMAIN store |-> store[x]]
  BY DEF TypeOK
<1>2. Smaller(store) /\ Smaller(AfterDelete(store, s)) /\ s \notin DOMAIN AfterDelete(store, s)
  BY <1>1 DEF Smaller, AfterDelete, Restrict
<1>3. Smaller(AfterGet(store, s, n))
  BY <1>2 DEF AfterGet
<1>4. s \in DOMAIN AfterGet(store, s, n) => s \in Live(store, n)
  BY <1>2 DEF AfterGet, Live
<1> QED
  BY <1>2, <1>3, <1>4

(* The messages of a turn.                                                 *)
LEMMA MessageTypes ==
  ASSUME NEW t \in Tasks, NEW text \in Seq(Nat)
  PROVE  /\ SystemMessage \in Messages /\ SystemMessage.role = "system"
         /\ HumanMessage(t) \in Messages /\ HumanMessage(t).role = "human"
         /\ AIMessage(t, text) \in Messages /\ AIMessage(t, text).role = "ai"
         /\ HumanMessage(t).turn = t /\ AIMessage(t, text).turn = t
<1>1. <<>> \in Seq(Nat)
  OBVIOUS
<1> QED
  BY <1>1 DEF Messages, SystemMessage, HumanMessage, AIMessage, Message

(* The system message alone, which needs no task.                          *)
LEMMA SystemMessageType == SystemMessage \in Messages
<1>1. <<>> \in Seq(Nat)
  OBVIOUS
<1> QED
  BY <1>1 DEF Messages, SystemMessage, Message

(* What the model is given of a stored session is a history.               *)
LEMMA ViewType ==
  ASSUME NEW e, e.history \in Seq(Messages)
  PROVE  View(e) \in Seq(Messages)
<1>1. <<SystemMessage>> \in Seq(Messages)
  BY SystemMessageType
<1> QED
  BY <1>1 DEF View

(* Admit, with its choices named.                                          *)
AdmitTo(t, s, sessions) ==
  /\ task[t].pc = "started" /\ now' \in Later
  /\ ResolveSession(task[t].ctx, s, sessions)
  /\ store' = AfterGet(sessions, s, now')
  /\ task' = [task EXCEPT ![t] =
                [@ EXCEPT !.pc = "streaming", !.sid = s,
                          !.history = LoadHistory(sessions, s, now'),
                          !.bound = contexts'[task[t].ctx].created,
                          !.earlier = Remembered(task[t].ctx)]]
  /\ hits' = (IF s \in Live(sessions, now') THEN hits + 1 ELSE hits)
  /\ a2aTasks' = a2aTasks + 1
  /\ UNCHANGED events

(* Admit is AdmitTo for some session and some store.                       *)
LEMMA AdmitIsTo ==
  \A t \in Tasks : Admit(t) => \E s \in SessionIds : \E sessions : AdmitTo(t, s, sessions)
BY DEF Admit, AdmitTo

(* The binding is fresh, or a session and a binding are new.               *)
Reuses(t, s, sessions) ==
  /\ Fresh(task[t].ctx) /\ s = contexts[task[t].ctx].sid /\ sessions = store
  /\ UNCHANGED <<created, contexts>>

(* ... and what is known of the store with the new session.                *)
Opens(t, s, sessions) ==
  /\ ~Fresh(task[t].ctx) /\ s \in SessionIds \ created
  /\ created' = created \cup {s} /\ contexts' = Bound(task[t].ctx, s)
  /\ s \notin DOMAIN store
  /\ DOMAIN sessions = DOMAIN store \cup {s}
  /\ sessions[s] = Entry(TRUE, now)
  /\ \A x \in DOMAIN store : sessions[x] = store[x]

(* resolve_session() does one of the two.                                  *)
LEMMA Resolved ==
  ASSUME TypeOK, NEW t \in Tasks, NEW s \in SessionIds, NEW sessions, AdmitTo(t, s, sessions)
  PROVE  Reuses(t, s, sessions) \/ Opens(t, s, sessions)
<1>1. s \notin created => s \notin DOMAIN store
  BY DEF TypeOK
<1> QED
  BY <1>1 DEF AdmitTo, ResolveSession, Reuses, Opens, AfterCreate

(* Types and the rest of what admitting a task does.                       *)
LEMMA AdmitEffect ==
  ASSUME TypeOK, NEW t \in Tasks, NEW s \in SessionIds, NEW sessions, AdmitTo(t, s, sessions)
  PROVE  /\ TypeOK' /\ s \in created' /\ created \subseteq created'
         /\ now' \in now..MaxTime /\ UNCHANGED events
         /\ \A u \in Tasks : u # t => task'[u] = task[u]
         /\ task'[t].pc = "streaming" /\ task'[t].sid = s
         /\ task'[t].ctx = task[t].ctx /\ task'[t].text = task[t].text
         /\ task'[t].history = LoadHistory(sessions, s, now')
         /\ task[t].ctx \in DOMAIN contexts'
         /\ task'[t].bound = contexts'[task[t].ctx].created
         /\ contexts'[task[t].ctx].sid = s
         /\ \A x \in DOMAIN store' : \/ x \in DOMAIN store /\ store'[x] = store[x]
                                     \/ /\ x = s /\ s \notin created
                                        /\ store'[x] = Entry(TRUE, now)
         /\ s \in DOMAIN store' => s \in Live(sessions, now')
<1> DEFINE c == task[t].ctx
<1>1. task \in [Tasks -> Executions] /\ task[t] \in Executions /\ c \in Contexts
  BY DEF TypeOK, Executions
<1>2. now' \in now..MaxTime /\ now \in Nat /\ now' \in Nat /\ now <= now' /\ now' \in 0..MaxTime
  BY TypesKept DEF AdmitTo, Later
<1>3. /\ s \in created' /\ created \subseteq created' /\ created' \subseteq SessionIds
      /\ c \in DOMAIN contexts' /\ contexts'[c].sid = s
      /\ DOMAIN contexts' \subseteq Contexts
      /\ contexts' \in [DOMAIN contexts' -> Bindings']
  <2>1. CASE Reuses(t, s, sessions)
    <3>1. c \in DOMAIN contexts /\ contexts[c] \in Bindings
      BY <2>1 DEF Reuses, Fresh, TypeOK
    <3>2. contexts[c].sid \in created
      BY <3>1 DEF Bindings
    <3>3. contexts \in [DOMAIN contexts -> Bindings']
      BY <1>2, <2>1, TypesGrow DEF Reuses
    <3> QED
      BY <2>1, <3>1, <3>2, <3>3 DEF Reuses, TypeOK
  <2>2. CASE Opens(t, s, sessions)
    <3>1. created' = created \cup {s}
      BY <2>2 DEF Opens
    <3>2. contexts' = [x \in DOMAIN contexts \cup {c} |->
                         IF x = c THEN [sid |-> s, created |-> now] ELSE contexts[x]]
      BY <2>2 DEF Opens, Bound
    <3>3. contexts \in [DOMAIN contexts -> Bindings']
      BY <1>2, <3>1, TypesGrow
    <3>4. [sid |-> s, created |-> now] \in Bindings'
      BY <1>2, <3>1 DEF Bindings
    <3> QED
      BY <1>1, <2>2, <3>1, <3>2, <3>3, <3>4 DEF TypeOK
  <2> QED
    BY <2>1, <2>2, Resolved
<1>4. sessions \in [DOMAIN sessions -> Entries'] /\ DOMAIN sessions \subseteq created'
  <2>1. store \in [DOMAIN store -> Entries']
    BY <1>2, <1>3, TypesGrow
  <2>2. CASE Reuses(t, s, sessions)
    BY <1>3, <2>1, <2>2 DEF Reuses, TypeOK
  <2>3. CASE Opens(t, s, sessions)
    <3>1. <<>> \in Seq(Messages)
      OBVIOUS
    <3>2. Entry(TRUE, now) \in Entries'
      BY <1>2, <3>1 DEF Entry, Entries, Messages
    <3>3. sessions = AfterCreate(store, s, TRUE, now)
      BY <2>3 DEF AdmitTo, ResolveSession, Opens
    <3> QED
      BY <1>3, <2>1, <2>3, <3>2, <3>3 DEF Opens, TypeOK, AfterCreate
  <2> QED
    BY <2>2, <2>3, Resolved
<1>5. /\ DOMAIN store' \subseteq DOMAIN sessions
      /\ \A x \in DOMAIN store' : store'[x] = sessions[x]
      /\ store' \in [DOMAIN store' -> Entries']
      /\ s \in DOMAIN store' => s \in Live(sessions, now')
  <2>1. store' = AfterGet(sessions, s, now')
    BY DEF AdmitTo
  <2> QED
    BY <1>4, <2>1 DEF AfterGet, AfterDelete, Restrict, Live
<1>6. LoadHistory(sessions, s, now') \in Seq(Messages)
  <2>1. CASE s \in Live(sessions, now')
    <3>1. sessions[s].history \in Seq(Messages)
      BY <1>4, <2>1 DEF Live, Entries, Messages
    <3> QED
      BY <2>1, <3>1, ViewType DEF LoadHistory
  <2>2. CASE s \notin Live(sessions, now')
    <3>1. <<>> \in Seq(Messages)
      OBVIOUS
    <3> QED
      BY <2>2, <3>1 DEF LoadHistory
  <2> QED
    BY <2>1, <2>2
<1>7. /\ task' \in [Tasks -> Executions']
      /\ \A u \in Tasks : u # t => task'[u] = task[u]
      /\ task'[t].pc = "streaming" /\ task'[t].sid = s /\ task'[t].ctx = c
      /\ task'[t].text = task[t].text
      /\ task'[t].history = LoadHistory(sessions, s, now')
      /\ task'[t].bound = contexts'[c].created
  <2>1. PICK h, b, r : /\ h = LoadHistory(sessions, s, now') /\ b = contexts'[c].created
                       /\ r = Remembered(c)
    OBVIOUS
  <2>2. PICK x : x = [[[[[task[t] EXCEPT !.pc = "streaming"] EXCEPT !.sid = s]
                         EXCEPT !.history = h] EXCEPT !.bound = b] EXCEPT !.earlier = r]
    OBVIOUS
  <2>3. task' = [task EXCEPT ![t] = x]
    BY <1>1, <2>1, <2>2 DEF AdmitTo
  <2>4. task \in [Tasks -> Executions'] /\ task[t] \in Executions'
    BY <1>2, <1>3, TypesGrow
  <2>5. b \in 0..now' /\ r \in SUBSET Tasks /\ h \in Seq(Messages)
    BY <1>3, <1>6, <2>1 DEF Bindings, Remembered
  <2>6. /\ x \in Executions' /\ x.pc = "streaming" /\ x.sid = s /\ x.ctx = c
        /\ x.text = task[t].text /\ x.history = h /\ x.bound = b
    BY <1>3, <2>2, <2>4, <2>5 DEF Executions, Messages
  <2> QED
    BY <2>1, <2>3, <2>4, <2>6
<1>8. /\ hits' \in Nat /\ a2aTasks' \in Nat /\ UNCHANGED events
  BY TypesKept DEF AdmitTo, TypeOK
<1>9. TypeOK'
  BY <1>2, <1>3, <1>4, <1>5, <1>7, <1>8 DEF TypeOK, EventKinds, TerminalEvents
<1>10. \A x \in DOMAIN store' : \/ x \in DOMAIN store /\ store'[x] = store[x]
                                \/ /\ x = s /\ s \notin created
                                   /\ store'[x] = Entry(TRUE, now)
  <2>1. CASE Reuses(t, s, sessions)
    BY <1>5, <2>1 DEF Reuses
  <2>2. CASE Opens(t, s, sessions)
    BY <1>5, <2>2 DEF Opens
  <2> QED
    BY <2>1, <2>2, Resolved
<1> QED
  BY <1>2, <1>3, <1>5, <1>7, <1>8, <1>9, <1>10

(***************************************************************************)
(* Types                                                                   *)
(***************************************************************************)
(* The initial states.                                                     *)
LEMMA InitTypes == Init => TypeOK
<1> SUFFICES ASSUME Init PROVE TypeOK
  OBVIOUS
<1>1. Idle \in Executions
  <2>1. (CHOOSE c \in Contexts : TRUE) \in Contexts
    BY ContextAssumption
  <2>2. <<>> \in Seq(Messages) /\ <<>> \in Seq(Nat) /\ {} \in SUBSET Tasks /\ 0 \in 0..now
    BY DEF Init
  <2> QED
    BY <2>1, <2>2 DEF Idle, Executions
<1>2. task \in [Tasks -> Executions]
  BY <1>1 DEF Init
<1>3. events \in [Tasks -> Seq({"task", "artifact"} \cup TerminalEvents)]
  BY DEF Init
<1>4. /\ DOMAIN store = {} /\ store \in [DOMAIN store -> Entries]
      /\ DOMAIN contexts = {} /\ contexts \in [DOMAIN contexts -> Bindings]
  BY DEF Init
<1> QED
  BY <1>2, <1>3, <1>4, ContextAssumption DEF Init, TypeOK

(* A step that admits nobody.                                              *)
LEMMA OthersTypes ==
  ASSUME TypeOK, UNCHANGED <<created, contexts, a2aTasks, hits>>,
         DOMAIN store' \subseteq DOMAIN store, now' \in now..MaxTime,
         store' \in [DOMAIN store' -> Entries],
         task' \in [Tasks -> Executions], events' \in [Tasks -> Seq(EventKinds)]
  PROVE  TypeOK'
<1>1. now' \in Nat /\ now <= now' /\ now' \in 0..MaxTime
  BY TypesKept
<1>2. /\ Entries \subseteq Entries' /\ Executions \subseteq Executions'
      /\ contexts \in [DOMAIN contexts -> Bindings']
  BY <1>1, TypesGrow
<1> QED
  BY <1>1, <1>2 DEF TypeOK, EventKinds, TerminalEvents

(* What is left of the store has the types it had.                         *)
LEMMA SmallerTypes ==
  ASSUME TypeOK, Smaller(store')
  PROVE  DOMAIN store' \subseteq DOMAIN store /\ store' \in [DOMAIN store' -> Entries]
BY DEF TypeOK, Smaller

(* save_turn() writes messages to an entry, or takes an expired one out.   *)
LEMMA SaveTurnStore ==
  ASSUME TypeOK, NEW t \in Tasks,
         store' = AfterSaveTurn(store, task[t].sid, now, t, task[t].text)
  PROVE  DOMAIN store' \subseteq DOMAIN store /\ store' \in [DOMAIN store' -> Entries]
<1> DEFINE s == task[t].sid
<1>1. CASE s \in Live(store, now)
  <2>1. s \in DOMAIN store /\ store[s] \in Entries /\ task[t].text \in Seq(Nat)
    BY <1>1 DEF Live, TypeOK, Executions
  <2>2. PICK v, p : v = View(store[s]) /\ p = <<HumanMessage(t), AIMessage(t, task[t].text)>>
    OBVIOUS
  <2>3. HumanMessage(t) \in Messages /\ AIMessage(t, task[t].text) \in Messages
    BY <2>1, MessageTypes
  <2>4. v \in Seq(Messages) /\ p \in Seq(Messages)
    BY <2>1, <2>2, <2>3, ViewType DEF Entries
  <2>5. v \o p \in Seq(Messages)
    BY <2>4, ConcatProperties
  <2>6. PICK h : h = v \o p
    OBVIOUS
  <2>7. store' = [store EXCEPT ![s].history = h] /\ h \in Seq(Messages)
    BY <1>1, <2>1, <2>2, <2>5, <2>6 DEF AfterSaveTurn, AfterUpdateHistory
  <2> QED
    BY <2>1, <2>7 DEF TypeOK, Entries
<1>2. CASE s \notin Live(store, now)
  BY <1>2, StoreSmaller, SmallerTypes DEF AfterSaveTurn
<1> QED
  BY <1>1, <1>2

(* Every step keeps the types.                                             *)
LEMMA TypeOKNext == TypeOK /\ [Next]_vars => TypeOK'
<1> SUFFICES ASSUME TypeOK, [Next]_vars PROVE TypeOK'
  OBVIOUS
<1>0. /\ task \in [Tasks -> Executions] /\ events \in [Tasks -> Seq(EventKinds)]
      /\ store \in [DOMAIN store -> Entries] /\ now \in now..MaxTime
  BY TypesKept DEF TypeOK, EventKinds
<1>1. CASE UNCHANGED vars
  BY <1>0, <1>1, OthersTypes DEF vars, counts
<1>2. CASE Tick
  <2>1. now' \in now..MaxTime
    BY <1>2, ContextAssumption DEF Tick, TypeOK
  <2> QED
    BY <1>0, <1>2, <2>1, OthersTypes DEF Tick, counts
<1>3. CASE DeleteSession
  BY <1>0, <1>3, StoreSmaller, SmallerTypes, OthersTypes DEF DeleteSession, counts
<1>4. ASSUME NEW t \in Tasks, Start(t)
      PROVE  TypeOK'
  <2>1. task' \in [Tasks -> Executions]
    BY <1>4, Started
  <2>2. events' \in [Tasks -> Seq(EventKinds)]
    BY <1>4, Enqueued DEF Start, EventKinds
  <2> QED
    BY <1>0, <1>4, <2>1, <2>2, OthersTypes DEF Start, counts
<1>5. ASSUME NEW t \in Tasks, EmptyInput(t) \/ Complete(t) \/ Fail(t)
      PROVE  TypeOK'
  <2>1. task' \in [Tasks -> Executions]
    BY <1>5, Moved DEF EmptyInput, Complete, Fail
  <2>2. events' \in [Tasks -> Seq(EventKinds)]
    BY <1>5, Enqueued DEF EmptyInput, Complete, Fail, EventKinds, TerminalEvents
  <2> QED
    BY <1>0, <1>5, <2>1, <2>2, OthersTypes DEF EmptyInput, Complete, Fail, counts
<1>6. ASSUME NEW t \in Tasks, TextChunk(t)
      PROVE  TypeOK'
  <2>1. task' \in [Tasks -> Executions]
    BY <1>6, TextAdded
  <2>2. events' \in [Tasks -> Seq(EventKinds)]
    BY <1>6, Enqueued DEF TextChunk, EventKinds
  <2> QED
    BY <1>0, <1>6, <2>1, <2>2, OthersTypes DEF TextChunk, counts
<1>7. ASSUME NEW t \in Tasks, SaveTurn(t)
      PROVE  TypeOK'
  <2>1. task' \in [Tasks -> Executions]
    BY <1>7, Moved DEF SaveTurn
  <2>2. DOMAIN store' \subseteq DOMAIN store /\ store' \in [DOMAIN store' -> Entries]
    BY <1>7, SaveTurnStore DEF SaveTurn
  <2> QED
    BY <1>0, <1>7, <2>1, <2>2, OthersTypes DEF SaveTurn, counts
<1>8. ASSUME NEW t \in Tasks, Cancel(t)
      PROVE  TypeOK'
  <2>1. events' \in [Tasks -> Seq(EventKinds)]
    BY <1>8, Enqueued DEF Cancel, EventKinds, TerminalEvents
  <2> QED
    BY <1>0, <1>8, <2>1, OthersTypes DEF Cancel, counts
<1>9. ASSUME NEW t \in Tasks, Kill(t)
      PROVE  TypeOK'
  <2>1. task' \in [Tasks -> Executions]
    BY <1>9, Moved DEF Kill
  <2> QED
    BY <1>0, <1>9, <2>1, OthersTypes DEF Kill, counts
<1>10. ASSUME NEW t \in Tasks, Admit(t)
       PROVE  TypeOK'
  BY <1>10, AdmitIsTo, AdmitEffect
<1> QED
  BY <1>1, <1>2, <1>3, <1>4, <1>5, <1>6, <1>7, <1>8, <1>9, <1>10 DEF Next, Run

(***************************************************************************)
(* The queues                                                              *)
(***************************************************************************)
(* QueueOrder of one task, and what has been reported at each pc.          *)
QueueOk(t) ==
  /\ \A i \in DOMAIN events[t] : events[t][i] = "task" <=> i = 1
  /\ \A i, j \in DOMAIN events[t] :
       events[t][i] \in {"completed", "failed"} /\ j > i => events[t][j] = "canceled"
  /\ task[t].pc = "idle" <=> DOMAIN events[t] = {}
  /\ task[t].pc \in {"idle", "started", "streaming"} =>
       \A i \in DOMAIN events[t] : events[t][i] \notin {"completed", "failed"}
  /\ task[t].pc = "saving" => Reported(t)

(* The text of a task is numbered as its artifacts are.                    *)
TextOk(t) ==
  /\ IsFiniteSet(Artifacts(t))
  /\ task[t].text = [k \in 1..Cardinality(Artifacts(t)) |-> k]

(* The invariant of the queues.                                            *)
Queues == \A t \in Tasks : QueueOk(t) /\ TextOk(t)

(* The queue of a task is given an event that its pc allows.               *)
LEMMA QueueGrows ==
  ASSUME TypeOK, NEW t \in Tasks, QueueOk(t), NEW e \in EventKinds, Enqueue(t, e),
         (e = "task") <=> (task[t].pc = "idle"),
         e = "canceled" \/ task[t].pc \in {"idle", "started", "streaming"},
         task'[t].pc # "idle",
         task'[t].pc \in {"started", "streaming"} =>
           e \notin {"completed", "failed"} /\ task[t].pc \in {"idle", "started", "streaming"},
         task'[t].pc = "saving" => e = "completed" \/ task[t].pc = "saving"
  PROVE  QueueOk(t)'
<1> DEFINE n == Len(events[t])
<1>1. /\ n \in Nat /\ DOMAIN events[t] = 1..n /\ DOMAIN events'[t] = 1..(n + 1)
      /\ events'[t][n + 1] = e /\ \A i \in 1..n : events'[t][i] = events[t][i]
  BY Enqueued
<1> HIDE DEF n
<1>2. \A i \in 1..(n + 1) : i \in 1..n \/ i = n + 1
  BY <1>1
<1>3. task[t].pc = "idle" <=> n = 0
  BY <1>1 DEF QueueOk
<1>4. \A i \in DOMAIN events'[t] : events'[t][i] = "task" <=> i = 1
  <2> SUFFICES ASSUME NEW i \in 1..(n + 1)
               PROVE  events'[t][i] = "task" <=> i = 1
    BY <1>1
  <2>1. CASE i \in 1..n
    BY <1>1, <2>1 DEF QueueOk
  <2>2. CASE i = n + 1
    <3>1. i = 1 <=> n = 0
      BY <1>1, <2>2
    <3> QED
      BY <1>1, <1>3, <2>2, <3>1
  <2> QED
    BY <1>2, <2>1, <2>2
<1>5. \A i, j \in DOMAIN events'[t] :
        events'[t][i] \in {"completed", "failed"} /\ j > i => events'[t][j] = "canceled"
  <2> SUFFICES ASSUME NEW i \in 1..(n + 1), NEW j \in 1..(n + 1),
                      events'[t][i] \in {"completed", "failed"}, j > i
               PROVE  events'[t][j] = "canceled"
    BY <1>1
  <2>1. i \in 1..n
    BY <1>1
  <2>2. CASE j \in 1..n
    BY <1>1, <2>1, <2>2 DEF QueueOk
  <2>3. CASE j = n + 1
    <3>1. events[t][i] \in {"completed", "failed"}
      BY <1>1, <2>1
    <3>2. task[t].pc \notin {"idle", "started", "streaming"}
      BY <1>1, <2>1, <3>1 DEF QueueOk
    <3> QED
      BY <1>1, <2>3, <3>2
  <2> QED
    BY <1>2, <2>2, <2>3
<1>6. task'[t].pc \in {"idle", "started", "streaming"} =>
        \A i \in DOMAIN events'[t] : events'[t][i] \notin {"completed", "failed"}
  <2> SUFFICES ASSUME task'[t].pc \in {"started", "streaming"}, NEW i \in 1..(n + 1)
               PROVE  events'[t][i] \notin {"completed", "failed"}
    BY <1>1
  <2> QED
    BY <1>1, <1>2 DEF QueueOk
<1>7. task'[t].pc = "saving" => Reported(t)'
  <2> SUFFICES ASSUME task'[t].pc = "saving"
               PROVE  \E i \in 1..(n + 1) : events'[t][i] = "completed"
    BY <1>1 DEF Reported
  <2>1. CASE e = "completed"
    <3>1. n + 1 \in 1..(n + 1)
      BY <1>1
    <3> QED
      BY <1>1, <2>1, <3>1
  <2>2. CASE task[t].pc = "saving"
    <3>1. PICK i \in 1..n : events[t][i] = "completed"
      BY <1>1, <2>2 DEF QueueOk, Reported
    <3>2. i \in 1..(n + 1)
      BY <1>1
    <3> QED
      BY <1>1, <3>1, <3>2
  <2> QED
    BY <2>1, <2>2
<1>8. (task'[t].pc = "idle") <=> (DOMAIN events'[t] = {})
  <2>1. 1 \in DOMAIN events'[t]
    BY <1>1
  <2> QED
    BY <2>1
<1> QED
  BY <1>4, <1>5, <1>6, <1>7, <1>8 DEF QueueOk

(* The artifacts of a task are counted by its text.                        *)
LEMMA ArtifactsGrow ==
  ASSUME TypeOK, NEW t \in Tasks, TextOk(t), NEW e \in EventKinds, Enqueue(t, e)
  PROVE  /\ IsFiniteSet(Artifacts(t)')
         /\ e # "artifact" => Artifacts(t)' = Artifacts(t)
         /\ e = "artifact" => Cardinality(Artifacts(t)') = Cardinality(Artifacts(t)) + 1
         /\ Cardinality(Artifacts(t)) \in Nat
<1> DEFINE n == Len(events[t])
<1>1. /\ n \in Nat /\ DOMAIN events[t] = 1..n /\ DOMAIN events'[t] = 1..(n + 1)
      /\ events'[t][n + 1] = e /\ \A i \in 1..n : events'[t][i] = events[t][i]
  BY Enqueued
<1> HIDE DEF n
<1>2. IsFiniteSet(Artifacts(t)) /\ Cardinality(Artifacts(t)) \in Nat
  BY FS_CardinalityType DEF TextOk
<1>3. n + 1 \notin Artifacts(t)
  BY <1>1 DEF Artifacts
<1>4. Artifacts(t)' = IF e = "artifact" THEN Artifacts(t) \cup {n + 1} ELSE Artifacts(t)
  <2>1. 1..(n + 1) = 1..n \cup {n + 1}
    BY <1>1
  <2> QED
    BY <1>1, <2>1 DEF Artifacts
<1>5. IsFiniteSet(Artifacts(t) \cup {n + 1})
      /\ Cardinality(Artifacts(t) \cup {n + 1}) = Cardinality(Artifacts(t)) + 1
  BY <1>2, <1>3, FS_AddElement
<1> QED
  BY <1>2, <1>4, <1>5

(* The queue and the text of a task stay as they were.                     *)
LEMMA QueueSame ==
  ASSUME NEW t, QueueOk(t), TextOk(t), events'[t] = events[t], task'[t].text = task[t].text,
         \/ task'[t].pc = task[t].pc
         \/ task'[t].pc \in {"done", "killed"} /\ task[t].pc # "idle"
         \/ task'[t].pc = "streaming" /\ task[t].pc = "started"
  PROVE  QueueOk(t)' /\ TextOk(t)'
<1>1. Artifacts(t)' = Artifacts(t) /\ Reported(t)' = Reported(t)
  BY DEF Artifacts, Reported
<1> QED
  BY <1>1 DEF QueueOk, TextOk

(* An event that is no artifact leaves the numbering of the text.          *)
LEMMA TextSame ==
  ASSUME TypeOK, NEW t \in Tasks, TextOk(t), NEW e \in EventKinds, Enqueue(t, e),
         e # "artifact", task'[t].text = task[t].text
  PROVE  TextOk(t)'
BY ArtifactsGrow DEF TextOk

(* The initial states.                                                     *)
LEMMA QueuesInit == Init => Queues
<1> SUFFICES ASSUME Init, NEW t \in Tasks PROVE QueueOk(t) /\ TextOk(t)
  BY DEF Queues
<1>1. events[t] = <<>> /\ DOMAIN events[t] = {} /\ task[t].pc = "idle" /\ task[t].text = <<>>
  BY DEF Init, Idle
<1>2. Artifacts(t) = {}
  BY <1>1 DEF Artifacts
<1>3. IsFiniteSet({}) /\ Cardinality({}) = 0
  BY FS_EmptySet
<1>4. [k \in 1..0 |-> k] = <<>>
  OBVIOUS
<1> QED
  BY <1>1, <1>2, <1>3, <1>4 DEF QueueOk, TextOk

(* Every step keeps the invariant of the queues.                           *)
LEMMA QueuesNext == TypeOK /\ Queues /\ [Next]_vars => Queues'
<1> SUFFICES ASSUME TypeOK, Queues, [Next]_vars PROVE Queues'
  OBVIOUS
<1>1. ASSUME UNCHANGED <<events, task>>
      PROVE  Queues'
  BY <1>1, QueueSame DEF Queues
<1>2. ASSUME NEW t \in Tasks, QueueOk(t)', TextOk(t)',
             \A u \in Tasks : u # t => task'[u] = task[u] /\ events'[u] = events[u]
      PROVE  Queues'
  <2> SUFFICES ASSUME NEW u \in Tasks PROVE QueueOk(u)' /\ TextOk(u)'
    BY DEF Queues
  <2> QED
    BY <1>2, QueueSame DEF Queues
<1>3. ASSUME NEW t \in Tasks, Start(t)
      PROVE  Queues'
  <2>1. Enqueue(t, "task") /\ task[t].pc = "idle" /\ "task" \in EventKinds
    BY <1>3 DEF Start, EventKinds
  <2>2. /\ \A u \in Tasks : u # t => task'[u] = task[u]
        /\ task'[t].pc = "started" /\ task'[t].text = task[t].text
    BY <1>3, Started
  <2>3. QueueOk(t) /\ TextOk(t)
    BY DEF Queues
  <2>4. QueueOk(t)'
    BY <2>1, <2>2, <2>3, QueueGrows
  <2>5. TextOk(t)'
    BY <2>1, <2>2, <2>3, TextSame
  <2> QED
    BY <1>2, <2>1, <2>2, <2>4, <2>5, Enqueued
<1>4. ASSUME NEW t \in Tasks, NEW e \in {"failed", "completed"}, NEW pc \in {"saving", "done"},
             Enqueue(t, e), Goto(t, pc), task[t].pc \in {"started", "streaming"},
             pc = "saving" => e = "completed"
      PROVE  Queues'
  <2>1. e \in EventKinds
    BY DEF EventKinds, TerminalEvents
  <2>2. /\ \A u \in Tasks : u # t => task'[u] = task[u]
        /\ task'[t].pc = pc /\ task'[t].text = task[t].text
    BY <1>4, Moved
  <2>3. QueueOk(t) /\ TextOk(t)
    BY DEF Queues
  <2>4. QueueOk(t)'
    BY <1>4, <2>1, <2>2, <2>3, QueueGrows
  <2>5. TextOk(t)'
    BY <1>4, <2>1, <2>2, <2>3, TextSame
  <2> QED
    BY <1>2, <1>4, <2>1, <2>2, <2>4, <2>5, Enqueued
<1>5. ASSUME NEW t \in Tasks, EmptyInput(t) \/ Complete(t) \/ Fail(t)
      PROVE  Queues'
  BY <1>4, <1>5 DEF EmptyInput, Complete, Fail
<1>6. ASSUME NEW t \in Tasks, TextChunk(t)
      PROVE  Queues'
  <2>1. Enqueue(t, "artifact") /\ task[t].pc = "streaming" /\ "artifact" \in EventKinds
    BY <1>6 DEF TextChunk, EventKinds
  <2>2. /\ \A u \in Tasks : u # t => task'[u] = task[u]
        /\ task'[t].pc = "streaming"
        /\ task'[t].text = Append(task[t].text, Len(task[t].text) + 1)
    BY <1>6, TextAdded
  <2>3. QueueOk(t) /\ TextOk(t)
    BY DEF Queues
  <2>4. QueueOk(t)'
    BY <2>1, <2>2, <2>3, QueueGrows
  <2>5. TextOk(t)'
    <3>1. PICK n : n = Cardinality(Artifacts(t))
      OBVIOUS
    <3>2. /\ IsFiniteSet(Artifacts(t)') /\ Cardinality(Artifacts(t)') = n + 1 /\ n \in Nat
      BY <2>1, <2>3, <3>1, ArtifactsGrow
    <3>3. task[t].text = [k \in 1..n |-> k]
      BY <2>3, <3>1 DEF TextOk
    <3>4. Append([k \in 1..n |-> k], Len([k \in 1..n |-> k]) + 1) = [k \in 1..(n + 1) |-> k]
      BY <3>2
    <3> QED
      BY <2>2, <3>2, <3>3, <3>4 DEF TextOk
  <2> QED
    BY <1>2, <2>1, <2>2, <2>4, <2>5, Enqueued
<1>7. ASSUME NEW t \in Tasks, Cancel(t)
      PROVE  Queues'
  <2>1. Enqueue(t, "canceled") /\ task[t].pc # "idle" /\ "canceled" \in EventKinds /\ task' = task
    BY <1>7 DEF Cancel, EventKinds, TerminalEvents
  <2>2. QueueOk(t) /\ TextOk(t)
    BY DEF Queues
  <2>3. QueueOk(t)'
    BY <2>1, <2>2, QueueGrows
  <2>4. TextOk(t)'
    BY <2>1, <2>2, TextSame
  <2> QED
    BY <1>2, <2>1, <2>3, <2>4, Enqueued
<1>8. ASSUME NEW t \in Tasks, SaveTurn(t) \/ Kill(t)
      PROVE  Queues'
  <2>1. PICK pc \in {"done", "killed"} : Goto(t, pc)
    BY <1>8 DEF SaveTurn, Kill
  <2>2. /\ \A u \in Tasks : u # t => task'[u] = task[u]
        /\ task'[t].pc = pc /\ task'[t].text = task[t].text
    BY <2>1, Moved
  <2>3. task[t].pc # "idle" /\ events' = events
    BY <1>8 DEF SaveTurn, Kill
  <2> QED
    BY <1>2, <2>2, <2>3, QueueSame DEF Queues
<1>9. ASSUME NEW t \in Tasks, Admit(t)
      PROVE  Queues'
  <2>1. PICK s, sessions : s \in SessionIds /\ AdmitTo(t, s, sessions)
    BY <1>9, AdmitIsTo
  <2>2. /\ \A u \in Tasks : u # t => task'[u] = task[u]
        /\ task'[t].pc = "streaming" /\ task'[t].text = task[t].text
        /\ events' = events /\ task[t].pc = "started"
    BY <2>1, AdmitEffect DEF AdmitTo
  <2> QED
    BY <1>2, <2>2, QueueSame DEF Queues
<1>10. CASE Tick \/ DeleteSession \/ UNCHANGED vars
  BY <1>1, <1>10 DEF Tick, DeleteSession, vars
<1> QED
  BY <1>3, <1>5, <1>6, <1>7, <1>8, <1>9, <1>10 DEF Next, Run

(* Clients see a queue in its order, whatever is cancelled, killed or      *)
(* deleted: the Task first, at most one end of the execution, no artifact  *)
(* after it (executor.py:57-67, 117-163).                                  *)
THEOREM QueuesAreSound == Spec => []QueueSound
<1>1. TypeOK /\ Queues => QueueSound
  <2> SUFFICES ASSUME TypeOK, Queues PROVE QueueOrder
    BY DEF QueueSound
  <2> QED
    BY DEF QueueOrder, Queues, QueueOk
<1>2. TypeOK /\ Queues /\ [Next]_vars => (TypeOK /\ Queues)'
  BY TypeOKNext, QueuesNext
<1> QED
  BY InitTypes, QueuesInit, <1>1, <1>2, PTL DEF Spec

(***************************************************************************)
(* Routes                                                                  *)
(***************************************************************************)
(* A step that admits no task leaves the routes as they are.               *)
SameRoute(t) ==
  /\ task'[t].sid = task[t].sid /\ task'[t].history = task[t].history
  /\ task'[t].bound = task[t].bound
  /\ task'[t].ctx = task[t].ctx \/ task[t].pc = "idle"
  /\ task'[t].pc \in {"idle", "started"} => task[t].pc \in {"idle", "started"}

(* A step that admits nobody.                                              *)
NoneAdmitted ==
  UNCHANGED <<created, contexts, counts>> /\ \A t \in Tasks : SameRoute(t)

(* It is enough to look at the task that steps.                            *)
LEMMA OthersSameRoute ==
  ASSUME NEW t \in Tasks, SameRoute(t), \A u \in Tasks : u # t => task'[u] = task[u]
  PROVE  \A u \in Tasks : SameRoute(u)
BY DEF SameRoute

(* Every step is one of the two.                                           *)
LEMMA AdmitsOrNone ==
  ASSUME TypeOK, [Next]_vars
  PROVE  NoneAdmitted \/ \E t \in Tasks : Admit(t)
<1>1. CASE Tick \/ DeleteSession \/ UNCHANGED vars
  BY <1>1 DEF Tick, DeleteSession, vars, NoneAdmitted, SameRoute
<1>2. ASSUME NEW t \in Tasks, Start(t)
      PROVE  NoneAdmitted
  <2>1. SameRoute(t)
    BY <1>2, Started DEF Start, SameRoute
  <2> QED
    BY <1>2, <2>1, Started, OthersSameRoute DEF Start, NoneAdmitted
<1>3. ASSUME NEW t \in Tasks, EmptyInput(t) \/ Complete(t) \/ SaveTurn(t) \/ Fail(t) \/ Kill(t)
      PROVE  NoneAdmitted
  <2>1. PICK pc \in {"saving", "done", "killed"} : Goto(t, pc)
    BY <1>3 DEF EmptyInput, Complete, SaveTurn, Fail, Kill
  <2>2. SameRoute(t)
    BY <2>1, Moved DEF SameRoute
  <2>3. \A u \in Tasks : u # t => task'[u] = task[u]
    BY <2>1, Moved
  <2>4. UNCHANGED <<created, contexts, counts>>
    BY <1>3 DEF EmptyInput, Complete, SaveTurn, Fail, Kill
  <2> QED
    BY <2>2, <2>3, <2>4, OthersSameRoute DEF NoneAdmitted
<1>4. ASSUME NEW t \in Tasks, TextChunk(t)
      PROVE  NoneAdmitted
  <2>1. SameRoute(t)
    BY <1>4, TextAdded DEF TextChunk, SameRoute
  <2> QED
    BY <1>4, <2>1, TextAdded, OthersSameRoute DEF TextChunk, NoneAdmitted
<1>5. ASSUME NEW t \in Tasks, Cancel(t)
      PROVE  NoneAdmitted
  BY <1>5 DEF Cancel, NoneAdmitted, SameRoute
<1> QED
  BY <1>1, <1>2, <1>3, <1>4, <1>5 DEF Next, Run

(* The bindings and the sessions: a task has a session once it was         *)
(* admitted, a session is bound by one context only, and a task's session  *)
(* is its context's, or was bound ContextTTL before the present binding.   *)
Routed(t) ==
  /\ task[t].ctx \in DOMAIN contexts
  /\ \/ /\ task[t].sid = contexts[task[t].ctx].sid
        /\ task[t].bound = contexts[task[t].ctx].created
     \/ contexts[task[t].ctx].created - task[t].bound >= ContextTTL

(* The invariant of the routes: a task that was not admitted has no        *)
(* session and no history, contexts share no session, and the two          *)
(* statements of ContextsKeepSessions.                                     *)
Routes ==
  /\ \A t \in Tasks : task[t].pc \in {"idle", "started"} =>
       task[t].sid = NoSession /\ task[t].history = <<>>
  /\ \A c, d \in DOMAIN contexts : contexts[c].sid = contexts[d].sid => c = d
  /\ \A t \in Tasks : task[t].sid # NoSession => Routed(t)
  /\ ContextsApart
  /\ OneSessionPerBinding

(* The initial states.                                                     *)
LEMMA RoutesInit == Init => Routes
BY DEF Init, Idle, Routes, ContextsApart, OneSessionPerBinding

(* Steps that admit nobody keep the routes.                                *)
LEMMA RoutesKept == TypeOK /\ Routes /\ NoneAdmitted => Routes'
<1> SUFFICES ASSUME TypeOK, Routes, NoneAdmitted PROVE Routes'
  OBVIOUS
<1>1. /\ contexts' = contexts
      /\ \A t \in Tasks : /\ task'[t].sid = task[t].sid /\ task'[t].bound = task[t].bound
                          /\ task[t].sid # NoSession => task'[t].ctx = task[t].ctx
                          /\ task'[t].pc \in {"idle", "started"} =>
                               task[t].sid = NoSession /\ task'[t].history = <<>>
  BY DEF NoneAdmitted, SameRoute, Routes
<1>2. \A t \in Tasks, c \in DOMAIN contexts :
        task[t].sid = contexts[c].sid => task[t].sid # NoSession
  BY ContextAssumption DEF TypeOK, Bindings
<1>3. ContextsApart'
  BY <1>1, <1>2 DEF Routes, ContextsApart
<1>4. OneSessionPerBinding'
  BY <1>1 DEF Routes, OneSessionPerBinding
<1> QED
  BY <1>1, <1>3, <1>4 DEF Routes, Routed

(* What admitting a task does to its context's binding.                    *)
LEMMA AdmitRoute ==
  ASSUME TypeOK, Routes, NEW t \in Tasks, NEW s \in SessionIds, NEW sessions,
         AdmitTo(t, s, sessions)
  PROVE  LET c == task[t].ctx
         IN  /\ DOMAIN contexts' = DOMAIN contexts \cup {c}
             /\ \A d \in DOMAIN contexts : d # c => contexts'[d] = contexts[d]
             /\ \/ c \in DOMAIN contexts /\ contexts'[c] = contexts[c]
                \/ /\ s \notin created
                   /\ c \in DOMAIN contexts =>
                        contexts'[c].created - contexts[c].created >= ContextTTL
<1> DEFINE c == task[t].ctx
<1>1. CASE Reuses(t, s, sessions)
  BY <1>1 DEF Reuses, Fresh
<1>2. CASE Opens(t, s, sessions)
  <2>1. contexts' = [x \in DOMAIN contexts \cup {c} |->
                       IF x = c THEN [sid |-> s, created |-> now] ELSE contexts[x]]
    BY <1>2 DEF Opens, Bound
  <2>2. c \in DOMAIN contexts => now - contexts[c].created >= ContextTTL
    <3>1. c \in DOMAIN contexts => contexts[c] \in Bindings
      BY DEF TypeOK
    <3> QED
      BY <1>2, <3>1, ContextAssumption DEF Opens, Fresh, TypeOK, Bindings
  <2> QED
    BY <1>2, <2>1, <2>2 DEF Opens
<1> QED
  BY <1>1, <1>2, Resolved

(* Admitting a task keeps the routes, whether its binding is fresh or not. *)
LEMMA RoutesAdmit ==
  ASSUME TypeOK, Routes, NEW t \in Tasks, Admit(t)
  PROVE  Routes'
<1>1. PICK s, sessions : s \in SessionIds /\ AdmitTo(t, s, sessions)
  BY AdmitIsTo
<1> DEFINE c == task[t].ctx
<1>2. /\ TypeOK' /\ s \in created' /\ created \subseteq created'
      /\ \A u \in Tasks : u # t => task'[u] = task[u]
      /\ task'[t].pc = "streaming" /\ task'[t].sid = s /\ task'[t].ctx = c
      /\ c \in DOMAIN contexts' /\ task'[t].bound = contexts'[c].created
      /\ contexts'[c].sid = s
  BY <1>1, AdmitEffect
<1>3. /\ DOMAIN contexts' = DOMAIN contexts \cup {c}
      /\ \A d \in DOMAIN contexts : d # c => contexts'[d] = contexts[d]
      /\ \/ c \in DOMAIN contexts /\ contexts'[c] = contexts[c]
         \/ /\ s \notin created
            /\ c \in DOMAIN contexts => contexts'[c].created - contexts[c].created >= ContextTTL
  BY <1>1, AdmitRoute
<1>4. /\ task[t].sid = NoSession /\ s # NoSession
      /\ \A u \in Tasks : task[u].sid \in created \cup {NoSession} /\ task[u].bound \in Int
                          /\ task'[u].bound \in Int
      /\ \A d \in DOMAIN contexts : contexts[d].sid \in created /\ contexts[d].created \in Int
      /\ \A d \in DOMAIN contexts' : contexts'[d].created \in Int
      /\ ContextTTL \in Nat
  <2>1. /\ \A u \in Tasks : task[u] \in Executions /\ task'[u] \in Executions'
        /\ \A d \in DOMAIN contexts : contexts[d] \in Bindings
        /\ \A d \in DOMAIN contexts' : contexts'[d] \in Bindings'
    BY <1>2 DEF TypeOK
  <2>2. \A u \in Tasks : task[u].sid \in created \cup {NoSession} /\ task[u].bound \in Int
                          /\ task'[u].bound \in Int
    BY <2>1 DEF Executions
  <2>3. /\ \A d \in DOMAIN contexts : contexts[d].sid \in created /\ contexts[d].created \in Int
        /\ \A d \in DOMAIN contexts' : contexts'[d].created \in Int
    BY <2>1 DEF Bindings
  <2>4. task[t].sid = NoSession
    BY <1>1 DEF AdmitTo, Routes
  <2> QED
    BY <1>1, <2>2, <2>3, <2>4, ContextAssumption
<1>5. \A u \in Tasks : u # t /\ task[u].sid # NoSession => Routed(u)
  BY DEF Routes
<1> HIDE DEF c
<1>6. \A d, e \in DOMAIN contexts' : contexts'[d].sid = contexts'[e].sid => d = e
  <2>1. \A d \in DOMAIN contexts : d # c => contexts'[d].sid # s
    BY <1>2, <1>3, <1>4 DEF Routes
  <2> QED
    BY <1>2, <1>3, <1>4, <2>1 DEF Routes
<1>7. ASSUME NEW u \in Tasks, task'[u].sid # NoSession
      PROVE  Routed(u)'
  <2>1. CASE u = t
    BY <1>2, <2>1 DEF Routed
  <2>2. CASE u # t
    <3>1. task'[u] = task[u] /\ Routed(u)
      BY <1>2, <1>5, <1>7, <2>2
    <3>2. CASE task[u].ctx # c
      BY <1>3, <3>1, <3>2 DEF Routed
    <3>3. CASE task[u].ctx = c
      <4>1. CASE contexts'[c] = contexts[c]
        BY <1>3, <3>1, <3>3, <4>1 DEF Routed
      <4>2. CASE contexts'[c].created - contexts[c].created >= ContextTTL
        <5>1. contexts'[c].created - task[u].bound >= ContextTTL
          BY <1>2, <1>4, <3>1, <3>3, <4>2 DEF Routed
        <5> QED
          BY <1>2, <3>1, <3>3, <5>1 DEF Routed
      <4> QED
        BY <1>3, <3>1, <3>3, <4>1, <4>2 DEF Routed
    <3> QED
      BY <3>2, <3>3
  <2> QED
    BY <2>1, <2>2
<1>8. ContextsApart'
  <2>1. ASSUME NEW u \in Tasks, u # t, task[u].sid = s
        PROVE  task[u].ctx = c
    <3>1. s \in created
      BY <1>4, <2>1
    <3>2. c \in DOMAIN contexts /\ contexts[c].sid = s
      BY <1>2, <1>3, <3>1
    <3> QED
      BY <2>1, <3>2 DEF Routes, ContextsApart
  <2>2. \A u, v \in Tasks : task'[u].sid = task'[v].sid /\ task'[u].sid # NoSession =>
          task'[u].ctx = task'[v].ctx
    BY <1>2, <2>1 DEF Routes, ContextsApart
  <2>3. \A u \in Tasks, d \in DOMAIN contexts' :
          task'[u].sid = contexts'[d].sid => task'[u].ctx = d
    <3> SUFFICES ASSUME NEW u \in Tasks, NEW d \in DOMAIN contexts',
                        task'[u].sid = contexts'[d].sid
                 PROVE  task'[u].ctx = d
      OBVIOUS
    <3>1. CASE u = t
      BY <1>2, <1>6, <3>1
    <3>2. CASE u # t /\ d = c
      BY <1>2, <2>1, <3>2
    <3>3. CASE u # t /\ d # c
      BY <1>2, <1>3, <3>3 DEF Routes, ContextsApart
    <3> QED
      BY <3>1, <3>2, <3>3
  <2> QED
    BY <2>2, <2>3 DEF ContextsApart
<1>9. OneSessionPerBinding'
  <2>1. ASSUME NEW u \in Tasks, u # t, task'[u].sid # NoSession, task'[u].ctx = c,
               task'[u].sid # s
        PROVE  contexts'[c].created - task'[u].bound >= ContextTTL
    BY <1>2, <1>7, <2>1 DEF Routed
  <2> SUFFICES ASSUME NEW u \in Tasks, NEW v \in Tasks,
                      task'[u].sid # NoSession, task'[v].sid # NoSession,
                      task'[u].ctx = task'[v].ctx, task'[u].sid # task'[v].sid,
                      task'[u].bound <= task'[v].bound
               PROVE  task'[v].bound - task'[u].bound >= ContextTTL
    BY DEF OneSessionPerBinding
  <2>2. CASE v = t
    BY <1>2, <2>1, <2>2
  <2>3. CASE u = t
    BY <1>2, <1>4, <2>1, <2>3
  <2>4. CASE u # t /\ v # t
    <3>1. task'[u] = task[u] /\ task'[v] = task[v]
      BY <1>2, <2>4
    <3> QED
      BY <3>1 DEF Routes, OneSessionPerBinding
  <2> QED
    BY <2>2, <2>3, <2>4
<1>10. \A u \in Tasks : task'[u].pc \in {"idle", "started"} =>
         task'[u].sid = NoSession /\ task'[u].history = <<>>
  BY <1>2 DEF Routes
<1> QED
  BY <1>6, <1>7, <1>8, <1>9, <1>10 DEF Routes

(* Every step keeps the routes.                                            *)
LEMMA RoutesNext == TypeOK /\ Routes /\ [Next]_vars => Routes'
BY AdmitsOrNone, RoutesKept, RoutesAdmit

(* No session serves two contexts, and a context keeps its session for the *)
(* life of a binding, for every number of tasks that arrive at any time    *)
(* (context_repository.py:29-38).                                          *)
THEOREM SessionsAreKept == Spec => []ContextsKeepSessions
<1>1. TypeOK /\ Routes => ContextsKeepSessions
  BY DEF Routes, ContextsKeepSessions
<1>2. TypeOK /\ Routes /\ [Next]_vars => (TypeOK /\ Routes)'
  BY TypeOKNext, RoutesNext
<1> QED
  BY InitTypes, RoutesInit, <1>1, <1>2, PTL DEF Spec

(***************************************************************************)
(* Histories                                                               *)
(***************************************************************************)
Completed(t) == task[t].pc = "done" /\ Reported(t)

(* A step completes nothing, and leaves what was completed alone.          *)
KeepsEnd(t) ==
  /\ Completed(t)' <=> Completed(t)
  /\ Completed(t) => task'[t].sid = task[t].sid /\ task'[t].text = task[t].text

(* Other events do not report completion.                                  *)
LEMMA ReportedGrows ==
  ASSUME TypeOK, NEW t \in Tasks, NEW e \in EventKinds, Enqueue(t, e), e # "completed"
  PROVE  \A u \in Tasks : Reported(u)' <=> Reported(u)
<1>1. \A u \in Tasks : u # t => (Reported(u)' <=> Reported(u))
  BY Enqueued DEF Reported
<1>2. Reported(t)' <=> Reported(t)
  <2> DEFINE n == Len(events[t])
  <2>1. /\ n \in Nat /\ DOMAIN events[t] = 1..n /\ DOMAIN events'[t] = 1..(n + 1)
        /\ events'[t][n + 1] = e /\ \A i \in 1..n : events'[t][i] = events[t][i]
    BY Enqueued
  <2> HIDE DEF n
  <2>2. \A i \in 1..(n + 1) : i \in 1..n \/ i = n + 1
    BY <2>1
  <2>3. \A i \in 1..n : i \in 1..(n + 1)
    BY <2>1
  <2> QED
    BY <2>1, <2>2, <2>3 DEF Reported
<1> QED
  BY <1>1, <1>2

(* The steps that complete nothing.                                        *)
LEMMA EndsKept ==
  ASSUME TypeOK, Queues, [Next]_vars
  PROVE  \/ \A u \in Tasks : KeepsEnd(u)
         \/ \E t \in Tasks : SaveTurn(t)
<1>1. ASSUME UNCHANGED <<task, events>>
      PROVE  \A u \in Tasks : KeepsEnd(u)
  BY <1>1 DEF KeepsEnd, Completed, Reported
<1>2. ASSUME NEW t \in Tasks,
             \A u \in Tasks : u # t => task'[u] = task[u] /\ events'[u] = events[u],
             task[t].pc # "done", ~Completed(t)'
      PROVE  \A u \in Tasks : KeepsEnd(u)
  BY <1>2 DEF KeepsEnd, Completed, Reported
<1>3. ASSUME NEW t \in Tasks, Start(t)
      PROVE  \A u \in Tasks : KeepsEnd(u)
  <2>1. Enqueue(t, "task") /\ "task" \in EventKinds /\ task[t].pc = "idle"
    BY <1>3 DEF Start, EventKinds
  <2>2. task'[t].pc = "started" /\ \A u \in Tasks : u # t => task'[u] = task[u]
    BY <1>3, Started
  <2> QED
    BY <1>2, <2>1, <2>2, Enqueued DEF Completed
<1>4. ASSUME NEW t \in Tasks, EmptyInput(t) \/ Fail(t)
      PROVE  \A u \in Tasks : KeepsEnd(u)
  <2>1. /\ Enqueue(t, "failed") /\ "failed" \in EventKinds /\ Goto(t, "done")
        /\ task[t].pc \in {"started", "streaming"}
    BY <1>4 DEF EmptyInput, Fail, EventKinds, TerminalEvents
  <2>2. ~Reported(t)
    BY <2>1 DEF Queues, QueueOk, Reported
  <2>3. ~Reported(t)'
    BY <2>1, <2>2, ReportedGrows
  <2>4. \A u \in Tasks : u # t => task'[u] = task[u]
    BY <2>1, Moved
  <2> QED
    BY <1>2, <2>1, <2>3, <2>4, Enqueued DEF Completed
<1>5. ASSUME NEW t \in Tasks, Complete(t)
      PROVE  \A u \in Tasks : KeepsEnd(u)
  <2>1. /\ Enqueue(t, "completed") /\ "completed" \in EventKinds /\ Goto(t, "saving")
        /\ task[t].pc = "streaming"
    BY <1>5 DEF Complete, EventKinds, TerminalEvents
  <2>2. task'[t].pc = "saving" /\ \A u \in Tasks : u # t => task'[u] = task[u]
    BY <2>1, Moved
  <2> QED
    BY <1>2, <2>1, <2>2, Enqueued DEF Completed
<1>6. ASSUME NEW t \in Tasks, TextChunk(t)
      PROVE  \A u \in Tasks : KeepsEnd(u)
  <2>1. Enqueue(t, "artifact") /\ "artifact" \in EventKinds /\ task[t].pc = "streaming"
    BY <1>6 DEF TextChunk, EventKinds
  <2>2. task'[t].pc = "streaming" /\ \A u \in Tasks : u # t => task'[u] = task[u]
    BY <1>6, TextAdded
  <2> QED
    BY <1>2, <2>1, <2>2, Enqueued DEF Completed
<1>7. ASSUME NEW t \in Tasks, Cancel(t)
      PROVE  \A u \in Tasks : KeepsEnd(u)
  <2>1. Enqueue(t, "canceled") /\ "canceled" \in EventKinds /\ task' = task
    BY <1>7 DEF Cancel, EventKinds, TerminalEvents
  <2>2. \A u \in Tasks : Reported(u)' <=> Reported(u)
    BY <2>1, ReportedGrows
  <2> QED
    BY <2>1, <2>2 DEF KeepsEnd, Completed
<1>8. ASSUME NEW t \in Tasks, Kill(t)
      PROVE  \A u \in Tasks : KeepsEnd(u)
  <2>1. Goto(t, "killed") /\ events' = events /\ task[t].pc # "done"
    BY <1>8 DEF Kill
  <2>2. task'[t].pc = "killed" /\ \A u \in Tasks : u # t => task'[u] = task[u]
    BY <2>1, Moved
  <2> QED
    BY <1>2, <2>1, <2>2 DEF Completed
<1>9. ASSUME NEW t \in Tasks, Admit(t)
      PROVE  \A u \in Tasks : KeepsEnd(u)
  <2>1. PICK s, sessions : s \in SessionIds /\ AdmitTo(t, s, sessions)
    BY <1>9, AdmitIsTo
  <2>2. /\ task'[t].pc = "streaming" /\ \A u \in Tasks : u # t => task'[u] = task[u]
        /\ events' = events /\ task[t].pc = "started"
    BY <2>1, AdmitEffect DEF AdmitTo
  <2> QED
    BY <1>2, <2>2 DEF Completed
<1>10. CASE Tick \/ DeleteSession \/ UNCHANGED vars
  BY <1>1, <1>10 DEF Tick, DeleteSession, vars
<1> QED
  BY <1>3, <1>4, <1>5, <1>6, <1>7, <1>8, <1>9, <1>10 DEF Next, Run

(* The steps that write no history.                                        *)
LEMMA StoreSteps ==
  ASSUME TypeOK, [Next]_vars
  PROVE  Smaller(store') \/ \E t \in Tasks : SaveTurn(t) \/ Admit(t)
<1>1. CASE DeleteSession
  BY <1>1, StoreSmaller DEF DeleteSession
<1>2. ASSUME store' = store
      PROVE  Smaller(store')
  BY <1>2, StoreSmaller
<1> QED
  BY <1>1, <1>2 DEF Next, Run, vars, Tick, Start, EmptyInput, TextChunk, Complete, Fail,
                    Cancel, Kill

(* A history of session s: behind the system message, turns of completed   *)
(* tasks of s, each once, a question followed by the task's text.          *)
QuestionOk(s, h, i) ==
  LET u == h[i].turn
  IN  /\ u \in Tasks /\ Completed(u) /\ task[u].sid = s
      /\ h[i] = HumanMessage(u) /\ i + 1 \in DOMAIN h /\ h[i + 1] = AIMessage(u, task[u].text)

(* An answer belongs to a completed task and is what it sent.              *)
AnswerOk(s, h, i) ==
  LET u == h[i].turn
  IN  u \in Tasks /\ Completed(u) /\ task[u].sid = s /\ h[i].text = task[u].text

(* What is in a history, and that a question is there once.                *)
HistoryOk(s, h) ==
  /\ h # <<>> => h[1] = SystemMessage
  /\ \A i \in DOMAIN h : h[i].role = "human" => QuestionOk(s, h, i)
  /\ \A i \in DOMAIN h : h[i].role = "ai" => AnswerOk(s, h, i)
  /\ \A i, j \in DOMAIN h : h[i].role = "human" /\ h[i] = h[j] => i = j

(* A task's question is in a history.                                      *)
Asked(t, h) == \E i \in DOMAIN h : h[i] = HumanMessage(t)

(* The invariant of the histories: each is in order, and holds the turn of *)
(* every completed task whose session is still there.                      *)
Histories ==
  /\ \A s \in DOMAIN store : store[s].prompted = TRUE /\ HistoryOk(s, store[s].history)
  /\ \A t \in Tasks : Completed(t) /\ task[t].sid \in DOMAIN store =>
       Asked(t, store[task[t].sid].history)

(* A history stays in order while completed tasks stay as they are.        *)
LEMMA HistoryKept ==
  ASSUME NEW s, NEW h, HistoryOk(s, h),
         \A u \in Tasks : Completed(u) => /\ Completed(u)' /\ task'[u].sid = task[u].sid
                                          /\ task'[u].text = task[u].text
  PROVE  HistoryOk(s, h)'
<1>1. \A i \in DOMAIN h : QuestionOk(s, h, i) => QuestionOk(s, h, i)'
  BY DEF QuestionOk
<1>2. \A i \in DOMAIN h : AnswerOk(s, h, i) => AnswerOk(s, h, i)'
  BY DEF AnswerOk
<1> QED
  BY <1>1, <1>2 DEF HistoryOk

(* A turn is added at the end of a history.                                *)
TurnAdded(h, g, t, text) ==
  /\ Len(h) \in Nat /\ DOMAIN h = 1..Len(h) /\ DOMAIN g = 1..(Len(h) + 2)
  /\ \A i \in 1..Len(h) : g[i] = h[i]
  /\ g[Len(h) + 1] = HumanMessage(t) /\ g[Len(h) + 2] = AIMessage(t, text)

(* What save_turn() appends, index by index.                               *)
LEMMA TurnIsAdded ==
  ASSUME NEW M, NEW h \in Seq(M), NEW g, NEW t, NEW text,
         g = h \o <<HumanMessage(t), AIMessage(t, text)>>
  PROVE  TurnAdded(h, g, t, text)
<1>1. PICK a, b : a = HumanMessage(t) /\ b = AIMessage(t, text)
  OBVIOUS
<1>2. g = h \o <<a, b>>
  BY <1>1
<1>3. /\ Len(h) \in Nat /\ DOMAIN h = 1..Len(h) /\ DOMAIN g = 1..(Len(h) + 2)
      /\ \A i \in 1..Len(h) : g[i] = h[i]
      /\ g[Len(h) + 1] = a /\ g[Len(h) + 2] = b
  BY <1>2
<1> QED
  BY <1>1, <1>3 DEF TurnAdded

(* The turn of the task that completes keeps a history in order, and no    *)
(* other task's question is lost.                                          *)
LEMMA HistoryGrows ==
  ASSUME TypeOK, NEW t \in Tasks, NEW s, NEW h, NEW g, HistoryOk(s, h), Len(h) # 0,
         TurnAdded(h, g, t, task[t].text),
         \A u \in Tasks : Completed(u) => /\ Completed(u)' /\ task'[u].sid = task[u].sid
                                          /\ task'[u].text = task[u].text,
         ~Completed(t), Completed(t)', task'[t].sid = s, task'[t].text = task[t].text
  PROVE  HistoryOk(s, g)' /\ Asked(t, g) /\ \A u \in Tasks : Asked(u, h) => Asked(u, g)
<1> DEFINE n == Len(h)
<1>1. /\ n \in Nat /\ DOMAIN h = 1..n /\ DOMAIN g = 1..(n + 2) /\ n # 0
      /\ \A i \in 1..n : g[i] = h[i]
      /\ g[n + 1] = HumanMessage(t) /\ g[n + 2] = AIMessage(t, task[t].text)
  BY DEF TurnAdded
<1> HIDE DEF n
<1>2. /\ HumanMessage(t).role = "human" /\ AIMessage(t, task[t].text).role = "ai"
      /\ HumanMessage(t).turn = t /\ AIMessage(t, task[t].text).turn = t
      /\ AIMessage(t, task[t].text).text = task[t].text
  BY DEF HumanMessage, AIMessage, Message
<1>3. /\ \A i \in 1..(n + 2) : i \in 1..n \/ i = n + 1 \/ i = n + 2
      /\ \A i \in 1..n : i \in 1..(n + 2) /\ i # n + 1 /\ i # n + 2
      /\ n + 1 \in 1..(n + 2) /\ n + 2 \in 1..(n + 2) /\ n + 1 + 1 = n + 2 /\ n + 1 # n + 2
      /\ 1 \in 1..n
  BY <1>1
<1>4. HistoryOk(s, h)'
  BY HistoryKept
<1>5. \A i \in 1..n : h[i] # HumanMessage(t)
  BY <1>1, <1>2 DEF HistoryOk, QuestionOk
<1>6. ASSUME NEW i \in 1..(n + 2), g[i].role = "human"
      PROVE  QuestionOk(s, g, i)'
  <2>1. CASE i \in 1..n
    <3>1. QuestionOk(s, h, i)' /\ g[i] = h[i]
      BY <1>1, <1>4, <1>6, <2>1 DEF HistoryOk
    <3>2. i + 1 \in 1..n /\ g[i + 1] = h[i + 1]
      BY <1>1, <3>1 DEF QuestionOk
    <3>3. i + 1 \in DOMAIN g
      BY <1>1, <1>3, <3>2
    <3> QED
      BY <3>1, <3>2, <3>3 DEF QuestionOk
  <2>2. CASE i = n + 1
    BY <1>1, <1>2, <1>3, <2>2 DEF QuestionOk
  <2>3. CASE i = n + 2
    BY <1>1, <1>2, <1>6, <2>3
  <2> QED
    BY <1>3, <2>1, <2>2, <2>3
<1>7. ASSUME NEW i \in 1..(n + 2), g[i].role = "ai"
      PROVE  AnswerOk(s, g, i)'
  <2>1. CASE i \in 1..n
    BY <1>1, <1>4, <1>7, <2>1 DEF HistoryOk, AnswerOk
  <2>2. CASE i = n + 1
    BY <1>1, <1>2, <1>7, <2>2
  <2>3. CASE i = n + 2
    BY <1>1, <1>2, <2>3 DEF AnswerOk
  <2> QED
    BY <1>3, <2>1, <2>2, <2>3
<1>8. ASSUME NEW i \in 1..(n + 2), NEW j \in 1..(n + 2), g[i].role = "human", g[i] = g[j]
      PROVE  i = j
  <2>1. CASE i \in 1..n /\ j \in 1..n
    BY <1>1, <1>8, <2>1 DEF HistoryOk
  <2>2. CASE i = n + 1 /\ j \in 1..n
    BY <1>1, <1>5, <1>8, <2>2
  <2>3. CASE j = n + 1 /\ i \in 1..n
    BY <1>1, <1>5, <1>8, <2>3
  <2>4. i # n + 2 /\ j # n + 2
    BY <1>1, <1>2, <1>8
  <2> QED
    BY <1>3, <2>1, <2>2, <2>3, <2>4
<1>9. g # <<>> => g[1] = SystemMessage
  <2>1. h # <<>>
    BY <1>1, <1>3
  <2> QED
    BY <1>1, <1>3, <2>1 DEF HistoryOk
<1>10. HistoryOk(s, g)'
  BY <1>1, <1>6, <1>7, <1>8, <1>9 DEF HistoryOk
<1>11. Asked(t, g) /\ \A u \in Tasks : Asked(u, h) => Asked(u, g)
  BY <1>1, <1>3 DEF Asked
<1> QED
  BY <1>10, <1>11

(* The initial states: no history, and no completed task.                  *)
LEMMA HistoriesInit == Init => Histories
BY DEF Init, Idle, Histories, Completed

(* Sessions are taken out of the store, and at most a fresh one is put in  *)
(* that no task has.                                                       *)
LEMMA HistoriesKept ==
  ASSUME TypeOK, Histories, \A u \in Tasks : KeepsEnd(u),
         \A x \in DOMAIN store' : \/ x \in DOMAIN store /\ store'[x] = store[x]
                                  \/ /\ store'[x] = Entry(TRUE, now)
                                     /\ \A t \in Tasks : task[t].sid # x
  PROVE  Histories'
<1>1. ASSUME NEW x \in DOMAIN store'
      PROVE  store'[x].prompted = TRUE /\ HistoryOk(x, store[x].history)'
  <2>1. CASE x \in DOMAIN store /\ store'[x] = store[x]
    <3>1. PICK h : h = store[x].history
      OBVIOUS
    <3>2. HistoryOk(x, h)
      BY <2>1, <3>1 DEF Histories
    <3>3. HistoryOk(x, h)'
      BY <3>2, HistoryKept DEF KeepsEnd
    <3> QED
      BY <2>1, <3>1, <3>3 DEF Histories, HistoryOk, QuestionOk, AnswerOk
  <2>2. CASE store'[x] = Entry(TRUE, now)
    <3>1. store'[x].history = <<>> /\ store'[x].prompted = TRUE
      BY <2>2 DEF Entry
    <3>2. DOMAIN <<>> = {}
      OBVIOUS
    <3> QED
      BY <3>1, <3>2 DEF HistoryOk
  <2> QED
    BY <2>1, <2>2
<1>2. ASSUME NEW t \in Tasks, Completed(t)', task'[t].sid \in DOMAIN store'
      PROVE  Asked(t, store[task[t].sid].history)'
  <2>1. Completed(t) /\ task'[t].sid = task[t].sid
    BY <1>2 DEF KeepsEnd
  <2>2. task[t].sid \in DOMAIN store /\ store'[task[t].sid] = store[task[t].sid]
    BY <1>2, <2>1
  <2> QED
    BY <2>1, <2>2 DEF Histories, Asked
<1> QED
  BY <1>1, <1>2 DEF Histories

(* The history as save_turn() reads it, with the system message in front.  *)
LEMMA ViewOk ==
  ASSUME Histories, NEW s \in DOMAIN store
  PROVE  /\ HistoryOk(s, View(store[s])) /\ View(store[s]) # <<>>
         /\ View(store[s])[1] = SystemMessage
         /\ \A t : Asked(t, store[s].history) => Asked(t, View(store[s]))
<1>1. PICK h : h = store[s].history
  OBVIOUS
<1>2. HistoryOk(s, h) /\ store[s].prompted = TRUE
  BY <1>1 DEF Histories
<1>3. CASE h = <<>>
  <2>1. PICK v : v = <<SystemMessage>>
    OBVIOUS
  <2>2. DOMAIN v = {1} /\ v[1] = SystemMessage /\ v # <<>>
    BY <2>1
  <2>3. SystemMessage.role = "system"
    BY DEF SystemMessage, Message
  <2>4. HistoryOk(s, v)
    BY <2>2, <2>3 DEF HistoryOk
  <2>5. DOMAIN h = {}
    BY <1>3
  <2>6. \A t : ~Asked(t, h)
    BY <2>5 DEF Asked
  <2>7. View(store[s]) = v
    BY <1>1, <1>2, <1>3, <2>1 DEF View
  <2> QED
    BY <1>1, <2>2, <2>4, <2>6, <2>7
<1>4. CASE h # <<>>
  <2>1. View(store[s]) = h
    BY <1>1, <1>4 DEF View
  <2>2. h[1] = SystemMessage
    BY <1>2, <1>4 DEF HistoryOk
  <2> QED
    BY <1>1, <1>2, <1>4, <2>1, <2>2
<1> QED
  BY <1>3, <1>4

(* save_turn() is the step by which a task completes.                      *)
LEMMA SaveCompletes ==
  ASSUME TypeOK, Queues, NEW t \in Tasks, SaveTurn(t)
  PROVE  /\ ~Completed(t) /\ Completed(t)' /\ task'[t].sid = task[t].sid
         /\ task'[t].text = task[t].text
         /\ \A u \in Tasks : u # t => KeepsEnd(u)
         /\ \A u \in Tasks : Completed(u) => /\ Completed(u)' /\ task'[u].sid = task[u].sid
                                             /\ task'[u].text = task[u].text
<1>1. Goto(t, "done") /\ events' = events /\ task[t].pc = "saving"
  BY DEF SaveTurn
<1>2. /\ task'[t].pc = "done" /\ task'[t].sid = task[t].sid /\ task'[t].text = task[t].text
      /\ \A u \in Tasks : u # t => task'[u] = task[u]
  BY <1>1, Moved
<1>3. Reported(t)
  BY <1>1 DEF Queues, QueueOk
<1> QED
  BY <1>1, <1>2, <1>3 DEF KeepsEnd, Completed, Reported

(* save_turn() keeps the invariant: the turn is added once, or its session *)
(* is gone.                                                                *)
LEMMA HistoriesSaved ==
  ASSUME TypeOK, Queues, Histories, NEW t \in Tasks, SaveTurn(t)
  PROVE  Histories'
<1>1. PICK s : s = task[t].sid
  OBVIOUS
<1>2. /\ ~Completed(t) /\ Completed(t)' /\ task'[t].sid = s /\ task'[t].text = task[t].text
      /\ \A u \in Tasks : u # t => KeepsEnd(u)
      /\ \A u \in Tasks : Completed(u) => /\ Completed(u)' /\ task'[u].sid = task[u].sid
                                          /\ task'[u].text = task[u].text
  BY <1>1, SaveCompletes
<1>3. store' = AfterSaveTurn(store, s, now, t, task[t].text)
  BY <1>1 DEF SaveTurn
<1>4. ASSUME NEW x \in DOMAIN store, store'[x] = store[x]
      PROVE  store'[x].prompted = TRUE /\ HistoryOk(x, store[x].history)'
  <2>1. PICK h : h = store[x].history
    OBVIOUS
  <2>2. HistoryOk(x, h)
    BY <2>1 DEF Histories
  <2>3. HistoryOk(x, h)'
    BY <1>2, <2>2, HistoryKept
  <2> QED
    BY <1>4, <2>1, <2>3 DEF Histories, HistoryOk, QuestionOk, AnswerOk
<1>5. ASSUME NEW u \in Tasks, u # t, Completed(u)', NEW x \in DOMAIN store, x = task'[u].sid,
             store'[x] = store[x]
      PROVE  Asked(u, store[task[u].sid].history)'
  <2>1. Completed(u) /\ task'[u].sid = task[u].sid
    BY <1>2, <1>5 DEF KeepsEnd
  <2> QED
    BY <1>5, <2>1 DEF Histories, Asked
<1>6. CASE s \notin Live(store, now)
  <2>1. store' = AfterGet(store, s, now)
    BY <1>3, <1>6 DEF AfterSaveTurn
  <2>2. Smaller(store') /\ s \notin DOMAIN store'
    BY <1>6, <2>1, StoreSmaller
  <2>3. \A x \in DOMAIN store' : x \in DOMAIN store /\ store'[x] = store[x]
    BY <2>2 DEF Smaller
  <2> QED
    BY <1>2, <1>4, <1>5, <2>2, <2>3 DEF Histories
<1>7. CASE s \in Live(store, now)
  <2>1. s \in DOMAIN store /\ store[s] \in Entries /\ task[t].text \in Seq(Nat)
    BY <1>7 DEF Live, TypeOK, Executions
  <2>2. PICK v : v = View(store[s])
    OBVIOUS
  <2>3. v \in Seq(Messages) /\ HistoryOk(s, v) /\ v # <<>>
        /\ \A u : Asked(u, store[s].history) => Asked(u, v)
    BY <2>1, <2>2, ViewOk, ViewType DEF Entries
  <2>4. PICK g : g = v \o <<HumanMessage(t), AIMessage(t, task[t].text)>>
    OBVIOUS
  <2>5. TurnAdded(v, g, t, task[t].text)
    BY <2>3, <2>4, TurnIsAdded
  <2>6. Len(v) # 0
    BY <2>3
  <2>7. /\ HistoryOk(s, g)' /\ Asked(t, g)
        /\ \A u \in Tasks : Asked(u, v) => Asked(u, g)
    BY <1>2, <2>3, <2>5, <2>6, HistoryGrows
  <2>8. store' = [store EXCEPT ![s].history = g]
    BY <1>3, <1>7, <2>1, <2>2, <2>4 DEF AfterSaveTurn, AfterUpdateHistory
  <2>9. /\ DOMAIN store' = DOMAIN store /\ store'[s].history = g
        /\ store'[s].prompted = store[s].prompted
        /\ \A x \in DOMAIN store : x # s => store'[x] = store[x]
    BY <2>1, <2>8 DEF TypeOK, Entries
  <2>10. ASSUME NEW x \in DOMAIN store'
         PROVE  store'[x].prompted = TRUE /\ HistoryOk(x, store[x].history)'
    <3>1. CASE x = s
      BY <2>1, <2>7, <2>9, <3>1 DEF Histories, HistoryOk, QuestionOk, AnswerOk
    <3>2. CASE x # s
      BY <1>4, <2>9, <3>2
    <3> QED
      BY <3>1, <3>2
  <2>11. ASSUME NEW u \in Tasks, Completed(u)', task'[u].sid \in DOMAIN store'
         PROVE  Asked(u, store[task[u].sid].history)'
    <3>1. CASE u = t
      BY <1>2, <2>7, <2>9, <3>1 DEF Asked
    <3>2. CASE u # t /\ task'[u].sid = s
      <4>1. Completed(u) /\ task[u].sid = s
        BY <1>2, <2>11, <3>2 DEF KeepsEnd
      <4>2. Asked(u, g)
        BY <2>1, <2>3, <2>7, <4>1 DEF Histories
      <4> QED
        BY <2>9, <3>2, <4>2 DEF Asked
    <3>3. CASE u # t /\ task'[u].sid # s
      BY <1>5, <2>9, <2>11, <3>3
    <3> QED
      BY <3>1, <3>2, <3>3
  <2> QED
    BY <2>10, <2>11 DEF Histories
<1> QED
  BY <1>6, <1>7

(* Every step keeps the invariant of the histories.                        *)
LEMMA HistoriesNext == TypeOK /\ Queues /\ Histories /\ [Next]_vars => Histories'
<1> SUFFICES ASSUME TypeOK, Queues, Histories, [Next]_vars PROVE Histories'
  OBVIOUS
<1>1. ASSUME NEW t \in Tasks, SaveTurn(t)
      PROVE  Histories'
  BY <1>1, HistoriesSaved
<1>2. CASE \A t \in Tasks : ~SaveTurn(t)
  <2>1. \A u \in Tasks : KeepsEnd(u)
    BY <1>2, EndsKept
  <2>2. ASSUME NEW t \in Tasks, Admit(t)
        PROVE  Histories'
    <3>1. PICK s, sessions : s \in SessionIds /\ AdmitTo(t, s, sessions)
      BY <2>2, AdmitIsTo
    <3>2. \A x \in DOMAIN store' : \/ x \in DOMAIN store /\ store'[x] = store[x]
                                   \/ /\ x = s /\ s \notin created
                                      /\ store'[x] = Entry(TRUE, now)
      BY <3>1, AdmitEffect
    <3>3. s \notin created => \A u \in Tasks : task[u].sid # s
      BY <3>1, ContextAssumption DEF TypeOK, Executions
    <3> QED
      BY <2>1, <3>2, <3>3, HistoriesKept
  <2>3. CASE Smaller(store')
    <3>1. \A x \in DOMAIN store' : x \in DOMAIN store /\ store'[x] = store[x]
      BY <2>3 DEF Smaller
    <3> QED
      BY <2>1, <3>1, HistoriesKept
  <2> QED
    BY <1>2, <2>2, <2>3, StoreSteps
<1> QED
  BY <1>1, <1>2

(* The invariants together.                                                *)
LEMMA Inductive ==
  TypeOK /\ Queues /\ Routes /\ Histories /\ [Next]_vars =>
    (TypeOK /\ Queues /\ Routes /\ Histories)'
BY TypeOKNext, QueuesNext, RoutesNext, HistoriesNext

(* The history of a session is exactly the turns of the completed tasks:   *)
(* what was reported as completed is remembered while its session lives,   *)
(* and nothing else is, for any interleaving of the tasks of a context     *)
(* (executor.py:137-163).                                                  *)
THEOREM RememberedIsReported == Spec => []CompletedIffRemembered
<1>1. TypeOK /\ Queues /\ Histories => CompletedIffRemembered
  <2> SUFFICES ASSUME TypeOK, Queues, Histories PROVE CompletedIffRemembered
    OBVIOUS
  <2>1. OnlyCompletedRemembered
    <3> SUFFICES ASSUME NEW s \in DOMAIN store, NEW i \in DOMAIN store[s].history,
                        store[s].history[i].role = "ai"
                 PROVE  LET m == store[s].history[i]
                        IN  /\ "completed" \in ToSet(events[m.turn])
                            /\ m.text = [k \in 1..Cardinality(Artifacts(m.turn)) |-> k]
                            /\ task[m.turn].sid = s
      BY DEF OnlyCompletedRemembered
    <3>1. PICK u : u = store[s].history[i].turn
      OBVIOUS
    <3>2. /\ u \in Tasks /\ Completed(u) /\ task[u].sid = s
          /\ store[s].history[i].text = task[u].text
      BY <3>1 DEF Histories, HistoryOk, AnswerOk
    <3>3. "completed" \in ToSet(events[u])
      BY <3>2, ReportedSet DEF Completed
    <3>4. task[u].text = [k \in 1..Cardinality(Artifacts(u)) |-> k]
      BY <3>2 DEF Queues, TextOk
    <3> QED
      BY <3>1, <3>2, <3>3, <3>4
  <2>2. CompletedRemembered
    <3> SUFFICES ASSUME NEW t \in Tasks, task[t].pc = "done", "completed" \in ToSet(events[t]),
                        task[t].sid \in Live(store, now)
                 PROVE  LET h     == store[task[t].sid].history
                            asked == {i \in DOMAIN h : h[i] = HumanMessage(t)}
                        IN  \E i \in asked : /\ asked = {i} /\ i < Len(h)
                                             /\ h[i + 1] = AIMessage(t, task[t].text)
      BY DEF CompletedRemembered
    <3>1. PICK s, h : s = task[t].sid /\ h = store[s].history
      OBVIOUS
    <3>2. s \in DOMAIN store /\ h \in Seq(Messages) /\ Completed(t)
      <4>1. s \in DOMAIN store
        BY <3>1 DEF Live
      <4>2. store[s] \in Entries
        BY <4>1 DEF TypeOK
      <4> QED
        BY <3>1, <4>1, <4>2, ReportedSet DEF Entries, Completed
    <3>3. HistoryOk(s, h) /\ Asked(t, h)
      BY <3>1, <3>2 DEF Histories
    <3>4. PICK i \in DOMAIN h : h[i] = HumanMessage(t)
      BY <3>3 DEF Asked
    <3>5. HumanMessage(t).role = "human" /\ HumanMessage(t).turn = t
      BY DEF HumanMessage, Message
    <3>6. i + 1 \in DOMAIN h /\ h[i + 1] = AIMessage(t, task[t].text)
      BY <3>3, <3>4, <3>5 DEF HistoryOk, QuestionOk
    <3>7. i < Len(h)
      <4>1. DOMAIN h = 1..Len(h) /\ Len(h) \in Nat
        BY <3>2
      <4> QED
        BY <3>4, <3>6, <4>1
    <3>8. {j \in DOMAIN h : h[j] = HumanMessage(t)} = {i}
      BY <3>3, <3>4, <3>5 DEF HistoryOk
    <3> QED
      BY <3>1, <3>4, <3>6, <3>7, <3>8
  <2> QED
    BY <2>1, <2>2 DEF CompletedIffRemembered
<1> QED
  BY InitTypes, QueuesInit, RoutesInit, HistoriesInit, <1>1, Inductive, PTL DEF Spec

(***************************************************************************)
(* The counters                                                            *)
(***************************************************************************)
Admitted == {t \in Tasks : task[t].sid # NoSession}
Found    == {t \in Tasks : SystemMessage \in ToSet(task[t].history)}

(* TaskLedger, with the two sets named.                                    *)
Ledger == a2aTasks = Cardinality(Admitted) /\ hits = Cardinality(Found)

(* A task is counted once.                                                 *)
LEMMA OneMore ==
  ASSUME NEW S \in SUBSET Tasks, NEW t \in Tasks, t \notin S
  PROVE  Cardinality(S \cup {t}) = Cardinality(S) + 1
<1>1. IsFiniteSet(S)
  BY ContextAssumption, FS_Subset
<1> QED
  BY <1>1, FS_AddElement

(* The initial states.                                                     *)
LEMMA LedgerInit == Init => Ledger
<1> SUFFICES ASSUME Init PROVE Ledger
  OBVIOUS
<1>1. \A t \in Tasks : task[t].sid = NoSession /\ task[t].history = <<>>
  BY DEF Init, Idle
<1>2. ToSet(<<>>) = {}
  BY DEF ToSet
<1>3. Admitted = {} /\ Found = {}
  BY <1>1, <1>2 DEF Admitted, Found
<1>4. Cardinality({}) = 0
  BY FS_EmptySet
<1> QED
  BY <1>3, <1>4 DEF Init, Ledger

(* A task's history holds the system message exactly if its session was    *)
(* alive when it was loaded.                                               *)
LEMMA LoadedHistory ==
  ASSUME TypeOK, Histories, NEW t \in Tasks, NEW s \in SessionIds, NEW sessions,
         AdmitTo(t, s, sessions)
  PROVE  SystemMessage \in ToSet(LoadHistory(sessions, s, now')) <=> s \in Live(sessions, now')
<1>1. CASE s \notin Live(sessions, now')
  <2>1. ToSet(<<>>) = {}
    BY DEF ToSet
  <2> QED
    BY <1>1, <2>1 DEF LoadHistory
<1>2. CASE s \in Live(sessions, now')
  <2>1. PICK v : v = View(sessions[s])
    OBVIOUS
  <2>2. 1 \in DOMAIN v /\ v[1] = SystemMessage
    <3>1. CASE s \in DOMAIN store /\ sessions[s] = store[s]
      <4>1. store[s] \in Entries
        BY <3>1 DEF TypeOK
      <4>2. v \in Seq(Messages) /\ v # <<>> /\ v[1] = SystemMessage
        BY <2>1, <3>1, <4>1, ViewOk, ViewType DEF Entries
      <4> QED
        BY <4>2
    <3>2. CASE sessions[s] = Entry(TRUE, now)
      <4>1. v = <<SystemMessage>>
        BY <2>1, <3>2 DEF View, Entry
      <4> QED
        BY <4>1
    <3>3. s \in DOMAIN sessions
      BY <1>2 DEF Live
    <3>4. Reuses(t, s, sessions) \/ Opens(t, s, sessions)
      BY Resolved
    <3>5. CASE Reuses(t, s, sessions)
      <4>1. sessions = store
        BY <3>5 DEF Reuses
      <4> QED
        BY <3>1, <3>3, <4>1
    <3>6. CASE Opens(t, s, sessions)
      <4>1. sessions[s] = Entry(TRUE, now)
        BY <3>6 DEF Opens
      <4> QED
        BY <3>2, <4>1
    <3> QED
      BY <3>4, <3>5, <3>6
  <2>3. SystemMessage \in ToSet(v)
    BY <2>2 DEF ToSet
  <2> QED
    BY <1>2, <2>1, <2>3 DEF LoadHistory
<1> QED
  BY <1>1, <1>2

(* Every step keeps the ledger.                                            *)
LEMMA LedgerNext ==
  TypeOK /\ Routes /\ Histories /\ Ledger /\ [Next]_vars => Ledger'
<1> SUFFICES ASSUME TypeOK, Routes, Histories, Ledger, [Next]_vars PROVE Ledger'
  OBVIOUS
<1>1. CASE NoneAdmitted
  <2>1. Admitted' = Admitted /\ Found' = Found
    BY <1>1 DEF NoneAdmitted, SameRoute, Admitted, Found
  <2> QED
    BY <1>1, <2>1 DEF NoneAdmitted, counts, Ledger
<1>2. ASSUME NEW t \in Tasks, Admit(t)
      PROVE  Ledger'
  <2>1. PICK s, sessions : s \in SessionIds /\ AdmitTo(t, s, sessions)
    BY <1>2, AdmitIsTo
  <2>2. /\ \A u \in Tasks : u # t => task'[u] = task[u]
        /\ task'[t].sid = s /\ s # NoSession
        /\ task'[t].history = LoadHistory(sessions, s, now')
    BY <2>1, AdmitEffect, ContextAssumption
  <2>3. task[t].sid = NoSession /\ task[t].history = <<>>
    BY <2>1 DEF AdmitTo, Routes
  <2>4. /\ a2aTasks' = a2aTasks + 1
        /\ hits' = (IF s \in Live(sessions, now') THEN hits + 1 ELSE hits)
    BY <2>1 DEF AdmitTo
  <2>5. t \notin Admitted /\ Admitted' = Admitted \cup {t} /\ Admitted \in SUBSET Tasks
    BY <2>2, <2>3 DEF Admitted
  <2>6. t \notin Found /\ Found \in SUBSET Tasks
    <3>1. ToSet(<<>>) = {}
      BY DEF ToSet
    <3> QED
      BY <2>3, <3>1 DEF Found
  <2>7. (t \in Found') <=> s \in Live(sessions, now')
    BY <2>1, <2>2, LoadedHistory DEF Found
  <2>8. Found' = IF s \in Live(sessions, now') THEN Found \cup {t} ELSE Found
    BY <2>2, <2>6, <2>7 DEF Found
  <2> QED
    BY <2>4, <2>5, <2>6, <2>8, OneMore DEF Ledger
<1> QED
  BY <1>1, <1>2, AdmitsOrNone

(* a2a_tasks_total counts every task that had input once, and              *)
(* session_cache_hits those that found their session alive                 *)
(* (executor.py:101, chat_service.py:36-39).                               *)
THEOREM TasksAreCounted == Spec => []TaskLedger
<1>1. Ledger => TaskLedger
  BY DEF Ledger, TaskLedger, Admitted, Found
<1>2. TypeOK /\ Queues /\ Routes /\ Histories /\ Ledger /\ [Next]_vars => Ledger'
  BY LedgerNext
<1> QED
  BY InitTypes, QueuesInit, RoutesInit, HistoriesInit, LedgerInit, <1>1, <1>2, Inductive, PTL
     DEF Spec
=============================================================================
