---------------------------- MODULE RestChatProofs ----------------------------
(***************************************************************************)
(* Proofs about RestChat, for any sessions, any finite set of overlapping  *)
(* requests and any bounds: histories stay whole, no turn is lost, the     *)
(* counters add up, and the handlers implement Conversations.              *)
(*                                                                         *)
(* The invariant says of each stored session that there are a dialogue     *)
(* and a sequence of turns its history was written from (Kept).  What the  *)
(* operators of the model show of such a history is proved once, by least  *)
(* counterexample, for a recursive function is all that get_display_       *)
(* history() is.  Then each step either saves no turn (NothingSaved), adds *)
(* one (TurnSaved) or creates a session, and Outcome says which.           *)
(***************************************************************************)
EXTENDS RestChat, FiniteSetTheorems, WellFoundedInduction, SequenceTheorems, TLAPS

(* Every set of natural numbers that is not empty has a least element.     *)
LEMMA LeastNumber ==
  ASSUME NEW S \in SUBSET Nat, S # {}
  PROVE  \E n \in S : \A m \in S : n <= m
<1>1. PICK b \in S : TRUE
  OBVIOUS
<1> DEFINE Below(n) == 1..n
           T == {Below(n) : n \in {m \in S : m <= b}}
<1>2. IsFiniteSet(1..b)
  BY FS_Interval
<1>3. T \subseteq SUBSET (1..b) /\ T # {}
  OBVIOUS
<1>4. IsWellFoundedOn(StrictSubsetOrdering(1..b), SUBSET (1..b))
  BY <1>2, FS_StrictSubsetOrderingWellFounded, FS_FiniteSubsetsOfFinite
<1>5. PICK x \in T : \A y \in T : ~(<<y, x>> \in StrictSubsetOrdering(1..b))
  <2> HIDE DEF T
  <2> QED
    BY <1>3, <1>4, WFMin
<1>6. PICK n \in S : n <= b /\ x = Below(n)
  OBVIOUS
<1>7. ASSUME NEW m \in S, m < n
      PROVE  FALSE
  <2>1. Below(m) \in T
    BY <1>6, <1>7
  <2>2. Below(m) \subseteq Below(n) /\ n \in Below(n) \ Below(m)
    BY <1>6, <1>7
  <2>3. <<Below(m), x>> \in StrictSubsetOrdering(1..b)
    BY <1>3, <1>6, <2>1, <2>2 DEF StrictSubsetOrdering
  <2> QED
    BY <1>5, <2>1, <2>3
<1> QED
  BY <1>6, <1>7


(***************************************************************************)
(* What get_display_history() shows                                        *)
(***************************************************************************)
(* One unfolding of the function Shown is defined by.                      *)
Unfolded(h, f) ==
  [n \in 0..Len(h) |->
     IF n = 0 THEN <<>>
     ELSE IF IsTurnMessage(h[n]) THEN Append(f[n - 1], h[n]) ELSE f[n - 1]]

(* Only one function is its own unfolding.                                 *)
LEMMA ShownUnique ==
  ASSUME NEW h, Len(h) \in Nat, NEW g, g = Unfolded(h, g)
  PROVE  Shown(h) = g[Len(h)]
<1> DEFINE f == CHOOSE x : x = Unfolded(h, x)
<1>1. f = Unfolded(h, f)
  OBVIOUS
<1>2. Shown(h) = f[Len(h)]
  BY DEF Shown, Unfolded
<1> HIDE DEF f
<1> DEFINE D == {n \in 0..Len(h) : f[n] # g[n]}
<1>3. CASE D = {}
  BY <1>2, <1>3
<1>4. CASE D # {}
  <2>1. PICK n \in D : \A m \in D : n <= m
    <3>1. D \in SUBSET Nat
      OBVIOUS
    <3> HIDE DEF D
    <3> QED
      BY <1>4, <3>1, LeastNumber
  <2>2. n # 0
    BY <1>1, <2>1 DEF Unfolded
  <2>3. n - 1 \in 0..Len(h) /\ n - 1 \notin D
    BY <2>1, <2>2
  <2>4. f[n - 1] = g[n - 1]
    BY <2>3
  <2>5. /\ f[n] = IF IsTurnMessage(h[n]) THEN Append(f[n - 1], h[n]) ELSE f[n - 1]
        /\ g[n] = IF IsTurnMessage(h[n]) THEN Append(g[n - 1], h[n]) ELSE g[n - 1]
    <3>1. n \in 0..Len(h)
      BY <2>1
    <3> QED
      BY <1>1, <2>2, <3>1 DEF Unfolded
  <2> QED
    BY <2>1, <2>4, <2>5
<1> QED
  BY <1>3, <1>4

(* A history of turns is shown as it is ...                                *)
LEMMA ShownTurns ==
  ASSUME NEW M, NEW d \in Seq(M), \A i \in DOMAIN d : IsTurnMessage(d[i])
  PROVE  Shown(d) = d
<1> DEFINE g == [n \in 0..Len(d) |-> SubSeq(d, 1, n)]
<1>1. Len(d) \in Nat
  OBVIOUS
<1>2. ASSUME NEW n \in 0..Len(d)
      PROVE  g[n] = Unfolded(d, g)[n]
  <2>1. CASE n = 0
    BY <2>1 DEF Unfolded
  <2>2. CASE n # 0
    <3>1. n - 1 \in 0..Len(d) /\ n \in DOMAIN d
      BY <2>2
    <3>2. SubSeq(d, 1, n) = Append(SubSeq(d, 1, n - 1), d[n])
      BY <3>1
    <3> QED
      BY <2>2, <3>1, <3>2 DEF Unfolded
  <2> QED
    BY <2>1, <2>2
<1>3. g = Unfolded(d, g)
  BY <1>2 DEF Unfolded
<1>4. Shown(d) = g[Len(d)]
  <2> HIDE DEF g
  <2> QED
    BY <1>1, <1>3, ShownUnique
<1> QED
  BY <1>4

(* ... and a system message in front of it is not shown.                   *)
LEMMA ShownAfterSystem ==
  ASSUME NEW M, NEW d \in Seq(M), \A i \in DOMAIN d : IsTurnMessage(d[i])
  PROVE  Shown(<<SystemMessage>> \o d) = d
<1> DEFINE h == <<SystemMessage>> \o d
           g == [n \in 0..Len(h) |-> IF n = 0 THEN <<>> ELSE SubSeq(d, 1, n - 1)]
<1>1. /\ Len(h) = Len(d) + 1 /\ Len(d) \in Nat
      /\ h[1] = SystemMessage /\ \A n \in 1..Len(d) : h[n + 1] = d[n]
  OBVIOUS
<1> HIDE DEF h
<1>2. ASSUME NEW n \in 0..Len(h)
      PROVE  g[n] = Unfolded(h, g)[n]
  <2>1. CASE n = 0
    BY <2>1 DEF Unfolded
  <2>2. CASE n = 1
    <3>1. ~IsTurnMessage(h[1])
      BY <1>1 DEF IsTurnMessage, SystemMessage, Message
    <3>2. g[1] = <<>> /\ g[0] = <<>>
      BY <1>1
    <3> QED
      BY <1>1, <2>2, <3>1, <3>2 DEF Unfolded
  <2>3. CASE n > 1
    <3>1. n - 1 \in 1..Len(d) /\ n - 1 \in 0..Len(h) /\ h[n] = d[n - 1]
      BY <1>1, <2>3
    <3>2. SubSeq(d, 1, n - 1) = Append(SubSeq(d, 1, n - 2), d[n - 1])
      BY <3>1
    <3>3. g[n] = SubSeq(d, 1, n - 1) /\ g[n - 1] = SubSeq(d, 1, n - 2)
      BY <2>3, <3>1
    <3>4. IsTurnMessage(h[n])
      BY <3>1
    <3> QED
      BY <2>3, <3>1, <3>2, <3>3, <3>4 DEF Unfolded
  <2> QED
    BY <2>1, <2>2, <2>3, <1>1
<1>3. g = Unfolded(h, g)
  BY <1>2 DEF Unfolded
<1>4. Shown(h) = g[Len(h)]
  <2> HIDE DEF g
  <2> QED
    BY <1>1, <1>3, ShownUnique
<1>5. g[Len(h)] = SubSeq(d, 1, Len(d))
  BY <1>1
<1>6. SubSeq(d, 1, Len(d)) = d
  BY <1>1
<1> QED
  BY <1>4, <1>5, <1>6 DEF h

(***************************************************************************)
(* A saved history                                                         *)
(***************************************************************************)
(* What a saved history of d, not empty, is preceded by.                   *)
Start(prompted) == IF prompted THEN <<SystemMessage>> ELSE <<>>

Opening(prompted, d) == IF d # <<>> THEN Start(prompted) ELSE <<>>

(* A question and its own answer for each of the turns, in order.          *)
Dialogue(d, turns) ==
  /\ d \in Seq(Messages) /\ turns \in Seq(Requests) /\ Len(d) = 2 * Len(turns)
  /\ \A i \in 1..Len(turns) :
       /\ d[2 * i - 1] = HumanMessage(turns[i])
       /\ d[2 * i] = AIMessage(turns[i], req[turns[i]].text)

(* The stored history of s was written from d and turns: each turn once,   *)
(* of a request made for s that has ended.                                 *)
Kept(s, d, turns) ==
  /\ store[s].history = Opening(store[s].prompted, d) \o d
  /\ Dialogue(d, turns)
  /\ \A i, j \in 1..Len(turns) : turns[i] = turns[j] => i = j
  /\ \A i \in 1..Len(turns) : req[turns[i]].sid = s /\ req[turns[i]].pc = "done"

(* The messages a turn is made of, and what tells them apart.              *)
LEMMA MessageTypes ==
  ASSUME NEW r \in Requests, NEW text \in Seq(0..MaxFailovers)
  PROVE  /\ SystemMessage \in Messages /\ SystemMessage.role = "system"
         /\ HumanMessage(r) \in Messages /\ HumanMessage(r).role = "human"
         /\ AIMessage(r, text) \in Messages /\ AIMessage(r, text).role = "ai"
         /\ HumanMessage(r).turn = r /\ AIMessage(r, text).turn = r
<1>1. <<>> \in Seq(0..MaxFailovers)
  OBVIOUS
<1> QED
  BY <1>1 DEF Messages, SystemMessage, HumanMessage, AIMessage, Message

(* The system message is a message.                                        *)
LEMMA SystemMessageType == SystemMessage \in Messages
<1>1. <<>> \in Seq(0..MaxFailovers)
  OBVIOUS
<1> QED
  BY <1>1 DEF Messages, SystemMessage, Message

(* Two messages.                                                           *)
LEMMA Pair ==
  ASSUME NEW M, NEW a \in M, NEW b \in M
  PROVE  /\ <<a, b>> \in Seq(M) /\ Len(<<a, b>>) = 2
         /\ <<a, b>>[1] = a /\ <<a, b>>[2] = b
OBVIOUS

(* Appended to d, nothing that was in d changes.                           *)
LEMMA PairAppended ==
  ASSUME NEW M, NEW d \in Seq(M), NEW t \in Seq(M), Len(t) = 2
  PROVE  /\ d \o t \in Seq(M) /\ Len(d \o t) = Len(d) + 2
         /\ (d \o t)[Len(d) + 1] = t[1] /\ (d \o t)[Len(d) + 2] = t[2]
         /\ \A k \in 1..Len(d) : (d \o t)[k] = d[k]
<1>1. Len(d) \in Nat
  OBVIOUS
<1>2. d \o t \in Seq(M) /\ Len(d \o t) = Len(d) + Len(t)
  BY ConcatProperties
<1>3. ASSUME NEW k \in 1..(Len(d) + Len(t))
      PROVE  (d \o t)[k] = IF k <= Len(d) THEN d[k] ELSE t[k - Len(d)]
  BY ConcatProperties
<1>4. (d \o t)[Len(d) + 1] = t[1] /\ (d \o t)[Len(d) + 2] = t[2]
  <2>1. /\ Len(d) + 1 \in 1..(Len(d) + Len(t)) /\ Len(d) + 2 \in 1..(Len(d) + Len(t))
        /\ ~(Len(d) + 1 <= Len(d)) /\ ~(Len(d) + 2 <= Len(d))
        /\ (Len(d) + 1) - Len(d) = 1 /\ (Len(d) + 2) - Len(d) = 2
    BY <1>1
  <2>2. (d \o t)[Len(d) + 1] = t[(Len(d) + 1) - Len(d)]
    BY <1>3, <2>1
  <2>3. (d \o t)[Len(d) + 2] = t[(Len(d) + 2) - Len(d)]
    BY <1>3, <2>1
  <2> QED
    BY <2>1, <2>2, <2>3
<1>5. \A k \in 1..Len(d) : (d \o t)[k] = d[k]
  BY <1>1, <1>3
<1> QED
  BY <1>2, <1>4, <1>5

(* h is the history of d and v is what the model and save_turn() see of    *)
(* it, with a system message in front when no turn has been saved yet.     *)
Saving(prompted, d, t, h, v) ==
  /\ d \in Seq(Messages) /\ t \in Seq(Messages) /\ Len(t) = 2
  /\ h = Opening(prompted, d) \o d /\ v = IF h = <<>> THEN Start(prompted) ELSE h

(* Saving t after what the model saw keeps the form: one system message,   *)
(* in front, and d followed by t (chat_service.py:53-63).                  *)
LEMMA SavedHistory ==
  ASSUME NEW prompted, NEW d, NEW t, NEW h, NEW v, Saving(prompted, d, t, h, v)
  PROVE  /\ v \o t = Opening(prompted, d \o t) \o (d \o t)
         /\ d \o t \in Seq(Messages)
<1>0. PICK p : p = Start(prompted)
  OBVIOUS
<1>1. p \in Seq(Messages) /\ d \in Seq(Messages) /\ t \in Seq(Messages)
  BY <1>0, SystemMessageType DEF Start, Saving
<1>2. d \o t \in Seq(Messages) /\ d \o t # <<>>
  <2>1. d \o t \in Seq(Messages) /\ Len(d \o t) = Len(d) + Len(t)
    BY <1>1, ConcatProperties
  <2>2. Len(d) \in Nat /\ Len(t) = 2
    BY <1>1 DEF Saving
  <2> QED
    BY <2>1, <2>2
<1>3. Opening(prompted, d \o t) = p
  BY <1>0, <1>2 DEF Opening
<1>4. v = p \o d
  <2>0. h = Opening(prompted, d) \o d /\ v = IF h = <<>> THEN p ELSE h
    BY <1>0 DEF Saving
  <2>1. CASE d = <<>>
    <3>1. h = <<>>
      BY <2>0, <2>1 DEF Opening
    <3>2. p \o <<>> = p
      BY <1>1, ConcatEmptySeq
    <3> QED
      BY <2>0, <2>1, <3>1, <3>2
  <2>2. CASE d # <<>>
    <3>1. Opening(prompted, d) = p
      BY <1>0, <2>2 DEF Opening
    <3>2. Len(d) \in Nat /\ Len(p) \in Nat /\ Len(d) # 0
      BY <1>1, <2>2
    <3>3. p \o d \in Seq(Messages) /\ Len(p \o d) = Len(p) + Len(d)
      BY <1>1, ConcatProperties
    <3>4. p \o d # <<>>
      BY <3>2, <3>3
    <3> QED
      BY <2>0, <3>1, <3>4
  <2> QED
    BY <2>1, <2>2
<1>5. (p \o d) \o t = p \o (d \o t)
  BY <1>1, ConcatAssociative
<1> QED
  BY <1>2, <1>3, <1>4, <1>5

(* TurnsIntact, from Kept.                                                 *)
LEMMA KeptShown ==
  ASSUME NEW s, NEW d, NEW turns, Kept(s, d, turns)
  PROVE  /\ Shown(store[s].history) = d
         /\ Turns(store[s].history) = turns
<1> DEFINE h == store[s].history
<1>1. d \in Seq(Messages) /\ turns \in Seq(Requests) /\ Len(d) = 2 * Len(turns)
  BY DEF Kept, Dialogue
<1>2. ASSUME NEW k \in DOMAIN d
      PROVE  IsTurnMessage(d[k])
  <2>1. k \in 1..(2 * Len(turns)) /\ Len(turns) \in Nat
    BY <1>1
  <2>2. PICK i \in 1..Len(turns) : k = 2 * i - 1 \/ k = 2 * i
    <3> DEFINE i == (k + 1) \div 2
    <3>1. i \in Nat /\ (2 * i = k \/ 2 * i = k + 1)
      BY <2>1
    <3>2. i \in 1..Len(turns)
      BY <2>1, <3>1
    <3>3. k = 2 * i - 1 \/ k = 2 * i
      BY <2>1, <3>1
    <3> HIDE DEF i
    <3> QED
      BY <3>2, <3>3
  <2>3. \/ d[k] = HumanMessage(turns[i])
        \/ d[k] = AIMessage(turns[i], req[turns[i]].text)
    BY <2>2 DEF Kept, Dialogue
  <2> QED
    BY <2>3 DEF IsTurnMessage, HumanMessage, AIMessage, Message
<1>3. Shown(h) = d
  <2>1. CASE Opening(store[s].prompted, d) = <<>>
    <3>1. h = d
      BY <1>1, <2>1, ConcatEmptySeq DEF Kept
    <3> QED
      BY <1>1, <1>2, <3>1, ShownTurns
  <2>2. CASE Opening(store[s].prompted, d) = <<SystemMessage>>
    <3>1. h = <<SystemMessage>> \o d
      BY <2>2 DEF Kept
    <3> QED
      BY <1>1, <1>2, <3>1, ShownAfterSystem
  <2> QED
    BY <2>1, <2>2 DEF Opening, Start
<1>4. Turns(h) = [i \in 1..(Len(d) \div 2) |-> d[2 * i - 1].turn]
  BY <1>3 DEF Turns
<1>5. Len(d) \div 2 = Len(turns)
  BY <1>1
<1>6. ASSUME NEW i \in 1..Len(turns)
      PROVE  d[2 * i - 1].turn = turns[i]
  <2>1. d[2 * i - 1] = HumanMessage(turns[i])
    BY DEF Kept, Dialogue
  <2> QED
    BY <2>1 DEF HumanMessage, Message
<1>7. turns = [i \in 1..Len(turns) |-> turns[i]]
  BY <1>1
<1> QED
  BY <1>3, <1>4, <1>5, <1>6, <1>7

(***************************************************************************)
(* The invariant                                                           *)
(***************************************************************************)
(* Every stored history was written from whole turns.                      *)
DialoguesKept == \A s \in DOMAIN store : \E d, turns : Kept(s, d, turns)

(* The question of r is in the history of s.                               *)
Asked(s, r) == \E i \in DOMAIN store[s].history : store[s].history[i] = HumanMessage(r)

(* NoLostTurn, of every session in the store.                              *)
TurnsKept ==
  \A r \in Requests :
    req[r].pc = "done" /\ HasReply(r) /\ req[r].sid \in DOMAIN store =>
      Asked(req[r].sid, r)

(* A request is admitted for a session that was created.                   *)
Admitted == \A r \in Requests : req[r].pc \in {"reading", "done"} => req[r].sid \in created

(* The inductive invariant.                                                *)
IInv == TypeOK /\ Admitted /\ DialoguesKept /\ TurnsKept /\ SnapshotIsPrefix

(* It holds initially: nothing is stored and nobody has asked.             *)
LEMMA InitIInv == Init => IInv
<1> SUFFICES ASSUME Init PROVE IInv
  OBVIOUS
<1>1. DOMAIN store = {} /\ store \in [DOMAIN store -> Entries]
  BY DEF Init
<1>2. Idle \in Handlers
  <2>1. (CHOOSE s \in SessionIds : TRUE) \in SessionIds
    BY RestAssumption
  <2>2. <<>> \in Seq(Messages) /\ <<>> \in Seq(0..MaxFailovers) /\ 0 \in 0..MaxFailovers
    BY RestAssumption
  <2> QED
    BY <2>1, <2>2 DEF Idle, Handlers
<1>3. TypeOK
  BY <1>1, <1>2, RestAssumption DEF Init, TypeOK
<1>4. \A r \in Requests : req[r].pc = "idle"
  BY DEF Init, Idle
<1> QED
  BY <1>1, <1>3, <1>4 DEF IInv, Admitted, DialoguesKept, TurnsKept, SnapshotIsPrefix

(* The store has lost sessions, and those it still has are as they were.   *)
Smaller(st) == DOMAIN st \subseteq DOMAIN store /\ st = [s \in DOMAIN st |-> store[s]]

(* Reading, evicting and deleting only take sessions out of the store.     *)
LEMMA StoreSmaller ==
  ASSUME TypeOK, NEW s, NEW t
  PROVE  /\ Smaller(store) /\ Smaller(AfterDelete(store, s)) /\ Smaller(AfterGet(store, s, t))
         /\ s \notin DOMAIN AfterDelete(store, s)
         /\ s \in DOMAIN AfterGet(store, s, t) => s \in Live(store, t)
<1>1. store = [x \in DOMAIN store |-> store[x]]
  BY DEF TypeOK
<1>2. Smaller(store) /\ Smaller(AfterDelete(store, s)) /\ s \notin DOMAIN AfterDelete(store, s)
  BY <1>1 DEF Smaller, AfterDelete, Restrict
<1>3. Smaller(AfterGet(store, s, t))
  BY <1>2 DEF AfterGet
<1>4. s \in DOMAIN AfterGet(store, s, t) => s \in Live(store, t)
  BY <1>2 DEF AfterGet, Live
<1> QED
  BY <1>2, <1>3, <1>4

(* What the model is given of a stored session is a history.               *)
LEMMA KeptViews ==
  ASSUME IInv, NEW s \in DOMAIN store
  PROVE  View(store[s]) \in Seq(Messages) /\ store[s].history \in Seq(Messages)
<1>1. store[s] \in Entries
  BY DEF IInv, TypeOK
<1>2. store[s].history \in Seq(Messages)
  BY <1>1 DEF Entries
<1>3. <<SystemMessage>> \in Seq(Messages)
  BY SystemMessageType
<1> QED
  BY <1>2, <1>3 DEF View

(* A step in which no turn is saved.                                       *)
LEMMA NothingSaved ==
  ASSUME IInv, Smaller(store'), UNCHANGED created, now' \in now..MaxTime,
         req' \in [Requests -> Handlers],
         hits' \in Nat, misses' \in 0..MaxMisses, errors' \in Nat,
         \A r \in Requests : req[r].pc = "done" => req'[r] = req[r],
         \A r \in Requests : req'[r].pc = "done" =>
           req'[r] = req[r] \/ ~HasReply(r)' \/ req'[r].sid \notin DOMAIN store',
         \A r \in Requests : req'[r].pc = "reading" /\ req'[r].sid \in DOMAIN store' =>
           \/ /\ req[r].pc = "reading" /\ req'[r].sid = req[r].sid
              /\ req'[r].found = req[r].found /\ req'[r].history = req[r].history
           \/ /\ req'[r].found
              /\ req'[r].history = View(store[req'[r].sid]),
         Admitted'
  PROVE  /\ IInv'
         /\ \A s \in DOMAIN store' : \A d, turns : Kept(s, d, turns) => Kept(s, d, turns)'
<1>1. DOMAIN store' \subseteq DOMAIN store /\ \A s \in DOMAIN store' : store'[s] = store[s]
  BY DEF Smaller
<1>2. TypeOK'
  <2>1. store' \in [DOMAIN store' -> Entries]
    BY DEF Smaller, IInv, TypeOK
  <2>2. now' \in 0..MaxTime /\ now <= now' /\ \A s \in DOMAIN store' : store'[s].created <= now'
    <3>1. now \in 0..MaxTime
      BY DEF IInv, TypeOK
    <3>2. ASSUME NEW s \in DOMAIN store'
          PROVE  store'[s].created <= now'
      <4>1. store[s].created \in 0..MaxTime /\ store[s].created <= now
        BY <1>1 DEF IInv, TypeOK, Entries
      <4> QED
        BY <1>1, <3>1, <4>1
    <3> QED
      BY <3>1, <3>2
  <2> QED
    BY <1>1, <2>1, <2>2 DEF IInv, TypeOK
<1>3. ASSUME NEW s \in DOMAIN store', NEW d, NEW turns, Kept(s, d, turns)
      PROVE  Kept(s, d, turns)'
  <2>1. turns \in Seq(Requests)
    BY <1>3 DEF Kept, Dialogue
  <2>2. \A i \in 1..Len(turns) : turns[i] \in Requests
    BY <2>1
  <2>3. \A i \in 1..Len(turns) : req'[turns[i]] = req[turns[i]]
    BY <1>3, <2>2 DEF Kept
  <2> QED
    BY <1>1, <1>3, <2>3 DEF Kept, Dialogue
<1>4. DialoguesKept'
  BY <1>1, <1>3 DEF IInv, DialoguesKept
<1>5. TurnsKept'
  <2> SUFFICES ASSUME NEW r \in Requests, req'[r].pc = "done", HasReply(r)',
                      req'[r].sid \in DOMAIN store'
               PROVE  Asked(req[r].sid, r)'
    BY DEF TurnsKept
  <2>1. req'[r] = req[r]
    OBVIOUS
  <2>2. HasReply(r) /\ req[r].sid \in DOMAIN store
    BY <1>1, <2>1 DEF HasReply
  <2>3. Asked(req[r].sid, r)
    BY <2>1, <2>2 DEF IInv, TurnsKept
  <2> QED
    BY <1>1, <2>1, <2>3 DEF Asked
<1>6. SnapshotIsPrefix'
  <2> SUFFICES ASSUME NEW r \in Requests, req'[r].pc = "reading",
                      req'[r].sid \in DOMAIN store'
               PROVE  /\ req'[r].found
                      /\ IsPrefix(req'[r].history, View(store'[req'[r].sid]))
    BY DEF SnapshotIsPrefix
  <2>1. store'[req'[r].sid] = store[req'[r].sid] /\ req'[r].sid \in DOMAIN store
    BY <1>1
  <2>2. CASE /\ req[r].pc = "reading" /\ req'[r].sid = req[r].sid
             /\ req'[r].found = req[r].found /\ req'[r].history = req[r].history
    BY <2>1, <2>2 DEF IInv, SnapshotIsPrefix
  <2>3. CASE req'[r].found /\ req'[r].history = View(store[req'[r].sid])
    <3>1. Len(View(store[req'[r].sid])) \in Nat
      BY <2>1, KeptViews
    <3> QED
      BY <2>1, <2>3, <3>1 DEF IsPrefix
  <2> QED
    BY <2>2, <2>3
<1> QED
  BY <1>2, <1>3, <1>4, <1>5, <1>6 DEF IInv

(* What is appended when a turn is saved.                                  *)
Turn(r) == <<HumanMessage(r), AIMessage(r, req[r].text)>>

(* A longer history still begins with what it began with.                  *)
LEMMA PrefixKept ==
  ASSUME NEW M, NEW a \in Seq(M), NEW b \in Seq(M), NEW c \in Seq(M), IsPrefix(a, b)
  PROVE  IsPrefix(a, b \o c)
<1>1. Len(a) \in Nat /\ Len(b) \in Nat /\ Len(c) \in Nat /\ Len(a) <= Len(b)
  BY DEF IsPrefix
<1>2. \A i \in 1..Len(b) : (b \o c)[i] = b[i]
  OBVIOUS
<1>3. SubSeq(b \o c, 1, Len(a)) = SubSeq(b, 1, Len(a))
  BY <1>1, <1>2
<1> QED
  BY <1>1, <1>3 DEF IsPrefix

(* A request that was being answered ends, and its turn is saved.          *)
LEMMA TurnSaved ==
  ASSUME IInv, NEW r \in Requests, req[r].pc = "reading", NEW ending, Finish(r, ending),
         ending \in {"complete", "error", "disconnect", "exception"},
         req[r].sid \in Live(store, now),
         store' = AfterSaveTurn(store, req[r].sid, now, r, req[r].text),
         UNCHANGED <<created, now, hits, misses>>, errors' \in Nat
  PROVE  /\ IInv'
         /\ \A x \in DOMAIN store : \A d, turns : Kept(x, d, turns) =>
              \E dd, tt : /\ Kept(x, dd, tt)'
                         /\ tt = IF x = req[r].sid THEN Append(turns, r) ELSE turns
<1> DEFINE s == req[r].sid
           new == View(store[s]) \o Turn(r)
<1>1. /\ s \in DOMAIN store /\ store[s] \in Entries /\ req[r] \in Handlers
      /\ req[r].text \in Seq(0..MaxFailovers)
  BY DEF Live, IInv, TypeOK, Handlers
<1>2. store' = [store EXCEPT ![s].history = new]
  BY <1>1 DEF AfterSaveTurn, AfterUpdateHistory, Turn
<1>3. /\ HumanMessage(r) \in Messages /\ AIMessage(r, req[r].text) \in Messages
      /\ Turn(r) \in Seq(Messages) /\ Len(Turn(r)) = 2
      /\ Turn(r)[1] = HumanMessage(r) /\ Turn(r)[2] = AIMessage(r, req[r].text)
  <2>1. /\ HumanMessage(r) \in Messages /\ AIMessage(r, req[r].text) \in Messages
    BY <1>1, MessageTypes
  <2>2. PICK a, b : a = HumanMessage(r) /\ b = AIMessage(r, req[r].text)
    OBVIOUS
  <2>3. Turn(r) = <<a, b>> /\ a \in Messages /\ b \in Messages
    BY <2>1, <2>2 DEF Turn
  <2>4. Turn(r) \in Seq(Messages) /\ Len(Turn(r)) = 2 /\ Turn(r)[1] = a /\ Turn(r)[2] = b
    BY <2>3, Pair
  <2> QED
    BY <2>1, <2>2, <2>4
<1>4. View(store[s]) \in Seq(Messages)
  BY <1>1, KeptViews
<1>5. /\ new \in Seq(Messages) /\ Len(new) = Len(View(store[s])) + 2
      /\ new[Len(View(store[s])) + 1] = HumanMessage(r)
      /\ \A i \in 1..Len(View(store[s])) : new[i] = View(store[s])[i]
  <2>1. PICK v, t : v = View(store[s]) /\ t = Turn(r)
    OBVIOUS
  <2>2. v \in Seq(Messages) /\ t \in Seq(Messages) /\ Len(t) = 2 /\ new = v \o t
    BY <1>3, <1>4, <2>1
  <2> HIDE DEF new, s
  <2>3. /\ v \o t \in Seq(Messages) /\ Len(v \o t) = Len(v) + 2
        /\ (v \o t)[Len(v) + 1] = t[1]
        /\ \A k \in 1..Len(v) : (v \o t)[k] = v[k]
    BY <2>2, PairAppended
  <2> QED
    BY <1>3, <2>1, <2>2, <2>3
<1> HIDE DEF new
<1>6. /\ DOMAIN store' = DOMAIN store
      /\ store'[s].history = new /\ store'[s].prompted = store[s].prompted
      /\ store'[s].created = store[s].created /\ store'[s] \in Entries
      /\ \A x \in DOMAIN store : x # s => store'[x] = store[x]
      /\ store' \in [DOMAIN store' -> Entries]
  <2>1. store \in [DOMAIN store -> Entries]
    BY DEF IInv, TypeOK
  <2> QED
    BY <1>1, <1>2, <1>5, <2>1 DEF Entries
<1>7. /\ req' \in [Requests -> Handlers]
      /\ req'[r].pc = "done" /\ req'[r].sid = s /\ req'[r].text = req[r].text
      /\ \A q \in Requests : q # r => req'[q] = req[q]
  <2>1. req \in [Requests -> Handlers]
    BY DEF IInv, TypeOK
  <2>2. req' = [req EXCEPT ![r] = [[req[r] EXCEPT !.pc = "done"] EXCEPT !.ending = ending]]
    BY <2>1 DEF Finish
  <2> QED
    BY <1>1, <2>1, <2>2 DEF Handlers
<1>8. TypeOK'
  <2>1. ASSUME NEW x \in DOMAIN store'
        PROVE  store'[x].created <= now'
    <3>1. store'[x].created = store[x].created
      BY <1>6
    <3> QED
      BY <1>6, <3>1 DEF IInv, TypeOK
  <2> QED
    BY <1>6, <1>7, <2>1 DEF IInv, TypeOK
<1>9. ASSUME NEW x \in DOMAIN store, NEW d, NEW turns, Kept(x, d, turns)
      PROVE  \E dd, tt : /\ Kept(x, dd, tt)'
                        /\ tt = IF x = req[r].sid THEN Append(turns, r) ELSE turns
  <2>1. Kept(x, d, turns)
    BY <1>9
  <2>2. /\ d \in Seq(Messages) /\ turns \in Seq(Requests) /\ Len(d) = 2 * Len(turns)
        /\ Len(turns) \in Nat
        /\ \A i \in 1..Len(turns) : turns[i] \in Requests
    BY <2>1 DEF Kept, Dialogue
  <2>3. \A i \in 1..Len(turns) : turns[i] # r /\ req'[turns[i]] = req[turns[i]]
    BY <1>7, <2>1, <2>2 DEF Kept
  <2>4. CASE x # s
    <3>1. Kept(x, d, turns)'
      BY <1>6, <2>1, <2>3, <2>4 DEF Kept, Dialogue
    <3> QED
      BY <2>4, <3>1
  <2>5. CASE x = s
    <3>0. PICK dd, tt : dd = d \o Turn(r) /\ tt = Append(turns, r)
      OBVIOUS
    <3>1. /\ new = Opening(store[s].prompted, dd) \o dd /\ dd \in Seq(Messages)
      <4>1. store[s].prompted \in BOOLEAN
        BY <1>1 DEF Entries
      <4>2. store[s].history = Opening(store[s].prompted, d) \o d
        BY <2>1, <2>5 DEF Kept
      <4>3. PICK p, t, h, v : /\ p = store[s].prompted /\ t = Turn(r)
                              /\ h = store[s].history /\ v = View(store[s])
        OBVIOUS
      <4>4. t \in Seq(Messages) /\ Len(t) = 2
        BY <1>3, <4>3
      <4>5. h = Opening(p, d) \o d /\ v = IF h = <<>> THEN Start(p) ELSE h
        BY <4>1, <4>2, <4>3 DEF View, Start
      <4>6. Saving(p, d, t, h, v)
        BY <2>2, <4>4, <4>5 DEF Saving
      <4>7. v \o t = Opening(p, d \o t) \o (d \o t) /\ d \o t \in Seq(Messages)
        BY <4>6, SavedHistory
      <4> QED
        BY <3>0, <4>3, <4>7 DEF new
    <3>2. /\ tt \in Seq(Requests) /\ Len(tt) = Len(turns) + 1 /\ tt[Len(turns) + 1] = r
          /\ \A i \in 1..Len(turns) : tt[i] = turns[i]
      BY <2>2, <3>0
    <3>3. /\ Len(dd) = 2 * Len(tt)
          /\ dd[2 * Len(turns) + 1] = HumanMessage(r)
          /\ dd[2 * Len(turns) + 2] = AIMessage(r, req[r].text)
          /\ \A k \in 1..(2 * Len(turns)) : dd[k] = d[k]
      <4>1. PICK t : t = Turn(r)
        OBVIOUS
      <4>2. t \in Seq(Messages) /\ Len(t) = 2 /\ dd = d \o t
        BY <1>3, <3>0, <4>1
      <4>3. /\ Len(d \o t) = Len(d) + 2
            /\ (d \o t)[Len(d) + 1] = t[1] /\ (d \o t)[Len(d) + 2] = t[2]
            /\ \A k \in 1..Len(d) : (d \o t)[k] = d[k]
        BY <2>2, <4>2, PairAppended
      <4> QED
        BY <1>3, <2>2, <3>2, <4>1, <4>2, <4>3
    <3>4. ASSUME NEW i \in 1..Len(tt)
          PROVE  /\ dd[2 * i - 1] = HumanMessage(tt[i])
                 /\ dd[2 * i] = AIMessage(tt[i], req'[tt[i]].text)
                 /\ req'[tt[i]].sid = s /\ req'[tt[i]].pc = "done"
      <4>1. CASE i = Len(turns) + 1
        <5>1. 2 * i - 1 = 2 * Len(turns) + 1 /\ 2 * i = 2 * Len(turns) + 2
          BY <2>2, <4>1
        <5> QED
          BY <1>7, <3>2, <3>3, <4>1, <5>1
      <4>2. CASE i # Len(turns) + 1
        <5>1. i \in 1..Len(turns)
          BY <2>2, <3>2, <4>2
        <5>2. 2 * i - 1 \in 1..(2 * Len(turns)) /\ 2 * i \in 1..(2 * Len(turns))
          BY <2>2, <5>1
        <5>3. tt[i] = turns[i] /\ dd[2 * i - 1] = d[2 * i - 1] /\ dd[2 * i] = d[2 * i]
          BY <3>2, <3>3, <5>1, <5>2
        <5>4. /\ d[2 * i - 1] = HumanMessage(turns[i])
              /\ d[2 * i] = AIMessage(turns[i], req[turns[i]].text)
              /\ req[turns[i]].sid = s /\ req[turns[i]].pc = "done"
          BY <2>1, <2>5, <5>1 DEF Kept, Dialogue
        <5> QED
          BY <2>3, <5>1, <5>3, <5>4
      <4> QED
        BY <4>1, <4>2
    <3>5. \A i, j \in 1..Len(tt) : tt[i] = tt[j] => i = j
      <4>1. \A i, j \in 1..Len(turns) : turns[i] = turns[j] => i = j
        BY <2>1 DEF Kept
      <4> QED
        <5>1. ASSUME NEW i \in 1..(Len(turns) + 1), NEW j \in 1..(Len(turns) + 1),
                     tt[i] = tt[j]
              PROVE  i = j
          <6>1. CASE i = Len(turns) + 1 \/ j = Len(turns) + 1
            <7>1. \A k \in 1..Len(turns) : tt[k] # r
              BY <2>3, <3>2
            <7>2. /\ i \in 1..Len(turns) \/ i = Len(turns) + 1
                  /\ j \in 1..Len(turns) \/ j = Len(turns) + 1
              BY <2>2
            <7> QED
              BY <3>2, <5>1, <6>1, <7>1, <7>2
          <6>2. CASE i # Len(turns) + 1 /\ j # Len(turns) + 1
            <7>1. i \in 1..Len(turns) /\ j \in 1..Len(turns)
              BY <2>2, <6>2
            <7> QED
              BY <3>2, <4>1, <5>1, <7>1
          <6> QED
            BY <6>1, <6>2
        <5> QED
          BY <3>2, <5>1
    <3>6. Dialogue(dd, tt)'
      BY <2>2, <3>1, <3>2, <3>3, <3>4 DEF Dialogue
    <3>7. Kept(x, dd, tt)'
      BY <1>6, <2>5, <3>1, <3>4, <3>5, <3>6 DEF Kept
    <3> QED
      BY <2>5, <3>0, <3>7
  <2> QED
    BY <2>4, <2>5
<1>10. DialoguesKept'
  BY <1>6, <1>9 DEF IInv, DialoguesKept
<1>11. Admitted'
  BY <1>7 DEF IInv, Admitted
<1>12. TurnsKept'
  <2> SUFFICES ASSUME NEW q \in Requests, req'[q].pc = "done", HasReply(q)',
                      req'[q].sid \in DOMAIN store'
               PROVE  Asked(req[q].sid, q)'
    BY DEF TurnsKept
  <2>1. CASE q = r
    <3>1. Len(View(store[s])) + 1 \in DOMAIN new
      BY <1>4, <1>5
    <3> QED
      BY <1>5, <1>6, <1>7, <2>1, <3>1 DEF Asked
  <2>2. CASE q # r
    <3>1. req'[q] = req[q]
      BY <1>7, <2>2
    <3>2. Asked(req[q].sid, q)
      BY <1>6, <3>1 DEF IInv, TurnsKept, HasReply
    <3>3. CASE req[q].sid # s
      BY <1>6, <3>1, <3>2, <3>3 DEF Asked
    <3>4. CASE req[q].sid = s
      <4>1. PICK i \in DOMAIN store[s].history : store[s].history[i] = HumanMessage(q)
        BY <3>2, <3>4 DEF Asked
      <4>2. store[s].history # <<>> /\ store[s].history \in Seq(Messages)
        BY <1>1, <4>1 DEF Entries
      <4>3. View(store[s]) = store[s].history
        BY <4>2 DEF View
      <4>4. i \in 1..Len(View(store[s])) /\ Len(View(store[s])) \in Nat
        BY <4>1, <4>2, <4>3
      <4>5. DOMAIN new = 1..(Len(View(store[s])) + 2)
        BY <1>5
      <4>6. i \in DOMAIN new /\ new[i] = HumanMessage(q)
        BY <1>5, <4>1, <4>3, <4>4, <4>5
      <4> QED
        BY <1>6, <3>1, <3>4, <4>6 DEF Asked
    <3> QED
      BY <3>3, <3>4
  <2> QED
    BY <2>1, <2>2
<1>13. SnapshotIsPrefix'
  <2> SUFFICES ASSUME NEW q \in Requests, req'[q].pc = "reading",
                      req'[q].sid \in DOMAIN store'
               PROVE  /\ req'[q].found
                      /\ IsPrefix(req'[q].history, View(store'[req'[q].sid]))
    BY DEF SnapshotIsPrefix
  <2>1. q # r /\ req'[q] = req[q] /\ req[q].sid \in DOMAIN store
    BY <1>6, <1>7
  <2>2. req[q].found /\ IsPrefix(req[q].history, View(store[req[q].sid]))
    BY <2>1 DEF IInv, SnapshotIsPrefix
  <2>3. CASE req[q].sid # s
    BY <1>6, <2>1, <2>2, <2>3
  <2>4. CASE req[q].sid = s
    <3>1. View(store'[s]) = new
      <4>1. new # <<>>
        BY <1>4, <1>5
      <4> QED
        BY <1>6, <4>1 DEF View
    <3>2. req[q].history \in Seq(Messages)
      BY DEF IInv, TypeOK, Handlers
    <3>3. IsPrefix(req[q].history, new)
      BY <1>3, <1>4, <2>2, <2>4, <3>2, PrefixKept DEF new
    <3> QED
      BY <2>1, <2>2, <2>4, <3>1, <3>3
  <2> QED
    BY <2>3, <2>4
<1> QED
  BY <1>8, <1>9, <1>10, <1>11, <1>12, <1>13 DEF IInv

(* The three kinds of step: no turn is saved, a session is created, or the *)
(* turn of a request whose session lives is saved.                         *)
Quiet ==
  /\ Smaller(store') /\ UNCHANGED created /\ now' \in now..MaxTime
  /\ \A s \in DOMAIN store' : \A d, turns : Kept(s, d, turns) => Kept(s, d, turns)'

(* InitSession: a new session with an empty history.                       *)
Created(s) ==
  /\ s \in SessionIds \ created /\ created' = created \cup {s} /\ UNCHANGED now
  /\ DOMAIN store' = DOMAIN store \cup {s}
  /\ store'[s].created = now /\ Kept(s, <<>>, <<>>)'
  /\ \A x \in DOMAIN store : store'[x] = store[x]
  /\ \A x \in DOMAIN store : \A d, turns : Kept(x, d, turns) => Kept(x, d, turns)'

(* The turn of r is added to its session's turns and to no other's.        *)
Saves(r) ==
  /\ req[r].pc = "reading" /\ req[r].sid \in Live(store, now)
  /\ UNCHANGED <<created, now>>
  /\ DOMAIN store' = DOMAIN store
  /\ \A x \in DOMAIN store : store'[x].created = store[x].created
  /\ \A x \in DOMAIN store : \A d, turns : Kept(x, d, turns) =>
       \E dd, tt : /\ Kept(x, dd, tt)'
                   /\ tt = IF x = req[r].sid THEN Append(turns, r) ELSE turns

(* What every step comes to.                                               *)
Outcome == IInv' /\ (Quiet \/ (\E s \in SessionIds : Created(s)) \/ (\E r \in Requests : Saves(r)))

(* The types that the steps need.                                          *)
LEMMA Types ==
  ASSUME IInv
  PROVE  /\ req \in [Requests -> Handlers] /\ now \in 0..MaxTime /\ now \in now..MaxTime
         /\ hits \in Nat /\ misses \in 0..MaxMisses /\ errors \in Nat /\ MaxTime \in Nat
         /\ misses + 1 \in Nat /\ hits + 1 \in Nat /\ errors + 1 \in Nat
  BY RestAssumption DEF IInv, TypeOK

(* Steps that leave the requests alone.                                    *)
LEMMA RequestsKept ==
  ASSUME IInv, Smaller(store'), UNCHANGED <<created, req>>, now' \in now..MaxTime,
         hits' \in Nat, misses' \in 0..MaxMisses, errors' \in Nat
  PROVE  Outcome
<1>1. Admitted'
  BY DEF IInv, Admitted
<1>2. req' \in [Requests -> Handlers]
  BY Types
<1> QED
  BY <1>1, <1>2, NothingSaved DEF Outcome, Quiet

(***************************************************************************)
(* One lemma per action                                                    *)
(***************************************************************************)
(* Time passes.                                                            *)
LEMMA TickStep == IInv /\ Tick => Outcome
<1> SUFFICES ASSUME IInv, Tick PROVE Outcome
  OBVIOUS
<1>1. now' \in now..MaxTime
  BY Types DEF Tick
<1>2. Smaller(store')
  BY StoreSmaller DEF Tick, IInv, Smaller
<1> QED
  BY <1>1, <1>2, RequestsKept, Types DEF Tick

(* Nothing happens.                                                        *)
LEMMA StutterStep == IInv /\ UNCHANGED vars => Outcome
<1> SUFFICES ASSUME IInv, UNCHANGED vars PROVE Outcome
  OBVIOUS
<1>1. Smaller(store')
  BY StoreSmaller DEF vars, IInv, Smaller
<1> QED
  BY <1>1, RequestsKept, Types DEF vars

(* A 404 answer evicts at most.                                            *)
LEMMA NotFoundStep ==
  ASSUME IInv, NEW s, NotFound(s)
  PROVE  /\ Smaller(store') /\ now' \in now..MaxTime /\ hits' \in Nat
         /\ misses' \in 0..MaxMisses /\ errors' \in Nat
<1>1. Smaller(store')
  BY StoreSmaller DEF NotFound, IInv, Smaller
<1>2. misses' \in 0..MaxMisses
  BY Types, RestAssumption DEF NotFound
<1> QED
  BY <1>1, <1>2, Types DEF NotFound

(* Reading a history evicts at most.                                       *)
LEMMA ReadHistoryStep == IInv /\ ReadHistory => Outcome
<1> SUFFICES ASSUME IInv, ReadHistory PROVE Outcome
  OBVIOUS
<1>1. PICK s \in created :
        \/ NotFound(s)
        \/ /\ SessionExists(store, s, now)
           /\ now' \in Later
           /\ store' = AfterGet(store, s, now')
           /\ UNCHANGED <<hits, misses, errors>>
  BY DEF ReadHistory
<1>2. UNCHANGED <<created, req>>
  BY DEF ReadHistory
<1>3. CASE NotFound(s)
  BY <1>2, <1>3, NotFoundStep, RequestsKept
<1>4. CASE /\ now' \in Later /\ store' = AfterGet(store, s, now')
           /\ UNCHANGED <<hits, misses, errors>>
  <2>1. now' \in now..MaxTime
    BY <1>4 DEF Later
  <2>2. Smaller(AfterGet(store, s, now'))
    BY StoreSmaller DEF IInv
  <2> QED
    BY <1>2, <1>4, <2>1, <2>2, Types, RequestsKept
<1> QED
  BY <1>1, <1>3, <1>4

(* Deleting a session takes it out of the store.                           *)
LEMMA DeleteSessionStep == IInv /\ DeleteSession => Outcome
<1> SUFFICES ASSUME IInv, DeleteSession PROVE Outcome
  OBVIOUS
<1>1. PICK s \in created :
        \/ NotFound(s)
        \/ /\ SessionExists(store, s, now)
           /\ store' = AfterDeleteSession(store, s)
           /\ UNCHANGED <<now, hits, misses, errors>>
  BY DEF DeleteSession
<1>2. UNCHANGED <<created, req>>
  BY DEF DeleteSession
<1>3. CASE NotFound(s)
  BY <1>2, <1>3, NotFoundStep, RequestsKept
<1>4. CASE store' = AfterDeleteSession(store, s) /\ UNCHANGED <<now, hits, misses, errors>>
  <2>1. Smaller(AfterDelete(store, s))
    BY StoreSmaller DEF IInv
  <2> QED
    BY <1>2, <1>4, <2>1, Types, RequestsKept DEF AfterDeleteSession
<1> QED
  BY <1>1, <1>3, <1>4

(* A restart empties the store and leaves no request behind.               *)
LEMMA RestartStep == IInv /\ Restart => Outcome
<1> SUFFICES ASSUME IInv, Restart PROVE Outcome
  OBVIOUS
<1>1. DOMAIN store' = {} /\ Smaller(store')
  BY DEF Restart, Smaller
<1>2. ASSUME NEW r \in Requests
      PROVE  /\ req'[r] \in Handlers /\ req'[r].pc \notin {"reading", "done"}
  <2>1. req[r] \in Handlers
    BY Types
  <2>2. req'[r] = IF req[r].pc = "idle" THEN req[r] ELSE [req[r] EXCEPT !.pc = "gone"]
    BY DEF Restart
  <2>3. [req[r] EXCEPT !.pc = "gone"] \in Handlers /\ [req[r] EXCEPT !.pc = "gone"].pc = "gone"
    BY <2>1 DEF Handlers
  <2> QED
    BY <2>1, <2>2, <2>3
<1>3. req' \in [Requests -> Handlers]
  BY <1>2 DEF Restart
<1>4. Admitted'
  BY <1>2 DEF Admitted
<1>5. /\ hits' \in Nat /\ misses' \in 0..MaxMisses /\ errors' \in Nat
      /\ UNCHANGED <<created, now>>
  BY RestAssumption DEF Restart
<1>6. TypeOK' /\ DialoguesKept' /\ TurnsKept' /\ SnapshotIsPrefix'
  <2>1. TypeOK'
    BY <1>1, <1>3, <1>5, Types DEF IInv, TypeOK, Restart
  <2> QED
    BY <1>1, <1>2, <2>1 DEF DialoguesKept, TurnsKept, SnapshotIsPrefix
<1> QED
  BY <1>1, <1>4, <1>5, <1>6, Types DEF Outcome, Quiet, IInv

(* A new session has no turns, and no request is for it yet, since its id  *)
(* was never handed out before.                                            *)
LEMMA InitSessionStep == IInv /\ InitSession => Outcome
<1> SUFFICES ASSUME IInv, InitSession PROVE Outcome
  OBVIOUS
<1>1. PICK s \in SessionIds \ created, prompted \in BOOLEAN :
        /\ store' = AfterCreateSession(store, s, prompted, now)
        /\ created' = created \cup {s}
  BY DEF InitSession
<1>2. UNCHANGED <<now, req, hits, misses, errors>>
  BY DEF InitSession
<1>3. s \notin DOMAIN store
  BY DEF IInv, TypeOK
<1>4. store' = [x \in DOMAIN store \cup {s} |-> IF x = s THEN Entry(prompted, now) ELSE store[x]]
  BY <1>1 DEF AfterCreateSession, AfterCreate
<1>5. /\ DOMAIN store' = DOMAIN store \cup {s}
      /\ store'[s] = Entry(prompted, now)
      /\ \A x \in DOMAIN store : store'[x] = store[x]
  BY <1>3, <1>4
<1>6. Entry(prompted, now) \in Entries
  <2>1. <<>> \in Seq(Messages)
    OBVIOUS
  <2> QED
    BY <2>1, Types DEF Entry, Entries
<1>7. TypeOK'
  <2>1. store' \in [DOMAIN store' -> Entries]
    BY <1>4, <1>6 DEF IInv, TypeOK
  <2>2. \A x \in DOMAIN store' : store'[x].created <= now'
    BY <1>2, <1>5, Types DEF IInv, TypeOK, Entry
  <2>3. created' \subseteq SessionIds /\ DOMAIN store' \subseteq created'
    BY <1>1, <1>5 DEF IInv, TypeOK
  <2> QED
    BY <1>2, <2>1, <2>2, <2>3 DEF IInv, TypeOK
<1>8. ASSUME NEW x \in DOMAIN store, NEW d, NEW turns, Kept(x, d, turns)
      PROVE  Kept(x, d, turns)'
  BY <1>2, <1>5, <1>8 DEF Kept, Dialogue
<1>9. Kept(s, <<>>, <<>>)'
  <2>1. <<>> \in Seq(Messages) /\ <<>> \in Seq(Requests) /\ Len(<<>>) = 0
    OBVIOUS
  <2>2. Dialogue(<<>>, <<>>)'
    BY <2>1 DEF Dialogue
  <2>3. store'[s].history = <<>>
    BY <1>5 DEF Entry
  <2>4. Opening(prompted, <<>>) \o <<>> = <<>> /\ store'[s].prompted = prompted
    BY <1>5 DEF Opening, Entry
  <2> QED
    BY <2>1, <2>2, <2>3, <2>4 DEF Kept
<1>10. DialoguesKept'
  BY <1>5, <1>8, <1>9 DEF IInv, DialoguesKept
<1>11. Admitted' /\ \A r \in Requests : req[r].pc \in {"reading", "done"} => req[r].sid # s
  BY <1>1, <1>2 DEF IInv, Admitted
<1>12. TurnsKept'
  <2> SUFFICES ASSUME NEW r \in Requests, req'[r].pc = "done", HasReply(r)',
                      req'[r].sid \in DOMAIN store'
               PROVE  Asked(req[r].sid, r)'
    BY <1>2 DEF TurnsKept
  <2>1. req[r].sid \in DOMAIN store /\ HasReply(r)
    BY <1>2, <1>5, <1>11 DEF HasReply
  <2>2. Asked(req[r].sid, r)
    BY <1>2, <2>1 DEF IInv, TurnsKept
  <2> QED
    BY <1>2, <1>5, <2>1, <2>2 DEF Asked
<1>13. SnapshotIsPrefix'
  BY <1>2, <1>5, <1>11 DEF IInv, SnapshotIsPrefix
<1>14. Created(s)
  BY <1>1, <1>2, <1>5, <1>8, <1>9 DEF Created, Entry
<1> QED
  BY <1>1, <1>7, <1>10, <1>11, <1>12, <1>13, <1>14 DEF Outcome, IInv

(* A request for a session that is not there is turned away.               *)
LEMMA RejectStep == \A r \in Requests : IInv /\ Reject(r) => Outcome
<1> SUFFICES ASSUME IInv, NEW r \in Requests, Reject(r) PROVE Outcome
  OBVIOUS
<1>1. PICK s \in created : NotFound(s)
  BY DEF Reject
<1>2. /\ Smaller(store') /\ now' \in now..MaxTime /\ hits' \in Nat
      /\ misses' \in 0..MaxMisses /\ errors' \in Nat
  BY <1>1, NotFoundStep
<1>3. /\ UNCHANGED created /\ req[r].pc = "idle"
      /\ req' = [req EXCEPT ![r].pc = "rejected"]
  BY DEF Reject
<1>4. /\ req' \in [Requests -> Handlers] /\ req'[r].pc = "rejected"
      /\ \A q \in Requests : q # r => req'[q] = req[q]
  BY <1>3, Types DEF Handlers
<1>5. Admitted'
  BY <1>3, <1>4 DEF IInv, Admitted
<1>6. \A q \in Requests : req[q].pc = "done" => req'[q] = req[q]
  BY <1>3, <1>4
<1>7. \A q \in Requests : req'[q].pc \in {"reading", "done"} => req'[q] = req[q]
  BY <1>4
<1> QED
  BY <1>2, <1>3, <1>4, <1>5, <1>6, <1>7, NothingSaved DEF Outcome, Quiet

(* A request loads what its session's history is now, or nothing if the    *)
(* session has just expired; then it is not in the store either.           *)
LEMMA BeginStep == \A r \in Requests : IInv /\ Begin(r) => Outcome
<1> SUFFICES ASSUME IInv, NEW r \in Requests, Begin(r) PROVE Outcome
  OBVIOUS
<1>1. PICK s \in created, kind \in {"stream", "chat"} :
        /\ now' \in Later
        /\ store' = AfterGet(store, s, now')
        /\ hits' = IF s \in Live(store, now') THEN hits + 1 ELSE hits
        /\ req' = [req EXCEPT ![r] =
                     [@ EXCEPT !.pc = "reading", !.kind = kind, !.sid = s,
                               !.found = s \in Live(store, now'),
                               !.history = LoadHistory(store, s, now')]]
  BY DEF Begin
<1>2. req[r].pc = "idle" /\ UNCHANGED <<created, misses, errors>>
  BY DEF Begin
<1>3. now' \in now..MaxTime
  BY <1>1 DEF Later
<1>4. Smaller(store') /\ (s \in DOMAIN store' => s \in Live(store, now'))
  BY <1>1, StoreSmaller DEF IInv
<1>5. LoadHistory(store, s, now') \in Seq(Messages)
  BY KeptViews DEF LoadHistory, Live
<1>6. /\ req'[r] \in Handlers /\ req'[r].pc = "reading" /\ req'[r].sid = s
      /\ req'[r].found = (s \in Live(store, now'))
      /\ req'[r].history = LoadHistory(store, s, now')
      /\ \A q \in Requests : q # r => req'[q] = req[q]
      /\ req' \in [Requests -> Handlers]
  <2>1. req \in [Requests -> Handlers] /\ s \in SessionIds
    BY Types DEF IInv, TypeOK
  <2>2. (s \in Live(store, now')) \in BOOLEAN
    OBVIOUS
  <2>3. PICK found, h : found = (s \in Live(store, now')) /\ h = LoadHistory(store, s, now')
    OBVIOUS
  <2>4. found \in BOOLEAN /\ h \in Seq(Messages)
    BY <1>5, <2>2, <2>3
  <2>5. req' = [req EXCEPT ![r] = [[[[[req[r] EXCEPT !.pc = "reading"] EXCEPT !.kind = kind]
                                     EXCEPT !.sid = s] EXCEPT !.found = found]
                                     EXCEPT !.history = h]]
    BY <1>1, <2>1, <2>3
  <2>6. /\ req'[r] \in Handlers /\ req'[r].pc = "reading" /\ req'[r].sid = s
        /\ req'[r].found = found /\ req'[r].history = h
    BY <2>1, <2>4, <2>5 DEF Handlers
  <2>7. \A q \in Requests : q # r => req'[q] = req[q]
    BY <2>1, <2>5
  <2>8. req' \in [Requests -> Handlers]
    BY <2>1, <2>5, <2>6, <2>7
  <2> QED
    BY <2>3, <2>6, <2>7, <2>8
<1>7. hits' \in Nat
  BY <1>1, Types
<1>8. Admitted'
  BY <1>2, <1>6 DEF IInv, Admitted
<1>9. \A q \in Requests : req[q].pc = "done" => req'[q] = req[q]
  BY <1>2, <1>6
<1>10. \A q \in Requests : req'[q].pc = "done" => req'[q] = req[q]
  BY <1>6
<1>11. ASSUME NEW q \in Requests, req'[q].pc = "reading", req'[q].sid \in DOMAIN store'
       PROVE  \/ /\ req[q].pc = "reading" /\ req'[q].sid = req[q].sid
                 /\ req'[q].found = req[q].found /\ req'[q].history = req[q].history
              \/ /\ req'[q].found
                 /\ req'[q].history = View(store[req'[q].sid])
  <2>1. CASE q = r
    BY <1>4, <1>6, <1>11, <2>1 DEF LoadHistory
  <2>2. CASE q # r
    BY <1>6, <1>11, <2>2
  <2> QED
    BY <2>1, <2>2
<1> QED
  BY <1>2, <1>3, <1>4, <1>6, <1>7, <1>8, <1>9, <1>10, <1>11, Types, NothingSaved
  DEF Outcome, Quiet

(* A chunk changes only the request's own text.                            *)
LEMMA TextChunkStep == \A r \in Requests : IInv /\ TextChunk(r) => Outcome
<1> SUFFICES ASSUME IInv, NEW r \in Requests, TextChunk(r) PROVE Outcome
  OBVIOUS
<1>1. PICK n \in req[r].failovers..MaxFailovers :
        req' = [req EXCEPT ![r].text = Append(@, n), ![r].failovers = n]
  BY DEF TextChunk
<1>2. req[r].pc = "reading" /\ UNCHANGED <<store, created, now, hits, misses, errors>>
  BY DEF TextChunk
<1>3. Smaller(store')
  BY <1>2, StoreSmaller DEF IInv, Smaller
<1>4. /\ req' \in [Requests -> Handlers]
      /\ req'[r].pc = "reading" /\ req'[r].sid = req[r].sid
      /\ req'[r].found = req[r].found /\ req'[r].history = req[r].history
      /\ \A q \in Requests : q # r => req'[q] = req[q]
  <2>1. req \in [Requests -> Handlers] /\ req[r] \in Handlers
    BY Types
  <2>2. n \in 0..MaxFailovers
    BY <2>1, RestAssumption DEF Handlers
  <2>3. PICK text : text = Append(req[r].text, n)
    OBVIOUS
  <2>4. text \in Seq(0..MaxFailovers)
    BY <2>1, <2>2, <2>3 DEF Handlers
  <2>5. req' = [req EXCEPT ![r] = [[req[r] EXCEPT !.text = text] EXCEPT !.failovers = n]]
    BY <1>1, <2>1, <2>3
  <2> QED
    BY <1>2, <2>1, <2>2, <2>4, <2>5 DEF Handlers
<1>5. Admitted'
  BY <1>2, <1>4 DEF IInv, Admitted
<1>6. \A q \in Requests : req[q].pc = "done" \/ req'[q].pc = "done" => req'[q] = req[q]
  BY <1>2, <1>4
<1>7. \A q \in Requests : req'[q].pc = "reading" =>
        /\ req[q].pc = "reading" /\ req'[q].sid = req[q].sid
        /\ req'[q].found = req[q].found /\ req'[q].history = req[q].history
  BY <1>2, <1>4
<1> QED
  BY <1>2, <1>3, <1>4, <1>5, <1>6, <1>7, Types, NothingSaved DEF Outcome, Quiet

(* An exception of a stream is noted, and nothing else.                    *)
LEMMA StreamRaiseStep == \A r \in Requests : IInv /\ StreamRaise(r) => Outcome
<1> SUFFICES ASSUME IInv, NEW r \in Requests, StreamRaise(r) PROVE Outcome
  OBVIOUS
<1>1. /\ req[r].pc = "reading" /\ req' = [req EXCEPT ![r].ending = "exception"]
      /\ errors' = errors + 1 /\ UNCHANGED <<store, created, now, hits, misses>>
  BY DEF StreamRaise
<1>2. Smaller(store')
  BY <1>1, StoreSmaller DEF IInv, Smaller
<1>3. /\ req' \in [Requests -> Handlers]
      /\ req'[r].pc = "reading" /\ req'[r].sid = req[r].sid
      /\ req'[r].found = req[r].found /\ req'[r].history = req[r].history
      /\ \A q \in Requests : q # r => req'[q] = req[q]
  <2>1. req \in [Requests -> Handlers] /\ req[r] \in Handlers
    BY Types
  <2> QED
    BY <1>1, <2>1 DEF Handlers
<1>4. Admitted'
  BY <1>1, <1>3 DEF IInv, Admitted
<1>5. \A q \in Requests : req[q].pc = "done" \/ req'[q].pc = "done" => req'[q] = req[q]
  BY <1>1, <1>3
<1>6. \A q \in Requests : req'[q].pc = "reading" =>
        /\ req[q].pc = "reading" /\ req'[q].sid = req[q].sid
        /\ req'[q].found = req[q].found /\ req'[q].history = req[q].history
  BY <1>1, <1>3
<1>7. errors' \in Nat
  BY <1>1, Types
<1> QED
  BY <1>1, <1>2, <1>3, <1>4, <1>5, <1>6, <1>7, Types, NothingSaved DEF Outcome, Quiet

(* How a stream ends.                                                      *)
Endings == {"complete", "error", "disconnect", "exception"}

(* Finish ends the request r and leaves the others alone.                  *)
LEMMA FinishChanges ==
  ASSUME IInv, NEW r \in Requests, req[r].pc = "reading",
         NEW ending \in Endings, Finish(r, ending)
  PROVE  /\ req' \in [Requests -> Handlers]
         /\ req'[r] = [[req[r] EXCEPT !.pc = "done"] EXCEPT !.ending = ending]
         /\ req'[r].pc = "done" /\ req'[r].sid = req[r].sid /\ req'[r].text = req[r].text
         /\ req'[r].kind = req[r].kind /\ req'[r].ending = ending
         /\ req'[r].found = req[r].found
         /\ \A q \in Requests : q # r => req'[q] = req[q]
<1>1. req \in [Requests -> Handlers] /\ req[r] \in Handlers
  BY Types
<1>2. req' = [req EXCEPT ![r] = [[req[r] EXCEPT !.pc = "done"] EXCEPT !.ending = ending]]
  BY <1>1 DEF Finish
<1> QED
  BY <1>1, <1>2 DEF Handlers, Endings

(* A request ends, and there is no turn to save or no session to save it   *)
(* in.                                                                     *)
LEMMA UnsavedEnd ==
  ASSUME IInv, NEW r \in Requests, req[r].pc = "reading",
         NEW ending \in Endings, Finish(r, ending),
         Smaller(store'), UNCHANGED <<created, now, hits, misses>>, errors' \in Nat,
         ~HasReply(r)' \/ req[r].sid \notin DOMAIN store'
  PROVE  Outcome
<1>1. /\ req' \in [Requests -> Handlers] /\ req'[r].pc = "done" /\ req'[r].sid = req[r].sid
      /\ \A q \in Requests : q # r => req'[q] = req[q]
  BY FinishChanges
<1>2. Admitted'
  BY <1>1 DEF IInv, Admitted
<1>3. \A q \in Requests : req[q].pc = "done" => req'[q] = req[q]
  BY <1>1
<1>4. \A q \in Requests : req'[q].pc = "done" =>
        req'[q] = req[q] \/ ~HasReply(q)' \/ req'[q].sid \notin DOMAIN store'
  <2> SUFFICES ASSUME NEW q \in Requests, req'[q].pc = "done"
               PROVE req'[q] = req[q] \/ ~HasReply(q)' \/ req'[q].sid \notin DOMAIN store'
    OBVIOUS
  <2>1. CASE q = r
    BY <1>1, <2>1
  <2>2. CASE q # r
    BY <1>1, <2>2
  <2> QED
    BY <2>1, <2>2
<1>5. \A q \in Requests : req'[q].pc = "reading" =>
        /\ req[q].pc = "reading" /\ req'[q].sid = req[q].sid
        /\ req'[q].found = req[q].found /\ req'[q].history = req[q].history
  BY <1>1
<1> QED
  BY <1>1, <1>2, <1>3, <1>4, <1>5, Types, NothingSaved DEF Outcome, Quiet

(* A request ends and save_turn() is called.                               *)
LEMMA SavingEnd ==
  ASSUME IInv, NEW r \in Requests, req[r].pc = "reading",
         NEW ending \in Endings, Finish(r, ending),
         store' = AfterSaveTurn(store, req[r].sid, now, r, req[r].text),
         UNCHANGED <<created, now, hits, misses>>, errors' \in Nat
  PROVE  Outcome
<1> DEFINE s == req[r].sid
<1>1. CASE s \in Live(store, now)
  <2>1. /\ IInv'
        /\ \A x \in DOMAIN store : \A d, turns : Kept(x, d, turns) =>
             \E dd, tt : /\ Kept(x, dd, tt)'
                         /\ tt = IF x = req[r].sid THEN Append(turns, r) ELSE turns
    BY <1>1, TurnSaved DEF Endings
  <2>2. /\ DOMAIN store' = DOMAIN store
        /\ \A x \in DOMAIN store : store'[x].created = store[x].created
    <3>1. PICK h : h = View(store[s]) \o <<HumanMessage(r), AIMessage(r, req[r].text)>>
      OBVIOUS
    <3>2. s \in DOMAIN store /\ store' = [store EXCEPT ![s].history = h]
      BY <1>1, <3>1 DEF AfterSaveTurn, AfterUpdateHistory, Live
    <3>3. store \in [DOMAIN store -> Entries]
      BY DEF IInv, TypeOK
    <3> QED
      BY <3>2, <3>3 DEF Entries
  <2>3. Saves(r)
    BY <1>1, <2>1, <2>2 DEF Saves
  <2> QED
    BY <2>1, <2>3 DEF Outcome
<1>2. CASE s \notin Live(store, now)
  <2>1. store' = AfterGet(store, s, now)
    BY <1>2 DEF AfterSaveTurn
  <2>2. Smaller(store') /\ s \notin DOMAIN store'
    BY <1>2, <2>1, StoreSmaller DEF IInv
  <2> QED
    BY <2>2, UnsavedEnd
<1> QED
  BY <1>1, <1>2

(* /stream saves a turn if there is a reply.                               *)
LEMMA StreamEndStep == \A r \in Requests : IInv /\ StreamEnd(r) => Outcome
<1> SUFFICES ASSUME IInv, NEW r \in Requests, StreamEnd(r) PROVE Outcome
  OBVIOUS
<1>1. PICK ending \in Endings : Finish(r, ending)
  <2>1. PICK e \in {"complete", "disconnect"} :
          Finish(r, IF req[r].ending = "none" THEN e ELSE req[r].ending)
    BY DEF StreamEnd
  <2>2. req[r].ending \in Endings \cup {"none"}
    BY Types DEF Handlers, Endings
  <2> QED
    BY <2>1, <2>2 DEF Endings
<1>2. /\ req[r].pc = "reading" /\ req[r].kind = "stream"
      /\ store' = IF req[r].text = <<>> THEN store
                  ELSE AfterSaveTurn(store, req[r].sid, now, r, req[r].text)
      /\ UNCHANGED <<created, now, hits, misses, errors>>
  BY DEF StreamEnd
<1>3. errors' \in Nat
  BY <1>2, Types
<1>4. CASE req[r].text = <<>>
  <2>1. Smaller(store')
    BY <1>2, <1>4, StoreSmaller DEF IInv, Smaller
  <2>2. ~HasReply(r)'
    BY <1>1, <1>2, <1>4, FinishChanges DEF HasReply
  <2> QED
    BY <1>1, <1>2, <1>3, <2>1, <2>2, UnsavedEnd
<1>5. CASE req[r].text # <<>>
  BY <1>1, <1>2, <1>3, <1>5, SavingEnd
<1> QED
  BY <1>4, <1>5

(* /chat saves the turn.                                                   *)
LEMMA ChatEndStep == \A r \in Requests : IInv /\ ChatEnd(r) => Outcome
<1> SUFFICES ASSUME IInv, NEW r \in Requests, ChatEnd(r) PROVE Outcome
  OBVIOUS
<1>1. PICK ending \in Endings : Finish(r, ending)
  BY DEF ChatEnd, Endings
<1>2. /\ req[r].pc = "reading"
      /\ store' = AfterSaveTurn(store, req[r].sid, now, r, req[r].text)
      /\ UNCHANGED <<created, now, hits, misses, errors>>
  BY DEF ChatEnd
<1> QED
  BY <1>1, <1>2, Types, SavingEnd

(* /chat saves nothing of a request that raised.                           *)
LEMMA ChatRaiseStep == \A r \in Requests : IInv /\ ChatRaise(r) => Outcome
<1> SUFFICES ASSUME IInv, NEW r \in Requests, ChatRaise(r) PROVE Outcome
  OBVIOUS
<1>1. /\ req[r].pc = "reading" /\ req[r].kind = "chat" /\ Finish(r, "exception")
      /\ UNCHANGED <<store, created, now, hits, misses, errors>>
  BY DEF ChatRaise
<1>2. "exception" \in Endings
  BY DEF Endings
<1>3. Smaller(store')
  BY <1>1, StoreSmaller DEF IInv, Smaller
<1>4. ~HasReply(r)'
  BY <1>1, <1>2, FinishChanges DEF HasReply
<1> QED
  BY <1>1, <1>2, <1>3, <1>4, Types, UnsavedEnd

(* Every step has one of the three outcomes and preserves the invariant.   *)
LEMMA NextOutcome == IInv /\ [Next]_vars => Outcome
<1> SUFFICES ASSUME IInv, Next PROVE Outcome
  BY StutterStep
<1>1. CASE Tick \/ InitSession \/ ReadHistory \/ DeleteSession \/ Restart
  BY <1>1, TickStep, InitSessionStep, ReadHistoryStep, DeleteSessionStep, RestartStep
<1>2. ASSUME NEW r \in Requests, Reject(r) \/ Begin(r) \/ Handle(r)
      PROVE  Outcome
  BY <1>2, RejectStep, BeginStep, TextChunkStep, StreamRaiseStep, StreamEndStep,
     ChatEndStep, ChatRaiseStep
  DEF Handle
<1> QED
  BY <1>1, <1>2 DEF Next

(* The invariant holds in every reachable state.                           *)
LEMMA Invariance == Spec => []IInv
<1>1. IInv /\ [Next]_vars => IInv'
  BY NextOutcome DEF Outcome
<1> QED
  BY InitIInv, <1>1, PTL DEF Spec

(***************************************************************************)
(* Histories                                                               *)
(***************************************************************************)
(* What Kept says is what a reader of the history sees.                    *)
LEMMA TurnsAreIntact == IInv => TurnsIntact
<1> SUFFICES ASSUME IInv, NEW s \in DOMAIN store
             PROVE  LET e     == store[s]
                        d     == DisplayHistory(e)
                        turns == Turns(e.history)
                    IN  /\ e.history = (IF e.prompted /\ d # <<>> THEN <<SystemMessage>> ELSE <<>>) \o d
                        /\ Len(d) = 2 * Len(turns) /\ IsInjective(turns)
                        /\ \A i \in DOMAIN turns :
                             /\ turns[i] \in Requests
                             /\ d[2 * i - 1] = HumanMessage(turns[i])
                             /\ d[2 * i] = AIMessage(turns[i], req[turns[i]].text)
                             /\ req[turns[i]].sid = s /\ req[turns[i]].pc = "done"
  BY DEF TurnsIntact
<1>1. PICK d, turns : Kept(s, d, turns)
  BY DEF IInv, DialoguesKept
<1>2. DisplayHistory(store[s]) = d /\ Turns(store[s].history) = turns
  BY <1>1, KeptShown DEF DisplayHistory
<1>3. /\ Len(d) = 2 * Len(turns) /\ turns \in Seq(Requests) /\ DOMAIN turns = 1..Len(turns)
      /\ \A i \in 1..Len(turns) : turns[i] \in Requests
  BY <1>1 DEF Kept, Dialogue
<1>4. store[s].history = (IF store[s].prompted /\ d # <<>> THEN <<SystemMessage>> ELSE <<>>) \o d
  <2>1. Opening(store[s].prompted, d)
          = IF store[s].prompted /\ d # <<>> THEN <<SystemMessage>> ELSE <<>>
    BY DEF Opening, Start
  <2> QED
    BY <1>1, <2>1 DEF Kept
<1>5. IsInjective(turns)
  BY <1>1, <1>3 DEF Kept, IsInjective
<1>6. \A i \in DOMAIN turns :
        /\ turns[i] \in Requests
        /\ d[2 * i - 1] = HumanMessage(turns[i])
        /\ d[2 * i] = AIMessage(turns[i], req[turns[i]].text)
        /\ req[turns[i]].sid = s /\ req[turns[i]].pc = "done"
  BY <1>1, <1>3 DEF Kept, Dialogue
<1> QED
  BY <1>2, <1>3, <1>4, <1>5, <1>6

(* However requests overlap, a saved history is whole turns, and what a    *)
(* request answers from stays a prefix of it (chat_service.py:36-63,       *)
(* chat_router.py:87-92, 123-124).                                         *)
THEOREM HistoriesAreIntact == Spec => []HistoriesIntact
<1>1. IInv => HistoriesIntact
  BY TurnsAreIntact DEF HistoriesIntact, IInv
<1> QED
  BY Invariance, <1>1, PTL

(* A question that is in the history is one of its turns.                  *)
LEMMA AskedIsTurn ==
  ASSUME IInv, NEW s \in DOMAIN store, NEW r \in Requests, Asked(s, r)
  PROVE  r \in ToSet(Turns(store[s].history))
<1>1. PICK d, turns : Kept(s, d, turns)
  BY DEF IInv, DialoguesKept
<1>2. Turns(store[s].history) = turns
  BY <1>1, KeptShown
<1>3. PICK i \in DOMAIN store[s].history : store[s].history[i] = HumanMessage(r)
  BY DEF Asked
<1>4. PICK o : o = Opening(store[s].prompted, d)
  OBVIOUS
<1>5. /\ store[s].history = o \o d /\ d \in Seq(Messages) /\ turns \in Seq(Requests)
      /\ Len(d) = 2 * Len(turns)
  BY <1>1, <1>4 DEF Kept, Dialogue
<1>6. o = <<>> \/ o = <<SystemMessage>>
  BY <1>4 DEF Opening, Start
<1>7. o \in Seq(Messages) /\ \A k \in 1..Len(o) : o[k] = SystemMessage
  <2>1. <<SystemMessage>> \in Seq(Messages) /\ <<>> \in Seq(Messages)
    BY SystemMessageType
  <2>2. CASE o = <<>>
    BY <2>1, <2>2
  <2>3. CASE o = <<SystemMessage>>
    <3>1. Len(o) = 1 /\ o[1] = SystemMessage
      BY <2>3
    <3> QED
      BY <2>1, <2>3, <3>1
  <2> QED
    BY <1>6, <2>2, <2>3
<1>8. PICK k \in 1..Len(d) : d[k] = HumanMessage(r)
  <2>1. /\ Len(o) \in Nat /\ Len(d) \in Nat
        /\ Len(o \o d) = Len(o) + Len(d) /\ o \o d \in Seq(Messages)
    <3>1. o \in Seq(Messages) /\ d \in Seq(Messages)
      BY <1>5, <1>7
    <3> QED
      BY <3>1, ConcatProperties
  <2>2. i \in 1..(Len(o) + Len(d))
    BY <1>3, <1>5, <2>1
  <2>3. (o \o d)[i] = IF i <= Len(o) THEN o[i] ELSE d[i - Len(o)]
    BY <1>5, <1>7, <2>2, ConcatProperties
  <2>4. HumanMessage(r) # SystemMessage
    BY DEF HumanMessage, SystemMessage, Message
  <2>5. ~(i <= Len(o))
    BY <1>3, <1>5, <1>7, <2>1, <2>2, <2>3, <2>4
  <2>6. i - Len(o) \in 1..Len(d)
    BY <2>1, <2>2, <2>5
  <2> QED
    BY <1>3, <1>5, <2>3, <2>5, <2>6
<1>9. PICK j \in 1..Len(turns) : k = 2 * j - 1 \/ k = 2 * j
  <2>1. k \in 1..(2 * Len(turns)) /\ Len(turns) \in Nat
    BY <1>5
  <2> DEFINE j == (k + 1) \div 2
  <2>2. j \in Nat /\ (2 * j = k \/ 2 * j = k + 1)
    BY <2>1
  <2>3. j \in 1..Len(turns)
    BY <2>1, <2>2
  <2>4. k = 2 * j - 1 \/ k = 2 * j
    BY <2>1, <2>2
  <2> HIDE DEF j
  <2> QED
    BY <2>3, <2>4
<1>10. /\ d[2 * j - 1] = HumanMessage(turns[j])
       /\ d[2 * j] = AIMessage(turns[j], req[turns[j]].text)
  BY <1>1 DEF Kept, Dialogue
<1>11. turns[j] = r
  BY <1>8, <1>9, <1>10 DEF HumanMessage, AIMessage, Message
<1>12. j \in DOMAIN turns
  BY <1>5
<1> QED
  BY <1>2, <1>11, <1>12 DEF ToSet

(* No request's turn is overwritten by an overlapping request of the same  *)
(* session (chat_service.py:54-58).                                        *)
THEOREM NoTurnIsLost == Spec => []NoLostTurn
<1>1. IInv => NoLostTurn
  <2> SUFFICES ASSUME IInv, NEW r \in Requests, req[r].pc = "done", HasReply(r),
                      req[r].sid \in Live(store, now)
               PROVE  r \in ToSet(Turns(store[req[r].sid].history))
    BY DEF NoLostTurn
  <2>1. req[r].sid \in DOMAIN store
    BY DEF Live
  <2>2. Asked(req[r].sid, r)
    BY <2>1 DEF IInv, TurnsKept
  <2> QED
    BY <2>1, <2>2, AskedIsTurn
<1> QED
  BY Invariance, <1>1, PTL

(***************************************************************************)
(* The counters                                                            *)
(***************************************************************************)
(* The requests whose history was loaded, that were turned away, and that  *)
(* ended in an exception of /stream.                                       *)
Loaded == {r \in Requests : req[r].pc \in {"reading", "done"} /\ req[r].found}
Rejected == {r \in Requests : req[r].pc = "rejected"}
Raised == {r \in Requests : /\ req[r].pc \in {"reading", "done"}
                            /\ req[r].kind = "stream" /\ req[r].ending = "exception"}

(* The ledger as sets of requests, and what it needs: no request has ended *)
(* before its handler has, but for /stream after an exception.             *)
Unended ==
  \A r \in Requests :
    /\ req[r].pc \in {"idle", "reading"} => req[r].ending \in {"none", "exception"}
    /\ req[r].pc = "idle" \/ (req[r].pc = "reading" /\ req[r].kind = "chat") =>
         req[r].ending = "none"

(* CacheLedger, by those sets.                                             *)
Ledger ==
  /\ hits = Cardinality(Loaded) /\ misses >= Cardinality(Rejected)
  /\ errors = Cardinality(Raised)

(* The inductive invariant of the counters.                                *)
LInv == IInv /\ Unended /\ Ledger

(* The sets are finite, as the requests are.                               *)
LEMMA SetsFinite ==
  /\ IsFiniteSet(Loaded) /\ IsFiniteSet(Rejected) /\ IsFiniteSet(Raised)
  /\ IsFiniteSet(Loaded') /\ IsFiniteSet(Rejected') /\ IsFiniteSet(Raised')
<1>1. /\ Loaded \subseteq Requests /\ Rejected \subseteq Requests /\ Raised \subseteq Requests
      /\ Loaded' \subseteq Requests /\ Rejected' \subseteq Requests /\ Raised' \subseteq Requests
  BY DEF Loaded, Rejected, Raised
<1> QED
  BY <1>1, RestAssumption, FS_Subset

(* A step that moves no request between the sets keeps the ledger.         *)
LEMMA LedgerSame ==
  ASSUME LInv, Loaded' = Loaded, Rejected' = Rejected, Raised' = Raised,
         UNCHANGED <<hits, errors>>, misses' \in Nat, misses' >= misses
  PROVE  Ledger'
<1>1. Cardinality(Rejected) \in Nat /\ misses \in Nat
  BY SetsFinite, FS_CardinalityType DEF LInv, IInv, TypeOK
<1> QED
  BY <1>1 DEF LInv, Ledger

(* In particular, one that leaves the requests alone.                      *)
LEMMA RequestsSame ==
  ASSUME LInv, UNCHANGED <<req, hits, errors>>, misses' \in Nat, misses' >= misses
  PROVE  Unended' /\ Ledger'
<1>1. Loaded' = Loaded /\ Rejected' = Rejected /\ Raised' = Raised
  BY DEF Loaded, Rejected, Raised
<1> QED
  BY <1>1, LedgerSame DEF LInv, Unended

(* One element more counts one more.                                       *)
LEMMA OneMore ==
  ASSUME NEW S, NEW x, IsFiniteSet(S), x \notin S
  PROVE  Cardinality(S \cup {x}) = Cardinality(S) + 1
BY FS_AddElement

(* Every step keeps the ledger.                                            *)
LEMMA LedgerNext == LInv /\ [Next]_vars => Unended' /\ Ledger'
<1> SUFFICES ASSUME LInv, [Next]_vars PROVE Unended' /\ Ledger'
  OBVIOUS
<1>0. IInv /\ IInv' /\ misses \in Nat /\ misses' \in Nat /\ misses >= misses
  <2>1. IInv'
    BY NextOutcome DEF LInv, Outcome
  <2> QED
    BY <2>1, RestAssumption DEF LInv, IInv, TypeOK
<1>1. ASSUME NEW s, NotFound(s)
      PROVE  /\ misses' = misses + 1 /\ misses' \in Nat /\ misses' >= misses
             /\ UNCHANGED <<hits, errors>>
  BY <1>0, <1>1 DEF NotFound
<1>2. CASE Tick \/ InitSession \/ UNCHANGED vars
  BY <1>0, <1>2, RequestsSame DEF Tick, InitSession, vars
<1>3. CASE ReadHistory \/ DeleteSession
  <2>1. UNCHANGED <<req, hits, errors>> /\ misses' \in Nat /\ misses' >= misses
    BY <1>0, <1>1, <1>3 DEF ReadHistory, DeleteSession
  <2> QED
    BY <2>1, RequestsSame
<1>4. CASE Restart
  <2>1. \A r \in Requests : req'[r].pc \notin {"rejected", "reading", "done"}
    <3> SUFFICES ASSUME NEW r \in Requests
                 PROVE  req'[r].pc \notin {"rejected", "reading", "done"}
      OBVIOUS
    <3>1. req[r] \in Handlers
      BY <1>0, Types
    <3>2. req'[r] = IF req[r].pc = "idle" THEN req[r] ELSE [req[r] EXCEPT !.pc = "gone"]
      BY <1>4 DEF Restart
    <3> QED
      BY <3>1, <3>2 DEF Handlers
  <2>2. Loaded' = {} /\ Rejected' = {} /\ Raised' = {}
    BY <2>1 DEF Loaded, Rejected, Raised
  <2>3. Ledger'
    BY <1>4, <2>2, FS_EmptySet DEF Ledger, Restart
  <2>4. Unended'
    <3> SUFFICES ASSUME NEW r \in Requests, req'[r].pc \in {"idle", "reading"}
                 PROVE  req'[r].ending = "none"
      BY Zenon DEF Unended
    <3>1. req'[r] = IF req[r].pc = "idle" THEN req[r] ELSE [req[r] EXCEPT !.pc = "gone"]
      BY <1>4 DEF Restart
    <3>2. req[r] \in Handlers
      BY <1>0, Types
    <3>3. req'[r] = req[r] /\ req[r].pc = "idle"
      BY <2>1, <3>1, <3>2 DEF Handlers
    <3> QED
      BY <3>3 DEF LInv, Unended
  <2> QED
    BY <2>3, <2>4
<1>5. ASSUME NEW r \in Requests, Reject(r)
      PROVE  Unended' /\ Ledger'
  <2>1. /\ misses' = misses + 1 /\ UNCHANGED <<hits, errors>> /\ req[r].pc = "idle"
        /\ req' = [req EXCEPT ![r].pc = "rejected"]
    BY <1>1, <1>5 DEF Reject
  <2>2. req \in [Requests -> Handlers]
    BY <1>0, Types
  <2>3. req'[r].pc = "rejected" /\ \A q \in Requests : q # r => req'[q] = req[q]
    BY <2>1, <2>2 DEF Handlers
  <2>4. Loaded' = Loaded /\ Raised' = Raised /\ r \notin Rejected /\ Rejected' = Rejected \cup {r}
    BY <2>1, <2>3 DEF Loaded, Raised, Rejected
  <2>5. Cardinality(Rejected') = Cardinality(Rejected) + 1 /\ Cardinality(Rejected) \in Nat
    BY <2>4, SetsFinite, OneMore, FS_CardinalityType
  <2>6. Ledger'
    BY <1>0, <2>1, <2>4, <2>5 DEF LInv, Ledger
  <2> QED
    BY <2>3, <2>6 DEF LInv, Unended
<1>6. ASSUME NEW r \in Requests, Begin(r)
      PROVE  Unended' /\ Ledger'
  <2> DEFINE Found(s) == s \in Live(store, now')
  <2> HIDE DEF Found
  <2>1. PICK s, kind, h :
          /\ hits' = IF Found(s) THEN hits + 1 ELSE hits
          /\ req' = [req EXCEPT ![r] =
                       [@ EXCEPT !.pc = "reading", !.kind = kind, !.sid = s,
                                 !.found = Found(s), !.history = h]]
    BY <1>6 DEF Begin, Found
  <2> DEFINE found == Found(s)
  <2>2. req[r].pc = "idle" /\ UNCHANGED <<misses, errors>>
    BY <1>6 DEF Begin
  <2>3. req \in [Requests -> Handlers]
    BY <1>0, Types
  <2>4. /\ req'[r].pc = "reading" /\ req'[r].found = found /\ req'[r].ending = req[r].ending
        /\ \A q \in Requests : q # r => req'[q] = req[q]
    BY <2>1, <2>3 DEF Handlers
  <2>5. req[r].ending = "none"
    BY <2>2 DEF LInv, Unended
  <2>6. /\ Rejected' = Rejected /\ Raised' = Raised /\ r \notin Loaded
        /\ Loaded' = IF found THEN Loaded \cup {r} ELSE Loaded
    BY <2>2, <2>4, <2>5 DEF Loaded, Raised, Rejected
  <2>7. Cardinality(Loaded \cup {r}) = Cardinality(Loaded) + 1
    BY <2>6, SetsFinite, OneMore
  <2>8. hits' = Cardinality(Loaded')
    BY <2>1, <2>6, <2>7 DEF LInv, Ledger
  <2>9. Ledger'
    BY <2>2, <2>6, <2>8 DEF LInv, Ledger
  <2> QED
    BY <2>4, <2>5, <2>9 DEF LInv, Unended
<1>7. ASSUME NEW r \in Requests, TextChunk(r)
      PROVE  Unended' /\ Ledger'
  <2>1. PICK n, text : req' = [req EXCEPT ![r].text = text, ![r].failovers = n]
    BY <1>7 DEF TextChunk
  <2>2. req \in [Requests -> Handlers]
    BY <1>0, Types
  <2>3. \A q \in Requests : /\ req'[q].pc = req[q].pc /\ req'[q].found = req[q].found
                            /\ req'[q].kind = req[q].kind /\ req'[q].ending = req[q].ending
    BY <2>1, <2>2 DEF Handlers
  <2>4. Loaded' = Loaded /\ Rejected' = Rejected /\ Raised' = Raised
    BY <2>3 DEF Loaded, Rejected, Raised
  <2>5. Ledger'
    BY <1>0, <1>7, <2>4, LedgerSame DEF TextChunk
  <2> QED
    BY <2>3, <2>5 DEF LInv, Unended
<1>8. ASSUME NEW r \in Requests, StreamRaise(r)
      PROVE  Unended' /\ Ledger'
  <2>1. /\ req[r].pc = "reading" /\ req[r].kind = "stream" /\ req[r].ending = "none"
        /\ req' = [req EXCEPT ![r].ending = "exception"]
        /\ errors' = errors + 1 /\ UNCHANGED <<hits, misses>>
    BY <1>8 DEF StreamRaise
  <2>2. /\ req'[r].pc = "reading" /\ req'[r].ending = "exception"
        /\ req'[r].kind = req[r].kind /\ req'[r].found = req[r].found
        /\ \A q \in Requests : q # r => req'[q] = req[q]
    BY <1>0, <2>1, Types DEF Handlers
  <2>3. /\ Loaded' = Loaded /\ Rejected' = Rejected /\ r \notin Raised
        /\ Raised' = Raised \cup {r}
    BY <2>1, <2>2 DEF Loaded, Raised, Rejected
  <2>4. Cardinality(Raised') = Cardinality(Raised) + 1
    BY <2>3, SetsFinite, OneMore
  <2>5. Ledger'
    BY <2>1, <2>3, <2>4 DEF LInv, Ledger
  <2> QED
    BY <2>1, <2>2, <2>5 DEF LInv, Unended
<1>9. ASSUME NEW r \in Requests, StreamEnd(r) \/ ChatEnd(r) \/ ChatRaise(r)
      PROVE  Unended' /\ Ledger'
  <2>1. req[r].pc = "reading" /\ UNCHANGED <<hits, misses, errors>>
    BY <1>9 DEF StreamEnd, ChatEnd, ChatRaise
  <2>2. PICK ending \in Endings :
          /\ Finish(r, ending)
          /\ req[r].kind = "stream" => (ending = "exception" <=> req[r].ending = "exception")
    <3>1. CASE StreamEnd(r)
      <4>1. PICK e \in {"complete", "disconnect"} :
              Finish(r, IF req[r].ending = "none" THEN e ELSE req[r].ending)
        BY <3>1 DEF StreamEnd
      <4>2. req[r].ending \in {"none", "exception"}
        BY <2>1 DEF LInv, Unended
      <4> QED
        BY <4>1, <4>2 DEF Endings
    <3>2. CASE ChatEnd(r) \/ ChatRaise(r)
      BY <3>2 DEF ChatEnd, ChatRaise, Endings
    <3> QED
      BY <1>9, <3>1, <3>2
  <2>3. /\ req'[r].pc = "done" /\ req'[r].ending = ending
        /\ req'[r].kind = req[r].kind /\ req'[r].found = req[r].found
        /\ \A q \in Requests : q # r => req'[q] = req[q]
    BY <1>0, <2>1, <2>2, FinishChanges
  <2>4. Loaded' = Loaded /\ Rejected' = Rejected /\ Raised' = Raised
    BY <2>1, <2>2, <2>3 DEF Loaded, Raised, Rejected
  <2>5. Ledger'
    BY <1>0, <2>1, <2>4, LedgerSame
  <2> QED
    BY <2>3, <2>5 DEF LInv, Unended
<1> QED
  BY <1>2, <1>3, <1>4, <1>5, <1>6, <1>7, <1>8, <1>9 DEF Next, Handle

(* Hits, misses and errors are what the requests did, whatever overlaps    *)
(* and whenever the process restarts (chat_service.py:39, 72;              *)
(* chat_router.py:84).                                                     *)
THEOREM CacheLedgerHolds == Spec => []CacheLedger
<1>1. Init => LInv
  <2> SUFFICES ASSUME Init PROVE LInv
    OBVIOUS
  <2>1. \A r \in Requests : req[r].pc = "idle" /\ req[r].ending = "none"
    BY DEF Init, Idle
  <2>2. Loaded = {} /\ Rejected = {} /\ Raised = {}
    BY <2>1 DEF Loaded, Rejected, Raised
  <2> QED
    BY <2>1, <2>2, InitIInv, FS_EmptySet DEF LInv, Unended, Ledger, Init
<1>2. LInv /\ [Next]_vars => LInv'
  BY LedgerNext, NextOutcome DEF LInv, Outcome
<1>3. LInv => CacheLedger
  <2> SUFFICES ASSUME LInv PROVE CacheLedger
    OBVIOUS
  <2> DEFINE since == {r \in Requests : req[r].pc \in {"reading", "done"}}
  <2>1. /\ {r \in since : req[r].found} = Loaded
        /\ {r \in since : req[r].kind = "stream" /\ req[r].ending = "exception"} = Raised
    BY DEF Loaded, Raised
  <2> QED
    BY <2>1 DEF CacheLedger, LInv, Ledger, Rejected
<1> QED
  BY <1>1, <1>2, <1>3, PTL DEF Spec

(***************************************************************************)
(* The refinement of Conversations                                         *)
(***************************************************************************)
(* KeptShown as one formula, which can be primed.                          *)
KeptAreShown ==
  \A s, d, turns : Kept(s, d, turns) => Turns(store[s].history) = turns

(* It holds in every state,                                                *)
LEMMA KeptAlwaysShown == KeptAreShown
BY KeptShown DEF KeptAreShown

(* and so in the next one.                                                 *)
LEMMA KeptShownNext == KeptAreShown'
BY KeptAlwaysShown, PTL

(* The log of a session: its turns while it lives.                         *)
LEMMA Logs ==
  ASSUME NEW s \in SessionIds
  PROVE  /\ s \in Live(store, now) => AbsLog[s] = Turns(store[s].history)
         /\ s \notin Live(store, now) => AbsLog[s] = <<>>
BY DEF AbsLog

(* A step that saves nothing closes sessions, by their expiry, their       *)
(* deletion or a restart, or changes nothing.                              *)
LEMMA QuietMaps ==
  IInv /\ Quiet => [Conversation!Next]_(Conversation!vars)
<1> SUFFICES ASSUME IInv, Quiet PROVE [Conversation!Next]_(Conversation!vars)
  OBVIOUS
<1> DEFINE L == Live(store, now)
           LN == Live(store', now')
<1>1. DOMAIN store' \subseteq DOMAIN store /\ \A s \in DOMAIN store' : store'[s] = store[s]
  BY DEF Quiet, Smaller
<1>2. LN \subseteq L
  <2> SUFFICES ASSUME NEW s \in LN PROVE s \in L
    OBVIOUS
  <2>1. s \in DOMAIN store' /\ ~(now' - store[s].created > TTL)
    BY <1>1 DEF Live, Expired
  <2>2. s \in DOMAIN store /\ store[s].created \in Nat /\ now \in Nat /\ now' \in Nat /\ now <= now'
    BY <1>1, <2>1, Types DEF IInv, TypeOK, Entries, Quiet
  <2>3. ~(now - store[s].created > TTL)
    BY <2>1, <2>2, TTLAssumption
  <2> QED
    BY <2>2, <2>3 DEF Live, Expired
<1>3. AbsLog' = [s \in SessionIds |-> IF s \in LN THEN AbsLog[s] ELSE <<>>]
  <2>1. AbsLog' = [s \in SessionIds |-> IF s \in LN THEN Turns(store'[s].history) ELSE <<>>]
    BY DEF AbsLog
  <2>2. \A s \in SessionIds : s \in LN => Turns(store'[s].history) = AbsLog[s]
    <3> SUFFICES ASSUME NEW s \in SessionIds, s \in LN
                 PROVE  Turns(store'[s].history) = AbsLog[s]
      OBVIOUS
    <3>1. store'[s] = store[s]
      BY <1>1 DEF Live
    <3>2. AbsLog[s] = Turns(store[s].history)
      BY <1>2, Logs
    <3> QED
      BY <3>1, <3>2
  <2> QED
    BY <2>1, <2>2
<1>4. UNCHANGED created
  BY DEF Quiet
<1>5. ListSessions(store, now) = L /\ ListSessions(store, now)' = LN
  BY DEF ListSessions
<1>6. CASE LN # L
  BY <1>2, <1>3, <1>4, <1>5, <1>6 DEF Conversation!Next, Conversation!Close
<1>7. CASE LN = L
  <2>1. AbsLog' = AbsLog
    <3>1. AbsLog' = [s \in SessionIds |-> IF s \in L THEN AbsLog[s] ELSE <<>>]
      BY <1>3, <1>7
    <3>2. \A s \in SessionIds : (IF s \in L THEN AbsLog[s] ELSE <<>>) = AbsLog[s]
      BY Logs
    <3>3. AbsLog = [s \in SessionIds |-> AbsLog[s]]
      BY DEF AbsLog
    <3> QED
      BY <3>1, <3>2, <3>3
  <2> QED
    BY <1>4, <1>5, <1>7, <2>1 DEF Conversation!vars
<1> QED
  BY <1>6, <1>7

(* A new session opens, with an empty log.                                 *)
LEMMA CreatedMaps ==
  ASSUME IInv, NEW s \in SessionIds, Created(s)
  PROVE  Conversation!Next
<1>1. /\ s \in SessionIds \ created /\ created' = created \cup {s} /\ UNCHANGED now
      /\ DOMAIN store' = DOMAIN store \cup {s} /\ store'[s].created = now
      /\ Kept(s, <<>>, <<>>)' /\ \A x \in DOMAIN store : store'[x] = store[x]
  BY DEF Created
<1>2. s \notin DOMAIN store
  BY <1>1 DEF IInv, TypeOK
<1>3. ~Expired(store'[s], now)
  <2>1. now - now = 0 /\ ~(0 > TTL)
    BY Types, TTLAssumption
  <2> QED
    BY <1>1, <2>1 DEF Expired
<1>4. Live(store', now') = Live(store, now) \cup {s}
  BY <1>1, <1>2, <1>3 DEF Live, Expired
<1>5. AbsLog' = AbsLog
  <2>1. AbsLog' = [x \in SessionIds |-> IF x \in Live(store', now')
                                        THEN Turns(store'[x].history) ELSE <<>>]
    BY DEF AbsLog
  <2>2. Turns(store'[s].history) = <<>>
    BY <1>1, KeptShownNext DEF KeptAreShown
  <2>3. ASSUME NEW x \in SessionIds
        PROVE  (IF x \in Live(store', now') THEN Turns(store'[x].history) ELSE <<>>) = AbsLog[x]
    <3>1. CASE x = s
      <4>1. s \notin Live(store, now)
        BY <1>2 DEF Live
      <4> QED
        BY <1>4, <2>2, <3>1, <4>1, Logs
    <3>2. CASE x # s
      <4>1. x \in Live(store, now) => store'[x] = store[x]
        BY <1>1 DEF Live
      <4> QED
        BY <1>4, <3>2, <4>1, Logs
    <3> QED
      BY <3>1, <3>2
  <2>4. AbsLog = [x \in SessionIds |-> AbsLog[x]]
    BY DEF AbsLog
  <2> QED
    BY <2>1, <2>3, <2>4
<1>6. ListSessions(store, now) = Live(store, now) /\ ListSessions(store, now)' = Live(store', now')
  BY DEF ListSessions
<1> QED
  BY <1>1, <1>4, <1>5, <1>6 DEF Conversation!Next, Conversation!Open

(* A saved turn is logged, once, at the end of its session's log.          *)
LEMMA SavesMaps ==
  ASSUME IInv, NEW r \in Requests, Saves(r)
  PROVE  Conversation!Next
<1> DEFINE s == req[r].sid
<1>1. /\ req[r].pc = "reading" /\ s \in Live(store, now) /\ UNCHANGED <<created, now>>
      /\ DOMAIN store' = DOMAIN store
      /\ \A x \in DOMAIN store : store'[x].created = store[x].created
  BY DEF Saves
<1>2. Live(store', now') = Live(store, now)
  BY <1>1 DEF Live, Expired
<1>3. ASSUME NEW x \in SessionIds, x \in Live(store, now)
      PROVE  /\ \A i \in DOMAIN AbsLog[x] : AbsLog[x][i] # r
             /\ Turns(store'[x].history) = IF x = s THEN Append(AbsLog[x], r) ELSE AbsLog[x]
  <2>1. x \in DOMAIN store
    BY <1>3 DEF Live
  <2>2. PICK d, turns : Kept(x, d, turns)
    BY <2>1 DEF IInv, DialoguesKept
  <2>3. AbsLog[x] = turns
    BY <1>3, <2>2, KeptShown, Logs
  <2>4. \A i \in DOMAIN turns : turns[i] # r
    BY <1>1, <2>2 DEF Kept, Dialogue
  <2>5. PICK dd, tt : /\ Kept(x, dd, tt)'
                      /\ tt = IF x = req[r].sid THEN Append(turns, r) ELSE turns
    BY <2>1, <2>2 DEF Saves
  <2>6. Turns(store'[x].history) = tt
    BY <2>5, KeptShownNext DEF KeptAreShown
  <2> QED
    BY <2>3, <2>4, <2>5, <2>6
<1>4. ~Conversation!Logged(r)
  <2> SUFFICES ASSUME NEW x \in SessionIds, NEW i \in DOMAIN AbsLog[x]
               PROVE  AbsLog[x][i] # r
    BY DEF Conversation!Logged
  <2>1. CASE x \in Live(store, now)
    BY <1>3, <2>1
  <2>2. CASE x \notin Live(store, now)
    <3>1. AbsLog[x] = <<>>
      BY <2>2, Logs
    <3> QED
      BY <3>1
  <2> QED
    BY <2>1, <2>2
<1>5. s \in SessionIds
  BY <1>1 DEF Live, IInv, TypeOK
<1>6. AbsLog' = [AbsLog EXCEPT ![s] = Append(@, r)]
  <2>1. AbsLog' = [x \in SessionIds |-> IF x \in Live(store', now')
                                        THEN Turns(store'[x].history) ELSE <<>>]
    BY DEF AbsLog
  <2>2. \A x \in SessionIds :
          (IF x \in Live(store', now') THEN Turns(store'[x].history) ELSE <<>>)
            = IF x = s THEN Append(AbsLog[x], r) ELSE AbsLog[x]
    BY <1>1, <1>2, <1>3, Logs
  <2>3. AbsLog = [x \in SessionIds |-> AbsLog[x]]
    BY DEF AbsLog
  <2>4. [AbsLog EXCEPT ![s] = Append(@, r)]
          = [x \in SessionIds |-> IF x = s THEN Append(AbsLog[x], r) ELSE AbsLog[x]]
    BY <2>3
  <2> QED
    BY <2>1, <2>2, <2>4
<1>7. ListSessions(store, now) = Live(store, now) /\ ListSessions(store, now)' = Live(store', now')
  BY DEF ListSessions
<1>8. Conversation!LogTurn
  BY <1>1, <1>2, <1>4, <1>5, <1>6, <1>7 DEF Conversation!LogTurn
<1> QED
  BY <1>8 DEF Conversation!Next

(* The handlers implement Conversations: overlapping requests, expiry,     *)
(* deletion and restarts never rewrite, reorder or resurrect a             *)
(* conversation (chat_service.py:30-75, memory/session_repository.py).     *)
THEOREM ConversationIsKept == Spec => ConversationHolds
<1>1. Init => Conversation!Init
  <2> SUFFICES ASSUME Init PROVE Conversation!Init
    OBVIOUS
  <2>1. created = {} /\ DOMAIN store = {}
    BY DEF Init
  <2>2. Live(store, now) = {}
    BY <2>1 DEF Live
  <2>3. AbsLog = [s \in SessionIds |-> <<>>]
    BY <2>2 DEF AbsLog
  <2> QED
    BY <2>1, <2>2, <2>3 DEF Conversation!Init, ListSessions
<1>2. IInv /\ [Next]_vars => [Conversation!Next]_(Conversation!vars)
  BY NextOutcome, QuietMaps, CreatedMaps, SavesMaps DEF Outcome
<1> QED
  BY <1>1, <1>2, Invariance, PTL DEF Spec, ConversationHolds, Conversation!Spec
=============================================================================
