---------------------------- MODULE LoggingProofs ----------------------------
(***************************************************************************)
(* Proofs about Logging: for any loggers, records, lifespans and hours.    *)
(***************************************************************************)
EXTENDS Logging, FiniteSetTheorems, SequenceTheorems, TLAPS

(***************************************************************************)
(* Sequences of records                                                    *)
(***************************************************************************)

(* Records that are stamped with their origin, of the first n.             *)
Line(n) ==
  {r \in [id : 1..n, origin : TraceIds, stamp : TraceIds] : r.stamp = r.origin}

Entry(n) == Line(n) \cup {Sentinel}

LEMMA LineIs ==
  ASSUME NEW n \in Nat, NEW r \in Line(n)
  PROVE  r.id \in 1..n /\ r.stamp = r.origin /\ r # Sentinel
  BY DEF Line, Sentinel

LEMMA LinesGrow ==
  ASSUME NEW n \in Nat, NEW m \in Nat, n <= m
  PROVE  Line(n) \subseteq Line(m) /\ Entry(n) \subseteq Entry(m)
  BY DEF Line, Entry

(* What is in a place, once its sequence is known.                         *)
LEMMA LinesOfNothing == Lines(<<>>) = {} /\ Ascends(<<>>)
  BY DEF Lines, ToSet, Ascends

LEMMA LinesOfOne ==
  ASSUME NEW n \in Nat, NEW r \in Line(n)
  PROVE  <<r>> \in Seq(Line(n)) /\ Lines(<<r>>) = {r} /\ Ascends(<<r>>)
  <1>1. /\ <<r>> \in Seq(Line(n)) /\ DOMAIN <<r>> = {1} /\ <<r>>[1] = r
    OBVIOUS
  <1> QED
    BY <1>1, LineIs DEF Lines, ToSet, Ascends

LEMMA LinesAppended ==
  ASSUME NEW n \in Nat, NEW q \in Seq(Entry(n)), NEW r \in Entry(n), Ascends(q),
         r # Sentinel => \A l \in Lines(q) : l.id < r.id
  PROVE  /\ Append(q, r) \in Seq(Entry(n)) /\ Ascends(Append(q, r))
         /\ Lines(Append(q, r)) = Lines(q) \cup ({r} \ {Sentinel})
  <1> PICK a : a = Append(q, r)
    OBVIOUS
  <1>1. /\ a \in Seq(Entry(n)) /\ Len(a) = Len(q) + 1 /\ a[Len(q) + 1] = r
        /\ \A i \in 1..Len(q) : a[i] = q[i]
    BY AppendProperties
  <1>2. DOMAIN a = 1..(Len(q) + 1) /\ DOMAIN q = 1..Len(q) /\ Len(q) \in Nat
    BY <1>1
  <1>3. Lines(a) = Lines(q) \cup ({r} \ {Sentinel})
    BY <1>1, <1>2 DEF Lines, ToSet
  <1>4. ASSUME NEW i \in DOMAIN a, NEW j \in DOMAIN a, i < j
        PROVE  a[i] = Sentinel \/ a[j] = Sentinel \/ a[i].id < a[j].id
    <2>1. CASE j \in 1..Len(q)
      BY <1>1, <1>2, <1>4, <2>1 DEF Ascends
    <2>2. CASE j = Len(q) + 1
      <3>1. i \in 1..Len(q)
        BY <1>2, <1>4, <2>2
      <3>2. q[i] \in Lines(q) \/ q[i] = Sentinel
        BY <1>2, <3>1 DEF Lines, ToSet
      <3> QED
        BY <1>1, <2>2, <3>1, <3>2
    <2> QED
      BY <1>2, <2>1, <2>2
  <1>5. Ascends(a)
    BY <1>4 DEF Ascends
  <1> QED
    BY <1>1, <1>3, <1>5

(* A file has no sentinels.                                                *)
LEMMA LinesWritten ==
  ASSUME NEW n \in Nat, NEW s \in Seq(Line(n)), NEW r \in Line(n), Ascends(s),
         \A l \in Lines(s) : l.id < r.id
  PROVE  /\ Append(s, r) \in Seq(Line(n)) /\ Ascends(Append(s, r))
         /\ Lines(Append(s, r)) = Lines(s) \cup {r}
  <1>1. s \in Seq(Entry(n)) /\ r \in Entry(n) /\ r # Sentinel
    BY LineIs DEF Entry
  <1>2. Append(s, r) \in Seq(Line(n))
    BY AppendProperties
  <1> QED
    BY <1>1, <1>2, LinesAppended

LEMMA LinesTaken ==
  ASSUME NEW n \in Nat, NEW q \in Seq(Entry(n)), q # <<>>, Ascends(q)
  PROVE  /\ Head(q) \in Entry(n) /\ Tail(q) \in Seq(Entry(n)) /\ Ascends(Tail(q))
         /\ Lines(q) = Lines(Tail(q)) \cup ({Head(q)} \ {Sentinel})
         /\ Head(q) # Sentinel => \A l \in Lines(Tail(q)) : Head(q).id < l.id
  <1> PICK h, t : h = Head(q) /\ t = Tail(q)
    OBVIOUS
  <1>1. /\ h \in Entry(n) /\ t \in Seq(Entry(n)) /\ Len(q) \in Nat \ {0} /\ h = q[1]
        /\ Len(t) = Len(q) - 1 /\ \A i \in 1..Len(t) : t[i] = q[i + 1]
    BY HeadTailProperties, EmptySeq
  <1>2. DOMAIN q = 1..Len(q) /\ DOMAIN t = 1..Len(t)
    BY <1>1
  <1>3. \A i \in DOMAIN q : i = 1 \/ (i - 1 \in DOMAIN t /\ t[i - 1] = q[i])
    BY <1>1, <1>2
  <1>4. \A i \in DOMAIN t : i + 1 \in DOMAIN q /\ t[i] = q[i + 1]
    BY <1>1, <1>2
  <1>5. ToSet(q) = ToSet(t) \cup {h}
    BY <1>1, <1>2, <1>3, <1>4 DEF ToSet
  <1>6. Ascends(t)
    BY <1>2, <1>4 DEF Ascends
  <1>7. ASSUME h # Sentinel, NEW l \in Lines(t) PROVE h.id < l.id
    <2>1. PICK i \in DOMAIN t : l = t[i]
      BY DEF Lines, ToSet
    <2>2. l # Sentinel /\ 1 < i + 1 /\ 1 \in DOMAIN q
      BY <1>1, <1>2, <2>1 DEF Lines
    <2> QED
      BY <1>1, <1>4, <1>7, <2>1, <2>2 DEF Ascends
  <1> QED
    BY <1>1, <1>5, <1>6, <1>7 DEF Lines

(***************************************************************************)
(* A category: its renamed files, its open one, its queue, and all the     *)
(* records sent to it, of the first n                                      *)
(***************************************************************************)
Rows(rot, rec, q, n) ==
  /\ rot \in [0..MaxTime -> Seq(Line(n))] /\ rec \in Seq(Line(n)) /\ q \in Seq(Entry(n))
  /\ \A h \in 0..MaxTime : Ascends(rot[h])
  /\ Ascends(rec) /\ Ascends(q)

All(rot, rec, q, all) ==
  \A x : x \in all <=> \/ x \in Lines(rec) \/ x \in Lines(q)
                       \/ \E h \in 0..MaxTime : x \in Lines(rot[h])

(* Renamed files come by the hours in their names, then the open one, then *)
(* the queue.                                                              *)
Chain(rot, rec, q) ==
  /\ \A h, k \in 0..MaxTime : h < k => Precedes(rot[h], rot[k])
  /\ \A h \in 0..MaxTime : Precedes(rot[h], rec) /\ Precedes(rot[h], q)
  /\ Precedes(rec, q)

Kept(rot, rec, q, all, n) == Rows(rot, rec, q, n) /\ All(rot, rec, q, all) /\ Chain(rot, rec, q)

(* No file has the name of the open one yet, nor a later one.              *)
Ahead(rot, opened) == \A h \in 0..MaxTime : h >= opened \div Hour => rot[h] = <<>>

LEMMA SentAreLines ==
  ASSUME NEW n \in Nat, NEW rot, NEW rec, NEW q, NEW all, Kept(rot, rec, q, all, n)
  PROVE  all \subseteq Line(n)
  <1>1. ASSUME NEW s \in Seq(Entry(n)) PROVE Lines(s) \subseteq Line(n)
    BY <1>1 DEF Lines, ToSet, Entry
  <1>2. rec \in Seq(Entry(n)) /\ q \in Seq(Entry(n)) /\ \A h \in 0..MaxTime : rot[h] \in Seq(Entry(n))
    BY DEF Kept, Rows, Entry
  <1> QED
    BY <1>1, <1>2 DEF Kept, All

LEMMA KeptLater ==
  ASSUME NEW n \in Nat, NEW rot, NEW rec, NEW q, NEW all, Kept(rot, rec, q, all, n)
  PROVE  Kept(rot, rec, q, all, n + 1)
  <1>1. Line(n) \subseteq Line(n + 1) /\ Entry(n) \subseteq Entry(n + 1)
    BY LinesGrow
  <1>2. Seq(Line(n)) \subseteq Seq(Line(n + 1)) /\ Seq(Entry(n)) \subseteq Seq(Entry(n + 1))
    BY <1>1
  <1> QED
    BY <1>2 DEF Kept, Rows

(* A record is put on the queue.                                           *)
LEMMA KeptLogged ==
  ASSUME NEW n \in Nat, NEW rot, NEW rec, NEW q, NEW all, Kept(rot, rec, q, all, n),
         NEW r \in Line(n + 1), r.id = n + 1
  PROVE  Kept(rot, rec, Append(q, r), all \cup {r}, n + 1)
  <1>1. Kept(rot, rec, q, all, n + 1)
    BY KeptLater
  <1>2. \A l \in all : l.id < r.id
    BY SentAreLines, LineIs
  <1>3. r \in Entry(n + 1) /\ r # Sentinel /\ \A l \in Lines(q) : l.id < r.id
    BY <1>2, LineIs DEF Entry, Kept, All
  <1>4. /\ Append(q, r) \in Seq(Entry(n + 1)) /\ Ascends(Append(q, r))
        /\ Lines(Append(q, r)) = Lines(q) \cup {r}
    BY <1>1, <1>3, LinesAppended DEF Kept, Rows
  <1>5. All(rot, rec, Append(q, r), all \cup {r})
    BY <1>1, <1>4 DEF Kept, All
  <1>6. Chain(rot, rec, Append(q, r))
    BY <1>1, <1>2, <1>4 DEF Kept, Chain, Precedes, All
  <1> QED
    BY <1>1, <1>4, <1>5, <1>6 DEF Kept, Rows

LEMMA KeptSentinelSent ==
  ASSUME NEW n \in Nat, NEW rot, NEW rec, NEW q, NEW all, Kept(rot, rec, q, all, n)
  PROVE  Kept(rot, rec, Append(q, Sentinel), all, n)
  <1>1. /\ Append(q, Sentinel) \in Seq(Entry(n)) /\ Ascends(Append(q, Sentinel))
        /\ Lines(Append(q, Sentinel)) = Lines(q)
    <2>1. Sentinel \in Entry(n) /\ q \in Seq(Entry(n)) /\ Ascends(q)
      BY DEF Entry, Kept, Rows
    <2>2. /\ Append(q, Sentinel) \in Seq(Entry(n)) /\ Ascends(Append(q, Sentinel))
          /\ Lines(Append(q, Sentinel)) = Lines(q) \cup ({Sentinel} \ {Sentinel})
      BY <2>1, LinesAppended
    <2> QED
      BY <2>2
  <1> QED
    BY <1>1 DEF Kept, Rows, All, Chain, Precedes

LEMMA KeptSentinelTaken ==
  ASSUME NEW n \in Nat, NEW rot, NEW rec, NEW q, NEW all, Kept(rot, rec, q, all, n),
         q # <<>>, Head(q) = Sentinel
  PROVE  Kept(rot, rec, Tail(q), all, n)
  <1>1. Tail(q) \in Seq(Entry(n)) /\ Ascends(Tail(q)) /\ Lines(q) = Lines(Tail(q))
    <2>1. /\ Tail(q) \in Seq(Entry(n)) /\ Ascends(Tail(q))
          /\ Lines(q) = Lines(Tail(q)) \cup ({Head(q)} \ {Sentinel})
      BY LinesTaken DEF Kept, Rows
    <2> QED
      BY <2>1
  <1> QED
    BY <1>1 DEF Kept, Rows, All, Chain, Precedes

(* What the head of the queue is to the records in front of it.            *)
LEMMA HeadNext ==
  ASSUME NEW n \in Nat, NEW rot, NEW rec, NEW q, NEW all, Kept(rot, rec, q, all, n),
         q # <<>>, Head(q) # Sentinel
  PROVE  /\ Head(q) \in Line(n) /\ Lines(q) = Lines(Tail(q)) \cup {Head(q)}
         /\ Tail(q) \in Seq(Entry(n)) /\ Ascends(Tail(q))
         /\ \A l \in Lines(Tail(q)) : Head(q).id < l.id
         /\ \A l \in Lines(rec) : l.id < Head(q).id
         /\ \A h \in 0..MaxTime : \A l \in Lines(rot[h]) : l.id < Head(q).id
  <1>1. /\ Head(q) \in Entry(n) /\ Tail(q) \in Seq(Entry(n)) /\ Ascends(Tail(q))
        /\ Lines(q) = Lines(Tail(q)) \cup {Head(q)}
        /\ \A l \in Lines(Tail(q)) : Head(q).id < l.id
    BY LinesTaken DEF Kept, Rows
  <1>2. /\ \A l \in Lines(rec) : l.id < Head(q).id
        /\ \A h \in 0..MaxTime : \A l \in Lines(rot[h]) : l.id < Head(q).id
    BY <1>1 DEF Kept, Chain, Precedes
  <1> QED
    BY <1>1, <1>2 DEF Entry

LEMMA KeptWritten ==
  ASSUME NEW n \in Nat, NEW rot, NEW rec, NEW q, NEW all, Kept(rot, rec, q, all, n),
         q # <<>>, Head(q) # Sentinel
  PROVE  Kept(rot, Append(rec, Head(q)), Tail(q), all, n)
  <1> PICK r, t : r = Head(q) /\ t = Tail(q)
    OBVIOUS
  <1>1. /\ r \in Line(n) /\ Lines(q) = Lines(t) \cup {r}
        /\ t \in Seq(Entry(n)) /\ Ascends(t)
        /\ \A l \in Lines(t) : r.id < l.id
        /\ \A l \in Lines(rec) : l.id < r.id
        /\ \A h \in 0..MaxTime : \A l \in Lines(rot[h]) : l.id < r.id
    BY HeadNext
  <1>2. /\ Append(rec, r) \in Seq(Line(n)) /\ Ascends(Append(rec, r))
        /\ Lines(Append(rec, r)) = Lines(rec) \cup {r}
    BY <1>1, LinesWritten DEF Kept, Rows
  <1>3. All(rot, Append(rec, r), t, all)
    BY <1>1, <1>2 DEF Kept, All
  <1>4. Chain(rot, Append(rec, r), t)
    BY <1>1, <1>2 DEF Kept, Chain, Precedes
  <1> QED
    BY <1>1, <1>2, <1>3, <1>4 DEF Kept, Rows

(* The open file takes the name of an hour that no file has, after those   *)
(* that one has.                                                           *)
LEMMA KeptRotated ==
  ASSUME NEW n \in Nat, NEW rot, NEW rec, NEW q, NEW all, Kept(rot, rec, q, all, n),
         q # <<>>, Head(q) # Sentinel, NEW hour \in 0..MaxTime,
         \A h \in 0..MaxTime : h >= hour => rot[h] = <<>>
  PROVE  Kept([rot EXCEPT ![hour] = rec], <<Head(q)>>, Tail(q), all, n)
  <1> PICK r, t : r = Head(q) /\ t = Tail(q)
    OBVIOUS
  <1>1. /\ r \in Line(n) /\ Lines(q) = Lines(t) \cup {r}
        /\ t \in Seq(Entry(n)) /\ Ascends(t)
        /\ \A l \in Lines(t) : r.id < l.id
        /\ \A l \in Lines(rec) : l.id < r.id
        /\ \A h \in 0..MaxTime : \A l \in Lines(rot[h]) : l.id < r.id
    BY HeadNext
  <1>2. <<r>> \in Seq(Line(n)) /\ Lines(<<r>>) = {r} /\ Ascends(<<r>>)
    BY <1>1, LinesOfOne
  <1> PICK new : new = [rot EXCEPT ![hour] = rec]
    OBVIOUS
  <1>3. /\ new[hour] = rec /\ \A h \in 0..MaxTime : h # hour => new[h] = rot[h]
        /\ new \in [0..MaxTime -> Seq(Line(n))]
    BY DEF Kept, Rows
  <1>4. Rows(new, <<r>>, t, n)
    BY <1>1, <1>2, <1>3 DEF Kept, Rows
  <1>5. \A h \in 0..MaxTime : h >= hour => Lines(rot[h]) = {}
    BY LinesOfNothing
  <1>6. All(new, <<r>>, t, all)
    BY <1>1, <1>2, <1>3, <1>5 DEF Kept, All
  <1>7. ASSUME NEW h \in 0..MaxTime, NEW k \in 0..MaxTime, h < k
        PROVE  Precedes(new[h], new[k])
    <2>1. CASE k = hour
      BY <1>3, <1>7, <2>1 DEF Kept, Chain
    <2>2. CASE k # hour /\ k > hour
      BY <1>3, <1>5, <2>2 DEF Precedes
    <2>3. CASE k # hour /\ ~(k > hour)
      BY <1>3, <1>7, <2>3 DEF Kept, Chain
    <2> QED
      BY <2>1, <2>2, <2>3
  <1>8. \A h \in 0..MaxTime : Precedes(new[h], <<r>>) /\ Precedes(new[h], t)
    BY <1>1, <1>2, <1>3 DEF Kept, Chain, Precedes
  <1>9. Chain(new, <<r>>, t)
    BY <1>1, <1>2, <1>7, <1>8 DEF Chain, Precedes
  <1> QED
    BY <1>4, <1>6, <1>9 DEF Kept

(***************************************************************************)
(* What is waiting on a queue when a listener is stopped                   *)
(***************************************************************************)
NoSentinel(q)   == \A i \in DOMAIN q : q[i] # Sentinel
Later(q, b)     == \A i \in DOMAIN q : q[i].id > b
LaterThen(q, b) == \A i, j \in DOMAIN q : i < j /\ q[i] = Sentinel => q[j].id > b

LEMMA QueueAppended ==
  ASSUME NEW n \in Nat, NEW q \in Seq(Entry(n)), NEW r
  PROVE  \A i \in DOMAIN Append(q, r) :
           \/ i \in DOMAIN q /\ Append(q, r)[i] = q[i]
           \/ i = Len(q) + 1 /\ Append(q, r)[i] = r
  OBVIOUS

LEMMA LaterLogged ==
  ASSUME NEW n \in Nat, NEW q \in Seq(Entry(n)), NEW r, NEW b \in Nat, r.id > b, r # Sentinel
  PROVE  /\ NoSentinel(q) => NoSentinel(Append(q, r))
         /\ Later(q, b) => Later(Append(q, r), b)
         /\ LaterThen(q, b) => LaterThen(Append(q, r), b)
  <1> PICK a : a = Append(q, r)
    OBVIOUS
  <1>1. \A i \in DOMAIN a : (i \in DOMAIN q /\ a[i] = q[i]) \/ (i = Len(q) + 1 /\ a[i] = r)
    BY QueueAppended
  <1>2. DOMAIN a = 1..(Len(q) + 1) /\ DOMAIN q = 1..Len(q) /\ Len(q) \in Nat
    OBVIOUS
  <1> QED
    BY <1>1, <1>2 DEF NoSentinel, Later, LaterThen

LEMMA LaterSentinelSent ==
  ASSUME NEW n \in Nat, NEW q \in Seq(Entry(n)), NEW b \in Nat, NoSentinel(q)
  PROVE  LaterThen(Append(q, Sentinel), b)
  <1> PICK a : a = Append(q, Sentinel)
    OBVIOUS
  <1>1. \A i \in DOMAIN a :
          (i \in DOMAIN q /\ a[i] = q[i]) \/ (i = Len(q) + 1 /\ a[i] = Sentinel)
    BY QueueAppended
  <1>2. DOMAIN a = 1..(Len(q) + 1) /\ DOMAIN q = 1..Len(q) /\ Len(q) \in Nat
    OBVIOUS
  <1> QED
    BY <1>1, <1>2 DEF NoSentinel, LaterThen

LEMMA LaterTaken ==
  ASSUME NEW n \in Nat, NEW q \in Seq(Entry(n)), NEW b \in Nat, q # <<>>
  PROVE  /\ NoSentinel(q) => NoSentinel(Tail(q))
         /\ Later(q, b) => Later(Tail(q), b)
         /\ LaterThen(q, b) => LaterThen(Tail(q), b)
         /\ Head(q) = Sentinel /\ LaterThen(q, b) => Later(Tail(q), b)
  <1> PICK t : t = Tail(q)
    OBVIOUS
  <1>1. \A i \in DOMAIN t : i + 1 \in DOMAIN q /\ t[i] = q[i + 1] /\ i \in Nat \ {0}
    OBVIOUS
  <1>2. 1 \in DOMAIN q /\ Head(q) = q[1]
    BY EmptySeq
  <1> QED
    BY <1>1, <1>2 DEF NoSentinel, Later, LaterThen

LEMMA LaterNoSentinel ==
  ASSUME NEW q, NEW b \in Nat, Later(q, b)
  PROVE  NoSentinel(q)
  BY DEF Later, NoSentinel, Sentinel

(***************************************************************************)
(* The invariant                                                           *)
(***************************************************************************)
Mains == {"new", "configured", "started", "serving", "failed", "stopping", "stopped"}

IsFile(f) == f = [opened |-> f.opened, records |-> f.records]

Kinds ==
  /\ now \in 0..MaxTime /\ configured \in BOOLEAN /\ running \subseteq Named
  /\ main \in Mains /\ joining \in 0..Len(Categories) /\ (joining # 0 <=> main = "stopping")
  /\ lifespans \in 0..MaxLifespans /\ logged \in 0..MaxRecords /\ before \in 0..logged
  /\ queue = [c \in Named |-> queue[c]] /\ sent = [c \in Named |-> sent[c]]
  /\ rotated = [c \in Named |-> rotated[c]]
  /\ file = [c \in Named |-> file[c]] /\ \A c \in Named : IsFile(file[c])

(* The files and the queue of each category hold what was sent to it, and  *)
(* no file is named after the hour of the open one: needed because a       *)
(* renamed file replaces one of its name.                                  *)
Stored == \A c \in Named :
  /\ Kept(rotated[c], file[c].records, queue[c], sent[c], logged)
  /\ file[c].opened \in 0..now /\ Ahead(rotated[c], file[c].opened)

(* Nothing is logged before the loggers are set up: needed because that    *)
(* opens the files.                                                        *)
Blank ==
  /\ configured <=> main # "new"
  /\ ~configured => \A c \in Named :
       /\ queue[c] = <<>> /\ file[c].records = <<>> /\ \A h \in 0..MaxTime : rotated[c][h] = <<>>

(* The listeners run from their start on, and while they are stopped those *)
(* run that come after the one that is waited for.                         *)
Listening ==
  /\ main \in {"started", "serving", "failed"} => running = Named
  /\ main \in {"new", "configured", "stopped"} => running = {}
  /\ main = "stopping" => \A i \in 1..Len(Categories) :
       /\ i > joining => Categories[i] \in running
       /\ i < joining => Categories[i] \notin running

Waited(c) == main = "stopping" /\ c = Categories[joining] /\ c \in running

(* Only the listener that is waited for has a sentinel, with only records  *)
(* that were logged since behind it: so these are all that are left when   *)
(* it ends.                                                                *)
Stops(c) ==
  /\ Waited(c) => LaterThen(queue[c], before)
  /\ ~Waited(c) => NoSentinel(queue[c])
  /\ main = "stopped" \/ (main = "stopping" /\ c \notin running) => Later(queue[c], before)

Stopping == \A c \in Named : Stops(c)

IInv == Kinds /\ Stored /\ Blank /\ Listening /\ Stopping

(***************************************************************************)
(* Constants, hours, and the sequences of handlers                         *)
(***************************************************************************)
LEMMA CategoriesAre ==
  /\ Len(Categories) = 4 /\ Named = {"SYSTEM", "ERROR", "REQ_RESP", "UI"}
  /\ \A i \in 1..4 : Categories[i] \in Named
  /\ \A i, j \in 1..4 : i # j => Categories[i] # Categories[j]
  /\ \A c \in Named : \E i \in 1..4 : c = Categories[i]
  <1>1. /\ Len(Categories) = 4 /\ DOMAIN Categories = 1..4
        /\ Categories[1] = "SYSTEM" /\ Categories[2] = "ERROR"
        /\ Categories[3] = "REQ_RESP" /\ Categories[4] = "UI"
    BY DEF Categories
  <1>2. \A i \in 1..4 : i = 1 \/ i = 2 \/ i = 3 \/ i = 4
    OBVIOUS
  <1>3. Named = {Categories[i] : i \in 1..4}
    BY <1>1 DEF Named, ToSet
  <1> QED
    BY <1>1, <1>2, <1>3

LEMMA HourOf ==
  ASSUME NEW a \in Nat
  PROVE  a \div Hour \in 0..a
  BY LoggingAssumption

LEMMA HourOver ==
  ASSUME NEW a \in Nat, NEW b \in Nat, b >= a + Hour
  PROVE  b \div Hour > a \div Hour
  BY LoggingAssumption

LEMMA SeqOfNone == SetToSeq({}) = <<>>
  <1>1. Cardinality({}) = 0
    BY FS_EmptySet
  <1>2. \A f \in [1..0 -> {}] : f = <<>>
    OBVIOUS
  <1>3. <<>> \in [1..0 -> {}] /\ IsInjective(<<>>)
    BY DEF IsInjective
  <1> QED
    BY <1>1, <1>2, <1>3 DEF SetToSeq

LEMMA SeqOfOne ==
  ASSUME NEW r
  PROVE  SetToSeq({r}) = <<r>>
  <1>1. Cardinality({r}) = 1
    BY FS_Singleton
  <1>2. ASSUME NEW f \in [1..1 -> {r}] PROVE f = <<r>>
    OBVIOUS
  <1>3. <<r>> \in [1..1 -> {r}] /\ IsInjective(<<r>>)
    BY DEF IsInjective
  <1> QED
    BY <1>1, <1>2, <1>3 DEF SetToSeq

(* A record goes to the queue of one category, stamped, or to none.        *)
Goes(gets, d, r) ==
  /\ gets[d] \in {<<>>, <<r>>}
  /\ \A c \in Named : c # d => gets[c] = <<>>

LEMMA PassGoes ==
  ASSUME NEW record, NEW logger \in Sources, NEW level \in Levels
  PROVE  \E d \in Named : Goes(Pass(record, logger, level), d, Stamp(record))
  <1> DEFINE handlers == Handlers(logger)
             At(j)    == IF \E i \in 1..j : handlers[i].stamps THEN Stamp(record) ELSE record
             Takes(c) == {j \in DOMAIN handlers :
                            /\ c \in handlers[j].to
                            /\ handlers[j].warnings => WarningsOnly(level)}
             gets     == Pass(record, logger, level)
  <1>1. gets = [c \in Named |-> SetToSeq({At(j) : j \in Takes(c)})]
    BY DEF Pass
  <1>2. CASE logger = "app"
    <2>1. /\ DOMAIN handlers = {1, 2}
          /\ handlers[1].to = {} /\ handlers[1].stamps = TRUE
          /\ handlers[2].to = {"ERROR"} /\ handlers[2].warnings = FALSE
      BY <1>2 DEF Handlers
    <2>2. At(2) = Stamp(record)
      BY <2>1
    <2>3. Takes("ERROR") = {2} /\ \A c \in Named : c # "ERROR" => Takes(c) = {}
      BY <2>1
    <2>4. /\ {At(j) : j \in Takes("ERROR")} = {Stamp(record)}
          /\ \A c \in Named : c # "ERROR" => {At(j) : j \in Takes(c)} = {}
      <3> HIDE DEF At, Takes
      <3> QED
        BY <2>2, <2>3
    <2>5. /\ gets["ERROR"] = SetToSeq({Stamp(record)})
          /\ \A c \in Named : c # "ERROR" => gets[c] = SetToSeq({})
      <3> HIDE DEF At, Takes
      <3> QED
        BY <1>1, <2>4, CategoriesAre
    <2>6. Goes(gets, "ERROR", Stamp(record))
      <3> HIDE DEF gets
      <3> QED
        BY <2>5, SeqOfNone, SeqOfOne DEF Goes
    <2> QED
      BY <2>6, CategoriesAre
  <1>3. CASE logger # "app"
    <2>1. logger \in Named
      BY <1>3, LoggingAssumption DEF Loggers
    <2>2. /\ DOMAIN handlers = {1}
          /\ handlers[1].to = {logger} /\ handlers[1].stamps = TRUE
      BY <1>3 DEF Handlers
    <2>3. At(1) = Stamp(record)
      BY <2>2
    <2>4. Takes(logger) \in {{}, {1}} /\ \A c \in Named : c # logger => Takes(c) = {}
      BY <2>2
    <2>5. /\ {At(j) : j \in Takes(logger)} \in {{}, {Stamp(record)}}
          /\ \A c \in Named : c # logger => {At(j) : j \in Takes(c)} = {}
      <3> HIDE DEF At, Takes
      <3> QED
        BY <2>3, <2>4
    <2>6. /\ gets[logger] \in {SetToSeq({}), SetToSeq({Stamp(record)})}
          /\ \A c \in Named : c # logger => gets[c] = SetToSeq({})
      <3> HIDE DEF At, Takes
      <3> QED
        BY <1>1, <2>1, <2>5
    <2>7. Goes(gets, logger, Stamp(record))
      <3> HIDE DEF gets
      <3> QED
        BY <2>6, SeqOfNone, SeqOfOne DEF Goes
    <2> QED
      BY <2>1, <2>7
  <1> QED
    BY <1>2, <1>3

(***************************************************************************)
(* One lemma per action                                                    *)
(***************************************************************************)
LEMMA InitIInv == Init => IInv
  <1> SUFFICES ASSUME Init PROVE IInv
    OBVIOUS
  <1>1. /\ now = 0 /\ 0 \in 0..MaxTime /\ 0 \in 0..MaxRecords /\ 0 \in 0..MaxLifespans
        /\ 0 \in 0..Len(Categories) /\ logged = 0 /\ main = "new" /\ configured = FALSE /\ running = {}
    BY LoggingAssumption, CategoriesAre DEF Init
  <1>2. \A c \in Named :
          /\ queue[c] = <<>> /\ sent[c] = {}
          /\ file[c].opened = 0 /\ file[c].records = <<>>
          /\ rotated[c] = [h \in 0..MaxTime |-> <<>>]
    BY DEF Init
  <1>3. Kinds
    <2>1. \A c \in Named : IsFile(file[c])
      BY DEF Init, IsFile
    <2>2. /\ queue = [c \in Named |-> queue[c]] /\ sent = [c \in Named |-> sent[c]]
          /\ rotated = [c \in Named |-> rotated[c]] /\ file = [c \in Named |-> file[c]]
      BY DEF Init
    <2>3. joining = 0 /\ lifespans = 0 /\ before = 0
      BY DEF Init
    <2>4. /\ now \in 0..MaxTime /\ logged \in 0..MaxRecords /\ lifespans \in 0..MaxLifespans
          /\ before \in 0..logged /\ joining \in 0..Len(Categories)
      BY <1>1, <2>3
    <2>5. main \in Mains /\ (joining # 0 <=> main = "stopping") /\ configured \in BOOLEAN
      BY <1>1, <2>3 DEF Mains
    <2> QED
      BY <1>1, <2>1, <2>2, <2>4, <2>5 DEF Kinds
  <1>4. ASSUME NEW c \in Named
        PROVE  /\ Kept(rotated[c], file[c].records, queue[c], sent[c], logged)
               /\ file[c].opened \in 0..now /\ Ahead(rotated[c], file[c].opened)
    <2>5. <<>> \in Seq(Line(0)) /\ <<>> \in Seq(Entry(0))
      OBVIOUS
    <2>1. /\ rotated[c] \in [0..MaxTime -> Seq(Line(0))] /\ \A h \in 0..MaxTime : rotated[c][h] = <<>>
      BY <1>2, <2>5
    <2>2. Rows(rotated[c], file[c].records, queue[c], 0)
      BY <1>2, <2>1, <2>5, LinesOfNothing DEF Rows
    <2>3. All(rotated[c], file[c].records, queue[c], sent[c])
      BY <1>2, <2>1, LinesOfNothing DEF All
    <2>4. Chain(rotated[c], file[c].records, queue[c])
      BY <1>2, <2>1, LinesOfNothing DEF Chain, Precedes
    <2> QED
      BY <1>1, <1>2, <2>1, <2>2, <2>3, <2>4 DEF Kept, Ahead
  <1>5. Stored
    BY <1>4 DEF Stored
  <1>6. Blank /\ Listening
    <2>1. \A c \in Named : \A h \in 0..MaxTime : rotated[c][h] = <<>>
      BY <1>2
    <2> QED
      BY <1>1, <1>2, <2>1 DEF Blank, Listening
  <1>7. Stopping
    <2>1. \A c \in Named : NoSentinel(queue[c])
      BY <1>2 DEF NoSentinel
    <2> QED
      BY <1>1, <2>1 DEF Stopping, Stops, Waited
  <1> QED
    BY <1>7, <1>3, <1>5, <1>6 DEF IInv

(* The files, the queues and the clock stay as they are, or time passes.   *)
LEMMA StoredStays ==
  ASSUME IInv, now' \in now..MaxTime, UNCHANGED <<queue, disk, sent, logged>>
  PROVE  Stored'
  BY DEF IInv, Kinds, Stored, disk

LEMMA StepTick ==
  ASSUME IInv, Tick
  PROVE  IInv'
  <1>1. /\ now' = now + 1 /\ now' \in 0..MaxTime /\ now' \in now..MaxTime
        /\ UNCHANGED <<configured, queue, file, rotated, running, main, joining, lifespans, sent, logged, before>>
    BY LoggingAssumption DEF Tick, IInv, Kinds, disk, thread, ghosts
  <1>2. Stored'
    BY <1>1, StoredStays DEF disk
  <1>3. Kinds'
    BY <1>1 DEF IInv, Kinds
  <1>4. Blank' /\ Listening' /\ Stopping'
    BY <1>1 DEF IInv, Blank, Listening, Stopping, Stops, Waited
  <1> QED
    BY <1>2, <1>3, <1>4 DEF IInv

(* What the queues get: one more record, at most, on one of them.          *)
Gets(d, r) ==
  /\ logged' = logged + 1
  /\ r \in Line(logged + 1) /\ r.id = logged + 1
  /\ queue' = [c \in Named |-> queue'[c]] /\ sent' = [c \in Named |-> sent'[c]]
  /\ \A c \in Named :
       \/ queue'[c] = queue[c] /\ sent'[c] = sent[c]
       \/ c = d /\ queue'[c] = Append(queue[c], r) /\ sent'[c] = sent[c] \cup {r}

LEMMA LogGets ==
  ASSUME IInv, Log
  PROVE  \E d \in Named : \E r : Gets(d, r)
  <1> PICK logger \in Sources, level \in Levels, origin \in TraceIds :
        LET gets == Pass([id |-> logged', origin |-> origin, stamp |-> "none"], logger, level)
        IN  /\ queue' = [c \in Named |-> queue[c] \o gets[c]]
            /\ sent'  = [c \in Named |-> sent[c] \cup ToSet(gets[c])]
    BY Zenon DEF Log
  <1>1. logged' = logged + 1 /\ logged \in Nat
    BY DEF Log, IInv, Kinds
  <1> PICK record : record = [id |-> logged', origin |-> origin, stamp |-> "none"]
    OBVIOUS
  <1> PICK gets : gets = Pass(record, logger, level)
    OBVIOUS
  <1>7. /\ queue' = [c \in Named |-> queue[c] \o gets[c]]
        /\ sent'  = [c \in Named |-> sent[c] \cup ToSet(gets[c])]
    OBVIOUS
  <1> PICK r : r = Stamp(record)
    OBVIOUS
  <1>2. r = [id |-> logged + 1, origin |-> origin, stamp |-> origin]
    BY <1>1 DEF Stamp
  <1>3. r \in Line(logged + 1) /\ r.id = logged + 1
    BY <1>1, <1>2 DEF Line
  <1>4. PICK d \in Named : Goes(gets, d, r)
    BY PassGoes
  <1>5. ASSUME NEW c \in Named
        PROVE  \/ queue'[c] = queue[c] /\ sent'[c] = sent[c]
               \/ c = d /\ queue'[c] = Append(queue[c], r) /\ sent'[c] = sent[c] \cup {r}
    <2>1. queue'[c] = queue[c] \o gets[c] /\ sent'[c] = sent[c] \cup ToSet(gets[c])
      BY <1>7
    <2>2. queue[c] \in Seq(Entry(logged))
      BY DEF IInv, Stored, Kept, Rows
    <2>3. CASE gets[c] = <<>>
      <3>1. queue[c] \o <<>> = queue[c] /\ ToSet(<<>>) = {}
        BY <2>2, ConcatEmptySeq DEF ToSet
      <3> QED
        BY <2>1, <2>3, <3>1
    <2>4. CASE c = d /\ gets[c] = <<r>>
      <3>1. /\ Append(queue[c], r) = queue[c] \o <<r>>
        BY <2>2, <1>1, <1>3, LinesGrow, AppendIsConcat
      <3>2. ToSet(<<r>>) = {r}
        BY DEF ToSet
      <3> QED
        BY <2>1, <2>4, <3>1, <3>2
    <2> QED
      BY <1>4, <2>3, <2>4 DEF Goes
  <1>6. queue' = [c \in Named |-> queue'[c]] /\ sent' = [c \in Named |-> sent'[c]]
    BY <1>7
  <1>8. Gets(d, r)
    BY <1>1, <1>3, <1>5, <1>6 DEF Gets
  <1> QED
    BY <1>8

LEMMA StepLog ==
  ASSUME IInv, Log
  PROVE  IInv'
  <1> PICK d \in Named : \E r : Gets(d, r)
    BY LogGets
  <1>1. PICK r : Gets(d, r)
    OBVIOUS
  <1>2. /\ logged' = logged + 1 /\ logged \in Nat /\ r \in Line(logged + 1) /\ r.id = logged + 1
        /\ \A c \in Named :
             \/ queue'[c] = queue[c] /\ sent'[c] = sent[c]
             \/ c = d /\ queue'[c] = Append(queue[c], r) /\ sent'[c] = sent[c] \cup {r}
    BY <1>1 DEF Gets, IInv, Kinds
  <1>3. /\ configured = TRUE /\ logged < MaxRecords
        /\ UNCHANGED <<now, configured, file, rotated, running, main, joining, lifespans, before>>
    BY DEF Log, disk, thread
  <1>4. Kinds'
    <2>1. logged' \in 0..MaxRecords /\ before \in 0..logged'
      BY <1>2, <1>3, LoggingAssumption DEF IInv, Kinds
    <2> QED
      BY <1>1, <1>3, <2>1 DEF IInv, Kinds, Gets
  <1>5. ASSUME NEW c \in Named
        PROVE  Kept(rotated[c], file[c].records, queue'[c], sent'[c], logged + 1)
    <2>1. Kept(rotated[c], file[c].records, queue[c], sent[c], logged)
      BY DEF IInv, Stored
    <2>2. CASE queue'[c] = queue[c] /\ sent'[c] = sent[c]
      BY <1>2, <2>1, <2>2, KeptLater
    <2>3. CASE queue'[c] = Append(queue[c], r) /\ sent'[c] = sent[c] \cup {r}
      <3>1. Kept(rotated[c], file[c].records, Append(queue[c], r), sent[c] \cup {r}, logged + 1)
        BY <1>2, <2>1, KeptLogged
      <3> QED
        BY <2>3, <3>1
    <2> QED
      BY <1>2, <2>2, <2>3
  <1>6. Stored'
    BY <1>2, <1>3, <1>5 DEF IInv, Stored
  <1>8. Blank' /\ Listening'
    BY <1>3 DEF IInv, Blank, Listening
  <1>9. ASSUME NEW c \in Named PROVE Stops(c)'
    <2>1. Stops(c) /\ queue[c] \in Seq(Entry(logged)) /\ before \in Nat /\ r.id > before /\ r # Sentinel
      <3>1. before \in Nat /\ r.id > before
        BY <1>2 DEF IInv, Kinds
      <3>2. r # Sentinel
        BY <1>2, LineIs
      <3>3. Stops(c) /\ queue[c] \in Seq(Entry(logged))
        BY DEF IInv, Stopping, Stored, Kept, Rows
      <3> QED
        BY <3>1, <3>2, <3>3
    <2>2. /\ NoSentinel(queue[c]) => NoSentinel(Append(queue[c], r))
          /\ Later(queue[c], before) => Later(Append(queue[c], r), before)
          /\ LaterThen(queue[c], before) => LaterThen(Append(queue[c], r), before)
      BY <1>2, <2>1, LaterLogged
    <2>3. /\ NoSentinel(queue[c]) => NoSentinel(queue'[c])
          /\ Later(queue[c], before) => Later(queue'[c], before)
          /\ LaterThen(queue[c], before) => LaterThen(queue'[c], before)
      BY <1>2, <2>2
    <2> QED
      BY <1>3, <2>1, <2>3 DEF Stops, Waited
  <1>10. Stopping'
    BY <1>9 DEF Stopping
  <1> QED
    BY <1>4, <1>6, <1>8, <1>10 DEF IInv

LEMMA StepConfigure ==
  ASSUME IInv, Configure
  PROVE  IInv'
  <1>1. /\ main \in {"new", "stopped"} /\ main' = "configured" /\ configured' = TRUE
        /\ lifespans < MaxLifespans /\ lifespans' = lifespans + 1
        /\ UNCHANGED <<now, queue, rotated, running, joining, sent, logged, before>>
    BY DEF Configure, ghosts
  <1>2. file' = IF configured THEN file
                ELSE [c \in Named |-> [opened |-> now, records |-> <<>>]]
    BY DEF Configure
  <1>3. \A c \in Named :
          /\ IsFile(file'[c])
          /\ file'[c].records = file[c].records /\ file'[c].opened \in 0..now
          /\ file'[c].opened = file[c].opened \/ \A h \in 0..MaxTime : rotated[c][h] = <<>>
    <2>1. CASE configured
      BY <1>2, <2>1 DEF IInv, Kinds, Stored
    <2>2. ASSUME ~configured, NEW c \in Named
          PROVE  /\ IsFile(file'[c])
                 /\ file'[c].records = file[c].records /\ file'[c].opened \in 0..now
                 /\ \A h \in 0..MaxTime : rotated[c][h] = <<>>
      <3>1. file'[c] = [opened |-> now, records |-> <<>>]
        BY <1>2, <2>2
      <3>2. now \in 0..now
        BY LoggingAssumption DEF IInv, Kinds
      <3> QED
        BY <2>2, <3>1, <3>2 DEF IInv, Blank, IsFile
    <2> QED
      BY <2>1, <2>2
  <1>4. file' = [c \in Named |-> file'[c]]
    BY <1>2 DEF IInv, Kinds
  <1>5. Kinds'
    <2>2. lifespans' \in 0..MaxLifespans /\ main' \in Mains /\ main # "stopping"
      BY <1>1, LoggingAssumption DEF IInv, Kinds, Mains
    <2> QED
      BY <1>1, <1>3, <1>4, <2>2 DEF IInv, Kinds
  <1>6. Stored'
    BY <1>1, <1>3 DEF IInv, Stored, Ahead
  <1>7. Blank' /\ Listening'
    BY <1>1 DEF IInv, Blank, Listening
  <1>8. Stopping'
    BY <1>1 DEF IInv, Stopping, Stops, Waited
  <1> QED
    BY <1>5, <1>6, <1>7, <1>8 DEF IInv

LEMMA StepStart ==
  ASSUME IInv, Start
  PROVE  IInv'
  <1>1. /\ main = "configured" /\ main' = "started" /\ running' = Named
        /\ UNCHANGED <<now, configured, queue, file, rotated, joining, lifespans, sent, logged, before>>
    BY DEF Start, disk, ghosts
  <1>2. Stored'
    BY <1>1, StoredStays DEF IInv, Kinds, disk
  <1>3. Kinds' /\ Blank' /\ Listening' /\ Stopping'
    BY <1>1 DEF IInv, Kinds, Mains, Blank, Listening, Stopping, Stops, Waited
  <1> QED
    BY <1>2, <1>3 DEF IInv

LEMMA StepInitialize ==
  ASSUME IInv, Initialize
  PROVE  IInv'
  <1>1. /\ main = "started" /\ main' \in {"serving", "failed"}
        /\ UNCHANGED <<now, configured, queue, file, rotated, running, joining, lifespans, sent, logged, before>>
    BY DEF Initialize, InitializeRunner, disk, ghosts
  <1>2. Stored'
    BY <1>1, StoredStays DEF IInv, Kinds, disk
  <1>3. Kinds' /\ Blank' /\ Listening' /\ Stopping'
    BY <1>1 DEF IInv, Kinds, Mains, Blank, Listening, Stopping, Stops, Waited
  <1> QED
    BY <1>2, <1>3 DEF IInv

LEMMA StepBeginStop ==
  ASSUME IInv, BeginStop
  PROVE  IInv'
  <1> PICK d : d = Categories[1]
    OBVIOUS
  <1>1. /\ main = "serving" /\ main' = "stopping" /\ before' = logged /\ joining' = 1
        /\ queue' = [queue EXCEPT ![d] = Append(@, Sentinel)]
        /\ UNCHANGED <<now, configured, file, rotated, running, lifespans, sent, logged>>
    BY DEF BeginStop, SendSentinel, disk
  <1>2. /\ d \in Named /\ Len(Categories) = 4 /\ logged \in Nat
        /\ running = Named /\ \A i \in 1..4 : Categories[i] \in Named
    BY <1>1, CategoriesAre DEF IInv, Kinds, Listening
  <1>3. /\ queue' = [c \in Named |-> queue'[c]] /\ queue'[d] = Append(queue[d], Sentinel)
        /\ \A c \in Named : c # d => queue'[c] = queue[c]
    BY <1>1, <1>2 DEF IInv, Kinds
  <1>4. Stored'
    <2>1. ASSUME NEW c \in Named
          PROVE  Kept(rotated[c], file[c].records, queue'[c], sent[c], logged)
      <3>1. Kept(rotated[c], file[c].records, queue[c], sent[c], logged)
        BY DEF IInv, Stored
      <3>2. Kept(rotated[c], file[c].records, Append(queue[c], Sentinel), sent[c], logged)
        BY <1>2, <3>1, KeptSentinelSent
      <3> QED
        BY <1>3, <3>1, <3>2
    <2> QED
      BY <1>1, <2>1 DEF IInv, Stored
  <1>5. Kinds'
    <2>1. main' \in Mains /\ joining' \in 0..Len(Categories) /\ before' \in 0..logged
      BY <1>1, <1>2 DEF Mains
    <2> QED
      BY <1>1, <1>3, <2>1 DEF IInv, Kinds
  <1>6. Blank' /\ Listening'
    BY <1>1, <1>2 DEF IInv, Blank, Listening
  <1>7. ASSUME NEW c \in Named PROVE Stops(c)'
    <2>1. NoSentinel(queue[c]) /\ queue[c] \in Seq(Entry(logged))
      BY <1>1 DEF IInv, Stopping, Stops, Waited, Stored, Kept, Rows
    <2>2. LaterThen(Append(queue[c], Sentinel), logged)
      BY <1>2, <2>1, LaterSentinelSent
    <2>3. CASE c = d
      <3>1. LaterThen(queue'[c], before') /\ main' = "stopping" /\ c = Categories[joining'] /\ c \in running'
        BY <1>1, <1>2, <1>3, <2>2, <2>3
      <3> QED
        BY <3>1 DEF Stops, Waited
    <2>4. CASE c # d
      BY <1>1, <1>2, <1>3, <2>1, <2>4 DEF Stops, Waited
    <2> QED
      BY <2>3, <2>4
  <1> QED
    BY <1>4, <1>5, <1>6, <1>7 DEF IInv, Stopping

LEMMA StepStopNext ==
  ASSUME IInv, StopNext
  PROVE  IInv'
  <1>1. /\ main = "stopping" /\ Categories[joining] \notin running
        /\ UNCHANGED <<now, configured, file, rotated, running, lifespans, sent, logged, before>>
    BY DEF StopNext, StopNextOrEnd, disk, ghosts
  <1>2. /\ Len(Categories) = 4 /\ logged \in Nat /\ before \in Nat /\ joining \in 1..4
        /\ \A i \in 1..4 : Categories[i] \in Named
        /\ \A i, j \in 1..4 : i # j => Categories[i] # Categories[j]
        /\ \A c \in Named : \E i \in 1..4 : c = Categories[i]
    BY <1>1, CategoriesAre DEF IInv, Kinds
  <1>3. CASE joining < 4
    <2> PICK next : next = joining + 1
      OBVIOUS
    <2> PICK d : d = Categories[next]
      OBVIOUS
    <2>1. /\ joining' = next /\ main' = main /\ next \in 2..4
          /\ queue' = [queue EXCEPT ![d] = Append(@, Sentinel)]
      BY <1>2, <1>3 DEF StopNext, StopNextOrEnd, SendSentinel
    <2>2. d \in Named /\ d \in running
      BY <1>1, <1>2, <2>1 DEF IInv, Listening
    <2>3. /\ queue' = [c \in Named |-> queue'[c]] /\ queue'[d] = Append(queue[d], Sentinel)
          /\ \A c \in Named : c # d => queue'[c] = queue[c]
      BY <2>1, <2>2 DEF IInv, Kinds
    <2>4. Stored'
      <3>1. ASSUME NEW c \in Named
            PROVE  Kept(rotated[c], file[c].records, queue'[c], sent[c], logged)
        <4>1. Kept(rotated[c], file[c].records, queue[c], sent[c], logged)
          BY DEF IInv, Stored
        <4>2. Kept(rotated[c], file[c].records, Append(queue[c], Sentinel), sent[c], logged)
          BY <1>2, <4>1, KeptSentinelSent
        <4> QED
          BY <2>3, <4>1, <4>2
      <3> QED
        BY <1>1, <3>1 DEF IInv, Stored
    <2>5. Kinds'
      <3>1. joining' \in 0..Len(Categories) /\ joining' # 0
        BY <1>2, <2>1
      <3> QED
        BY <1>1, <2>1, <2>3, <3>1 DEF IInv, Kinds
    <2>6. Listening'
      <3>1. ASSUME NEW i \in 1..4
            PROVE  (i > next => Categories[i] \in running) /\ (i < next => Categories[i] \notin running)
        <4>1. i > next => i > joining
          BY <1>2
        <4>2. i < next => i < joining \/ i = joining
          BY <1>2
        <4> QED
          BY <1>1, <1>2, <4>1, <4>2 DEF IInv, Listening
      <3> QED
        BY <1>1, <1>2, <2>1, <3>1 DEF Listening
    <2>7. Blank'
      BY <1>1, <2>1 DEF IInv, Blank
    <2>8. ASSUME NEW c \in Named PROVE Stops(c)'
      <3>1. NoSentinel(queue[c]) /\ queue[c] \in Seq(Entry(logged))
        BY <1>1 DEF IInv, Stopping, Stops, Waited, Stored, Kept, Rows
      <3>2. LaterThen(Append(queue[c], Sentinel), before)
        BY <1>2, <3>1, LaterSentinelSent
      <3>3. CASE c = d
        <4>1. LaterThen(queue'[c], before') /\ main' = "stopping" /\ c = Categories[joining'] /\ c \in running'
          BY <1>1, <2>1, <2>2, <2>3, <3>2, <3>3
        <4> QED
          BY <4>1 DEF Stops, Waited
      <3>4. CASE c # d
        BY <1>1, <2>1, <2>3, <3>1, <3>4 DEF IInv, Stopping, Stops, Waited
      <3> QED
        BY <3>3, <3>4
    <2> QED
      BY <2>4, <2>5, <2>6, <2>7, <2>8 DEF IInv, Stopping
  <1>4. CASE ~(joining < 4)
    <2>1. joining = 4 /\ main' = "stopped" /\ joining' = 0 /\ queue' = queue
      BY <1>2, <1>4 DEF StopNext, StopNextOrEnd
    <2>2. running = {}
      <3>1. ASSUME NEW i \in 1..4 PROVE Categories[i] \notin running
        <4>1. i < joining \/ i = joining
          BY <2>1
        <4> QED
          BY <1>1, <1>2, <4>1 DEF IInv, Listening
      <3> QED
        BY <1>2, <3>1 DEF IInv, Kinds
    <2>3. Stored'
      BY <1>1, <2>1, StoredStays DEF IInv, Kinds, disk
    <2>4. Kinds'
      BY <1>1, <1>2, <2>1 DEF IInv, Kinds, Mains
    <2>5. Blank' /\ Listening'
      BY <1>1, <2>1, <2>2 DEF IInv, Blank, Listening
    <2>6. Stopping'
      BY <1>1, <2>1, <2>2 DEF IInv, Stopping, Stops, Waited
    <2> QED
      BY <2>3, <2>4, <2>5, <2>6 DEF IInv
  <1> QED
    BY <1>3, <1>4

(* A file that is an hour old has the name of an hour that has no file,    *)
(* and the one opened now that of a later one.                             *)
LEMMA WriteKeeps ==
  ASSUME IInv, NEW c \in Named, queue[c] # <<>>, Head(queue[c]) # Sentinel,
         Write(c, Head(queue[c]))
  PROVE  /\ rotated' = [d \in Named |-> rotated'[d]] /\ file' = [d \in Named |-> file'[d]]
         /\ \A d \in Named : d # c => rotated'[d] = rotated[d] /\ file'[d] = file[d]
         /\ IsFile(file'[c]) /\ file'[c].opened \in 0..now /\ Ahead(rotated'[c], file'[c].opened)
         /\ Kept(rotated'[c], file'[c].records, Tail(queue[c]), sent[c], logged)
  <1> PICK q, opened, rec : q = queue[c] /\ opened = file[c].opened /\ rec = file[c].records
    OBVIOUS
  <1>1. /\ logged \in Nat /\ now \in Nat /\ now <= MaxTime /\ MaxTime \in Nat
        /\ opened \in 0..now /\ IsFile(file[c])
        /\ Kept(rotated[c], rec, q, sent[c], logged) /\ Ahead(rotated[c], opened)
        /\ rotated = [d \in Named |-> rotated[d]] /\ file = [d \in Named |-> file[d]]
    BY LoggingAssumption DEF IInv, Kinds, Stored
  <1>2. CASE Due(c)
    <2> PICK hour : hour = opened \div Hour
      OBVIOUS
    <2>1. hour \in 0..MaxTime
      BY <1>1, HourOf
    <2>2. \A h \in 0..MaxTime : h >= hour => rotated[c][h] = <<>>
      BY <1>1 DEF Ahead
    <2>3. Kept([rotated[c] EXCEPT ![hour] = rec], <<Head(q)>>, Tail(q), sent[c], logged)
      BY <1>1, <2>1, <2>2, KeptRotated
    <2>4. /\ rotated' = [rotated EXCEPT ![c][hour] = rec]
          /\ file' = [file EXCEPT ![c] = [opened |-> now, records |-> <<Head(q)>>]]
      BY <1>2 DEF Write, Rollover
    <2>5. /\ rotated'[c] = [rotated[c] EXCEPT ![hour] = rec]
          /\ \A d \in Named : d # c => rotated'[d] = rotated[d]
          /\ rotated' = [d \in Named |-> rotated'[d]]
      BY <1>1, <2>4
    <2>6. /\ file'[c] = [opened |-> now, records |-> <<Head(q)>>]
          /\ \A d \in Named : d # c => file'[d] = file[d]
          /\ file' = [d \in Named |-> file'[d]]
      BY <1>1, <2>4
    <2>7. IsFile(file'[c]) /\ file'[c].opened = now /\ file'[c].records = <<Head(q)>>
      BY <2>6 DEF IsFile
    <2>8. now \div Hour > hour
      BY <1>1, <1>2, HourOver DEF Due
    <2>9. Ahead(rotated'[c], now)
      <3>1. ASSUME NEW h \in 0..MaxTime, h >= now \div Hour PROVE rotated'[c][h] = <<>>
        <4>1. h >= hour /\ h # hour
          BY <1>1, <2>1, <2>8, <3>1, HourOf
        <4>2. rotated[c][h] = <<>> /\ rotated[c] \in [0..MaxTime -> Seq(Line(logged))]
          BY <1>1, <2>2, <4>1, <3>1 DEF Kept, Rows
        <4> QED
          BY <2>5, <4>1, <4>2
      <3> QED
        BY <3>1 DEF Ahead
    <2> QED
      BY <1>1, <2>3, <2>5, <2>6, <2>7, <2>9
  <1>3. CASE ~Due(c)
    <2>1. /\ rotated' = rotated /\ file' = [file EXCEPT ![c].records = Append(@, Head(q))]
      BY <1>3 DEF Write
    <2>2. /\ file'[c] = [file[c] EXCEPT !.records = Append(rec, Head(q))]
          /\ \A d \in Named : d # c => file'[d] = file[d]
          /\ file' = [d \in Named |-> file'[d]]
      BY <1>1, <2>1
    <2>3. file'[c] = [opened |-> opened, records |-> Append(rec, Head(q))]
      BY <1>1, <2>2 DEF IsFile
    <2>4. IsFile(file'[c]) /\ file'[c].opened = opened /\ file'[c].records = Append(rec, Head(q))
      BY <2>3 DEF IsFile
    <2>5. Kept(rotated[c], Append(rec, Head(q)), Tail(q), sent[c], logged)
      BY <1>1, KeptWritten
    <2> QED
      BY <1>1, <2>1, <2>2, <2>4, <2>5
  <1> QED
    BY <1>2, <1>3

LEMMA StepDeliver ==
  ASSUME IInv, NEW c \in Named, Deliver(c)
  PROVE  IInv'
  <1> PICK q : q = queue[c]
    OBVIOUS
  <1>1. /\ c \in running /\ q # <<>> /\ queue' = [queue EXCEPT ![c] = Tail(@)]
        /\ UNCHANGED <<now, configured, main, joining, lifespans, sent, logged, before>>
    BY DEF Deliver, thread, ghosts
  <1>2. /\ logged \in Nat /\ before \in Nat /\ q \in Seq(Entry(logged))
        /\ Kept(rotated[c], file[c].records, q, sent[c], logged)
    BY DEF IInv, Kinds, Stored, Kept, Rows
  <1>3. /\ queue' = [d \in Named |-> queue'[d]] /\ queue'[c] = Tail(q)
        /\ \A d \in Named : d # c => queue'[d] = queue[d]
    BY <1>1 DEF IInv, Kinds
  <1>4. /\ NoSentinel(q) => NoSentinel(Tail(q))
        /\ Later(q, before) => Later(Tail(q), before)
        /\ LaterThen(q, before) => LaterThen(Tail(q), before)
        /\ Head(q) = Sentinel /\ LaterThen(q, before) => Later(Tail(q), before)
    BY <1>1, <1>2, LaterTaken
  <1>5. main' = main /\ joining' = joining
    BY <1>1
  <1>6. configured
    BY <1>1 DEF IInv, Blank
  <1>7. CASE Head(q) = Sentinel
    <2>1. running' = running \ {c} /\ rotated' = rotated /\ file' = file
      BY <1>7 DEF Deliver, disk
    <2>2. Waited(c)
      <3>1. Head(q) = q[1] /\ 1 \in DOMAIN q
        BY <1>1, <1>2, EmptySeq
      <3>2. ~NoSentinel(q)
        BY <1>7, <3>1 DEF NoSentinel
      <3> QED
        BY <3>2 DEF IInv, Stopping, Stops
    <2>3. main = "stopping" /\ c = Categories[joining]
      BY <2>2 DEF Waited
    <2>4. Later(Tail(q), before) /\ NoSentinel(Tail(q))
      BY <1>2, <1>4, <1>7, <2>2, LaterNoSentinel DEF IInv, Stopping, Stops
    <2>5. Kept(rotated[c], file[c].records, Tail(q), sent[c], logged)
      BY <1>1, <1>2, <1>7, KeptSentinelTaken
    <2>6. Stored'
      BY <1>1, <1>3, <2>1, <2>5 DEF IInv, Stored
    <2>7. Kinds'
      BY <1>1, <1>3, <2>1 DEF IInv, Kinds
    <2>8. Listening'
      <3>1. joining \in 1..4 /\ Len(Categories) = 4
        BY <2>3, CategoriesAre DEF IInv, Kinds
      <3>2. ASSUME NEW i \in 1..4
            PROVE  /\ i > joining => Categories[i] \in running'
                   /\ i < joining => Categories[i] \notin running'
        <4>1. i > joining => Categories[i] # c
          BY <2>3, <3>1, CategoriesAre
        <4> QED
          BY <2>1, <2>3, <3>1, <4>1 DEF IInv, Listening
      <3> QED
        BY <1>5, <2>3, <3>1, <3>2 DEF Listening
    <2>9. Blank'
      BY <1>1, <1>6 DEF IInv, Blank
    <2>10. ASSUME NEW d \in Named PROVE Stops(d)'
      <3>1. CASE d = c
        BY <1>1, <1>3, <2>1, <2>3, <2>4, <3>1 DEF Stops, Waited
      <3>2. CASE d # c
        <4>1. Stops(d) /\ (d \in running' <=> d \in running) /\ queue'[d] = queue[d]
          BY <1>3, <2>1, <3>2 DEF IInv, Stopping
        <4> QED
          BY <1>1, <4>1 DEF Stops, Waited
      <3> QED
        BY <3>1, <3>2
    <2> QED
      BY <1>5, <2>6, <2>7, <2>8, <2>9, <2>10 DEF IInv, Stopping
  <1>8. CASE Head(q) # Sentinel
    <2>1. running' = running /\ Write(c, Head(queue[c]))
      BY <1>8 DEF Deliver
    <2>2. /\ rotated' = [d \in Named |-> rotated'[d]] /\ file' = [d \in Named |-> file'[d]]
          /\ \A d \in Named : d # c => rotated'[d] = rotated[d] /\ file'[d] = file[d]
          /\ IsFile(file'[c]) /\ file'[c].opened \in 0..now /\ Ahead(rotated'[c], file'[c].opened)
          /\ Kept(rotated'[c], file'[c].records, Tail(q), sent[c], logged)
      BY <1>1, <1>8, <2>1, WriteKeeps
    <2>3. Stored'
      BY <1>1, <1>3, <2>2 DEF IInv, Stored
    <2>4. Kinds'
      BY <1>1, <1>3, <2>1, <2>2 DEF IInv, Kinds
    <2>5. Blank' /\ Listening'
      BY <1>1, <1>6, <2>1 DEF IInv, Blank, Listening
    <2>6. ASSUME NEW d \in Named PROVE Stops(d)'
      <3>1. CASE d = c
        BY <1>1, <1>3, <1>4, <2>1, <3>1 DEF IInv, Stopping, Stops, Waited
      <3>2. CASE d # c
        BY <1>1, <1>3, <2>1, <3>2 DEF IInv, Stopping, Stops, Waited
      <3> QED
        BY <3>1, <3>2
    <2> QED
      BY <1>5, <2>3, <2>4, <2>5, <2>6 DEF IInv, Stopping
  <1> QED
    BY <1>7, <1>8

(* Every step keeps the invariant.                                         *)
LEMMA NextIInv == IInv /\ [Next]_vars => IInv'
  <1> SUFFICES ASSUME IInv, [Next]_vars PROVE IInv'
    OBVIOUS
  <1>1. CASE UNCHANGED vars
    BY <1>1 DEF vars, disk, thread, ghosts, IInv, Kinds, Stored, Blank, Listening,
                Stopping, Stops, Waited
  <1> QED
    BY <1>1, StepTick, StepLog, StepConfigure, StepStart, StepInitialize, StepBeginStop,
       StepStopNext, StepDeliver
       DEF Next

LEMMA SpecIInv == Spec => []IInv
  BY InitIInv, NextIInv, PTL DEF Spec

(***************************************************************************)
(* The invariant implies the properties                                    *)
(***************************************************************************)
LEMMA PlacesAre ==
  ASSUME LoggingAssumption, NEW c
  PROVE  /\ DOMAIN Places(c) = 0..(MaxTime + 2)
         /\ \A p \in 0..MaxTime : Places(c)[p] = rotated[c][p]
         /\ Places(c)[MaxTime + 1] = file[c].records /\ Places(c)[MaxTime + 2] = queue[c]
         /\ \A p \in 0..(MaxTime + 2) : p \in 0..MaxTime \/ p = MaxTime + 1 \/ p = MaxTime + 2
  <1>1. MaxTime \in Nat
    BY DEF LoggingAssumption
  <1>2. \A p \in 0..(MaxTime + 2) : p \in 0..MaxTime \/ p = MaxTime + 1 \/ p = MaxTime + 2
    BY <1>1
  <1>3. MaxTime + 1 \in 0..(MaxTime + 2) /\ MaxTime + 2 \in 0..(MaxTime + 2)
    BY <1>1
  <1> QED
    BY <1>1, <1>2, <1>3 DEF Places

LEMMA IInvTypes == IInv => TypeOK
  <1> SUFFICES ASSUME IInv PROVE TypeOK
    OBVIOUS
  <1>1. ASSUME NEW c \in Named, NEW i \in DOMAIN queue[c]
        PROVE  queue[c][i] = Sentinel \/ queue[c][i].id \in 1..logged
    <2>1. queue[c][i] \in Entry(logged) /\ logged \in Nat
      BY DEF IInv, Stored, Kept, Rows, Kinds
    <2> QED
      BY <2>1, LineIs DEF Entry
  <1> QED
    BY <1>1 DEF IInv, Kinds, Stored, Mains, TypeOK

LEMMA IInvFiles == IInv => FilesSound
  <1> SUFFICES ASSUME IInv PROVE FilesSound
    OBVIOUS
  <1>1. ASSUME NEW c \in Named
        PROVE  LET place == Places(c)
               IN  /\ UNION {Lines(place[p]) : p \in DOMAIN place} = sent[c]
                   /\ \A p \in DOMAIN place :
                        /\ Ascends(place[p])
                        /\ \A o \in DOMAIN place : o < p => Precedes(place[o], place[p])
    <2> PICK place : place = Places(c)
      OBVIOUS
    <2> PICK rot, rec, q : rot = rotated[c] /\ rec = file[c].records /\ q = queue[c]
      OBVIOUS
    <2>1. /\ DOMAIN place = 0..(MaxTime + 2) /\ MaxTime \in Nat
          /\ \A p \in 0..MaxTime : place[p] = rot[p]
          /\ place[MaxTime + 1] = rec /\ place[MaxTime + 2] = q
          /\ \A p \in DOMAIN place : p \in 0..MaxTime \/ p = MaxTime + 1 \/ p = MaxTime + 2
          /\ MaxTime + 1 \in DOMAIN place /\ MaxTime + 2 \in DOMAIN place
          /\ 0..MaxTime \subseteq DOMAIN place
      BY PlacesAre, LoggingAssumption
    <2>2. Kept(rot, rec, q, sent[c], logged)
      BY DEF IInv, Stored
    <2>3. \A x : x \in sent[c] <=> \E p \in DOMAIN place : x \in Lines(place[p])
      BY <2>1, <2>2 DEF Kept, All
    <2>4. UNION {Lines(place[p]) : p \in DOMAIN place} = sent[c]
      BY <2>3
    <2>5. \A p \in DOMAIN place : Ascends(place[p])
      BY <2>1, <2>2 DEF Kept, Rows
    <2>6. ASSUME NEW o \in DOMAIN place, NEW p \in DOMAIN place, o < p
          PROVE  Precedes(place[o], place[p])
      <3>1. CASE p \in 0..MaxTime
        BY <2>1, <2>2, <2>6, <3>1 DEF Kept, Chain
      <3>2. CASE p = MaxTime + 1
        <4>1. o \in 0..MaxTime
          BY <2>1, <2>6, <3>2
        <4> QED
          BY <2>1, <2>2, <3>2, <4>1 DEF Kept, Chain
      <3>3. CASE p = MaxTime + 2
        <4>1. o \in 0..MaxTime \/ o = MaxTime + 1
          BY <2>1, <2>6, <3>3
        <4> QED
          BY <2>1, <2>2, <3>3, <4>1 DEF Kept, Chain
      <3> QED
        BY <2>1, <3>1, <3>2, <3>3
    <2> QED
      BY <2>4, <2>5, <2>6
  <1>2. WrittenOnceInOrder
    BY <1>1 DEF WrittenOnceInOrder
  <1> QED
    BY <1>2, IInvTypes DEF FilesSound

(* What is put on a category's queue is written as it was sent, once, to   *)
(* the files of that category, in the order of the queue, also when files  *)
(* are renamed and listeners are stopped and started again                 *)
(* (logging_config.py:93-99, 244-262), for any number of records,          *)
(* lifespans and hours.                                                    *)
THEOREM RecordsAreKept == Spec => []FilesSound
  BY SpecIInv, IInvFiles, PTL

LEMMA IInvStamped == IInv => LinesStamped
  <1> SUFFICES ASSUME IInv, NEW c \in Named, NEW p \in DOMAIN Places(c),
                      NEW r \in Lines(Places(c)[p])
               PROVE  r.stamp = r.origin
    BY DEF LinesStamped
  <1>1. r \in sent[c]
    BY IInvFiles DEF FilesSound, WrittenOnceInOrder
  <1>2. logged \in Nat /\ sent[c] \subseteq Line(logged)
    BY SentAreLines DEF IInv, Kinds, Stored
  <1> QED
    BY <1>1, <1>2, LineIs

(* A line has the trace id of the code that logged it, whichever logger it *)
(* came by (logging_config.py:68-74, 188-193, 231).                        *)
THEOREM StampedAtOrigin == Spec => []LinesStamped
  BY SpecIInv, IInvStamped, PTL

(* When stop_logging_listener() has returned, what was logged before it    *)
(* was called is in the files (logging_config.py:265-268), wherever the    *)
(* listeners were and whatever is logged meanwhile.                        *)
THEOREM StopFlushes == Spec => []FlushedAtStop
  <1>1. IInv => FlushedAtStop
    BY DEF IInv, Listening, Stopping, Stops, Later, FlushedAtStop
  <1> QED
    BY <1>1, SpecIInv, PTL
=============================================================================
