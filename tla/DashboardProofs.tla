--------------------------- MODULE DashboardProofs ---------------------------
(***************************************************************************)
(* What holds of Dashboard for any number of sessions and questions: that  *)
(* the transcript is the active session's, that questions have their own   *)
(* answers, and that answers shown are those remembered.                   *)
(***************************************************************************)
EXTENDS Dashboard, SequenceTheorems, TLAPS

(***************************************************************************)
(* The invariant                                                           *)
(***************************************************************************)
Progress     == {"unsent", "stream", "chat", "whole", "blank", "note", "done"}
Questioned(n) == [sid : 1..n, text : BOOLEAN, pc : Progress]
Lines        == [role : {"user", "assistant", "failover"}, q : Questions,
                 kind : {"typed", "saved", "whole", "blank", "note"}]
Places       == {"first", "replace", "adopt", "adopt selected", "fill", "fetch", "clear",
                 "idle", "post", "wait", "cards"}
Adopting     == {"adopt", "adopt selected"}
Answering    == {"post", "wait"}

(* A saved question is one of the session that holds it.                   *)
LogOwned ==
  \A s \in Sessions : \A i \in DOMAIN log[s] :
    log[s][i] \in DOMAIN ask /\ ask[log[s][i]].sid = s

InNoLog(q) == \A s \in Sessions : q \notin ToSet(log[s])

(* Until the handler of a question ends it is not saved, and nor is one    *)
(* with a blank answer; one with a whole answer is.                        *)
Remembered ==
  \A q \in DOMAIN ask :
    /\ ask[q].pc \in {"unsent", "stream", "chat", "blank"} => InNoLog(q)
    /\ ask[q].pc = "whole" /\ ask[q].sid \in open => q \in ToSet(log[ask[q].sid])

(* The handler of a question that was shown a blank answer has ended.      *)
BlankDone == \A m \in Entries : m.kind = "blank" => ask[m.q].pc = "done"

Asked(i, q) == messages[i].role = "user" /\ messages[i].q = q

(* A run that answers a question has it on the page, and until the answer  *)
(* is there nothing of it in front, and only failovers behind; a run that  *)
(* adopts a session has one of the backend's, or none.                     *)
AtHand ==
  /\ script.pc \in Answering \cup {"cards"} =>
       /\ messages # Unset /\ script.arg \in DOMAIN ask
       /\ \E i \in DOMAIN messages :
            /\ Asked(i, script.arg)
            /\ script.pc \in Answering =>
                 /\ \A k \in 1..(i - 1) : messages[k].q # script.arg
                 /\ \A k \in (i + 1)..Len(messages) :
                      messages[k].role = "failover" /\ messages[k].q = script.arg
  /\ script.pc = "post" => ask[script.arg].pc = "unsent"
  /\ script.pc \in Adopting => script.arg \in 1..created \cup {None}

(* There is no transcript before there is a session id.                    *)
IdFirst == messages # Unset \/ script.pc \in Filling => session_id # Unset

IInv == TypeOK /\ LogOwned /\ Remembered /\ BlankDone /\ AtHand /\ IdFirst

(***************************************************************************)
(* What an action changes                                                  *)
(***************************************************************************)
BackendOK ==
  /\ created \in 0..MaxSessions /\ open \subseteq 1..created
  /\ log \in [Sessions -> Seq(Questions)]
  /\ \A s \in Sessions \ open : log[s] = <<>>
AskOK == ask \in Seq(Questioned(created)) /\ Len(ask) <= MaxQuestions
PageOK ==
  /\ session_id \in 1..created \cup {None, Unset}
  /\ messages \in Transcripts \cup {Unset}
  /\ \A m \in Entries : m.q \in DOMAIN ask
  /\ tool_calls \in DOMAIN ask \cup {None}
ScriptOK ==
  /\ script \in [pc : Places, arg : Sessions \cup Questions \cup {None}]
  /\ dropped \subseteq DOMAIN ask
  /\ torn \subseteq {"messages", "tool_calls"}

LEMMA Types == TypeOK <=> BackendOK /\ AskOK /\ PageOK /\ ScriptOK
BY DEF TypeOK, BackendOK, AskOK, PageOK, ScriptOK, Questioned, Progress, Places

LEMMA TypesNext == TypeOK' <=> (BackendOK /\ AskOK /\ PageOK /\ ScriptOK)'
BY Types, PTL

(* Sessions may be created or closed, and nothing is saved.                *)
Closes ==
  /\ BackendOK' /\ created <= created'
  /\ \A s \in 1..created : s \in open' => s \in open
  /\ \A s \in Sessions : log'[s] \in {log[s], <<>>} /\ (s \in open' => log'[s] = log[s])

(* No question is added, and of some there is nothing more to do.          *)
Fades ==
  /\ ask' \in Seq(Questioned(created)) /\ Len(ask') = Len(ask)
  /\ \A q \in DOMAIN ask : ask'[q].sid = ask[q].sid /\ ask'[q].pc \in {ask[q].pc, "done"}

LEMMA AskDomain ==
  ASSUME AskOK
  PROVE  /\ Len(ask) \in Nat /\ DOMAIN ask = 1..Len(ask) /\ DOMAIN ask \subseteq Questions
         /\ \A q \in DOMAIN ask : ask[q] \in Questioned(created)
BY DashboardAssumption DEF AskOK, Questions

LEMMA SessionsTyped ==
  ASSUME BackendOK
  PROVE  created \in Nat /\ 1..created \subseteq Sessions
BY DashboardAssumption DEF BackendOK, Sessions

LEMMA QuestionedGrows ==
  ASSUME NEW m \in Nat, NEW n \in Nat, m <= n
  PROVE  Questioned(m) \subseteq Questioned(n) /\ Seq(Questioned(m)) \subseteq Seq(Questioned(n))
<1>1. 1..m \subseteq 1..n
  OBVIOUS
<1>2. Questioned(m) \subseteq Questioned(n)
  BY <1>1 DEF Questioned
<1>3. ASSUME NEW s \in Seq(Questioned(m)) PROVE s \in Seq(Questioned(n))
  <2>1. \A i \in 1..Len(s) : s[i] \in Questioned(n)
    BY <1>2
  <2> QED
    BY <2>1
<1> QED
  BY <1>2, <1>3

LEMMA SameBackend == ASSUME BackendOK, UNCHANGED backend PROVE Closes
BY DEF BackendOK, Closes, backend

LEMMA SameAsk == ASSUME AskOK, UNCHANGED ask PROVE Fades
BY DEF AskOK, Fades

(* The log of a session that is there is not touched when others go.       *)
LEMMA CloseCloses ==
  ASSUME BackendOK, NEW gone \in open, Close(gone), UNCHANGED created
  PROVE  Closes
<1>1. gone \in Sessions
  BY SessionsTyped DEF BackendOK
<1>2. /\ log' \in [Sessions -> Seq(Questions)]
      /\ \A s \in Sessions : log'[s] = IF s = gone THEN <<>> ELSE log[s]
  BY <1>1 DEF BackendOK, Close
<1> QED
  BY <1>1, <1>2, SessionsTyped DEF BackendOK, Close, Closes

LEMMA InitCloses ==
  ASSUME BackendOK, NEW sid, InitSession(sid)
  PROVE  Closes /\ sid \in 1..created' \cup {None}
<1>1. CASE UNCHANGED <<created, open, log>> /\ sid = None
  BY <1>1, SameBackend DEF backend
<1>2. CASE /\ created < MaxSessions
           /\ created' = created + 1 /\ open' = open \cup {created'}
           /\ sid \in {created', None} /\ UNCHANGED log
  <2>1. BackendOK'
    BY <1>2, DashboardAssumption DEF BackendOK, Sessions
  <2> QED
    BY <1>2, <2>1, SessionsTyped DEF BackendOK, Closes
<1> QED
  BY <1>1, <1>2 DEF InitSession

(* The end of a run, for each of the interactions that ask nothing.        *)
LEMMA EndRunFades ==
  ASSUME AskOK, EndRun(Dropping)
  PROVE  Fades
<1> USE AskDomain
<1>1. ask' = [q \in 1..Len(ask) |-> Dropping[q]]
  BY DEF EndRun, Dropping
<1>2. ASSUME NEW q \in 1..Len(ask)
      PROVE  /\ Dropping[q] \in Questioned(created) /\ Dropping[q].sid = ask[q].sid
             /\ Dropping[q].pc \in {ask[q].pc, "done"}
  <2>1. ask[q] \in Questioned(created)
    OBVIOUS
  <2>2. [ask[q] EXCEPT !.pc = "done"] \in Questioned(created)
    BY <2>1 DEF Questioned, Progress
  <2>3. Dropping[q] = ask[q] \/ Dropping[q] = [ask[q] EXCEPT !.pc = "done"]
    BY DEF Dropping
  <2> QED
    BY <2>1, <2>2, <2>3 DEF Questioned, Progress
<1>3. ask' \in Seq(Questioned(created)) /\ Len(ask') = Len(ask)
  BY <1>1, <1>2
<1> QED
  BY <1>1, <1>2, <1>3 DEF Fades

LEMMA EndRunGhosts ==
  ASSUME NEW asked, EndRun(asked)
  PROVE  /\ dropped' \in {dropped, dropped \cup {script.arg}}
         /\ script.pc \in Answering => script.arg \in dropped'
         /\ dropped \subseteq dropped' /\ torn \subseteq torn'
         /\ torn' \subseteq torn \cup {"messages", "tool_calls"}
         /\ script.pc \in Answering => dropped' = dropped \cup {script.arg}
         /\ script.pc \notin Answering => dropped' = dropped
         /\ script.pc \in Filling => "messages" \in torn' /\ "tool_calls" \in torn'
         /\ script.pc = "clear" => "tool_calls" \in torn'
<1>1. /\ dropped' = IF script.pc \in {"post", "wait"} THEN dropped \cup {script.arg} ELSE dropped
      /\ torn' = torn \cup (CASE script.pc \in Filling -> {"messages", "tool_calls"}
                            [] script.pc = "clear"    -> {"tool_calls"}
                            [] OTHER                  -> {})
  BY DEF EndRun
<1>2. CASE script.pc \in Filling
  BY <1>1, <1>2 DEF Filling, Answering
<1>3. CASE script.pc = "clear"
  BY <1>1, <1>3 DEF Filling, Answering
<1>4. CASE script.pc \notin Filling /\ script.pc # "clear"
  BY <1>1, <1>4 DEF Filling, Answering
<1> QED
  BY <1>2, <1>3, <1>4

(***************************************************************************)
(* What the backend remembers                                              *)
(***************************************************************************)
LEMMA FadesKeeps ==
  ASSUME BackendOK, AskOK, LogOwned, Remembered, Closes, Fades
  PROVE  AskOK' /\ LogOwned' /\ Remembered'
<1> USE AskDomain, SessionsTyped
<1>1. created' \in Nat
  BY DashboardAssumption DEF Closes, BackendOK
<1>2. AskOK'
  BY <1>1, QuestionedGrows DEF AskOK, Closes, Fades
<1>3. DOMAIN ask' = DOMAIN ask
  BY DEF Fades
<1>4. ASSUME NEW s \in Sessions, NEW i \in DOMAIN log'[s]
      PROVE  log'[s][i] \in DOMAIN ask' /\ ask'[log'[s][i]].sid = s
  <2>1. log'[s] = log[s]
    BY <1>4 DEF Closes
  <2>2. log[s][i] \in DOMAIN ask /\ ask[log[s][i]].sid = s
    BY <1>4, <2>1 DEF LogOwned
  <2> QED
    BY <1>3, <2>1, <2>2 DEF Fades
<1>5. ASSUME NEW q \in DOMAIN ask', ask'[q].pc \in {"unsent", "stream", "chat", "blank"},
             NEW s \in Sessions, q \in ToSet(log'[s])
      PROVE  FALSE
  <2>1. q \in DOMAIN ask /\ ask'[q].pc = ask[q].pc
    BY <1>3, <1>5 DEF Fades
  <2>2. q \notin ToSet(log[s])
    BY <1>5, <2>1 DEF Remembered, InNoLog
  <2>3. log'[s] = log[s] \/ log'[s] = <<>>
    BY DEF Closes
  <2> QED
    BY <1>5, <2>2, <2>3 DEF ToSet
<1>6. ASSUME NEW q \in DOMAIN ask', ask'[q].pc = "whole", ask'[q].sid \in open'
      PROVE  q \in ToSet(log'[ask'[q].sid])
  <2>1. q \in DOMAIN ask /\ ask'[q].pc = ask[q].pc /\ ask'[q].sid = ask[q].sid
    BY <1>3, <1>6 DEF Fades
  <2>2. ask[q].sid \in 1..created
    BY <2>1 DEF Questioned
  <2>3. ask[q].sid \in open /\ log'[ask[q].sid] = log[ask[q].sid]
    BY <1>6, <2>1, <2>2 DEF Closes
  <2> QED
    BY <1>6, <2>1, <2>3 DEF Remembered
<1> QED
  BY <1>2, <1>4, <1>5, <1>6 DEF LogOwned, Remembered, InNoLog

(* The end of a handler, which may save the turn of its question.          *)
LEMMA EndKeeps ==
  ASSUME BackendOK, AskOK, LogOwned, Remembered,
         NEW q \in DOMAIN ask, NEW saves \in BOOLEAN, NEW answer \in {"whole", "blank", "note"},
         ask[q].pc \in {"stream", "chat"}, ServerEnds(q, saves, answer),
         answer = "whole" => saves, answer = "blank" => ~saves
  PROVE  /\ BackendOK' /\ AskOK' /\ LogOwned' /\ Remembered'
         /\ DOMAIN ask' = DOMAIN ask
         /\ \A p \in DOMAIN ask : ask'[p].sid = ask[p].sid /\ (p # q => ask'[p].pc = ask[p].pc)
         /\ \A s \in Sessions : /\ ToSet(log[s]) \subseteq ToSet(log'[s])
                                /\ ToSet(log'[s]) \subseteq ToSet(log[s]) \cup {q}
<1> USE AskDomain, SessionsTyped
<1> DEFINE saved == saves /\ ask[q].sid \in open
<1>1. PICK pc \in Progress :
        /\ pc \in {answer, "done"} /\ ask' = [ask EXCEPT ![q].pc = pc, ![q].text = FALSE]
  BY DEF ServerEnds, Progress
<1>2. PICK r : r = [ask[q] EXCEPT !.pc = pc, !.text = FALSE]
  OBVIOUS
<1>3. ask[q] \in Questioned(created)
  OBVIOUS
<1>4. r \in Questioned(created) /\ r.pc = pc /\ r.sid = ask[q].sid
  BY <1>2, <1>3 DEF Questioned
<1>5. ask' = [ask EXCEPT ![q] = r]
  BY <1>1, <1>2
<1>6. /\ ask' \in Seq(Questioned(created)) /\ Len(ask') = Len(ask) /\ DOMAIN ask' = DOMAIN ask
      /\ ask'[q] = r /\ \A p \in DOMAIN ask : p # q => ask'[p] = ask[p]
  BY <1>4, <1>5 DEF AskOK
<1>7. ask[q].sid \in Sessions /\ q \in Questions
  BY <1>3 DEF Questioned
<1>8. log[ask[q].sid] \in Seq(Questions)
  BY <1>7 DEF BackendOK
<1>9. PICK l : l = Append(log[ask[q].sid], q)
  OBVIOUS
<1>10. /\ l \in Seq(Questions) /\ Len(l) = Len(log[ask[q].sid]) + 1
       /\ DOMAIN l = 1..(Len(log[ask[q].sid]) + 1)
       /\ DOMAIN log[ask[q].sid] = 1..Len(log[ask[q].sid])
       /\ l[Len(log[ask[q].sid]) + 1] = q
       /\ \A i \in DOMAIN log[ask[q].sid] : l[i] = log[ask[q].sid][i]
  BY <1>7, <1>8, <1>9
<1>11. /\ \A i \in DOMAIN l : l[i] \in ToSet(log[ask[q].sid]) \cup {q}
       /\ ToSet(l) = ToSet(log[ask[q].sid]) \cup {q}
  <2>1. Len(log[ask[q].sid]) \in Nat
    BY <1>8
  <2>2. ASSUME NEW i \in DOMAIN l PROVE l[i] \in ToSet(log[ask[q].sid]) \cup {q}
    BY <1>10, <2>1 DEF ToSet
  <2>3. q \in ToSet(l)
    BY <1>10, <2>1 DEF ToSet
  <2>4. ASSUME NEW i \in DOMAIN log[ask[q].sid] PROVE log[ask[q].sid][i] \in ToSet(l)
    BY <1>10, <2>1 DEF ToSet
  <2> QED
    BY <2>2, <2>3, <2>4 DEF ToSet
<1>12. UNCHANGED <<created, open>> /\ log' = IF saved THEN [log EXCEPT ![ask[q].sid] = l] ELSE log
  BY <1>9 DEF ServerEnds
<1>13. /\ log' \in [Sessions -> Seq(Questions)]
       /\ \A s \in Sessions : log'[s] = IF saved /\ s = ask[q].sid THEN l ELSE log[s]
  BY <1>7, <1>10, <1>12 DEF BackendOK
<1>14. BackendOK' /\ AskOK'
  BY <1>6, <1>12, <1>13 DEF BackendOK, AskOK
<1>15. LogOwned'
  <2>1. ASSUME NEW s \in Sessions, NEW i \in DOMAIN log'[s]
        PROVE  log'[s][i] \in DOMAIN ask' /\ ask'[log'[s][i]].sid = s
    <3>1. log'[s][i] \in ToSet(log[s]) \/ (log'[s][i] = q /\ s = ask[q].sid)
      BY <1>11, <1>13, <2>1 DEF ToSet
    <3>2. CASE log'[s][i] \in ToSet(log[s])
      <4>1. log'[s][i] \in DOMAIN ask /\ ask[log'[s][i]].sid = s
        BY <3>2 DEF LogOwned, ToSet
      <4> QED
        BY <1>4, <1>6, <4>1
    <3>3. CASE log'[s][i] = q /\ s = ask[q].sid
      BY <1>4, <1>6, <3>3
    <3> QED
      BY <3>1, <3>2, <3>3
  <2> QED
    BY <2>1 DEF LogOwned
<1>16. \A s \in Sessions : /\ ToSet(log[s]) \subseteq ToSet(log'[s])
                           /\ ToSet(log'[s]) \subseteq ToSet(log[s]) \cup {q}
  BY <1>11, <1>13
<1>17. Remembered'
  <2>1. ASSUME NEW p \in DOMAIN ask', ask'[p].pc \in {"unsent", "stream", "chat", "blank"},
               NEW s \in Sessions
        PROVE  p \notin ToSet(log'[s])
    <3>1. CASE p = q
      <4>1. ~saves
        BY <1>1, <1>4, <1>6, <2>1, <3>1
      <4>2. q \notin ToSet(log[s])
        BY DEF Remembered, InNoLog
      <4> QED
        BY <1>13, <3>1, <4>1, <4>2
    <3>2. CASE p # q
      <4>1. p \notin ToSet(log[s])
        BY <1>6, <2>1, <3>2 DEF Remembered, InNoLog
      <4> QED
        BY <1>16, <3>2, <4>1
    <3> QED
      BY <3>1, <3>2
  <2>2. ASSUME NEW p \in DOMAIN ask', ask'[p].pc = "whole", ask'[p].sid \in open'
        PROVE  p \in ToSet(log'[ask'[p].sid])
    <3>1. CASE p = q
      <4>1. saved
        BY <1>1, <1>4, <1>6, <1>12, <2>2, <3>1
      <4> QED
        BY <1>4, <1>6, <1>7, <1>11, <1>13, <3>1, <4>1
    <3>2. CASE p # q
      <4>1. p \in ToSet(log[ask[p].sid]) /\ ask'[p] = ask[p]
        BY <1>6, <1>12, <2>2, <3>2 DEF Remembered
      <4>2. ask[p].sid \in Sessions
        BY <1>6, <2>2 DEF Questioned
      <4> QED
        BY <1>16, <4>1, <4>2
    <3> QED
      BY <3>1, <3>2
  <2> QED
    BY <2>1, <2>2 DEF Remembered, InNoLog
<1> QED
  BY <1>4, <1>6, <1>14, <1>15, <1>16, <1>17

(* A question is asked, and its number is nowhere yet.                     *)
LEMMA AskKeeps ==
  ASSUME BackendOK, AskOK, LogOwned, Remembered, Len(ask) < MaxQuestions,
         session_id \in 1..created, UNCHANGED backend,
         EndRun(Append(Dropping, [sid |-> session_id, pc |-> "unsent", text |-> FALSE]))
  PROVE  /\ AskOK' /\ LogOwned' /\ Remembered'
         /\ Len(ask') = Len(ask) + 1 /\ DOMAIN ask' = 1..(Len(ask) + 1)
         /\ ask'[Len(ask')].sid = session_id /\ ask'[Len(ask')].pc = "unsent"
         /\ \A q \in DOMAIN ask : ask'[q].sid = ask[q].sid /\ ask'[q].pc \in {ask[q].pc, "done"}
<1> USE AskDomain, SessionsTyped
<1> DEFINE new == [sid |-> session_id, pc |-> "unsent", text |-> FALSE]
<1>1. PICK d : d = Dropping
  OBVIOUS
<1>2. ASSUME NEW q \in 1..Len(ask)
      PROVE  /\ d[q] \in Questioned(created) /\ d[q].sid = ask[q].sid
             /\ d[q].pc \in {ask[q].pc, "done"}
  <2>1. ask[q] \in Questioned(created)
    OBVIOUS
  <2>2. [ask[q] EXCEPT !.pc = "done"] \in Questioned(created)
    BY <2>1 DEF Questioned, Progress
  <2>3. d[q] = ask[q] \/ d[q] = [ask[q] EXCEPT !.pc = "done"]
    BY <1>1 DEF Dropping
  <2> QED
    BY <2>1, <2>2, <2>3 DEF Questioned, Progress
<1>3. d = [q \in 1..Len(ask) |-> d[q]]
  BY <1>1 DEF Dropping
<1>4. d \in Seq(Questioned(created)) /\ Len(d) = Len(ask)
  BY <1>2, <1>3
<1>5. PICK n : n = new
  OBVIOUS
<1>6. n \in Questioned(created) /\ n.sid = session_id /\ n.pc = "unsent"
  BY <1>5 DEF Questioned, Progress
<1>7. ask' = Append(d, n)
  BY <1>1, <1>5 DEF EndRun
<1>8. /\ ask' \in Seq(Questioned(created)) /\ Len(ask') = Len(ask) + 1
      /\ DOMAIN ask' = 1..(Len(ask) + 1) /\ ask'[Len(ask) + 1] = n
      /\ \A q \in 1..Len(ask) : ask'[q] = d[q]
  BY <1>4, <1>6, <1>7
<1>9. UNCHANGED <<created, open, log>>
  BY DEF backend
<1>10. AskOK'
  BY <1>8, <1>9, DashboardAssumption DEF AskOK
<1>11. LogOwned'
  BY <1>2, <1>8, <1>9 DEF LogOwned
<1>12. ASSUME NEW q \in DOMAIN ask', ask'[q].pc \in {"unsent", "stream", "chat", "blank"},
              NEW s \in Sessions, q \in ToSet(log[s])
       PROVE  FALSE
  <2>1. q \in DOMAIN ask
    BY <1>12 DEF LogOwned, ToSet
  <2>2. ask[q].pc = ask'[q].pc
    BY <1>2, <1>8, <1>12, <2>1
  <2> QED
    BY <1>12, <2>1, <2>2 DEF Remembered, InNoLog
<1>13. ASSUME NEW q \in DOMAIN ask', ask'[q].pc = "whole", ask'[q].sid \in open
       PROVE  q \in ToSet(log[ask'[q].sid])
  <2>1. q \in DOMAIN ask
    BY <1>6, <1>8, <1>13
  <2>2. ask[q].pc = "whole" /\ ask[q].sid = ask'[q].sid
    BY <1>2, <1>8, <1>13, <2>1
  <2> QED
    BY <1>13, <2>1, <2>2 DEF Remembered
<1>14. Remembered'
  BY <1>9, <1>12, <1>13 DEF Remembered, InNoLog
<1> QED
  BY <1>2, <1>6, <1>8, <1>10, <1>11, <1>14

(* A question is sent, or turned down at once.                             *)
LEMMA PostKeeps ==
  ASSUME BackendOK, AskOK, LogOwned, Remembered, AtHand, Post
  PROVE  /\ AskOK' /\ LogOwned' /\ Remembered' /\ DOMAIN ask' = DOMAIN ask
         /\ \A q \in DOMAIN ask : /\ ask'[q].sid = ask[q].sid
                                  /\ ask[q].pc = "done" => ask'[q].pc = "done"
<1> USE AskDomain, SessionsTyped
<1> DEFINE q == script.arg
<1>1. q \in DOMAIN ask /\ ask[q].pc = "unsent"
  BY DEF Post, AtHand, Answering
<1>2. PICK pc \in {"note", "stream", "chat", "blank"} : ask' = [ask EXCEPT ![q].pc = pc]
  BY DEF Post
<1>3. PICK r : r = [ask[q] EXCEPT !.pc = pc]
  OBVIOUS
<1>4. ask[q] \in Questioned(created)
  BY <1>1
<1>5. r \in Questioned(created) /\ r.pc = pc /\ r.sid = ask[q].sid
  BY <1>2, <1>3, <1>4 DEF Questioned, Progress
<1>6. /\ ask' \in Seq(Questioned(created)) /\ Len(ask') = Len(ask) /\ DOMAIN ask' = DOMAIN ask
      /\ ask'[q] = r /\ \A p \in DOMAIN ask : p # q => ask'[p] = ask[p]
  BY <1>1, <1>2, <1>3, <1>5 DEF AskOK
<1>7. UNCHANGED <<created, open, log>>
  BY DEF Post, backend
<1>8. AskOK' /\ LogOwned'
  BY <1>5, <1>6, <1>7 DEF AskOK, LogOwned
<1>9. Remembered'
  <2>1. InNoLog(q)
    BY <1>1 DEF Remembered
  <2>2. ASSUME NEW p \in DOMAIN ask', ask'[p].pc \in {"unsent", "stream", "chat", "blank"}
        PROVE  InNoLog(p)
    BY <1>6, <2>1, <2>2 DEF Remembered
  <2>3. ASSUME NEW p \in DOMAIN ask', ask'[p].pc = "whole", ask'[p].sid \in open
        PROVE  p \in ToSet(log[ask'[p].sid])
    <3>1. p # q
      BY <1>2, <1>5, <1>6, <2>3
    <3> QED
      BY <1>6, <2>3, <3>1 DEF Remembered
  <2> QED
    BY <1>7, <2>2, <2>3 DEF Remembered, InNoLog
<1> QED
  BY <1>1, <1>5, <1>6, <1>8, <1>9

(***************************************************************************)
(* What is on the page                                                     *)
(***************************************************************************)
LEMMA TranscriptsAre == Transcripts = Seq(Lines)
BY DEF Transcripts, Lines

LEMMA PageDomain ==
  ASSUME PageOK, messages # Unset
  PROVE  /\ messages \in Seq(Lines) /\ Len(messages) \in Nat
         /\ DOMAIN messages = 1..Len(messages)
         /\ \A i \in DOMAIN messages : messages[i] \in Entries /\ messages[i] \in Lines
         /\ \A m \in Entries : \E i \in DOMAIN messages : m = messages[i]
BY TranscriptsAre DEF PageOK, Entries, ToSet

(* A line is added at the end of the transcript.                           *)
Adds(e) ==
  /\ messages # Unset /\ e \in Lines
  /\ messages' = Append(messages, e)

LEMMA AddsLine ==
  ASSUME PageOK, NEW e, Adds(e)
  PROVE  /\ messages' \in Transcripts /\ messages' # Unset
         /\ Len(messages') = Len(messages) + 1
         /\ DOMAIN messages' = 1..(Len(messages) + 1)
         /\ messages'[Len(messages) + 1] = e
         /\ \A i \in DOMAIN messages : messages'[i] = messages[i]
         /\ Entries' = Entries \cup {e}
<1> USE PageDomain, TranscriptsAre DEF Adds
<1>1. /\ messages' \in Seq(Lines) /\ Len(messages') = Len(messages) + 1
      /\ DOMAIN messages' = 1..(Len(messages) + 1)
      /\ messages'[Len(messages) + 1] = e
      /\ \A i \in DOMAIN messages : messages'[i] = messages[i]
  OBVIOUS
<1>2. messages' # Unset
  BY <1>1, DashboardAssumption
<1>3. ASSUME NEW m \in Entries' PROVE m \in Entries \cup {e}
  BY <1>1, <1>2, <1>3 DEF Entries, ToSet
<1>4. ASSUME NEW m \in Entries \cup {e} PROVE m \in Entries'
  BY <1>1, <1>2, <1>4 DEF Entries, ToSet
<1> QED
  BY <1>1, <1>2, <1>3, <1>4

LEMMA EntryIs ==
  ASSUME NEW role, NEW q, NEW kind
  PROVE  /\ Entry(role, q, kind).role = role /\ Entry(role, q, kind).q = q
         /\ Entry(role, q, kind).kind = kind
BY DEF Entry

LEMMA EntryTyped ==
  ASSUME NEW role \in {"user", "assistant", "failover"}, NEW q \in Questions,
         NEW kind \in {"typed", "saved", "whole", "blank", "note"}
  PROVE  Entry(role, q, kind) \in Lines
BY DEF Entry, Lines

(* The history of a session, question by question.                         *)
LEMMA HistoryIs ==
  ASSUME BackendOK, NEW s \in Sessions
  PROVE  /\ History(s) \in Seq(Lines) /\ Len(History(s)) = 2 * Len(log[s])
         /\ Len(log[s]) \in Nat
         /\ \A i \in 1..Len(log[s]) :
              /\ log[s][i] \in ToSet(log[s]) /\ log[s][i] \in Questions
              /\ History(s)[2 * i - 1] = Entry("user", log[s][i], "saved")
              /\ History(s)[2 * i] = Entry("assistant", log[s][i], "saved")
         /\ \A j \in 1..Len(History(s)) :
              \E i \in 1..Len(log[s]) : j \in {2 * i - 1, 2 * i}
<1> DEFINE l == log[s]
           Line(i) == Entry(IF i % 2 = 1 THEN "user" ELSE "assistant", l[(i + 1) \div 2], "saved")
<1>1. l \in Seq(Questions) /\ Len(l) \in Nat /\ DOMAIN l = 1..Len(l)
  BY DEF BackendOK
<1>2. ASSUME NEW j \in 1..(2 * Len(l))
      PROVE  /\ (j + 1) \div 2 \in 1..Len(l)
             /\ j \in {2 * ((j + 1) \div 2) - 1, 2 * ((j + 1) \div 2)}
             /\ j = 2 * ((j + 1) \div 2) - 1 <=> j % 2 = 1
  BY <1>1
<1>3. \A j \in 1..(2 * Len(l)) : Line(j) \in Lines
  BY <1>1, <1>2, EntryTyped
<1>4. History(s) = [j \in 1..(2 * Len(l)) |-> Line(j)]
  BY DEF History
<1> HIDE DEF Line
<1>5. /\ History(s) \in Seq(Lines) /\ Len(History(s)) = 2 * Len(l)
      /\ \A j \in 1..(2 * Len(l)) : History(s)[j] = Line(j)
  BY <1>1, <1>3, <1>4
<1>6. ASSUME NEW i \in 1..Len(l)
      PROVE  /\ l[i] \in ToSet(l) /\ l[i] \in Questions
             /\ History(s)[2 * i - 1] = Entry("user", l[i], "saved")
             /\ History(s)[2 * i] = Entry("assistant", l[i], "saved")
  <2>1. /\ 2 * i \in 1..(2 * Len(l)) /\ 2 * i - 1 \in 1..(2 * Len(l))
        /\ (2 * i) % 2 # 1 /\ (2 * i - 1) % 2 = 1
        /\ (2 * i + 1) \div 2 = i /\ (2 * i - 1 + 1) \div 2 = i
    BY <1>1
  <2>2. Line(2 * i) = Entry("assistant", l[i], "saved")
    BY <2>1, Zenon DEF Line
  <2>3. Line(2 * i - 1) = Entry("user", l[i], "saved")
    BY <2>1 DEF Line
  <2>4. l[i] \in ToSet(l) /\ l[i] \in Questions
    BY <1>1 DEF ToSet
  <2> QED
    BY <1>5, <2>1, <2>2, <2>3, <2>4, Zenon
<1>7. ASSUME NEW j \in 1..Len(History(s))
      PROVE  \E i \in 1..Len(l) : j \in {2 * i - 1, 2 * i}
  BY <1>2, <1>5
<1> QED
  BY <1>1, <1>5, <1>6, <1>7

(***************************************************************************)
(* Steps that leave the page as it is                                      *)
(***************************************************************************)
(* The parts of TranscriptOwned.                                           *)
TranscriptHere ==
  script.pc \notin Filling /\ "messages" \notin torn =>
    \A m \in Entries : ask[m.q].sid = session_id
CardsHere ==
  script.pc \notin Filling \cup {"clear"} /\ "tool_calls" \notin torn =>
    tool_calls = None \/ \E m \in Entries : m.q = tool_calls

LEMMA OwnedParts == TranscriptOwned <=> TypeOK /\ TranscriptHere /\ CardsHere
BY DEF TranscriptOwned, TranscriptHere, CardsHere

(* The entry at j answers the question at i.                               *)
Answers(m, i, j) ==
  /\ i < j /\ m[j].role = "assistant" /\ m[j].q = m[i].q
  /\ \A k \in (i + 1)..(j - 1) : m[k].role = "failover" /\ m[k].q = m[i].q

QuestionPaired(i) ==
  messages[i].role = "user" =>
    \/ \E j \in DOMAIN messages : Answers(messages, i, j)
    \/ messages[i].q \in dropped
    \/ script.pc \in Answering /\ script.arg = messages[i].q
AnswerPaired(i) ==
  messages[i].role = "assistant" =>
    \E j \in DOMAIN messages : messages[j].role = "user" /\ Answers(messages, j, i)

LEMMA PairedParts ==
  RepliesPaired <=>
    (messages # Unset => \A i \in DOMAIN messages : QuestionPaired(i) /\ AnswerPaired(i))
BY DEF RepliesPaired, Answers, QuestionPaired, AnswerPaired, Answering

Page == BlankDone /\ AtHand /\ IdFirst /\ TranscriptHere /\ CardsHere /\ RepliesPaired

(* Questions keep their session, and a handler that has ended does not     *)
(* start again.                                                            *)
AskMoves ==
  /\ AskOK' /\ created <= created' /\ created' \in Nat /\ DOMAIN ask \subseteq DOMAIN ask'
  /\ \A q \in DOMAIN ask : /\ ask'[q].sid = ask[q].sid
                           /\ ask[q].pc = "done" => ask'[q].pc = "done"

Stays ==
  /\ script' = script /\ UNCHANGED ghosts /\ session_id' = session_id
  /\ script.pc = "post" => ask'[script.arg].pc = ask[script.arg].pc

(* The run goes on to a place that answers no question, or another run     *)
(* does; in the middle of a change of session the session state is torn.   *)
Leaves ==
  /\ script' \in [pc : Places \ (Answering \cup {"cards"}),
                  arg : Sessions \cup Questions \cup {None}]
  /\ script'.pc \in Adopting => script'.arg \in 1..created' \cup {None}
  /\ session_id' = session_id \/ script'.pc \in Filling
  /\ session_id' \in 1..created' \cup {None, Unset}
  /\ script'.pc \in Filling => session_id' # Unset
  /\ dropped \subseteq dropped' /\ dropped' \subseteq DOMAIN ask
  /\ torn \subseteq torn' /\ torn' \subseteq {"messages", "tool_calls"}
  /\ script.pc \in Answering => script.arg \in dropped'
  /\ script.pc \in Filling => "messages" \in torn' /\ "tool_calls" \in torn'
  /\ script.pc = "clear" => "tool_calls" \in torn'

LEMMA QuietPage ==
  ASSUME PageOK, ScriptOK, AskOK, Page, AskMoves, BackendOK,
         UNCHANGED <<messages, tool_calls>>, Stays \/ Leaves
  PROVE  PageOK' /\ ScriptOK' /\ Page'
<1> USE AskDomain DEF Page
<1>1. Entries' = Entries
  BY DEF Entries
<1>2. session_id' \in 1..created' \cup {None, Unset}
  BY SessionsTyped DEF Stays, Leaves, PageOK, AskMoves
<1>3. PageOK'
  BY <1>1, <1>2 DEF PageOK, AskMoves
<1>4. \A m \in Entries : m.q \in DOMAIN ask
  BY DEF PageOK
<1>5. BlankDone'
  BY <1>1, <1>4 DEF BlankDone, AskMoves
<1>6. CASE Stays
  <2>1. ScriptOK'
    BY <1>6 DEF ScriptOK, Stays, ghosts, AskMoves
  <2>2. AtHand'
    <3>1. script.pc \in Answering \cup {"cards"} => script.arg \in DOMAIN ask
      BY DEF AtHand
    <3>2. script.pc = "post" => ask'[script.arg].pc = "unsent"
      BY <1>6 DEF AtHand, Stays
    <3>3. script.pc \in Adopting => script.arg \in 1..created' \cup {None}
      BY SessionsTyped DEF AtHand, AskMoves
    <3> QED
      BY <1>6, <3>1, <3>2, <3>3 DEF AtHand, Stays, AskMoves, Asked
  <2>3. TranscriptHere' /\ CardsHere' /\ IdFirst'
    BY <1>1, <1>4, <1>6 DEF TranscriptHere, CardsHere, IdFirst, Stays, ghosts, AskMoves
  <2>4. RepliesPaired'
    BY <1>6, PairedParts DEF RepliesPaired, Stays, ghosts
  <2> QED
    BY <1>3, <1>5, <2>1, <2>2, <2>3, <2>4
<1>7. CASE Leaves
  <2>1. ScriptOK'
    BY <1>7 DEF ScriptOK, Leaves, AskMoves
  <2>2. script'.pc \notin Answering \cup {"cards"}
    BY <1>7 DEF Leaves
  <2>3. AtHand'
    BY <1>7, <2>2 DEF AtHand, Leaves, Answering
  <2>4. TranscriptHere'
    BY <1>1, <1>4, <1>7 DEF TranscriptHere, Leaves, AskMoves
  <2>5. CardsHere' /\ IdFirst'
    BY <1>1, <1>7 DEF CardsHere, IdFirst, Leaves
  <2>6. RepliesPaired'
    <3>1. ASSUME messages' # Unset, NEW i \in DOMAIN messages'
          PROVE  QuestionPaired(i)' /\ AnswerPaired(i)'
      <4>1. QuestionPaired(i) /\ AnswerPaired(i)
        BY <3>1, PairedParts
      <4>2. AnswerPaired(i)'
        BY <4>1 DEF AnswerPaired
      <4>3. QuestionPaired(i)'
        BY <1>7, <4>1 DEF QuestionPaired, Leaves
      <4> QED
        BY <4>2, <4>3
    <3>2. (messages # Unset => \A i \in DOMAIN messages : QuestionPaired(i) /\ AnswerPaired(i))'
      BY <3>1
    <3>3. (RepliesPaired <=>
             (messages # Unset =>
                \A i \in DOMAIN messages : QuestionPaired(i) /\ AnswerPaired(i)))'
      BY PairedParts, PTL
    <3> QED
      BY <3>2, <3>3
  <2> QED
    BY <1>3, <1>5, <2>1, <2>3, <2>4, <2>5, <2>6
<1> QED
  BY <1>6, <1>7

(* What is shown stays remembered when sessions close, and questions are   *)
(* added or dropped.                                                       *)
LEMMA ShownStays ==
  ASSUME PageOK, AskOK, BackendOK, ShownIsRemembered, Closes,
         \A q \in DOMAIN ask : ask'[q].sid = ask[q].sid,
         NEW m \in Entries
  PROVE  /\ m.kind = "whole" /\ ask'[m.q].sid \in open' => m.q \in ToSet(log'[ask'[m.q].sid])
         /\ m.kind = "blank" => \A s \in Sessions : m.q \notin ToSet(log'[s])
<1> USE AskDomain, SessionsTyped
<1>1. m.q \in DOMAIN ask /\ ask'[m.q].sid = ask[m.q].sid
  BY DEF PageOK
<1>2. ask[m.q].sid \in 1..created
  BY <1>1 DEF Questioned
<1>3. ASSUME m.kind = "whole", ask'[m.q].sid \in open'
      PROVE  m.q \in ToSet(log'[ask'[m.q].sid])
  <2>1. ask[m.q].sid \in open
    BY <1>1, <1>2, <1>3 DEF Closes
  <2>2. log'[ask[m.q].sid] = log[ask[m.q].sid]
    BY <1>1, <1>2, <1>3 DEF Closes
  <2> QED
    BY <1>1, <1>3, <2>1, <2>2 DEF ShownIsRemembered
<1>4. ASSUME m.kind = "blank", NEW s \in Sessions, m.q \in ToSet(log'[s])
      PROVE  FALSE
  <2>1. m.q \notin ToSet(log[s])
    BY <1>4 DEF ShownIsRemembered
  <2>2. log'[s] = log[s] \/ log'[s] = <<>>
    BY DEF Closes
  <2> QED
    BY <1>4, <2>1, <2>2 DEF ToSet
<1> QED
  BY <1>3, <1>4

Sound ==
  /\ BackendOK /\ AskOK /\ PageOK /\ ScriptOK /\ LogOwned /\ Remembered
  /\ Page /\ ShownIsRemembered

LEMMA SoundInv ==
  Sound <=> IInv /\ TranscriptOwned /\ RepliesPaired /\ ShownIsRemembered
BY Types, OwnedParts DEF Sound, IInv, Page

LEMMA ClosesMoves ==
  ASSUME BackendOK, AskOK, LogOwned, Remembered, Closes, Fades
  PROVE  AskMoves
<1>1. AskOK' /\ created <= created'
  BY FadesKeeps DEF Closes
<1>2. created' \in Nat
  BY DashboardAssumption DEF Closes, BackendOK
<1> QED
  BY <1>1, <1>2, AskDomain DEF AskMoves, Fades

(* A step that neither saves, asks nor shows.                              *)
LEMMA QuietKeeps ==
  ASSUME Sound, Closes, Fades, UNCHANGED <<messages, tool_calls>>, Stays \/ Leaves
  PROVE  Sound'
<1> USE DEF Sound
<1>1. AskOK' /\ LogOwned' /\ Remembered' /\ AskMoves
  BY FadesKeeps, ClosesMoves
<1>2. PageOK' /\ ScriptOK' /\ Page'
  BY <1>1, QuietPage
<1>3. Entries' = Entries
  BY DEF Entries
<1>4. ShownIsRemembered'
  BY <1>3, ShownStays DEF ShownIsRemembered, Fades
<1> QED
  BY <1>1, <1>2, <1>4 DEF Closes

LEMMA ExpireKeeps == ASSUME Sound, Expire PROVE Sound'
<1> USE DEF Sound
<1>1. PICK s \in open : Close(s)
  BY DEF Expire
<1>2. Closes /\ Fades
  BY <1>1, CloseCloses, SameAsk DEF Expire
<1>3. Stays
  BY DEF Expire, Stays, chat
<1> QED
  BY <1>2, <1>3, QuietKeeps DEF Expire, chat

LEMMA TextKeeps ==
  ASSUME Sound, NEW q \in DOMAIN ask, ServerText(q)
  PROVE  Sound'
<1> USE AskDomain DEF Sound
<1>1. PICK r : r = [ask[q] EXCEPT !.text = TRUE]
  OBVIOUS
<1>2. ask[q] \in Questioned(created)
  OBVIOUS
<1>3. r \in Questioned(created) /\ r.pc = ask[q].pc /\ r.sid = ask[q].sid
  BY <1>1, <1>2 DEF Questioned
<1>4. ask' = [ask EXCEPT ![q] = r]
  BY <1>1 DEF ServerText
<1>5. /\ ask' \in Seq(Questioned(created)) /\ Len(ask') = Len(ask)
      /\ ask'[q] = r /\ \A p \in DOMAIN ask : p # q => ask'[p] = ask[p]
  BY <1>3, <1>4 DEF AskOK
<1>6. Fades
  BY <1>3, <1>5 DEF Fades
<1>7. Closes
  BY SameBackend DEF ServerText
<1>8. Stays
  BY <1>3, <1>5, <1>6 DEF ServerText, Stays, chat, Page, AtHand, Answering
<1> QED
  BY <1>6, <1>7, <1>8, QuietKeeps DEF ServerText, chat

LEMMA EndStep ==
  ASSUME Sound, NEW q \in DOMAIN ask, StreamEnd(q) \/ ChatEnd(q)
  PROVE  Sound'
<1> USE AskDomain DEF Sound
<1>1. ask[q].text \in BOOLEAN
  BY DEF Questioned
<1>2. PICK saves \in BOOLEAN, answer \in {"whole", "blank", "note"} :
        /\ ServerEnds(q, saves, answer) /\ ask[q].pc \in {"stream", "chat"}
        /\ answer = "whole" => saves
        /\ answer = "blank" => ~saves
  <2>1. CASE StreamEnd(q)
    <3>1. PICK answer \in {IF ask[q].text THEN "whole" ELSE "blank", "note"} :
            ServerEnds(q, ask[q].text, answer)
      BY <2>1 DEF StreamEnd
    <3> QED
      BY <1>1, <2>1, <3>1 DEF StreamEnd
  <2>2. CASE ChatEnd(q)
    <3>1. PICK raised \in BOOLEAN :
            ServerEnds(q, ~raised, IF ask[q].text /\ ~raised THEN "whole" ELSE "note")
      BY <2>2 DEF ChatEnd
    <3> QED
      BY <1>1, <2>2, <3>1 DEF ChatEnd
  <2> QED
    BY <2>1, <2>2
<1>3. /\ BackendOK' /\ AskOK' /\ LogOwned' /\ Remembered' /\ DOMAIN ask' = DOMAIN ask
      /\ \A p \in DOMAIN ask : ask'[p].sid = ask[p].sid /\ (p # q => ask'[p].pc = ask[p].pc)
      /\ \A s \in Sessions : /\ ToSet(log[s]) \subseteq ToSet(log'[s])
                             /\ ToSet(log'[s]) \subseteq ToSet(log[s]) \cup {q}
  BY <1>2, EndKeeps
<1>4. UNCHANGED <<created, open, chat, script, ghosts>>
  BY <1>2 DEF ServerEnds
<1>5. AskMoves
  BY <1>2, <1>3, <1>4, SessionsTyped DEF AskMoves
<1>6. Stays
  BY <1>2, <1>3, <1>4 DEF Stays, chat, Page, AtHand, Answering
<1>7. PageOK' /\ ScriptOK' /\ Page'
  BY <1>4, <1>5, <1>6, QuietPage DEF chat
<1>8. ShownIsRemembered'
  <2>1. Entries' = Entries
    BY <1>4 DEF Entries, chat
  <2>2. ASSUME NEW m \in Entries
        PROVE  /\ m.q \in DOMAIN ask /\ ask'[m.q].sid = ask[m.q].sid
               /\ ask[m.q].sid \in Sessions
    BY <1>3, SessionsTyped DEF PageOK, Questioned
  <2>3. ASSUME NEW m \in Entries, m.kind = "whole", ask'[m.q].sid \in open'
        PROVE  m.q \in ToSet(log'[ask'[m.q].sid])
    BY <1>3, <1>4, <2>2, <2>3 DEF ShownIsRemembered
  <2>4. ASSUME NEW m \in Entries, m.kind = "blank", NEW s \in Sessions
        PROVE  m.q \notin ToSet(log'[s])
    <3>1. m.q # q
      BY <1>2, <2>4 DEF Page, BlankDone
    <3> QED
      BY <1>3, <2>4, <3>1 DEF ShownIsRemembered
  <2> QED
    BY <2>1, <2>3, <2>4 DEF ShownIsRemembered
<1> QED
  BY <1>3, <1>7, <1>8

(***************************************************************************)
(* Interactions, and the change of session                                 *)
(***************************************************************************)
LEMMA RestIs ==
  /\ Rest \in [pc : {"first", "fetch", "idle"}, arg : {None}]
  /\ Rest.pc = "fetch" => session_id # Unset
BY DEF Rest, At

LEMMA ScriptTyped ==
  ASSUME NEW pc, NEW arg
  PROVE  At(pc, arg).pc = pc /\ At(pc, arg).arg = arg
BY DEF At

(* Whatever ends a run and has the next one begin elsewhere.               *)
LEMMA InterruptKeeps ==
  ASSUME Sound, Closes, EndRun(Dropping), UNCHANGED chat,
         script' = Rest \/ \E pc \in Adopting \cup {"replace"}, arg \in 1..created' \cup {None} :
                             script' = At(pc, arg)
  PROVE  Sound'
<1> USE DEF Sound
<1>1. 1..created' \subseteq Sessions
  BY DashboardAssumption DEF Closes, BackendOK, Sessions
<1>2. /\ script' \in [pc : Places \ (Answering \cup {"cards"}),
                      arg : Sessions \cup Questions \cup {None}]
      /\ script'.pc \in Adopting => script'.arg \in 1..created' \cup {None}
      /\ script'.pc \in Filling => session_id # Unset
  <2>1. CASE script' = Rest
    BY <2>1, RestIs DEF Places, Answering, Adopting, Filling
  <2>2. CASE \E pc \in Adopting \cup {"replace"}, arg \in 1..created' \cup {None} :
               script' = At(pc, arg)
    <3>1. PICK pc \in Adopting \cup {"replace"}, arg \in 1..created' \cup {None} :
            script' = At(pc, arg)
      BY <2>2
    <3>2. /\ pc \in Places \ (Answering \cup {"cards"})
          /\ arg \in Sessions \cup Questions \cup {None}
      BY <1>1, <3>1 DEF Places, Answering, Adopting
    <3>3. pc \notin Filling
      BY <3>1 DEF Adopting, Filling
    <3> QED
      BY <3>1, <3>2, <3>3 DEF At
  <2> QED
    BY <2>1, <2>2
<1>3. Fades
  BY EndRunFades
<1>4. /\ dropped \subseteq dropped' /\ torn \subseteq torn'
      /\ torn' \subseteq torn \cup {"messages", "tool_calls"}
      /\ script.pc \in Answering => script.arg \in dropped'
      /\ script.pc \in Answering => dropped' = dropped \cup {script.arg}
      /\ script.pc \notin Answering => dropped' = dropped
      /\ script.pc \in Filling => "messages" \in torn' /\ "tool_calls" \in torn'
      /\ script.pc = "clear" => "tool_calls" \in torn'
  BY EndRunGhosts
<1>5. dropped' \subseteq DOMAIN ask /\ torn' \subseteq {"messages", "tool_calls"}
  BY <1>4 DEF ScriptOK, Page, AtHand
<1>6. session_id' = session_id /\ session_id' \in 1..created' \cup {None, Unset}
  BY SessionsTyped DEF chat, PageOK, Closes, BackendOK
<1>7. Leaves
  BY <1>2, <1>4, <1>5, <1>6 DEF Leaves
<1> QED
  BY <1>3, <1>7, QuietKeeps DEF chat

LEMMA OtherKeeps == ASSUME Sound, Other PROVE Sound'
BY SameBackend, InterruptKeeps DEF Other, Sound

LEMMA NewKeeps == ASSUME Sound, New PROVE Sound'
<1>1. PICK sid \in Sessions \cup {None} :
        /\ InitSession(sid)
        /\ script' = IF sid = None THEN Rest ELSE At("adopt", sid)
  BY DEF New
<1>2. Closes /\ sid \in 1..created' \cup {None}
  BY <1>1, InitCloses DEF Sound
<1> QED
  BY <1>1, <1>2, InterruptKeeps DEF New, Adopting

LEMMA ResetKeeps == ASSUME Sound, Reset PROVE Sound'
<1>1. PICK sid \in Sessions \cup {None} : InitSession(sid) /\ script' = At("adopt", sid)
  BY DEF Reset
<1>2. Closes /\ sid \in 1..created' \cup {None}
  BY <1>1, InitCloses DEF Sound
<1> QED
  BY <1>1, <1>2, InterruptKeeps DEF Reset, Adopting

LEMMA SelectKeeps == ASSUME Sound, Select PROVE Sound'
<1>1. PICK s \in open : script' = At("adopt selected", s)
  BY DEF Select, Listed
<1>2. Closes
  BY SameBackend DEF Select, Sound
<1>3. s \in 1..created'
  BY <1>1 DEF Select, Sound, BackendOK, backend
<1> QED
  BY <1>1, <1>2, <1>3, InterruptKeeps DEF Select, Adopting

LEMMA DeleteKeeps == ASSUME Sound, Delete PROVE Sound'
<1>1. PICK s \in open :
        /\ Close(s)
        /\ script' \in {Rest, IF s = session_id THEN At("replace", None) ELSE Rest}
  BY DEF Delete, Listed
<1>2. Closes
  BY <1>1, CloseCloses DEF Delete, Sound
<1>3. script' = Rest \/ script' = At("replace", None)
  BY <1>1
<1> QED
  BY <1>2, <1>3, InterruptKeeps DEF Delete

LEMMA ReplaceKeeps == ASSUME Sound, Replace PROVE Sound'
<1> USE DEF Sound
<1>1. PICK sid \in Sessions \cup {None} : InitSession(sid) /\ script' = At("adopt", sid)
  BY DEF Replace
<1>2. Closes /\ sid \in 1..created' \cup {None}
  BY <1>1, InitCloses
<1>3. Fades
  BY SameAsk DEF Replace
<1>4. session_id' = session_id /\ session_id' \in 1..created' \cup {None, Unset}
  BY <1>2, SessionsTyped DEF Replace, chat, PageOK, Closes, BackendOK
<1>5. Leaves
  BY <1>1, <1>2, <1>4 DEF Leaves, Replace, At, Places, Answering, Adopting, Filling, ghosts,
                          ScriptOK
<1> QED
  BY <1>2, <1>3, <1>5, QuietKeeps DEF Replace, chat

LEMMA AdoptKeeps == ASSUME Sound, Adopt PROVE Sound'
<1> USE DEF Sound
<1>1. script.arg \in 1..created \cup {None}
  BY DEF Adopt, Page, AtHand, Adopting
<1>2. script' = At("fill", None) \/ script' = At("fetch", None)
  BY DEF Adopt
<1>3. Closes /\ Fades
  BY SameBackend, SameAsk DEF Adopt
<1>4. session_id' \in 1..created' \cup {None, Unset} /\ session_id' # Unset
  BY <1>1, SessionsTyped, DashboardAssumption DEF Adopt, backend
<1>5. Leaves
  BY <1>2, <1>4 DEF Leaves, Adopt, At, Places, Answering, Adopting, Filling, ghosts, ScriptOK
<1> QED
  BY <1>3, <1>5, QuietKeeps DEF Adopt

(* A fetched transcript is of the session's questions and their answers.   *)
LEMMA FetchedIs ==
  ASSUME BackendOK, AskOK, LogOwned, NEW h \in {<<>>} \cup Fetched(session_id)
  PROVE  /\ h \in Seq(Lines) /\ h # Unset
         /\ \A i \in 1..Len(h) :
              /\ h[i].q \in DOMAIN ask /\ ask[h[i].q].sid = session_id /\ h[i].kind = "saved"
              /\ \/ h[i].role = "user" /\ \E j \in 1..Len(h) : Answers(h, i, j)
                 \/ /\ h[i].role = "assistant"
                    /\ \E j \in 1..Len(h) : h[j].role = "user" /\ Answers(h, j, i)
<1>1. CASE h = <<>>
  <2>1. h \in Seq(Lines) /\ Len(h) = 0
    BY <1>1
  <2>2. h # Unset
    BY <2>1, TranscriptsAre, DashboardAssumption
  <2> QED
    BY <2>1, <2>2
<1>2. CASE session_id \in Sessions /\ h = History(session_id)
  <2> DEFINE l == log[session_id]
  <2>1. /\ h \in Seq(Lines) /\ Len(h) = 2 * Len(l) /\ Len(l) \in Nat
        /\ \A i \in 1..Len(l) :
             /\ l[i] \in ToSet(l)
             /\ h[2 * i - 1] = Entry("user", l[i], "saved")
             /\ h[2 * i] = Entry("assistant", l[i], "saved")
        /\ \A j \in 1..Len(h) : \E i \in 1..Len(l) : j \in {2 * i - 1, 2 * i}
    BY <1>2, HistoryIs
  <2>2. h # Unset
    BY <2>1, TranscriptsAre, DashboardAssumption
  <2>3. ASSUME NEW k \in 1..Len(h)
        PROVE  /\ h[k].q \in DOMAIN ask /\ ask[h[k].q].sid = session_id /\ h[k].kind = "saved"
               /\ \/ h[k].role = "user" /\ \E j \in 1..Len(h) : Answers(h, k, j)
                  \/ /\ h[k].role = "assistant"
                     /\ \E j \in 1..Len(h) : h[j].role = "user" /\ Answers(h, j, k)
    <3>1. PICK i \in 1..Len(l) : k \in {2 * i - 1, 2 * i}
      BY <2>1
    <3>2. l[i] \in DOMAIN ask /\ ask[l[i]].sid = session_id
      BY <1>2, <2>1 DEF LogOwned, ToSet
    <3>3. /\ h[2 * i - 1].role = "user" /\ h[2 * i - 1].q = l[i]
          /\ h[2 * i - 1].kind = "saved"
          /\ h[2 * i].role = "assistant" /\ h[2 * i].q = l[i] /\ h[2 * i].kind = "saved"
      <4>1. /\ h[2 * i - 1] = Entry("user", l[i], "saved")
            /\ h[2 * i] = Entry("assistant", l[i], "saved")
        BY <2>1
      <4>2. /\ Entry("user", l[i], "saved").role = "user"
            /\ Entry("user", l[i], "saved").q = l[i]
            /\ Entry("user", l[i], "saved").kind = "saved"
            /\ Entry("assistant", l[i], "saved").role = "assistant"
            /\ Entry("assistant", l[i], "saved").q = l[i]
            /\ Entry("assistant", l[i], "saved").kind = "saved"
        BY EntryIs
      <4> QED
        BY <4>1, <4>2
    <3>4. 2 * i - 1 \in 1..Len(h) /\ 2 * i \in 1..Len(h)
      BY <2>1
    <3>5. Answers(h, 2 * i - 1, 2 * i)
      BY <3>3 DEF Answers
    <3>6. CASE k = 2 * i - 1
      BY <3>2, <3>3, <3>4, <3>5, <3>6
    <3>7. CASE k = 2 * i
      BY <3>2, <3>3, <3>4, <3>5, <3>7
    <3> QED
      BY <3>1, <3>6, <3>7
  <2> QED
    BY <2>1, <2>2, <2>3
<1>3. h = <<>> \/ (session_id \in Sessions /\ h = History(session_id))
  BY DEF Fetched
<1> QED
  BY <1>1, <1>2, <1>3

LEMMA FillKeeps == ASSUME Sound, Fill PROVE Sound'
<1> USE AskDomain DEF Sound
<1>1. PICK h \in {<<>>} \cup Fetched(session_id) : messages' = h
  BY DEF Fill
<1>2. /\ messages' \in Seq(Lines) /\ messages' # Unset
      /\ \A i \in 1..Len(messages') :
           /\ messages'[i].q \in DOMAIN ask /\ ask[messages'[i].q].sid = session_id
           /\ messages'[i].kind = "saved"
           /\ \/ /\ messages'[i].role = "user"
                 /\ \E j \in 1..Len(messages') : Answers(messages', i, j)
              \/ /\ messages'[i].role = "assistant"
                 /\ \E j \in 1..Len(messages') :
                      messages'[j].role = "user" /\ Answers(messages', j, i)
  BY <1>1, FetchedIs
<1>3. DOMAIN messages' = 1..Len(messages')
  BY <1>2
<1>4. ASSUME NEW m \in Entries'
      PROVE  m.q \in DOMAIN ask /\ ask[m.q].sid = session_id /\ m.kind = "saved"
  BY <1>2, <1>3 DEF Entries, ToSet
<1>5. /\ script' = At("clear", None) /\ torn' = torn \ {"messages"}
      /\ UNCHANGED <<created, open, log, ask, session_id, tool_calls, dropped>>
  BY DEF Fill, backend
<1>6. script'.pc = "clear"
  BY <1>5, ScriptTyped
<1>7. BackendOK' /\ AskOK' /\ LogOwned' /\ Remembered'
  BY <1>5 DEF BackendOK, AskOK, LogOwned, Remembered, InNoLog
<1>8. PageOK'
  BY <1>2, <1>4, <1>5, TranscriptsAre DEF PageOK
<1>9. ScriptOK'
  BY <1>5 DEF ScriptOK, At, Places
<1>10. BlankDone' /\ AtHand' /\ TranscriptHere' /\ CardsHere'
  BY <1>4, <1>5, <1>6 DEF BlankDone, AtHand, TranscriptHere, CardsHere, Answering, Adopting
<1>13. IdFirst'
  BY <1>5 DEF Fill, Page, IdFirst
<1>11. RepliesPaired'
  <2>1. ASSUME NEW i \in DOMAIN messages'
        PROVE  QuestionPaired(i)' /\ AnswerPaired(i)'
    BY <1>2, <1>3 DEF QuestionPaired, AnswerPaired
  <2>2. (RepliesPaired <=>
           (messages # Unset =>
              \A i \in DOMAIN messages : QuestionPaired(i) /\ AnswerPaired(i)))'
    BY PairedParts, PTL
  <2> QED
    BY <2>1, <2>2
<1>12. ShownIsRemembered'
  BY <1>4 DEF ShownIsRemembered
<1> QED
  BY <1>7, <1>8, <1>9, <1>10, <1>11, <1>12, <1>13 DEF Page

LEMMA ClearKeeps == ASSUME Sound, Clear PROVE Sound'
<1> USE DEF Sound
<1>1. /\ script.pc = "clear" /\ script' = At("idle", None) /\ tool_calls' = None
      /\ torn' = torn \ {"tool_calls"}
      /\ UNCHANGED <<created, open, log, ask, session_id, messages, dropped>>
  BY DEF Clear, backend
<1>2. script'.pc = "idle" /\ Entries' = Entries
  BY <1>1, ScriptTyped DEF Entries
<1>3. BackendOK' /\ AskOK' /\ LogOwned' /\ Remembered'
  BY <1>1 DEF BackendOK, AskOK, LogOwned, Remembered, InNoLog
<1>4. PageOK' /\ ScriptOK'
  BY <1>1, <1>2 DEF PageOK, ScriptOK, At, Places
<1>5. BlankDone' /\ AtHand' /\ CardsHere' /\ IdFirst'
  BY <1>1, <1>2 DEF Page, BlankDone, AtHand, CardsHere, IdFirst, Answering, Adopting, Filling
<1>6. TranscriptHere'
  BY <1>1, <1>2 DEF Page, TranscriptHere, Filling
<1>7. RepliesPaired'
  BY <1>1, <1>2 DEF Page, RepliesPaired
<1>8. ShownIsRemembered'
  BY <1>1, <1>2 DEF ShownIsRemembered
<1> QED
  BY <1>3, <1>4, <1>5, <1>6, <1>7, <1>8 DEF Page

(***************************************************************************)
(* The Chat tab                                                            *)
(***************************************************************************)
LEMMA PostStep == ASSUME Sound, Post PROVE Sound'
<1> USE AskDomain DEF Sound
<1>1. /\ script.pc = "post" /\ script' = At("wait", script.arg) /\ tool_calls' = None
      /\ torn' = torn \ {"tool_calls"}
      /\ UNCHANGED <<created, open, log, session_id, messages, dropped>>
  BY DEF Post, backend
<1>2. script'.pc = "wait" /\ script'.arg = script.arg /\ Entries' = Entries
  BY <1>1, ScriptTyped DEF Entries
<1>3. /\ AskOK' /\ LogOwned' /\ Remembered' /\ DOMAIN ask' = DOMAIN ask
      /\ \A q \in DOMAIN ask : /\ ask'[q].sid = ask[q].sid
                               /\ ask[q].pc = "done" => ask'[q].pc = "done"
  BY PostKeeps DEF Page
<1>4. BackendOK'
  BY <1>1 DEF BackendOK
<1>5. script.arg \in DOMAIN ask
  BY <1>1 DEF Page, AtHand, Answering
<1>6. PageOK' /\ ScriptOK'
  BY <1>1, <1>2, <1>3, <1>5 DEF PageOK, ScriptOK, At, Places
<1>7. \A m \in Entries : m.q \in DOMAIN ask
  BY DEF PageOK
<1>8. BlankDone' /\ CardsHere' /\ IdFirst'
  BY <1>1, <1>2, <1>3, <1>7 DEF Page, BlankDone, CardsHere, IdFirst, Filling
<1>9. AtHand'
  BY <1>1, <1>2, <1>3 DEF Page, AtHand, Answering, Adopting, Asked
<1>10. TranscriptHere'
  BY <1>1, <1>2, <1>3, <1>7 DEF Page, TranscriptHere, Filling
<1>11. RepliesPaired'
  BY <1>1, <1>2 DEF Page, RepliesPaired
<1>12. ShownIsRemembered'
  BY <1>2, <1>3, ShownStays, SameBackend DEF Post, ShownIsRemembered
<1> QED
  BY <1>3, <1>4, <1>6, <1>8, <1>9, <1>10, <1>11, <1>12 DEF Page

LEMMA CardsKeeps == ASSUME Sound, Cards PROVE Sound'
<1> USE AskDomain DEF Sound
<1>1. /\ script.pc = "cards" /\ script' = At("idle", None) /\ tool_calls' \in {None, script.arg}
      /\ torn' = torn \ {"tool_calls"}
      /\ UNCHANGED <<created, open, log, ask, session_id, messages, dropped>>
  BY DEF Cards, backend
<1>2. script'.pc = "idle" /\ Entries' = Entries
  BY <1>1, ScriptTyped DEF Entries
<1>3. BackendOK' /\ AskOK' /\ LogOwned' /\ Remembered'
  BY <1>1 DEF BackendOK, AskOK, LogOwned, Remembered, InNoLog
<1>4. PICK i \in DOMAIN messages :
        messages # Unset /\ script.arg \in DOMAIN ask /\ messages[i].q = script.arg
  BY <1>1 DEF Page, AtHand, Asked
<1>5. messages[i] \in Entries
  BY <1>4, PageDomain
<1>6. PageOK' /\ ScriptOK'
  BY <1>1, <1>2, <1>4 DEF PageOK, ScriptOK, At, Places
<1>7. BlankDone' /\ AtHand' /\ IdFirst'
  BY <1>1, <1>2 DEF Page, BlankDone, AtHand, IdFirst, Answering, Adopting, Filling
<1>8. CardsHere'
  BY <1>1, <1>2, <1>4, <1>5 DEF CardsHere
<1>9. TranscriptHere'
  BY <1>1, <1>2 DEF Page, TranscriptHere, Filling
<1>10. RepliesPaired'
  BY <1>1, <1>2 DEF Page, RepliesPaired
<1>11. ShownIsRemembered'
  BY <1>1, <1>2 DEF ShownIsRemembered
<1> QED
  BY <1>3, <1>6, <1>7, <1>8, <1>9, <1>10, <1>11 DEF Page

(* A line that belongs to the active session does not mix the transcript,  *)
(* and questions that were answered stay so.                               *)
LEMMA AddsKeeps ==
  ASSUME PageOK, AskOK, BackendOK, Page, AskMoves, NEW e, Adds(e), e.q \in DOMAIN ask',
         UNCHANGED <<session_id, tool_calls>>,
         script'.pc \notin Filling \cup {"clear"}, torn \subseteq torn',
         script.pc \in Filling => "messages" \in torn' /\ "tool_calls" \in torn',
         script.pc = "clear" => "tool_calls" \in torn',
         dropped \subseteq dropped',
         TranscriptHere /\ script.pc \notin Filling /\ "messages" \notin torn =>
           ask'[e.q].sid = session_id,
         e.kind # "blank" \/ ask'[e.q].pc = "done"
  PROVE  /\ PageOK' /\ BlankDone' /\ IdFirst' /\ TranscriptHere' /\ CardsHere'
         /\ \A i \in DOMAIN messages :
              /\ messages[i].role = "assistant" => AnswerPaired(i)'
              /\ \/ QuestionPaired(i)'
                 \/ script.pc \in Answering /\ script.arg = messages[i].q
<1> USE AskDomain DEF Page
<1>1. /\ messages' \in Transcripts /\ messages' # Unset
      /\ Len(messages') = Len(messages) + 1
      /\ DOMAIN messages' = 1..(Len(messages) + 1)
      /\ messages'[Len(messages) + 1] = e
      /\ \A i \in DOMAIN messages : messages'[i] = messages[i]
      /\ Entries' = Entries \cup {e}
  BY AddsLine
<1>2. messages # Unset /\ Len(messages) \in Nat /\ DOMAIN messages = 1..Len(messages)
  BY PageDomain DEF Adds
<1>3. \A m \in Entries : m.q \in DOMAIN ask
  BY DEF PageOK
<1>4. PageOK'
  BY <1>1, <1>3, SessionsTyped DEF PageOK, AskMoves
<1>5. BlankDone'
  BY <1>1, <1>3 DEF BlankDone, AskMoves
<1>6. TranscriptHere'
  BY <1>1, <1>3 DEF TranscriptHere, AskMoves
<1>7. CardsHere' /\ IdFirst'
  BY <1>1, <1>2 DEF CardsHere, IdFirst
<1>8. ASSUME NEW i \in DOMAIN messages, NEW j \in DOMAIN messages, Answers(messages, i, j)
      PROVE  Answers(messages', i, j)
  <2>1. messages'[i] = messages[i] /\ messages'[j] = messages[j]
    BY <1>1, <1>8
  <2>2. ASSUME NEW k \in (i + 1)..(j - 1) PROVE messages'[k] = messages[k]
    <3>1. k \in DOMAIN messages
      BY <1>2, <1>8
    <3> QED
      BY <1>1, <3>1
  <2> QED
    BY <1>8, <2>1, <2>2 DEF Answers
<1>9. ASSUME NEW i \in DOMAIN messages
      PROVE  QuestionPaired(i) /\ AnswerPaired(i)
  BY <1>2, <1>9, PairedParts
<1>10. ASSUME NEW i \in DOMAIN messages, messages[i].role = "assistant"
       PROVE  AnswerPaired(i)'
  BY <1>1, <1>2, <1>8, <1>9, <1>10 DEF AnswerPaired
<1>11. ASSUME NEW i \in DOMAIN messages,
              ~(script.pc \in Answering /\ script.arg = messages[i].q)
       PROVE  QuestionPaired(i)'
  BY <1>1, <1>2, <1>8, <1>9, <1>11 DEF QuestionPaired
<1> QED
  BY <1>4, <1>5, <1>6, <1>7, <1>10, <1>11

LEMMA PairedNext ==
  (RepliesPaired <=>
     (messages # Unset => \A i \in DOMAIN messages : QuestionPaired(i) /\ AnswerPaired(i)))'
BY PairedParts, PTL

LEMMA FailoverKeeps ==
  ASSUME Sound, NEW q \in DOMAIN ask, ShowFailover(q)
  PROVE  Sound'
<1> USE AskDomain DEF Sound
<1> DEFINE n == Len(messages)
<1>1. PICK e : e = Entry("failover", q, "typed")
  OBVIOUS
<1>2. e \in Lines /\ e.role = "failover" /\ e.q = q /\ e.kind = "typed"
  BY <1>1, EntryTyped, EntryIs
<1>3. /\ script.pc = "wait" /\ script.arg = q
      /\ UNCHANGED <<created, open, log, ask, session_id, tool_calls, script, dropped, torn>>
  BY DEF ShowFailover, Waiting, backend, ghosts
<1>4. PICK i \in DOMAIN messages :
        /\ messages # Unset /\ Asked(i, q)
        /\ \A k \in 1..(i - 1) : messages[k].q # q
        /\ \A k \in (i + 1)..Len(messages) : messages[k].role = "failover" /\ messages[k].q = q
  BY <1>3 DEF Page, AtHand, Answering
<1>5. /\ messages[i] \in Entries /\ messages[i].q = q
      /\ n \in Nat /\ DOMAIN messages = 1..n
  BY <1>4, PageDomain DEF Asked
<1>6. Adds(e)
  BY <1>1, <1>2, <1>4 DEF ShowFailover, Adds
<1>7. BackendOK' /\ AskOK' /\ LogOwned' /\ Remembered' /\ ScriptOK'
  BY <1>3 DEF BackendOK, AskOK, LogOwned, Remembered, InNoLog, ScriptOK
<1>8. AskMoves
  BY <1>3, <1>7, SessionsTyped DEF AskMoves
<1>9. TranscriptHere /\ script.pc \notin Filling /\ "messages" \notin torn =>
        ask'[e.q].sid = session_id
  BY <1>2, <1>3, <1>5 DEF TranscriptHere
<1>10. /\ PageOK' /\ BlankDone' /\ IdFirst' /\ TranscriptHere' /\ CardsHere'
       /\ \A k \in DOMAIN messages :
            /\ messages[k].role = "assistant" => AnswerPaired(k)'
            /\ \/ QuestionPaired(k)'
               \/ script.pc \in Answering /\ script.arg = messages[k].q
  BY <1>2, <1>3, <1>6, <1>8, <1>9, AddsKeeps DEF Filling
<1>11. /\ messages' # Unset /\ Len(messages') = n + 1 /\ DOMAIN messages' = 1..(n + 1)
       /\ messages'[n + 1] = e /\ Entries' = Entries \cup {e}
       /\ \A k \in DOMAIN messages : messages'[k] = messages[k]
  BY <1>6, AddsLine
<1>12. AtHand'
  <2>1. Asked(i, q)'
    BY <1>3, <1>4, <1>11 DEF Asked
  <2>2. ASSUME NEW k \in 1..(i - 1) PROVE messages'[k].q # q
    <3>1. k \in DOMAIN messages
      BY <1>5
    <3> QED
      BY <1>4, <1>11, <3>1
  <2>3. ASSUME NEW k \in (i + 1)..Len(messages')
        PROVE  messages'[k].role = "failover" /\ messages'[k].q = q
    <3>1. CASE k \in DOMAIN messages
      BY <1>4, <1>5, <1>11, <3>1
    <3>2. CASE k = n + 1
      BY <1>2, <1>11, <3>2
    <3> QED
      BY <1>5, <1>11, <3>1, <3>2
  <2>4. i \in DOMAIN messages'
    BY <1>5, <1>11
  <2> QED
    BY <1>3, <1>11, <2>1, <2>2, <2>3, <2>4 DEF AtHand, Answering, Adopting, Asked
<1>13. RepliesPaired'
  <2>1. ASSUME NEW k \in DOMAIN messages'
        PROVE  QuestionPaired(k)' /\ AnswerPaired(k)'
    <3>1. CASE k \in DOMAIN messages
      BY <1>3, <1>10, <1>11, <3>1 DEF QuestionPaired, AnswerPaired
    <3>2. CASE k = n + 1
      BY <1>2, <1>11, <3>2 DEF QuestionPaired, AnswerPaired
    <3> QED
      BY <1>5, <1>11, <3>1, <3>2
  <2> QED
    BY <2>1, PairedNext
<1>14. ShownIsRemembered'
  BY <1>2, <1>3, <1>11 DEF ShownIsRemembered
<1> QED
  BY <1>7, <1>10, <1>12, <1>13, <1>14 DEF Page

(* An answer, or the note that there is none, goes below its question.     *)
LEMMA ShowKeeps ==
  ASSUME Sound, NEW q \in DOMAIN ask, Waiting(q), NEW kind \in {"whole", "blank", "note"},
         Show(q, kind), Fades, UNCHANGED <<backend, session_id, tool_calls, ghosts>>,
         kind = "blank" => ask'[q].pc = "done" /\ InNoLog(q),
         kind = "whole" /\ ask[q].sid \in open => q \in ToSet(log[ask[q].sid])
  PROVE  Sound'
<1> USE AskDomain DEF Sound
<1> DEFINE n == Len(messages)
<1>1. PICK e : e = Entry("assistant", q, kind)
  OBVIOUS
<1>2. e \in Lines /\ e.role = "assistant" /\ e.q = q /\ e.kind = kind
  BY <1>1, EntryTyped, EntryIs
<1>3. /\ script.pc = "wait" /\ script.arg = q /\ script' = At("cards", q)
      /\ UNCHANGED <<created, open, log, session_id, tool_calls, dropped, torn>>
  BY DEF Show, Waiting, backend, ghosts
<1>4. script'.pc = "cards" /\ script'.arg = q
  BY <1>3, ScriptTyped
<1>5. PICK i \in DOMAIN messages :
        /\ messages # Unset /\ Asked(i, q)
        /\ \A k \in 1..(i - 1) : messages[k].q # q
        /\ \A k \in (i + 1)..Len(messages) : messages[k].role = "failover" /\ messages[k].q = q
  BY <1>3 DEF Page, AtHand, Answering
<1>6. /\ messages[i] \in Entries /\ messages[i].q = q /\ messages[i].role = "user"
      /\ n \in Nat /\ DOMAIN messages = 1..n
  BY <1>5, PageDomain DEF Asked
<1>7. Adds(e)
  BY <1>1, <1>2, <1>5 DEF Show, Adds
<1>8. Closes
  BY SameBackend
<1>9. AskOK' /\ LogOwned' /\ Remembered' /\ AskMoves /\ BackendOK'
  BY <1>8, FadesKeeps, ClosesMoves DEF Closes
<1>10. DOMAIN ask' = DOMAIN ask /\ \A p \in DOMAIN ask : ask'[p].sid = ask[p].sid
  BY DEF Fades
<1>11. ScriptOK'
  BY <1>3, <1>4, <1>10 DEF ScriptOK, At, Places
<1>12. TranscriptHere /\ script.pc \notin Filling /\ "messages" \notin torn =>
         ask'[e.q].sid = session_id
  BY <1>2, <1>6, <1>10 DEF TranscriptHere
<1>13. /\ PageOK' /\ BlankDone' /\ IdFirst' /\ TranscriptHere' /\ CardsHere'
       /\ \A k \in DOMAIN messages :
            /\ messages[k].role = "assistant" => AnswerPaired(k)'
            /\ \/ QuestionPaired(k)'
               \/ script.pc \in Answering /\ script.arg = messages[k].q
  BY <1>2, <1>3, <1>4, <1>7, <1>9, <1>10, <1>12, AddsKeeps DEF Filling
<1>14. /\ messages' # Unset /\ Len(messages') = n + 1 /\ DOMAIN messages' = 1..(n + 1)
       /\ messages'[n + 1] = e /\ Entries' = Entries \cup {e}
       /\ \A k \in DOMAIN messages : messages'[k] = messages[k]
  BY <1>7, AddsLine
<1>15. Answers(messages', i, n + 1)
  <2>1. ASSUME NEW k \in (i + 1)..n
        PROVE  messages'[k].role = "failover" /\ messages'[k].q = q
    <3>1. k \in DOMAIN messages
      BY <1>6
    <3> QED
      BY <1>5, <1>14, <3>1
  <2>2. i < n + 1 /\ n + 1 - 1 = n
    BY <1>6
  <2>3. messages'[i] = messages[i]
    BY <1>14
  <2> QED
    BY <1>2, <1>6, <1>14, <2>1, <2>2, <2>3 DEF Answers
<1>16. i \in DOMAIN messages' /\ n + 1 \in DOMAIN messages' /\ messages'[i].role = "user"
  BY <1>6, <1>14
<1>17. AtHand'
  BY <1>4, <1>6, <1>10, <1>14, <1>16 DEF AtHand, Answering, Adopting, Asked
<1>18. RepliesPaired'
  <2>1. ASSUME NEW k \in DOMAIN messages' PROVE QuestionPaired(k)'
    <3>1. CASE k \in DOMAIN messages /\ k # i /\ messages[k].q # q
      BY <1>3, <1>13, <3>1
    <3>2. CASE k = i
      BY <1>15, <1>16, <3>2 DEF QuestionPaired
    <3>3. CASE k \in DOMAIN messages /\ k # i /\ messages[k].q = q
      <4>1. messages[k].role = "failover"
        BY <1>5, <1>6, <3>3
      <4> QED
        BY <1>14, <3>3, <4>1 DEF QuestionPaired
    <3>4. CASE k = n + 1
      BY <1>2, <1>14, <3>4 DEF QuestionPaired
    <3> QED
      BY <1>6, <1>14, <3>1, <3>2, <3>3, <3>4
  <2>2. ASSUME NEW k \in DOMAIN messages' PROVE AnswerPaired(k)'
    <3>1. CASE k \in DOMAIN messages
      BY <1>13, <1>14, <3>1 DEF AnswerPaired
    <3>2. CASE k = n + 1
      BY <1>15, <1>16, <3>2 DEF AnswerPaired
    <3> QED
      BY <1>6, <1>14, <3>1, <3>2
  <2> QED
    BY <2>1, <2>2, PairedNext
<1>19. ShownIsRemembered'
  <2>1. ASSUME NEW m \in Entries
        PROVE  /\ m.kind = "whole" /\ ask'[m.q].sid \in open' => m.q \in ToSet(log'[ask'[m.q].sid])
               /\ m.kind = "blank" => \A s \in Sessions : m.q \notin ToSet(log'[s])
    BY <1>8, <1>10, <2>1, ShownStays
  <2>2. /\ e.kind = "whole" /\ ask'[e.q].sid \in open' => e.q \in ToSet(log'[ask'[e.q].sid])
        /\ e.kind = "blank" => \A s \in Sessions : e.q \notin ToSet(log'[s])
    BY <1>2, <1>3, <1>10 DEF InNoLog
  <2> QED
    BY <1>14, <2>1, <2>2 DEF ShownIsRemembered
<1> QED
  BY <1>9, <1>11, <1>13, <1>17, <1>18, <1>19 DEF Page

LEMMA ReceiveKeeps ==
  ASSUME Sound, NEW q \in DOMAIN ask, Receive(q)
  PROVE  Sound'
<1> USE AskDomain DEF Sound
<1>1. PICK r : r = [ask[q] EXCEPT !.pc = "done"]
  OBVIOUS
<1>2. ask[q] \in Questioned(created)
  OBVIOUS
<1>3. r \in Questioned(created) /\ r.pc = "done" /\ r.sid = ask[q].sid
  BY <1>1, <1>2 DEF Questioned, Progress
<1>4. ask' = [ask EXCEPT ![q] = r]
  BY <1>1 DEF Receive
<1>5. /\ ask' \in Seq(Questioned(created)) /\ Len(ask') = Len(ask)
      /\ ask'[q] = r /\ \A p \in DOMAIN ask : p # q => ask'[p] = ask[p]
  BY <1>3, <1>4 DEF AskOK
<1>6. Fades
  BY <1>3, <1>5 DEF Fades
<1>7. PICK kind \in {"whole", "blank", "note"} : kind = ask[q].pc /\ Show(q, kind)
  BY DEF Receive
<1>8. kind = "blank" => ask'[q].pc = "done" /\ InNoLog(q)
  BY <1>3, <1>5, <1>7 DEF Remembered
<1>9. kind = "whole" /\ ask[q].sid \in open => q \in ToSet(log[ask[q].sid])
  BY <1>7 DEF Remembered
<1> QED
  BY <1>6, <1>7, <1>8, <1>9, ShowKeeps DEF Receive

LEMMA TimeOutKeeps ==
  ASSUME Sound, NEW q \in DOMAIN ask, TimeOut(q)
  PROVE  Sound'
BY ShowKeeps, SameAsk DEF Sound, TimeOut

LEMMA AskStep == ASSUME Sound, Ask PROVE Sound'
<1> USE AskDomain DEF Sound
<1> DEFINE n == Len(messages)
           q == Len(ask')
<1>1. /\ messages # Unset /\ session_id # None /\ Len(ask) < MaxQuestions
      /\ EndRun(Append(Dropping, [sid |-> session_id, pc |-> "unsent", text |-> FALSE]))
      /\ messages' = Append(messages, Entry("user", q, "typed"))
      /\ script' = At("post", q)
      /\ UNCHANGED <<created, open, log, session_id, tool_calls>>
  BY DEF Ask, backend
<1>2. session_id \in 1..created
  BY <1>1 DEF Page, IdFirst, PageOK
<1>3. /\ AskOK' /\ LogOwned' /\ Remembered'
      /\ q = Len(ask) + 1 /\ DOMAIN ask' = 1..(Len(ask) + 1)
      /\ ask'[q].sid = session_id /\ ask'[q].pc = "unsent"
      /\ \A p \in DOMAIN ask : ask'[p].sid = ask[p].sid /\ ask'[p].pc \in {ask[p].pc, "done"}
  BY <1>1, <1>2, AskKeeps DEF backend
<1>4. q \in Questions /\ q \in DOMAIN ask' /\ q \notin DOMAIN ask /\ DOMAIN ask \subseteq DOMAIN ask'
  BY <1>1, <1>3, DashboardAssumption DEF Questions
<1> HIDE DEF q
<1>5. PICK e : e = Entry("user", q, "typed")
  OBVIOUS
<1>6. e \in Lines /\ e.role = "user" /\ e.q = q /\ e.kind = "typed"
  BY <1>4, <1>5, EntryTyped, EntryIs
<1>7. script'.pc = "post" /\ script'.arg = q
  BY <1>1, ScriptTyped
<1>8. Adds(e)
  BY <1>1, <1>5, <1>6 DEF Adds
<1>9. BackendOK' /\ AskMoves
  BY <1>1, <1>3, <1>4, SessionsTyped DEF BackendOK, AskMoves
<1>10. /\ dropped' \in {dropped, dropped \cup {script.arg}}
       /\ script.pc \in Answering => script.arg \in dropped'
       /\ dropped \subseteq dropped' /\ torn \subseteq torn'
       /\ torn' \subseteq torn \cup {"messages", "tool_calls"}
       /\ script.pc \in Answering => dropped' = dropped \cup {script.arg}
       /\ script.pc \notin Answering => dropped' = dropped
       /\ script.pc \in Filling => "messages" \in torn' /\ "tool_calls" \in torn'
       /\ script.pc = "clear" => "tool_calls" \in torn'
  BY <1>1, EndRunGhosts
<1>11. dropped' \subseteq DOMAIN ask'
  BY <1>4, <1>10 DEF ScriptOK, Page, AtHand
<1>12. ScriptOK'
  BY <1>1, <1>4, <1>10, <1>11 DEF ScriptOK, At, Places
<1>13. /\ PageOK' /\ BlankDone' /\ IdFirst' /\ TranscriptHere' /\ CardsHere'
       /\ \A k \in DOMAIN messages :
            /\ messages[k].role = "assistant" => AnswerPaired(k)'
            /\ \/ QuestionPaired(k)'
               \/ script.pc \in Answering /\ script.arg = messages[k].q
  BY <1>1, <1>3, <1>4, <1>6, <1>7, <1>8, <1>9, <1>10, AddsKeeps DEF Filling
<1>14. /\ n \in Nat /\ DOMAIN messages = 1..n
       /\ messages' # Unset /\ Len(messages') = n + 1 /\ DOMAIN messages' = 1..(n + 1)
       /\ messages'[n + 1] = e /\ Entries' = Entries \cup {e}
       /\ \A k \in DOMAIN messages : messages'[k] = messages[k]
  BY <1>1, <1>8, AddsLine, PageDomain
<1>15. \A k \in 1..n : messages[k].q \in DOMAIN ask
  BY <1>1, PageDomain DEF PageOK
<1>16. AtHand'
  <2>1. messages'[n + 1].role = "user" /\ messages'[n + 1].q = q
    BY <1>6, <1>14
  <2>2. \A k \in 1..(n + 1 - 1) : messages'[k].q # q
    BY <1>4, <1>14, <1>15
  <2>3. n + 1 \in DOMAIN messages' /\ (n + 1 + 1)..Len(messages') = {}
    BY <1>14
  <2> QED
    BY <1>3, <1>4, <1>7, <1>14, <2>1, <2>2, <2>3 DEF AtHand, Answering, Adopting, Asked
<1>17. RepliesPaired'
  <2>1. ASSUME NEW k \in DOMAIN messages'
        PROVE  QuestionPaired(k)' /\ AnswerPaired(k)'
    <3>1. CASE k \in DOMAIN messages
      <4>1. AnswerPaired(k)'
        BY <1>13, <1>14, <3>1 DEF AnswerPaired
      <4>2. QuestionPaired(k)'
        BY <1>10, <1>13, <1>14, <3>1 DEF QuestionPaired
      <4> QED
        BY <4>1, <4>2
    <3>2. CASE k = n + 1
      BY <1>6, <1>7, <1>14, <3>2 DEF QuestionPaired, AnswerPaired, Answering
    <3> QED
      BY <1>14, <3>1, <3>2
  <2> QED
    BY <2>1, PairedNext
<1>18. ShownIsRemembered'
  BY <1>1, <1>3, <1>6, <1>14, ShownStays, SameBackend DEF ShownIsRemembered, backend
<1> QED
  BY <1>3, <1>9, <1>12, <1>13, <1>16, <1>17, <1>18 DEF Page

(***************************************************************************)
(* The theorems                                                            *)
(***************************************************************************)
LEMMA InitSound == ASSUME Init PROVE Sound
<1> USE DEF Init
<1>1. BackendOK
  BY DashboardAssumption DEF BackendOK
<1>2. AskOK /\ LogOwned /\ Remembered
  BY DashboardAssumption DEF AskOK, LogOwned, Remembered
<1>3. Entries = {}
  BY DEF Entries
<1>4. PageOK /\ ScriptOK
  BY <1>3 DEF PageOK, ScriptOK, At, Places
<1>5. Page
  BY <1>3, ScriptTyped DEF Page, BlankDone, AtHand, IdFirst, TranscriptHere, CardsHere,
                           RepliesPaired, Answering, Adopting, Filling, At
<1>6. ShownIsRemembered
  BY <1>3 DEF ShownIsRemembered
<1> QED
  BY <1>1, <1>2, <1>4, <1>5, <1>6 DEF Sound

LEMMA StutterSound == ASSUME Sound, UNCHANGED vars PROVE Sound'
BY DEF Sound, vars, backend, chat, ghosts, BackendOK, AskOK, PageOK, ScriptOK, LogOwned,
       Remembered, InNoLog, Page, BlankDone, AtHand, Asked, IdFirst, TranscriptHere, CardsHere,
       RepliesPaired, ShownIsRemembered, Entries

LEMMA StepSound == ASSUME Sound, [Next]_vars PROVE Sound'
<1>1. CASE Expire
  BY <1>1, ExpireKeeps
<1>2. CASE Script
  BY <1>2, ReplaceKeeps, AdoptKeeps, FillKeeps, ClearKeeps, PostStep, CardsKeeps,
     ReceiveKeeps, TimeOutKeeps DEF Script
<1>3. CASE New \/ Select \/ Delete \/ Reset \/ Ask \/ Other
  BY <1>3, NewKeeps, SelectKeeps, DeleteKeeps, ResetKeeps, AskStep, OtherKeeps
<1>4. ASSUME NEW q \in DOMAIN ask,
             ServerText(q) \/ StreamEnd(q) \/ ChatEnd(q) \/ ShowFailover(q)
      PROVE  Sound'
  BY <1>4, TextKeeps, EndStep, FailoverKeeps
<1>5. CASE UNCHANGED vars
  BY <1>5, StutterSound
<1> QED
  BY <1>1, <1>2, <1>3, <1>4, <1>5 DEF Next

(* The parts of the properties and what they rest on, all at once.         *)
THEOREM DashboardInvariant == Spec => []Sound
BY InitSound, StepSound, PTL DEF Spec

(* The transcript and the tool cards on the page are those of the session  *)
(* the next question goes to, unless a change of session was interrupted   *)
(* (streamlit_app.py:206-208, 231-233, 240-242, 287-289).                  *)
THEOREM TranscriptIsOwned == Spec => []TranscriptOwned
<1>1. Sound => TranscriptOwned
  BY SoundInv
<1> QED
  BY <1>1, DashboardInvariant, PTL

(* Each question on the page is followed by its own answer, and each       *)
(* answer follows its question (streamlit_app.py:317-401).                 *)
THEOREM RepliesArePaired == Spec => []RepliesPaired
<1>1. Sound => RepliesPaired
  BY SoundInv
<1> QED
  BY <1>1, DashboardInvariant, PTL

(* A whole answer on the page is in the history of its session, and the    *)
(* question of a blank one is in none (streamlit_app.py:337-396).          *)
THEOREM ShownAreRemembered == Spec => []ShownIsRemembered
<1>1. Sound => ShownIsRemembered
  BY SoundInv
<1> QED
  BY <1>1, DashboardInvariant, PTL
=============================================================================
