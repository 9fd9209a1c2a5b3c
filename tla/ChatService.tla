----------------------------- MODULE ChatService -----------------------------
(***************************************************************************)
(* services/chat_service.py: how a session's history is read before a      *)
(* reply and how the turn is written after it.  Operators on the value of  *)
(* the session store; both routers use them.                               *)
(*                                                                         *)
(* A message is a record: its role, the request it belongs to and, for a   *)
(* reply, its text as the sequence of the pieces it was joined from.       *)
(***************************************************************************)
EXTENDS SessionRepository

CONSTANT NoTurn         \* the "turn" of a system message

Message(role, turn, text) == [role |-> role, turn |-> turn, text |-> text]

SystemMessage          == Message("system", NoTurn, <<>>)
HumanMessage(turn)     == Message("human", turn, <<>>)
AIMessage(turn, text)  == Message("ai", turn, text)

AfterCreateSession(store, s, prompted, t) == AfterCreate(store, s, prompted, t)

AfterDeleteSession(store, s) == AfterDelete(store, s)

(* list_sessions() evicts nothing.                                         *)
ListSessions(store, t) == Live(store, t)

SessionExists(store, s, t) == s \in Live(store, t)

(* Seeded fault: the system message is put in front every time.            *)
ViewAlwaysPrompted(e) ==
  IF e.prompted THEN <<SystemMessage>> \o e.history ELSE e.history

(* The history as the agent gets it: with the system message in front when *)
(* no turn has been saved yet.                                             *)
View(e) ==
  IF e.history = <<>> /\ e.prompted THEN <<SystemMessage>> ELSE e.history

(* load_history(): empty, without a system message, for an unknown id.     *)
LoadHistory(store, s, t) ==
  IF s \in Live(store, t) THEN View(store[s]) ELSE <<>>

(* Seeded fault: the turn of a session that is gone creates it again.      *)
SaveTurnUpsert(store, s, t, turn, text) ==
  LET kept == IF s \in Live(store, t) THEN store ELSE AfterCreate(store, s, FALSE, t)
  IN  AfterUpdateHistory(kept, s,
        View(kept[s]) \o <<HumanMessage(turn), AIMessage(turn, text)>>)

(* save_turn(): the entry is read again, so that turns saved since         *)
(* load_history() are kept; a turn of a session that is gone is dropped.   *)
AfterSaveTurn(store, s, t, turn, text) ==
  IF s \in Live(store, t)
  THEN AfterUpdateHistory(store, s,
         View(store[s]) \o <<HumanMessage(turn), AIMessage(turn, text)>>)
  ELSE AfterGet(store, s, t)

(* get_display_history(): the turns, without system messages.  A recursive *)
(* function, which can be proved about, and not SelectSeq.                 *)
IsTurnMessage(m) == m.role \in {"human", "ai"}
Shown(history) ==
  LET shown[n \in 0..Len(history)] ==
        IF n = 0 THEN <<>>
        ELSE IF IsTurnMessage(history[n]) THEN Append(shown[n - 1], history[n])
                                          ELSE shown[n - 1]
  IN  shown[Len(history)]
DisplayHistory(e) == Shown(e.history)

(* The requests whose turns a history holds, in order: every second        *)
(* message shown is a question.                                            *)
Turns(history) ==
  LET shown == Shown(history)
  IN  [i \in 1..(Len(shown) \div 2) |-> shown[2 * i - 1].turn]
=============================================================================
