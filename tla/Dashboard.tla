------------------------------ MODULE Dashboard ------------------------------
(***************************************************************************)
(* The sessions and the Chat tab of ui/streamlit_app.py: one browser       *)
(* session over the backend.                                               *)
(*                                                                         *)
(* Streamlit runs the script from its top for every interaction of the     *)
(* user.  An interaction while it runs ends that run where it next touches *)
(* the page or st.session_state, with an exception that "except Exception" *)
(* does not catch, and starts another.  An action is therefore what        *)
(* happens between two such places, and Interact is possible at all of     *)
(* them.                                                                   *)
(*                                                                         *)
(* The backend is what RestChat shows of it: sessions that close at any    *)
(* time, handlers that run on when the page no longer listens, and a turn  *)
(* that is saved at the end of a handler.  Of an answer the model keeps    *)
(* how it ended and whether it has text.                                   *)
(***************************************************************************)
EXTENDS Naturals, Sequences, FiniteSets, SequencesExt

CONSTANTS
  MaxSessions,  \* bound: sessions the backend hands out, numbered in that order
  MaxQuestions, \* bound: inputs of the chat box, numbered in their order
  None,         \* Python's None
  Unset         \* a key that is not in st.session_state

Sessions  == 1..MaxSessions
Questions == 1..MaxQuestions

(* What the page shows of a question: itself, failovers, its answer.       *)
Entry(role, q, kind) == [role |-> role, q |-> q, kind |-> kind]
Transcripts ==
  Seq([role : {"user", "assistant", "failover"}, q : Questions,
       kind : {"typed", "saved", "whole", "blank", "note"}])

ASSUME DashboardAssumption ==
  /\ MaxSessions \in Nat /\ MaxQuestions \in Nat
  /\ None \notin Sessions /\ Unset \notin Sessions /\ None # Unset
  /\ Unset \notin Transcripts

VARIABLES
  created,      \* backend: number of session ids handed out
  open,         \* backend: sessions that live
  log,          \* backend: the questions whose turns each session holds
  ask,          \* the questions: their session, and how far they were answered
  session_id, messages, tool_calls,      \* st.session_state
  script,       \* where the run of the script is, and what it has at hand
  dropped,      \* ghost: questions whose run was ended by an interaction
  torn          \* ghost: keys whose assignment was, in a change of session

backend == <<created, open, log>>
chat    == <<session_id, messages, tool_calls>>
ghosts  == <<dropped, torn>>
vars    == <<backend, ask, chat, script, ghosts>>

At(pc, arg) == [pc |-> pc, arg |-> arg]
Filling     == {"fill", "fetch"}

(* A new browser session: the first run is about to start.                 *)
Init ==
  /\ created = 0 /\ open = {} /\ log = [s \in Sessions |-> <<>>]
  /\ ask = <<>>
  /\ session_id = Unset /\ messages = Unset /\ tool_calls = None
  /\ script = At("first", None)
  /\ dropped = {} /\ torn = {}

(***************************************************************************)
(* The backend                                                             *)
(***************************************************************************)

(* Expiry, or a deletion by another client.                                *)
Close(gone) ==
  /\ open' = open \ {gone}
  /\ log' = [log EXCEPT ![gone] = <<>>]

Expire ==
  /\ \E s \in open : Close(s)
  /\ UNCHANGED <<created, ask, chat, script, ghosts>>

(* A handler of /stream or /chat: its first TEXT chunk, and its end.       *)
ServerText(q) ==
  /\ ask[q].pc \in {"stream", "chat"} /\ ~ask[q].text
  /\ ask' = [ask EXCEPT ![q].text = TRUE]
  /\ UNCHANGED <<backend, chat, script, ghosts>>

Waiting(q) == script.pc = "wait" /\ script.arg = q

(* The turn is saved if its session is still there, and the answer is what *)
(* the page, if it still waits, makes of it.                               *)
ServerEnds(q, saves, answer) ==
  /\ ask' = [ask EXCEPT ![q].pc = IF Waiting(q) THEN answer ELSE "done", ![q].text = FALSE]
  /\ log' = IF saves /\ ask[q].sid \in open
            THEN [log EXCEPT ![ask[q].sid] = Append(@, q)] ELSE log
  /\ UNCHANGED <<created, open, chat, script, ghosts>>

(* /stream saves the text it sent, if any, whatever ended it.  The page    *)
(* shows the text, followed by a note after an ERROR chunk.                *)
StreamEnd(q) ==
  /\ ask[q].pc = "stream"
  /\ \E answer \in {IF ask[q].text THEN "whole" ELSE "blank", "note"} :
       ServerEnds(q, ask[q].text, answer)

(* Seeded fault: the text of a reply that raised is answered.              *)
ChatEndLoose(q) ==
  /\ ask[q].pc = "chat"
  /\ \E raised \in BOOLEAN :
       ServerEnds(q, ~raised, IF ask[q].text THEN "whole" ELSE "note")

(* /chat saves its reply, an empty one too, unless an exception makes it a *)
(* 500, whose body is not JSON.  The page has a note for both of these.    *)
ChatEnd(q) ==
  /\ ask[q].pc = "chat"
  /\ \E raised \in BOOLEAN :
       ServerEnds(q, ~raised, IF ask[q].text /\ ~raised THEN "whole" ELSE "note")

(***************************************************************************)
(* The user, and the sidebar                                               *)
(***************************************************************************)

(* An interaction ends the run that is under way, if there is one, and     *)
(* with it what it was to send or had received.                            *)
Dropping ==
  [q \in DOMAIN ask |-> IF ask[q].pc \in {"stream", "chat"} THEN ask[q]
                        ELSE [ask[q] EXCEPT !.pc = "done"]]

EndRun(asked) ==
  /\ ask' = asked
  /\ dropped' = IF script.pc \in {"post", "wait"} THEN dropped \cup {script.arg} ELSE dropped
  /\ torn' = torn \cup (CASE script.pc \in Filling -> {"messages", "tool_calls"}
                         [] script.pc = "clear"    -> {"tool_calls"}
                         [] OTHER                  -> {})

(* What is left of a run when no button of the sidebar was pressed: the    *)
(* session state is completed.                                             *)
Rest ==
  IF session_id = Unset THEN At("first", None)
  ELSE IF messages = Unset THEN At("fetch", None)
  ELSE At("idle", None)

(* _list_sessions(), asked again by every run: nothing if the call fails.  *)
Listed == {{}, open}

(* Any interaction without an effect of its own: a widget that only draws, *)
(* the button of the active session, or of one that is not listed any      *)
(* more; a question when there is no session.                              *)
Other ==
  /\ EndRun(Dropping)
  /\ script' = Rest
  /\ UNCHANGED <<backend, chat>>

(* _init_session(): the new id, or None when the call fails or its answer  *)
(* is lost.                                                                *)
InitSession(sid) ==
  /\ \/ UNCHANGED <<created, open>> /\ sid = None
     \/ /\ created < MaxSessions
        /\ created' = created + 1 /\ open' = open \cup {created'}
        /\ sid \in {created', None}
  /\ UNCHANGED log

(* The New button of the sidebar, which changes nothing without an id.     *)
New ==
  /\ EndRun(Dropping)
  /\ \E sid \in Sessions \cup {None} :
       /\ InitSession(sid)
       /\ script' = IF sid = None THEN Rest ELSE At("adopt", sid)
  /\ UNCHANGED chat

Select ==
  /\ EndRun(Dropping)
  /\ \E listed \in Listed : \E s \in listed \ {session_id} : script' = At("adopt selected", s)
  /\ UNCHANGED <<backend, chat>>

(* _delete_session() is carried out; its answer may be lost.  Only the     *)
(* deletion of the active session makes a new one.                         *)
Delete ==
  /\ EndRun(Dropping)
  /\ \E listed \in Listed : \E s \in listed :
       /\ Close(s)
       /\ script' \in {Rest, IF s = session_id THEN At("replace", None) ELSE Rest}
  /\ UNCHANGED <<created, chat>>

(* The New Session button of the Chat tab.                                 *)
Reset ==
  /\ messages # Unset
  /\ EndRun(Dropping)
  /\ \E sid \in Sessions \cup {None} : InitSession(sid) /\ script' = At("adopt", sid)
  /\ UNCHANGED chat

(***************************************************************************)
(* A run of the script: a change of session                                *)
(***************************************************************************)

(* The first run of a browser session, and the one that deleted the active *)
(* session.                                                                *)
Replace ==
  /\ script.pc \in {"first", "replace"}
  /\ \E sid \in Sessions \cup {None} : InitSession(sid) /\ script' = At("adopt", sid)
  /\ UNCHANGED <<ask, chat, ghosts>>

(* st.session_state["session_id"] = sid                                    *)
Adopt ==
  /\ script.pc \in {"adopt", "adopt selected"}
  /\ session_id' = script.arg
  /\ script' = IF script.pc = "adopt" THEN At("fill", None) ELSE At("fetch", None)
  /\ UNCHANGED <<backend, ask, messages, tool_calls, ghosts>>

(* get_display_history(), as the page shows it.                            *)
History(s) ==
  [i \in 1..(2 * Len(log[s])) |->
     Entry(IF i % 2 = 1 THEN "user" ELSE "assistant", log[s][(i + 1) \div 2], "saved")]

(* _fetch_session_history(): empty when the session is gone or the call    *)
(* fails.                                                                  *)
Fetched(s) == {<<>>} \cup {History(x) : x \in {s} \cap Sessions}

(* Seeded fault: the transcript is kept when a session is selected.        *)
FillKeeping ==
  /\ script.pc \in Filling
  /\ messages' = IF messages = Unset THEN <<>> ELSE messages
  /\ script' = At("clear", None)
  /\ torn' = torn \ {"messages"}
  /\ UNCHANGED <<backend, ask, session_id, tool_calls, dropped>>

(* st.session_state["messages"] = ...: the history of a session that was   *)
(* selected, or whose transcript was never assigned; empty for a new one.  *)
Fill ==
  /\ script.pc \in Filling
  /\ IF script.pc = "fetch"
     THEN \E history \in Fetched(session_id) : messages' = history
     ELSE messages' = <<>>
  /\ script' = At("clear", None)
  /\ torn' = torn \ {"messages"}
  /\ UNCHANGED <<backend, ask, session_id, tool_calls, dropped>>

(* st.session_state["tool_calls"] = [], and st.rerun() except when the     *)
(* session state is being completed.                                       *)
Clear ==
  /\ script.pc = "clear"
  /\ tool_calls' = None
  /\ torn' = torn \ {"tool_calls"}
  /\ script' = At("idle", None)
  /\ UNCHANGED <<backend, ask, session_id, messages, dropped>>

(***************************************************************************)
(* The Chat tab                                                            *)
(***************************************************************************)
Ask ==
  /\ messages # Unset /\ session_id # None
  /\ Len(ask) < MaxQuestions
  /\ EndRun(Append(Dropping, [sid |-> session_id, pc |-> "unsent", text |-> FALSE]))
  /\ messages' = Append(messages, Entry("user", Len(ask'), "typed"))
  /\ script' = At("post", Len(ask'))
  /\ UNCHANGED <<backend, session_id, tool_calls>>

(* POST /v1/stream or /v1/chat: a handler starts, or the session is gone   *)
(* (404: a stream without "data:" lines, or no reply), or there is no      *)
(* connection.                                                             *)
Post ==
  /\ script.pc = "post"
  /\ tool_calls' = None /\ torn' = torn \ {"tool_calls"}
  /\ script' = At("wait", script.arg)
  /\ \E pc \in {"note"} \cup (IF session_id \in open THEN {"stream", "chat"}
                                                  ELSE {"blank"}) :
       ask' = [ask EXCEPT ![script.arg].pc = pc]
  /\ UNCHANGED <<backend, session_id, messages, dropped>>

(* A FAILOVER chunk (bound: one for each question).                        *)
ShowFailover(q) ==
  /\ Waiting(q) /\ ask[q].pc = "stream"
  /\ Last(messages).role # "failover"
  /\ messages' = Append(messages, Entry("failover", q, "typed"))
  /\ UNCHANGED <<backend, ask, session_id, tool_calls, script, ghosts>>

(* Seeded fault: the answer is put in front of the failovers of its reply. *)
ShowUnordered(q, kind) ==
  /\ messages' = SubSeq(messages, 1, Len(messages) - 1)
                   \o <<Entry("assistant", q, kind), Last(messages)>>
  /\ script' = At("cards", q)

Show(q, kind) ==
  /\ messages' = Append(messages, Entry("assistant", q, kind))
  /\ script' = At("cards", q)

(* Seeded fault: an answer without content is not shown.                   *)
ReceiveUnlessBlank(q) ==
  /\ Waiting(q) /\ ask[q].pc \in {"whole", "note"}
  /\ ask' = [ask EXCEPT ![q].pc = "done"]
  /\ Show(q, ask[q].pc)
  /\ UNCHANGED <<backend, session_id, tool_calls, ghosts>>

Receive(q) ==
  /\ Waiting(q) /\ ask[q].pc \in {"whole", "blank", "note"}
  /\ ask' = [ask EXCEPT ![q].pc = "done"]
  /\ Show(q, ask[q].pc)
  /\ UNCHANGED <<backend, session_id, tool_calls, ghosts>>

(* 60 s without a byte, or the connection breaks: the backend's handler    *)
(* is still there.                                                         *)
TimeOut(q) ==
  /\ Waiting(q) /\ ask[q].pc \in {"stream", "chat"}
  /\ Show(q, "note")
  /\ UNCHANGED <<backend, ask, session_id, tool_calls, ghosts>>

Cards ==
  /\ script.pc = "cards"
  /\ \E shown \in {None, script.arg} : tool_calls' = shown
  /\ torn' = torn \ {"tool_calls"}
  /\ script' = At("idle", None)
  /\ UNCHANGED <<backend, ask, session_id, messages, dropped>>

Script ==
  \/ Replace \/ Adopt \/ Fill \/ Clear \/ Post \/ Cards
  \/ \E q \in DOMAIN ask : Receive(q) \/ TimeOut(q)

Next ==
  \/ Expire \/ Script
  \/ New \/ Select \/ Delete \/ Reset \/ Ask \/ Other
  \/ \E q \in DOMAIN ask : ServerText(q) \/ StreamEnd(q) \/ ChatEnd(q) \/ ShowFailover(q)

Spec == Init /\ [][Next]_vars

(* The script runs while it can; its calls have timeouts.                  *)
FairSpec == Spec /\ WF_vars(Script)

(***************************************************************************)
(* Properties                                                              *)
(***************************************************************************)

Entries == IF messages = Unset THEN {} ELSE ToSet(messages)

(* Types of the variables.                                                 *)
TypeOK ==
  /\ created \in 0..MaxSessions /\ open \subseteq 1..created
  /\ log \in [Sessions -> Seq(Questions)]
  /\ \A s \in Sessions \ open : log[s] = <<>>
  /\ ask \in Seq([sid : 1..created, text : BOOLEAN,
                  pc : {"unsent", "stream", "chat", "whole", "blank", "note", "done"}])
  /\ Len(ask) <= MaxQuestions
  /\ session_id \in 1..created \cup {None, Unset}
  /\ messages \in Transcripts \cup {Unset}
  /\ \A m \in Entries : m.q \in DOMAIN ask
  /\ tool_calls \in DOMAIN ask \cup {None}
  /\ script \in [pc : {"first", "replace", "adopt", "adopt selected", "fill", "fetch", "clear",
                       "idle", "post", "wait", "cards"},
                 arg : Sessions \cup Questions \cup {None}]
  /\ dropped \subseteq DOMAIN ask
  /\ torn \subseteq {"messages", "tool_calls"}

(* The transcript and the tool cards the page shows are those of the       *)
(* session that the next question goes to.  There is one way to mix them   *)
(* up: an interaction in the middle of a change of session, after its id   *)
(* was assigned and before the rest was (streamlit_app.py:206-208,         *)
(* 231-233, 240-242, 287-289).                                             *)
TranscriptOwned ==
  /\ TypeOK
  /\ script.pc \notin Filling /\ "messages" \notin torn =>
       \A m \in Entries : ask[m.q].sid = session_id
  /\ script.pc \notin Filling \cup {"clear"} /\ "tool_calls" \notin torn =>
       tool_calls = None \/ \E m \in Entries : m.q = tool_calls

(* Each question is followed by its own answer, with nothing but the       *)
(* failovers of its reply in between, unless it is being answered or its   *)
(* run was ended by an interaction; and an answer follows its question     *)
(* (streamlit_app.py:317-401).                                             *)
RepliesPaired ==
  messages # Unset =>
    LET Answers(i, j) ==
          /\ i < j /\ messages[j].role = "assistant" /\ messages[j].q = messages[i].q
          /\ \A k \in (i + 1)..(j - 1) :
               messages[k].role = "failover" /\ messages[k].q = messages[i].q
    IN  \A i \in DOMAIN messages :
          /\ messages[i].role = "user" =>
               \/ \E j \in DOMAIN messages : Answers(i, j)
               \/ messages[i].q \in dropped
               \/ script.pc \in {"post", "wait"} /\ script.arg = messages[i].q
          /\ messages[i].role = "assistant" =>
               \E j \in DOMAIN messages : messages[j].role = "user" /\ Answers(j, i)

(* What the user reads is what the model will remember: an answer shown as *)
(* a whole reply is in the history of its session for as long as that      *)
(* lives, and one shown as nothing at all is in no history                 *)
(* (streamlit_app.py:337-396; chat_router.py:87-92, 123-124).              *)
ShownIsRemembered ==
  \A m \in Entries :
    /\ m.kind = "whole" /\ ask[m.q].sid \in open => m.q \in ToSet(log[ask[m.q].sid])
    /\ m.kind = "blank" => \A s \in Sessions : m.q \notin ToSet(log[s])

(* A question that was taken up gets an answer on the page, be it a note   *)
(* that there is none, or the user ended its run.                          *)
QuestionsAnswered ==
  \A q \in Questions :
    script.pc \in {"post", "wait"} /\ script.arg = q ~>
      (q \in dropped \/ \E m \in Entries : m.role = "assistant" /\ m.q = q)
=============================================================================
