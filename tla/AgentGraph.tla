------------------------------ MODULE AgentGraph ------------------------------
(***************************************************************************)
(* The agent's workflow, agent/graph/resilient_agent_builder.py: a model   *)
(* call, the tools it asks for, another model call, and so on, with the    *)
(* hooks of agent/graph/middleware.py around them, run once for each       *)
(* attempt of the processor (LangGraphProcessor).                          *)
(*                                                                         *)
(* Any number of requests run at the same time; they share the metrics,    *)
(* the log and the registry.  An action is what happens between two        *)
(* awaits.  LangGraph is external: it enters the nodes, appends what a     *)
(* node returns to the state's messages and raises when a run has entered  *)
(* RecursionLimit nodes and another one is due.                            *)
(***************************************************************************)
EXTENDS Naturals, Sequences, FiniteSets, SequencesExt

CONSTANTS
  Runs,            \* requests
  Catalogue,       \* the provider keys, in the order of the catalogue
  Tools,           \* names in ALL_TOOLS
  OtherTools,      \* names a model may make up
  RecursionLimit,  \* nodes LangGraph enters in one run
  MaxCalls,        \* bound: tool calls of one reply
  NoModel

ASSUME GraphAssumption ==
  /\ RecursionLimit \in Nat \ {0} /\ MaxCalls \in Nat
  /\ IsFiniteSet(Runs) /\ Tools \cap OtherTools = {}
  /\ NoModel \notin ToSet(Catalogue)

VARIABLES
  registered,   \* keys in the registry, fixed at startup
  run,          \* the request's current attempt
  toolCalls,    \* metrics: tool_calls
  entered,      \* log lines "-> ToolNode"
  left          \* log lines "<- ToolNode"

tally == <<toolCalls, entered, left>>
vars  == <<registered, run, tally>>

Human == [kind |-> "human"]
AIMessage(by, calls) == [kind |-> "ai", by |-> by, calls |-> calls]
ToolMessage(call) == [kind |-> "tool", id |-> call.id, name |-> call.name]

Idle == [pc |-> "idle", model |-> NoModel, tried |-> {}, messages |-> <<>>,
         call |-> 1, results |-> <<>>, steps |-> 0]

Init ==
  /\ registered \in SUBSET ToSet(Catalogue)
  /\ run = [r \in Runs |-> Idle]
  /\ toolCalls = [t \in Tools |-> 0]
  /\ entered = [t \in Tools |-> 0] /\ left = [t \in Tools |-> 0]

(* resolve_model(): the key itself, else the first one registered.         *)
Resolve(key) ==
  IF key \in registered THEN key
  ELSE LET First(i) == /\ Catalogue[i] \in registered
                       /\ \A j \in 1..(i - 1) : Catalogue[j] \notin registered
       IN  Catalogue[CHOOSE i \in DOMAIN Catalogue : First(i)]

(* The next node, or GraphRecursionError.                                  *)
Enter(attempt, node) ==
  IF attempt.steps < RecursionLimit
  THEN [attempt EXCEPT !.pc = node, !.steps = @ + 1, !.call = 1, !.results = <<>>]
  ELSE [attempt EXCEPT !.pc = "raised"]

(***************************************************************************)
(* AgentRunner                                                             *)
(***************************************************************************)

(* Seeded fault: what a failed attempt added to the messages stays there.  *)
AttemptOnTop(r) ==
  /\ run[r].pc \in {"idle", "raised"}
  /\ \E k \in ToSet(Catalogue) \ run[r].tried :
       run' = [run EXCEPT ![r] =
                 Enter([@ EXCEPT !.model = k, !.tried = @ \cup {k}, !.steps = 0,
                                 !.messages = IF @ = <<>> THEN <<Human>> ELSE @], "agent")]
  /\ UNCHANGED <<registered, tally>>

(* stream(): a run of the graph for one provider key, from the history and *)
(* the user's message.  The first attempt, or the next one after an        *)
(* attempt that raised.  The processor passes registered keys only;        *)
(* stream() itself takes any.                                              *)
Attempt(r) ==
  /\ run[r].pc \in {"idle", "raised"}
  /\ \E k \in ToSet(Catalogue) \ run[r].tried :
       LET state == [run[r] EXCEPT !.model = k, !.tried = @ \cup {k}, !.steps = 0,
                                   !.messages = <<Human>>]
       IN  run' = [run EXCEPT ![r] = Enter(state, "agent")]
  /\ UNCHANGED <<registered, tally>>

(* The consumer closes the stream, or its task is cancelled, at an await.  *)
(* A call whose body has run is "cut": its way out is never seen.          *)
Close(r) ==
  /\ run[r].pc \in {"agent", "model", "tools", "invoking", "counted"}
  /\ run' = [run EXCEPT ![r].pc = IF @ = "counted" THEN "cut" ELSE "closed"]
  /\ UNCHANGED <<registered, tally>>

(***************************************************************************)
(* agent_node                                                              *)
(***************************************************************************)

(* The model is resolved and called with the messages.                     *)
CallModel(r) ==
  /\ run[r].pc = "agent"
  /\ run' = [run EXCEPT ![r].pc = IF registered = {} THEN "raised" ELSE "model"]
  /\ UNCHANGED <<registered, tally>>

(* tools_condition: a reply with tool calls goes on to the tool node, one  *)
(* without them ends the run.                                              *)
Reply(r) ==
  /\ run[r].pc = "model"
  /\ \E names \in SeqOf(Tools \cup OtherTools, MaxCalls) :
       LET n     == Len(run[r].messages)
           calls == [i \in DOMAIN names |->
                       [id |-> <<Cardinality(run[r].tried), n, i>>, name |-> names[i]]]
           after == [run[r] EXCEPT
                       !.messages = Append(@, AIMessage(Resolve(run[r].model), calls))]
       IN  run' = [run EXCEPT ![r] = IF calls = <<>> THEN [after EXCEPT !.pc = "done"]
                                                     ELSE Enter(after, "tools")]
  /\ UNCHANGED <<registered, tally>>

ModelRaises(r) ==
  /\ run[r].pc = "model"
  /\ run' = [run EXCEPT ![r].pc = "raised"]
  /\ UNCHANGED <<registered, tally>>

(***************************************************************************)
(* tool_node                                                               *)
(***************************************************************************)
Calls(r)   == Last(run[r].messages).calls
Current(r) == Calls(r)[run[r].call]
AtCall(r)  == run[r].pc = "tools" /\ run[r].call <= Len(Calls(r))

(* The call's answer is kept and the next call taken up.                   *)
Answer(r) ==
  LET after == [run[r] EXCEPT !.pc = "tools", !.call = @ + 1,
                              !.results = Append(@, ToolMessage(Current(r)))]
  IN  run' = [run EXCEPT ![r] = after]

(* Seeded fault: the loop goes on without an answer to an unknown tool.    *)
UnknownToolSkipped(r) ==
  /\ AtCall(r) /\ Current(r).name \notin Tools
  /\ run' = [run EXCEPT ![r].call = @ + 1]
  /\ UNCHANGED <<registered, tally>>

(* Seeded fault: the loop does not get past an unknown tool.               *)
UnknownToolStuck(r) ==
  /\ AtCall(r) /\ Current(r).name \notin Tools
  /\ UNCHANGED vars

UnknownTool(r) ==
  /\ AtCall(r) /\ Current(r).name \notin Tools
  /\ Answer(r)
  /\ UNCHANGED <<registered, tally>>

RecordToolCall(t) == toolCalls' = [toolCalls EXCEPT ![t] = @ + 1]

(* pre_tool_call() logs and counts; then the tool is awaited.              *)
PreToolCall(r) ==
  /\ AtCall(r) /\ Current(r).name \in Tools
  /\ run' = [run EXCEPT ![r].pc = "invoking"]
  /\ entered' = [entered EXCEPT ![Current(r).name] = @ + 1]
  /\ RecordToolCall(Current(r).name)
  /\ UNCHANGED <<registered, left>>

(* The body of the tool runs to its end: it counts the call too.  It is in *)
(* a task of its own, and ainvoke() has still to await its callbacks.      *)
ToolBody(r) ==
  /\ run[r].pc = "invoking"
  /\ run' = [run EXCEPT ![r].pc = "counted"]
  /\ RecordToolCall(Current(r).name)
  /\ UNCHANGED <<registered, entered, left>>

(* post_tool_call() logs.                                                  *)
PostToolCall(t) == left' = [left EXCEPT ![t] = @ + 1]

(* ainvoke() returns.                                                      *)
ToolReturns(r) ==
  /\ run[r].pc = "counted"
  /\ PostToolCall(Current(r).name)
  /\ Answer(r)
  /\ UNCHANGED <<registered, toolCalls, entered>>

(* Seeded fault: the counter goes up on the way out of a failed call too.  *)
ToolRaisesCounted(r) ==
  /\ run[r].pc = "invoking"
  /\ RecordToolCall(Current(r).name)
  /\ Answer(r)
  /\ UNCHANGED <<registered, entered, left>>

(* Arguments that do not fit the tool raise before its body runs; the      *)
(* bodies themselves catch what they raise.  The model is told.            *)
ToolRaises(r) ==
  /\ run[r].pc = "invoking"
  /\ Answer(r)
  /\ UNCHANGED <<registered, tally>>

ToolNodeReturns(r) ==
  /\ run[r].pc = "tools" /\ run[r].call > Len(Calls(r))
  /\ LET after == [run[r] EXCEPT !.messages = @ \o run[r].results]
     IN  run' = [run EXCEPT ![r] = Enter(after, "agent")]
  /\ UNCHANGED <<registered, tally>>

Step(r) ==
  \/ CallModel(r) \/ Reply(r) \/ ModelRaises(r)
  \/ UnknownTool(r) \/ PreToolCall(r) \/ ToolBody(r) \/ ToolReturns(r) \/ ToolRaises(r)
  \/ ToolNodeReturns(r)

Next == \E r \in Runs : Attempt(r) \/ Step(r) \/ Close(r)

Spec == Init /\ [][Next]_vars

(* A model call and a tool end (the LLM clients have timeouts, the bodies  *)
(* of the tools await nothing), and the event loop runs what can run.      *)
FairSpec == Spec /\ \A r \in Runs : WF_vars(Step(r))

(***************************************************************************)
(* Properties                                                              *)
(***************************************************************************)

(* Types of the variables.                                                 *)
TypeOK ==
  /\ registered \subseteq ToSet(Catalogue)
  /\ \A r \in Runs :
       /\ run[r].pc \in {"idle", "agent", "model", "tools", "invoking", "counted",
                         "done", "raised", "closed", "cut"}
       /\ run[r].model \in ToSet(Catalogue) \cup {NoModel}
       /\ run[r].tried \subseteq ToSet(Catalogue)
       /\ run[r].steps \in 0..RecursionLimit
       /\ run[r].call \in 1..(MaxCalls + 1)
       /\ \A i \in DOMAIN run[r].messages :
            run[r].messages[i].kind \in {"human", "ai", "tool"}
  /\ toolCalls \in [Tools -> Nat] /\ entered \in [Tools -> Nat] /\ left \in [Tools -> Nat]

(* What a provider demands of the messages it is sent: each reply with     *)
(* tool calls is followed by one answer to each of them, in their order    *)
(* and under their ids, whatever the tools did and whether they exist, and *)
(* there is no other answer (resilient_agent_builder.py:79-109).           *)
ToolProtocol ==
  \A r \in Runs :
    LET ms      == run[r].messages
        Asked(i) == ms[i].kind = "ai"
    IN  run[r].pc = "model" =>
          /\ \A i \in {j \in DOMAIN ms : Asked(j)} :
               /\ i + Len(ms[i].calls) <= Len(ms)
               /\ \A k \in DOMAIN ms[i].calls : ms[i + k] = ToolMessage(ms[i].calls[k])
          /\ \A i \in {j \in DOMAIN ms : ms[j].kind = "tool"} :
               \E j \in 1..(i - 1) : Asked(j) /\ i - j <= Len(ms[j].calls)

(* A provider answers from the conversation, not from what a provider      *)
(* before it left behind: within an attempt all replies are those of the   *)
(* provider the attempt resolved to, and the messages a failed attempt     *)
(* added are gone (agent_runner.py:81-93).                                 *)
CleanAttempt ==
  \A r \in Runs :
    \A i \in DOMAIN run[r].messages :
      LET m == run[r].messages[i]
      IN  m.kind = "ai" =>
            /\ m.by = Resolve(run[r].model)
            /\ \A k \in DOMAIN m.calls : m.calls[k].id[1] = Cardinality(run[r].tried)

(* Types, and what a provider is sent (above).                             *)
MessagesSound == TypeOK /\ ToolProtocol /\ CleanAttempt

(* The calls of a tool whose body has run and which have no line of their  *)
(* way out yet, or never will; and those that are under way, or were cut.  *)
Ran(t)   == {r \in Runs : run[r].pc \in {"counted", "cut"} /\ Current(r).name = t}
Began(t) == {r \in Runs : run[r].pc = "invoking" /\ Current(r).name = t} \cup Ran(t)

(* What the chart of tool calls shows, for tools called from any number of *)
(* requests, attempts and rounds: the hook counts a call on its way in and *)
(* the tool's body counts it again, so a call that came back is counted    *)
(* twice, one with arguments that do not fit, or cancelled before its body *)
(* ran, once, and a call of an unknown tool not at all.  A call cancelled  *)
(* after its body ran is the one that is counted twice without a line of   *)
(* its way out (middleware.py:102, calculate_tool.py:49,                   *)
(* resilient_agent_builder.py:91-94).                                      *)
ToolLedger ==
  \A t \in Tools :
    /\ toolCalls[t] = entered[t] + left[t] + Cardinality(Ran(t))
    /\ entered[t] - left[t] >= Cardinality(Began(t))

(* A run that was started ends: a model that keeps asking for tools is     *)
(* stopped by the recursion limit.                                         *)
RunsEnd ==
  \A r \in Runs :
    run[r].pc = "agent" ~> run[r].pc \in {"done", "raised", "closed", "cut"}
=============================================================================
