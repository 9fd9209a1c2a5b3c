-------------------------- MODULE LangGraphProcessor --------------------------
(***************************************************************************)
(* One call of LangGraphProcessor.stream(): the provider chain, the        *)
(* attempts of its providers one after another, and for each attempt       *)
(* StreamProcessor.process(), which turns the agent's events into chunks   *)
(* and holds unfinished sentences back in BUFFERED mode.                   *)
(*                                                                         *)
(* The generator is single-threaded; what varies is its environment: what  *)
(* the LLM sends (Token, ToolResult, EndOfEvents), when it fails (Raise)   *)
(* and when the consumer stops reading (Close).  Actions are the segments  *)
(* between two points where the generator waits, for an event or for the   *)
(* consumer.                                                               *)
(*                                                                         *)
(* Text is abstracted to numbered fragments: a TEXT chunk's body is the    *)
(* sequence of fragments it carries.  A token (AIMessageChunk) carries up  *)
(* to two fragments and at most one sentence boundary; a longer one is the *)
(* same as several of these.  Tool messages take a number of the same      *)
(* count, so that their place relative to the text can be compared.        *)
(***************************************************************************)
EXTENDS Chunks, FiniteSets, SequencesExt

CONSTANTS
  MapOrder,     \* the keys of llm_provider_map, in dict order
  Vendor,       \* the vendor ("O" or "GG" prefix) of each key
  Vendors,      \* the vendors an API key can be configured for
  MaxFed,       \* bound: fragments and tool messages one attempt may produce
  MaxSent       \* bound: those of all attempts that were sent or are held

Keys == {MapOrder[i] : i \in DOMAIN MapOrder}

ASSUME MapAssumption ==
  /\ MapOrder \in Seq(Keys)
  /\ \A i, j \in DOMAIN MapOrder : MapOrder[i] = MapOrder[j] => i = j
  /\ None \notin Keys
ASSUME VendorAssumption == Vendor \in [Keys -> Vendors]
ASSUME BoundAssumption  == MaxFed \in Nat /\ MaxSent \in Nat

VARIABLES
  registered,   \* registry.available(): keys with a constructed client
  model,        \* request.model, None when the caller names none
  selected,     \* settings.selected_llm_provider
  mode,         \* settings.stream_mode
  pc,           \* where the generator is suspended
  preferred,    \* head of providers_to_try
  idx,          \* place of provider_key in MapOrder, 0 while it is preferred
  prev,         \* prev_provider
  fed,          \* fragments and tool messages this attempt has produced
  buffer,       \* sentence_buffer[0]
  out,          \* chunks yielded so far
  llmCalls,     \* metrics.record_llm_call count of each provider
  failovers     \* metrics.record_failover count of each provider

config  == <<registered, model, selected, mode>>
ledger  == <<llmCalls, failovers>>
vars    == <<config, pc, preferred, idx, prev, fed, buffer, out, ledger>>

(***************************************************************************)
(* The provider chain                                                      *)
(***************************************************************************)

(* LLMRegistry: a catalogue entry is registered when its vendor's API key  *)
(* is set and its client can be constructed.                               *)
BuildProviders(apiKeys, failing) ==
  {k \in Keys : Vendor[k] \in apiKeys /\ k \notin failing}

(* Seeded fault: the requested model is not looked up in the registry.     *)
IsPreferredUnchecked(p) ==
  \/ model # None /\ p = model
  \/ model = None /\ selected \in registered /\ p = selected
  \/ /\ model = None /\ selected \notin registered
     /\ p \in registered \cup {None}
     /\ p = None => registered = {}

(* The preferred provider: the requested model, else the configured one,   *)
(* else the first registered one in map order; None if nothing is          *)
(* registered.                                                             *)
IsPreferred(p) ==
  \/ model \in registered /\ p = model
  \/ model \notin registered /\ selected \in registered /\ p = selected
  \/ /\ model \notin registered /\ selected \notin registered
     /\ \E i \in DOMAIN MapOrder :
          /\ p = MapOrder[i] /\ p \in registered
          /\ \A j \in DOMAIN MapOrder : j < i => MapOrder[j] \notin registered
  \/ registered = {} /\ p = None

(* Seeded fault: the preferred provider is tried again at its own place.   *)
RestWithPreferred(j) ==
  {i \in DOMAIN MapOrder : i > j /\ MapOrder[i] \in registered}

(* Seeded fault: off by one, an entry is skipped after each failure.       *)
RestSkipping(j) ==
  {i \in DOMAIN MapOrder :
     i > j + 1 /\ MapOrder[i] \in registered /\ MapOrder[i] # preferred}

(* The places of providers_to_try that come after the first j entries of   *)
(* the map: registered keys other than the preferred one.                  *)
Rest(j) ==
  {i \in DOMAIN MapOrder :
     i > j /\ MapOrder[i] \in registered /\ MapOrder[i] # preferred}

(* provider_key, the loop variable.                                        *)
Current == IF idx = 0 THEN preferred ELSE MapOrder[idx]

(***************************************************************************)
(* States                                                                  *)
(***************************************************************************)
Init ==
  /\ \E apiKeys \in SUBSET Vendors, failing \in SUBSET Keys :
       registered = BuildProviders(apiKeys, failing)
  /\ model \in Keys \cup {None}
  /\ selected \in Keys \cup {None}
  /\ mode \in {"BUFFERED", "RAW"}
  /\ pc = "start"
  /\ preferred = None /\ idx = 0 /\ prev = None
  /\ fed = 0 /\ buffer = <<>> /\ out = <<>>
  /\ llmCalls  = [k \in Keys |-> 0]
  /\ failovers = [k \in Keys |-> 0]

(* Steps 1 and 2 of stream(): pick the head of the chain.                  *)
ChoosePreferred ==
  /\ pc = "start"
  /\ IsPreferred(preferred')
  /\ pc' = IF preferred' = None THEN "exhausted" ELSE "attempt"
  /\ UNCHANGED <<config, idx, prev, fed, buffer, out, ledger>>

(***************************************************************************)
(* One turn of the loop over providers_to_try                              *)
(***************************************************************************)
(* Seeded fault: a switch is announced only if something had been sent.    *)
NeedsFailoverIfHeard == prev # None /\ fed > 0

NeedsFailover == Current # preferred \/ prev # None

(* Seeded fault: the preferred provider is blamed for every switch.        *)
FailoverFromPreferred ==
  /\ pc = "attempt" /\ NeedsFailover
  /\ failovers' = [failovers EXCEPT ![preferred] = @ + 1]
  /\ out' = Append(out, FailoverChunk(preferred, Current))
  /\ pc' = "announced"
  /\ UNCHANGED <<config, preferred, idx, prev, fed, buffer, llmCalls>>

(* The change of provider is counted and announced before the call.        *)
Failover ==
  LET from == IF prev # None THEN prev ELSE preferred IN
  /\ pc = "attempt" /\ NeedsFailover
  /\ failovers' = [failovers EXCEPT ![from] = @ + 1]
  /\ out' = Append(out, FailoverChunk(from, Current))
  /\ pc' = "announced"
  /\ UNCHANGED <<config, preferred, idx, prev, fed, buffer, llmCalls>>

(* record_llm_call, then the event stream is opened with a fresh sentence  *)
(* buffer.                                                                 *)
CallLLM ==
  /\ pc = "announced" \/ (pc = "attempt" /\ ~NeedsFailover)
  /\ llmCalls' = [llmCalls EXCEPT ![Current] = @ + 1]
  /\ fed' = 0
  /\ buffer' = <<>>
  /\ pc' = "streaming"
  /\ UNCHANGED <<config, preferred, idx, prev, out, failovers>>

(* A TEXT chunk, unless there is nothing to say.                           *)
EmitText(fragments) ==
  out' = IF fragments = <<>> THEN out
         ELSE Append(out, TextChunk(Current, fragments))

(* The tokens the LLM can send when n is the next fragment: no sentence    *)
(* boundary, one after the text, one before it, one in the middle.         *)
Tokens(n) ==
  { [before |-> <<n>>, cut |-> FALSE, after |-> <<>>,      size |-> 1],
    [before |-> <<n>>, cut |-> TRUE,  after |-> <<>>,      size |-> 1],
    [before |-> <<>>,  cut |-> TRUE,  after |-> <<n>>,     size |-> 1],
    [before |-> <<n>>, cut |-> TRUE,  after |-> <<n + 1>>, size |-> 2] }

(* The bounds leave room for n more.                                       *)
Bodies(s) == FlattenSeq([i \in DOMAIN s |-> s[i].body])
Fits(n)   == fed + n <= MaxFed /\ Len(Bodies(out)) + Len(buffer) + n <= MaxSent

(* Seeded fault: RAW mode goes through the sentence buffer too.            *)
TokenBuffered ==
  /\ pc = "streaming"
  /\ \E t \in Tokens(fed + 1) :
       /\ Fits(t.size)
       /\ fed' = fed + t.size
       /\ IF t.cut THEN EmitText(buffer \o t.before) /\ buffer' = t.after
                   ELSE buffer' = buffer \o t.before /\ UNCHANGED out
  /\ UNCHANGED <<config, pc, preferred, idx, prev, ledger>>

(* Seeded fault: at a boundary the new sentence is sent before the held    *)
(* text.                                                                   *)
TokenOvertaking ==
  /\ pc = "streaming"
  /\ \E t \in Tokens(fed + 1) :
       /\ Fits(t.size)
       /\ fed' = fed + t.size
       /\ EmitText(IF t.cut THEN t.before ELSE <<>>)
       /\ buffer' = buffer \o (IF t.cut THEN t.after ELSE t.before)
  /\ UNCHANGED <<config, pc, preferred, idx, prev, ledger>>

(* An AIMessageChunk arrives.  RAW: it is passed on whole.  BUFFERED: it   *)
(* is appended to the buffer; at a boundary the text before it is sent and *)
(* the text after it is kept.                                              *)
Token ==
  /\ pc = "streaming"
  /\ \E t \in Tokens(fed + 1) :
       /\ Fits(t.size)
       /\ fed' = fed + t.size
       /\ \/ /\ mode = "RAW"
             /\ EmitText(t.before \o t.after)
             /\ UNCHANGED buffer
          \/ /\ mode = "BUFFERED" /\ t.cut
             /\ EmitText(buffer \o t.before)
             /\ buffer' = t.after
          \/ /\ mode = "BUFFERED" /\ ~t.cut
             /\ buffer' = buffer \o t.before
             /\ UNCHANGED out
  /\ UNCHANGED <<config, pc, preferred, idx, prev, ledger>>

(* A ToolMessage arrives: its result is sent at once, whatever the buffer  *)
(* holds.                                                                  *)
ToolResult ==
  /\ pc = "streaming" /\ Fits(1)
  /\ fed' = fed + 1
  /\ out' = Append(out, ToolResultChunk(Current, fed'))
  /\ UNCHANGED <<config, pc, preferred, idx, prev, buffer, ledger>>

(* Seeded fault: the buffer is not flushed at the end.                     *)
EndWithoutFlush ==
  /\ pc = "streaming"
  /\ pc' = "flushed"
  /\ UNCHANGED <<config, preferred, idx, prev, fed, buffer, out, ledger>>

(* The event stream ends: what is left in the buffer is sent.              *)
EndOfEvents ==
  /\ pc = "streaming"
  /\ EmitText(buffer)
  /\ pc' = "flushed"
  /\ UNCHANGED <<config, preferred, idx, prev, fed, buffer, ledger>>

(* STATUS COMPLETE, and the generator returns: the provider succeeded.     *)
Complete ==
  /\ pc = "flushed"
  /\ out' = Append(out, CompleteChunk(Current))
  /\ pc' = "done"
  /\ UNCHANGED <<config, preferred, idx, prev, fed, buffer, ledger>>

(* The provider fails at any point of its event stream: the exception      *)
(* passes through process(), dropping its buffer, and the loop goes on     *)
(* with the next provider of the chain, if there is one.                   *)
Raise ==
  /\ pc = "streaming"
  /\ prev' = Current
  /\ \/ /\ idx' \in Rest(idx)
        /\ \A i \in Rest(idx) : idx' <= i
        /\ pc' = "attempt"
     \/ /\ Rest(idx) = {}
        /\ idx' = idx
        /\ pc' = "exhausted"
  /\ UNCHANGED <<config, preferred, fed, buffer, out, ledger>>

(* Seeded fault: nothing is said when no provider is registered.           *)
GiveUpAfterFailure ==
  /\ pc = "exhausted" /\ prev # None
  /\ out' = Append(out, ErrorChunk(Current))
  /\ pc' = "done"
  /\ UNCHANGED <<config, preferred, idx, prev, fed, buffer, ledger>>

(* Nothing registered, or every provider of the chain failed.              *)
GiveUp ==
  /\ pc = "exhausted"
  /\ out' = Append(out, ErrorChunk(Current))
  /\ pc' = "done"
  /\ UNCHANGED <<config, preferred, idx, prev, fed, buffer, ledger>>

(* The consumer closes the generator, or its task is cancelled: neither    *)
(* GeneratorExit nor CancelledError is an Exception, so nothing is caught, *)
(* recorded or sent.                                                       *)
Close ==
  /\ pc \notin {"done", "closed"}
  /\ pc' = "closed"
  /\ UNCHANGED <<config, preferred, idx, prev, fed, buffer, out, ledger>>

Step ==
  \/ ChoosePreferred \/ Failover \/ CallLLM
  \/ Token \/ ToolResult \/ EndOfEvents \/ Raise
  \/ Complete \/ GiveUp

Next == Step \/ Close

Spec == Init /\ [][Next]_vars

(* The generator runs when the consumer asks for the next chunk, and an    *)
(* LLM call ends, well or with an exception (its client has a timeout).    *)
(* Nothing says that a consumer ever closes.                               *)
FairSpec == Spec /\ WF_vars(Step)

(***************************************************************************)
(* Properties                                                              *)
(***************************************************************************)

(* Types of the variables.  Sequences of chunks and of fragments are typed *)
(* by their elements.                                                      *)
TypeOK ==
  /\ registered \subseteq Keys
  /\ model \in Keys \cup {None} /\ selected \in Keys \cup {None}
  /\ mode \in {"BUFFERED", "RAW"}
  /\ pc \in {"start", "attempt", "announced", "streaming", "flushed",
             "exhausted", "done", "closed"}
  /\ preferred \in registered \cup {None}
  /\ idx \in {0} \cup DOMAIN MapOrder
  /\ prev \in Keys \cup {None}
  /\ fed \in 0..MaxFed
  /\ buffer \in Seq(1..MaxFed)
  /\ out \in Seq(ChunkSet(Keys))
  /\ llmCalls \in [Keys -> Nat] /\ failovers \in [Keys -> Nat]

(* No provider is asked twice for one message, and none that is not        *)
(* registered is asked at all: the chain has no duplicate although the     *)
(* preferred provider is also an entry of the map                          *)
(* (langgraph_processor.py:64).                                            *)
OncePerProvider ==
  \A k \in Keys : llmCalls[k] <= IF k \in registered THEN 1 ELSE 0

(* "All LLM providers failed" (and "No LLM providers registered") is true: *)
(* an ERROR chunk is only ever sent after every registered provider was    *)
(* called, and the client then gets nothing more                           *)
(* (langgraph_processor.py:60-62, 116-119).                                *)
ExhaustionHonest ==
  \A i \in DOMAIN out :
    out[i].type = "ERROR" =>
      /\ i = Len(out)
      /\ \A k \in registered : llmCalls[k] > 0

(* What the metrics say of failovers is what the client was told: a        *)
(* provider is counted as failed over exactly when a FAILOVER chunk named  *)
(* it, at most once, and only after it was called                          *)
(* (langgraph_processor.py:80-92).                                         *)
FailoverLedger ==
  \A k \in Keys :
    /\ failovers[k] <= llmCalls[k]
    /\ failovers[k] = Cardinality({i \in DOMAIN out :
                                     out[i].type = "FAILOVER" /\ out[i].by = k})

(* The chunks of these types the current attempt has sent (their places in *)
(* the stream), the fragments of a set of chunks, and the text held back.  *)
Said(types)  == {i \in DOMAIN out : out[i].type \in types /\ out[i].by = Current}
Fragments(S) == UNION {ToSet(out[i].body) : i \in S}
Held         == IF pc = "streaming" THEN buffer ELSE <<>>
Succeeded    == pc = "done" /\ Last(out).type = "STATUS"

(* Fragments in the order they were produced in: within a text, between    *)
(* two texts, and in and between the chunks of S.                          *)
Increasing(s)  == \A i, j \in DOMAIN s : i < j => s[i] < s[j]
Precedes(s, t) == \A x \in ToSet(s), y \in ToSet(t) : x < y
InOrder(S) ==
  \A i \in S : /\ Increasing(out[i].body)
              /\ \A j \in S : i < j => Precedes(out[i].body, out[j].body)

(* Sentence buffering loses, repeats and reorders nothing: at any time the *)
(* text sent by the current attempt followed by the text held back is all  *)
(* the text the LLM has produced, in its order, and when the attempt has   *)
(* succeeded nothing is held back (stream_processor.py:67-72, 113-131).    *)
NothingLost ==
  pc \in {"streaming", "flushed"} \/ Succeeded =>
    /\ InOrder(Said({"TEXT"})) /\ Increasing(Held)
    /\ \A i \in Said({"TEXT"}) : Precedes(out[i].body, Held)
    /\ Fragments(Said(ContentTypes)) \cup ToSet(Held) = 1..fed

(* In RAW mode the client sees the events in the order the agent produced  *)
(* them, tool results in their place (stream_processor.py:88-90).          *)
RawIsTransparent ==
  mode = "RAW" /\ (pc \in {"streaming", "flushed"} \/ Succeeded) =>
    /\ InOrder(Said(ContentTypes))
    /\ Fragments(Said(ContentTypes)) = 1..fed

(* What the client receives is what the model wrote, in both modes.        *)
BufferingExact == NothingLost /\ RawIsTransparent

(* In BUFFERED mode a tool result may overtake text that the model wrote   *)
(* before it called the tool, but only the one sentence that was not       *)
(* finished: all the overtaken fragments are in the next TEXT chunk        *)
(* (stream_processor.py:92-99).                                            *)
ToolOvertakesOneSentence ==
  \A i \in Said({"TOOL_RESULT"}) : \A j, k \in Said({"TEXT"}) :
    i < j /\ j < k => Precedes(out[i].body, out[k].body)

(* The stream implements the contract of ChunkStream.  A provider is the   *)
(* active one from the FAILOVER chunk that announces it, or from its first *)
(* call if nothing announces it.                                           *)
AbsActive ==
  CASE prev # None /\ failovers[prev] = 0         -> prev
    [] prev = None /\ \A k \in Keys : llmCalls[k] = 0 -> None
    [] OTHER                                      -> Current
AbsPhase ==
  CASE pc = "done"   -> IF Last(out).type = "ERROR" THEN "error" ELSE "complete"
    [] pc = "closed" -> "abandoned"
    [] OTHER         -> "open"
AbsSpent == {k \in Keys : llmCalls[k] > 0} \ {AbsActive}

Contract == INSTANCE ChunkStream WITH
  Providers <- Keys, usable <- registered, phase <- AbsPhase,
  active <- AbsActive, spent <- AbsSpent, sent <- out

(* Every chunk sequence a client can see is one ChunkStream allows.        *)
ContractHolds == Contract!Spec

(* Whatever the providers do, a client that keeps reading is not left      *)
(* waiting: the stream ends, and its last chunk is STATUS or ERROR.        *)
AlwaysAnswers ==
  <>(pc = "closed" \/ (pc = "done" /\ Last(out).type \in TerminalTypes))

(* "A FAILOVER chunk is emitted whenever the active provider changes,      *)
(* either because the preferred was not registered, or because execution   *)
(* failed" (langgraph_processor.py:73-75): a caller that names a model     *)
(* that is not registered is told so before another model answers.         *)
SubstitutionAnnounced ==
  model # None /\ model \notin registered =>
    \A i \in DOMAIN out :
      out[i].type \in ContentTypes =>
        \E j \in 1..(i - 1) : out[j].type = "FAILOVER"
=============================================================================
