---------------------- MODULE LangGraphProcessorProofs ----------------------
(***************************************************************************)
(* Proofs about LangGraphProcessor, for every catalogue, every set of      *)
(* registered providers and attempts of any length.                        *)
(*                                                                         *)
(* The properties are not inductive: that a provider is not called twice   *)
(* follows from where the loop is in the chain.  The inductive invariant   *)
(* IInv ties the calls made so far to Walked, the part of the chain the    *)
(* loop has reached.  LedgerInv adds the failovers, Handover which         *)
(* provider the client last heard of (for the refinement of ChunkStream),  *)
(* and Buffering how what was sent and what is held make up the text.      *)
(***************************************************************************)
EXTENDS LangGraphProcessor, FiniteSetTheorems, TLAPS

(* The providers of the chain up to and including provider_key.            *)
Walked ==
  {preferred} \cup
  {MapOrder[i] : i \in {j \in DOMAIN MapOrder :
                          /\ j <= idx
                          /\ MapOrder[j] \in registered
                          /\ MapOrder[j] # preferred}}

(* Exactly the providers of S have been called, each once.                 *)
CalledExactly(S) == \A k \in Keys : llmCalls[k] = IF k \in S THEN 1 ELSE 0

(* The loop variable is an entry of the chain.                             *)
OnChain ==
  /\ preferred \in registered
  /\ idx # 0 => MapOrder[idx] \in registered /\ MapOrder[idx] # preferred

Progress ==
  /\ pc = "start" =>
       idx = 0 /\ CalledExactly({})
  /\ pc \in {"attempt", "announced"} =>
       OnChain /\ CalledExactly(Walked \ {Current})
  /\ pc \in {"streaming", "flushed"} =>
       OnChain /\ CalledExactly(Walked)
  /\ pc = "exhausted" =>
       \/ /\ registered = {} /\ preferred = None /\ idx = 0
          /\ CalledExactly({})
       \/ OnChain /\ Rest(idx) = {} /\ CalledExactly(Walked)

NoErrorYet ==
  pc # "done" => \A i \in DOMAIN out : out[i].type # "ERROR"

IInv == TypeOK /\ Progress /\ NoErrorYet /\ OncePerProvider /\ ExhaustionHonest

-----------------------------------------------------------------------------
(* The places of the catalogue are positive numbers.                       *)
LEMMA MapDomain == DOMAIN MapOrder \subseteq Nat \ {0}
<1>1. MapOrder \in Seq(Keys)
  BY MapAssumption
<1> QED
  BY <1>1

(* The entry of the chain in hand is a provider the loop has reached, and  *)
(* a registered one.                                                       *)
LEMMA CurrentWalked ==
  ASSUME TypeOK, OnChain
  PROVE  /\ Current \in Walked
         /\ Current \in registered
         /\ Walked \subseteq registered
<1>1. Walked \subseteq registered
  BY DEF OnChain, Walked
<1>2. CASE idx = 0
  BY <1>1, <1>2 DEF OnChain, Current, Walked
<1>3. CASE idx # 0
  <2>1. idx \in DOMAIN MapOrder /\ idx <= idx
    BY <1>3, MapAssumption DEF TypeOK
  <2> QED
    BY <1>1, <1>3, <2>1 DEF OnChain, Current, Walked
<1> QED
  BY <1>1, <1>2, <1>3

(* When nothing of the chain is left, all registered providers have been   *)
(* reached.                                                                *)
LEMMA ChainComplete ==
  ASSUME TypeOK, OnChain, Rest(idx) = {}
  PROVE  Walked = registered
<1>1. Walked \subseteq registered
  BY CurrentWalked
<1>2. ASSUME NEW k \in registered
      PROVE  k \in Walked
  <2>1. CASE k = preferred
    BY <2>1 DEF Walked
  <2>2. CASE k # preferred
    <3>1. PICK i \in DOMAIN MapOrder : MapOrder[i] = k
      BY <1>2 DEF TypeOK, Keys
    <3>2. ~(i > idx)
      BY <3>1, <2>2, <1>2 DEF Rest
    <3>3. i <= idx
      BY <3>2, MapAssumption DEF TypeOK
    <3> QED
      BY <3>1, <3>3, <2>2, <1>2 DEF Walked
  <2> QED
    BY <2>1, <2>2
<1> QED
  BY <1>1, <1>2

(* A step to the next entry of the chain reaches that provider and no      *)
(* other, and it is a new one.                                             *)
LEMMA NextEntry ==
  ASSUME TypeOK, OnChain, UNCHANGED <<registered, preferred>>,
         idx' \in Rest(idx), \A i \in Rest(idx) : idx' <= i
  PROVE  /\ OnChain'
         /\ Current' \notin Walked
         /\ Walked' = Walked \cup {Current'}
<1>1. /\ idx' \in DOMAIN MapOrder /\ idx' > idx
      /\ MapOrder[idx'] \in registered /\ MapOrder[idx'] # preferred
  BY DEF Rest
<1>2. DOMAIN MapOrder \subseteq Nat \ {0} /\ idx \in Nat
  BY MapDomain DEF TypeOK
<1>3. Current' = MapOrder[idx']
  BY <1>1, <1>2 DEF Current
<1>4. OnChain'
  BY <1>1 DEF OnChain
<1>5. Current' \notin Walked
  BY <1>1, <1>2, <1>3, MapAssumption DEF Walked
<1>6. ASSUME NEW j \in DOMAIN MapOrder,
             MapOrder[j] \in registered, MapOrder[j] # preferred
      PROVE  j <= idx' <=> j <= idx \/ j = idx'
  <2>1. j > idx => j \in Rest(idx)
    BY <1>6 DEF Rest
  <2> QED
    BY <2>1, <1>1, <1>2
<1>7. Walked' = Walked \cup {Current'}
  BY <1>1, <1>3, <1>6 DEF Walked
<1> QED
  BY <1>4, <1>5, <1>7

-----------------------------------------------------------------------------
LEMMA InitIInv == Init => IInv
<1> SUFFICES ASSUME Init PROVE IInv
  OBVIOUS
<1>1. TypeOK
  BY BoundAssumption DEF Init, TypeOK, BuildProviders
<1>2. Progress
  BY DEF Init, Progress, CalledExactly
<1>3. NoErrorYet /\ ExhaustionHonest
  BY DEF Init, NoErrorYet, ExhaustionHonest
<1>4. OncePerProvider
  BY DEF Init, OncePerProvider
<1> QED
  BY <1>1, <1>2, <1>3, <1>4 DEF IInv

(* Sending a chunk that is not an ERROR keeps the stream free of ERRORs.   *)
LEMMA SendNoError ==
  ASSUME NEW c \in ChunkSet(Keys), c.type # "ERROR",
         out \in Seq(ChunkSet(Keys)),
         \A i \in DOMAIN out : out[i].type # "ERROR",
         out' = Append(out, c)
  PROVE  /\ out' \in Seq(ChunkSet(Keys))
         /\ \A i \in DOMAIN out' : out'[i].type # "ERROR"
<1>1. out' \in Seq(ChunkSet(Keys)) /\ Len(out') = Len(out) + 1
  OBVIOUS
<1>2. ASSUME NEW i \in DOMAIN out'
      PROVE  out'[i].type # "ERROR"
  <2>1. i \in 1..Len(out) \/ i = Len(out) + 1
    BY <1>1
  <2> QED
    BY <2>1
<1> QED
  BY <1>1, <1>2

(* The chunks the processor makes are well typed.                          *)
LEMMA ChunkTypes ==
  ASSUME NEW by \in Keys \cup {None}, NEW to \in Keys, NEW n \in Nat,
         NEW body \in Seq(1..MaxFed)
  PROVE  /\ TextChunk(by, body) \in ChunkSet(Keys)
         /\ ToolResultChunk(by, n) \in ChunkSet(Keys)
         /\ FailoverChunk(by, to) \in ChunkSet(Keys)
         /\ CompleteChunk(by) \in ChunkSet(Keys)
         /\ ErrorChunk(by) \in ChunkSet(Keys)
<1>1. body \in Seq(Nat) /\ <<n>> \in Seq(Nat) /\ <<>> \in Seq(Nat)
  BY BoundAssumption
<1> QED
  BY <1>1 DEF ChunkSet, Chunk, TextChunk, ToolResultChunk, FailoverChunk,
              CompleteChunk, ErrorChunk, ContentTypes, TerminalTypes

(* The chunks the processor makes, by type.                                *)
LEMMA ChunkKinds ==
  ASSUME NEW by, NEW to, NEW body
  PROVE  /\ TextChunk(by, body).type = "TEXT"
         /\ ToolResultChunk(by, body).type = "TOOL_RESULT"
         /\ FailoverChunk(by, to).type = "FAILOVER"
         /\ CompleteChunk(by).type = "STATUS"
         /\ ErrorChunk(by).type = "ERROR"
BY DEF Chunk, TextChunk, ToolResultChunk, FailoverChunk, CompleteChunk,
       ErrorChunk

LEMMA EmitTextKeeps ==
  ASSUME TypeOK, NoErrorYet, pc # "done", Current \in Keys,
         NEW fragments \in Seq(1..MaxFed), EmitText(fragments)
  PROVE  /\ out' \in Seq(ChunkSet(Keys))
         /\ \A i \in DOMAIN out' : out'[i].type # "ERROR"
<1>1. CASE fragments = <<>>
  BY <1>1 DEF EmitText, TypeOK, NoErrorYet
<1>2. CASE fragments # <<>>
  <2>1. TextChunk(Current, fragments) \in ChunkSet(Keys)
    <3>1. Keys # {} /\ 0 \in Nat
      OBVIOUS
    <3> QED
      BY <3>1, ChunkTypes
  <2>2. TextChunk(Current, fragments).type # "ERROR"
    BY ChunkKinds
  <2>3. out' = Append(out, TextChunk(Current, fragments))
    BY <1>2 DEF EmitText
  <2> QED
    BY <2>1, <2>2, <2>3, SendNoError DEF TypeOK, NoErrorYet
<1> QED
  BY <1>1, <1>2

-----------------------------------------------------------------------------
(* Without an ERROR there is nothing to be honest about.                   *)
LEMMA HonestWithoutError ==
  ASSUME \A i \in DOMAIN out : out[i].type # "ERROR"
  PROVE  ExhaustionHonest
BY DEF ExhaustionHonest

LEMMA StepChoosePreferred == IInv /\ ChoosePreferred => IInv'
<1> SUFFICES ASSUME IInv, ChoosePreferred PROVE IInv'
  OBVIOUS
<1> USE DEF IInv, ChoosePreferred, config, ledger
<1>1. /\ preferred' \in registered \cup {None}
      /\ preferred' = None => registered = {}
  <2>1. ASSUME registered # {}, model \notin registered, selected \notin registered
        PROVE  preferred' \in registered
    BY <2>1 DEF IsPreferred
  <2> QED
    BY <2>1, MapAssumption DEF IsPreferred, TypeOK
<1>2. TypeOK'
  BY <1>1 DEF TypeOK
<1>3. CalledExactly({}) /\ idx = 0
  BY DEF Progress
<1>4. Progress'
  <2>1. CASE preferred' = None
    BY <1>1, <1>3, <2>1 DEF Progress, CalledExactly, TypeOK
  <2>2. CASE preferred' # None
    <3>1. Walked' = {preferred'} /\ Current' = preferred'
      BY <1>3, MapDomain DEF Walked, Current
    <3>2. OnChain'
      BY <1>1, <1>3, <2>2 DEF OnChain
    <3>3. CalledExactly(Walked \ {Current})'
      BY <3>1, <1>3 DEF CalledExactly
    <3> QED
      BY <2>2, <3>2, <3>3 DEF Progress
  <2> QED
    BY <2>1, <2>2
<1>5. NoErrorYet' /\ ExhaustionHonest' /\ OncePerProvider'
  BY DEF NoErrorYet, ExhaustionHonest, OncePerProvider
<1> QED
  BY <1>2, <1>4, <1>5

(* The loop variable, the chain reached so far and what was called do not  *)
(* change in a step that moves neither the loop nor the ledger of calls.   *)
LEMMA LoopUnmoved ==
  ASSUME UNCHANGED <<registered, preferred, idx, llmCalls>>
  PROVE  /\ Current' = Current /\ Walked' = Walked /\ Rest(idx)' = Rest(idx)
         /\ OnChain' = OnChain
         /\ \A S : CalledExactly(S)' = CalledExactly(S)
         /\ OncePerProvider' = OncePerProvider
BY DEF Current, Walked, Rest, OnChain, CalledExactly, OncePerProvider

LEMMA StepFailover == IInv /\ Failover => IInv'
<1> SUFFICES ASSUME IInv, Failover PROVE IInv'
  OBVIOUS
<1> USE DEF IInv, Failover, config, ledger
<1>1. OnChain /\ CalledExactly(Walked \ {Current})
  BY DEF Progress
<1>2. Current \in Keys
  BY <1>1, CurrentWalked DEF TypeOK
<1> DEFINE from == IF prev # None THEN prev ELSE preferred
<1>3. from \in Keys /\ out' = Append(out, FailoverChunk(from, Current))
  BY <1>1 DEF TypeOK, OnChain
<1>4. /\ FailoverChunk(from, Current) \in ChunkSet(Keys)
      /\ FailoverChunk(from, Current).type # "ERROR"
  <2>1. <<>> \in Seq(1..MaxFed) /\ 0 \in Nat
    OBVIOUS
  <2> QED
    BY <1>2, <1>3, <2>1, ChunkTypes, ChunkKinds
<1>5. out' \in Seq(ChunkSet(Keys)) /\ \A i \in DOMAIN out' : out'[i].type # "ERROR"
  BY <1>3, <1>4, SendNoError DEF TypeOK, NoErrorYet
<1>6. TypeOK'
  BY <1>5, <1>3 DEF TypeOK
<1>7. Progress'
  BY <1>1, LoopUnmoved DEF Progress
<1>8. NoErrorYet' /\ ExhaustionHonest'
  BY <1>5 DEF NoErrorYet, ExhaustionHonest
<1>9. OncePerProvider'
  BY LoopUnmoved
<1> QED
  BY <1>6, <1>7, <1>8, <1>9

LEMMA StepCallLLM == IInv /\ CallLLM => IInv'
<1> SUFFICES ASSUME IInv, CallLLM PROVE IInv'
  OBVIOUS
<1> USE DEF IInv, CallLLM, config, ledger
<1>1. OnChain /\ CalledExactly(Walked \ {Current})
  BY DEF Progress
<1>2. Current \in Walked /\ Current \in registered /\ Walked \subseteq registered
  BY <1>1, CurrentWalked
<1>3. TypeOK'
  BY <1>2, BoundAssumption DEF TypeOK
<1>4. \A k \in Keys : llmCalls'[k] = IF k \in Walked THEN 1 ELSE 0
  BY <1>1, <1>2 DEF CalledExactly, TypeOK
<1>5. Walked' = Walked /\ OnChain' = OnChain
  BY DEF Walked, OnChain
<1>6. Progress'
  BY <1>1, <1>4, <1>5 DEF Progress, CalledExactly
<1>7. NoErrorYet' /\ ExhaustionHonest'
  BY DEF NoErrorYet, ExhaustionHonest
<1>8. OncePerProvider'
  BY <1>2, <1>4 DEF OncePerProvider
<1> QED
  BY <1>3, <1>6, <1>7, <1>8

LEMMA StepToken == IInv /\ Token => IInv'
<1> SUFFICES ASSUME IInv, Token PROVE IInv'
  OBVIOUS
<1> USE DEF IInv, Token, Fits, config, ledger
<1>1. OnChain /\ CalledExactly(Walked)
  BY DEF Progress
<1>2. Current \in Keys
  BY <1>1, CurrentWalked DEF TypeOK
<1>3. PICK t \in Tokens(fed + 1) :
        /\ fed + t.size <= MaxFed
        /\ fed' = fed + t.size
        /\ \/ mode = "RAW" /\ EmitText(t.before \o t.after) /\ UNCHANGED buffer
           \/ /\ mode = "BUFFERED" /\ t.cut
              /\ EmitText(buffer \o t.before) /\ buffer' = t.after
           \/ /\ mode = "BUFFERED" /\ ~t.cut
              /\ buffer' = buffer \o t.before /\ UNCHANGED out
  OBVIOUS
<1>4. /\ fed \in Nat /\ fed + t.size \in 1..MaxFed
      /\ t.before \in Seq(1..MaxFed) /\ t.after \in Seq(1..MaxFed)
  <2>1. fed \in Nat /\ MaxFed \in Nat
    BY BoundAssumption DEF TypeOK
  <2>2. /\ t.size \in 1..2
        /\ t.before = <<>> \/ t.before = <<fed + 1>>
        /\ \/ t.after = <<>>
           \/ t.after = <<fed + 1>>
           \/ t.after = <<(fed + 1) + 1>> /\ t.size = 2
    BY <1>3 DEF Tokens
  <2>3. fed + 1 \in 1..MaxFed /\ (t.size = 2 => (fed + 1) + 1 \in 1..MaxFed)
    BY <1>3, <2>1, <2>2
  <2> DEFINE S == 1..MaxFed
  <2>s. ASSUME NEW n \in S
        PROVE  <<n>> \in Seq(S)
    <3> HIDE DEF S
    <3> QED
      OBVIOUS
  <2>4. t.before \in Seq(S)
    <3>1. fed + 1 \in S
      BY <1>3, <2>1, <2>2
    <3>2. <<fed + 1>> \in Seq(S) /\ <<>> \in Seq(S)
      BY <2>s, <3>1
    <3> QED
      BY <2>2, <3>2
  <2>5. t.after \in Seq(S)
    <3>1. <<fed + 1>> \in Seq(S) /\ <<>> \in Seq(S)
      BY <2>s, <2>3
    <3>2. t.size = 2 => <<(fed + 1) + 1>> \in Seq(S)
      BY <2>s, <2>3
    <3> QED
      BY <2>2, <3>1, <3>2
  <2>6. fed + t.size \in 1..MaxFed
    BY <1>3, <2>1, <2>2
  <2> QED
    BY <2>1, <2>4, <2>5, <2>6
<1>5. /\ t.before \o t.after \in Seq(1..MaxFed)
      /\ buffer \o t.before \in Seq(1..MaxFed)
      /\ buffer \in Seq(1..MaxFed)
  BY <1>4 DEF TypeOK
<1>6. /\ out' \in Seq(ChunkSet(Keys))
      /\ \A i \in DOMAIN out' : out'[i].type # "ERROR"
      /\ buffer' \in Seq(1..MaxFed)
  <2>1. CASE mode = "RAW" /\ EmitText(t.before \o t.after) /\ UNCHANGED buffer
    BY <2>1, <1>2, <1>5, EmitTextKeeps
  <2>2. CASE EmitText(buffer \o t.before) /\ buffer' = t.after
    BY <2>2, <1>2, <1>4, <1>5, EmitTextKeeps
  <2>3. CASE buffer' = buffer \o t.before /\ UNCHANGED out
    BY <2>3, <1>5 DEF TypeOK, NoErrorYet
  <2> QED
    BY <1>3, <2>1, <2>2, <2>3
<1>7. TypeOK'
  BY <1>3, <1>4, <1>6 DEF TypeOK
<1>8. Progress'
  BY <1>1, LoopUnmoved DEF Progress
<1>9. NoErrorYet' /\ ExhaustionHonest' /\ OncePerProvider'
  BY <1>6, LoopUnmoved DEF NoErrorYet, ExhaustionHonest
<1> QED
  BY <1>7, <1>8, <1>9

LEMMA StepToolResult == IInv /\ ToolResult => IInv'
<1> SUFFICES ASSUME IInv, ToolResult PROVE IInv'
  OBVIOUS
<1> USE DEF IInv, ToolResult, Fits, config, ledger
<1>1. OnChain /\ CalledExactly(Walked)
  BY DEF Progress
<1>2. Current \in Keys
  BY <1>1, CurrentWalked DEF TypeOK
<1>3. fed' \in 0..MaxFed /\ fed' \in Nat
  BY BoundAssumption DEF TypeOK
<1>4. /\ ToolResultChunk(Current, fed') \in ChunkSet(Keys)
      /\ ToolResultChunk(Current, fed').type # "ERROR"
  <2>1. <<>> \in Seq(1..MaxFed)
    OBVIOUS
  <2> QED
    BY <1>2, <1>3, <2>1, ChunkTypes, ChunkKinds
<1>5. out' \in Seq(ChunkSet(Keys)) /\ \A i \in DOMAIN out' : out'[i].type # "ERROR"
  BY <1>4, SendNoError DEF TypeOK, NoErrorYet
<1>6. TypeOK'
  BY <1>3, <1>5 DEF TypeOK
<1>7. Progress'
  BY <1>1, LoopUnmoved DEF Progress
<1>8. NoErrorYet' /\ ExhaustionHonest' /\ OncePerProvider'
  BY <1>5, LoopUnmoved DEF NoErrorYet, ExhaustionHonest
<1> QED
  BY <1>6, <1>7, <1>8

LEMMA StepEndOfEvents == IInv /\ EndOfEvents => IInv'
<1> SUFFICES ASSUME IInv, EndOfEvents PROVE IInv'
  OBVIOUS
<1> USE DEF IInv, EndOfEvents, config, ledger
<1>1. OnChain /\ CalledExactly(Walked)
  BY DEF Progress
<1>2. Current \in Keys
  BY <1>1, CurrentWalked DEF TypeOK
<1>3. out' \in Seq(ChunkSet(Keys)) /\ \A i \in DOMAIN out' : out'[i].type # "ERROR"
  BY <1>2, EmitTextKeeps DEF TypeOK
<1>4. TypeOK'
  BY <1>3 DEF TypeOK
<1>5. Progress'
  BY <1>1, LoopUnmoved DEF Progress
<1>6. NoErrorYet' /\ ExhaustionHonest' /\ OncePerProvider'
  BY <1>3, LoopUnmoved DEF NoErrorYet, ExhaustionHonest
<1> QED
  BY <1>4, <1>5, <1>6

LEMMA StepComplete == IInv /\ Complete => IInv'
<1> SUFFICES ASSUME IInv, Complete PROVE IInv'
  OBVIOUS
<1> USE DEF IInv, Complete, config, ledger
<1>1. OnChain
  BY DEF Progress
<1>2. Current \in Keys
  BY <1>1, CurrentWalked DEF TypeOK
<1>3. /\ CompleteChunk(Current) \in ChunkSet(Keys)
      /\ CompleteChunk(Current).type # "ERROR"
  <2>1. <<>> \in Seq(1..MaxFed) /\ 0 \in Nat
    OBVIOUS
  <2> QED
    BY <1>2, <2>1, ChunkTypes, ChunkKinds
<1>4. out' \in Seq(ChunkSet(Keys)) /\ \A i \in DOMAIN out' : out'[i].type # "ERROR"
  BY <1>3, SendNoError DEF TypeOK, NoErrorYet
<1>5. TypeOK'
  BY <1>4 DEF TypeOK
<1>6. Progress' /\ NoErrorYet' /\ OncePerProvider'
  BY LoopUnmoved DEF Progress, NoErrorYet
<1>7. ExhaustionHonest'
  BY <1>4 DEF ExhaustionHonest
<1> QED
  BY <1>5, <1>6, <1>7

LEMMA StepRaise == IInv /\ Raise => IInv'
<1> SUFFICES ASSUME IInv, Raise PROVE IInv'
  OBVIOUS
<1> USE DEF IInv, Raise, config, ledger
<1>1. OnChain /\ CalledExactly(Walked)
  BY DEF Progress
<1>2. Current \in Keys
  BY <1>1, CurrentWalked DEF TypeOK
<1>3. NoErrorYet' /\ ExhaustionHonest' /\ OncePerProvider'
  BY DEF NoErrorYet, ExhaustionHonest, OncePerProvider
<1>4. CASE idx' \in Rest(idx) /\ (\A i \in Rest(idx) : idx' <= i) /\ pc' = "attempt"
  <2>1. OnChain' /\ Current' \notin Walked /\ Walked' = Walked \cup {Current'}
    BY <1>1, <1>4, NextEntry
  <2>2. TypeOK'
    BY <1>2, <1>4 DEF TypeOK, Rest
  <2>3. (Walked \ {Current})' = Walked
    BY <2>1
  <2>4. Progress'
    BY <1>1, <1>4, <2>1, <2>3 DEF Progress, CalledExactly
  <2> QED
    BY <1>3, <2>2, <2>4
<1>5. CASE Rest(idx) = {} /\ idx' = idx /\ pc' = "exhausted"
  <2>1. TypeOK'
    BY <1>2, <1>5 DEF TypeOK
  <2>2. Progress'
    BY <1>1, <1>5, LoopUnmoved DEF Progress
  <2> QED
    BY <1>3, <2>1, <2>2
<1> QED
  BY <1>4, <1>5

LEMMA StepGiveUp == IInv /\ GiveUp => IInv'
<1> SUFFICES ASSUME IInv, GiveUp PROVE IInv'
  OBVIOUS
<1> USE DEF IInv, GiveUp, config, ledger
<1>1. \A k \in registered : llmCalls[k] > 0
  <2>1. CASE registered = {}
    BY <2>1
  <2>2. CASE OnChain /\ Rest(idx) = {} /\ CalledExactly(Walked)
    <3>1. Walked = registered
      BY <2>2, ChainComplete
    <3> QED
      BY <2>2, <3>1 DEF CalledExactly, TypeOK
  <2> QED
    BY <2>1, <2>2 DEF Progress
<1>2. Current \in Keys \cup {None}
  <2>1. CASE OnChain
    BY <2>1, CurrentWalked DEF TypeOK
  <2>2. CASE preferred = None /\ idx = 0
    BY <2>2 DEF Current
  <2> QED
    BY <2>1, <2>2 DEF Progress
<1>3. ErrorChunk(Current) \in ChunkSet(Keys)
  BY <1>2, <<>> \in Seq(1..MaxFed), <<>> \in Seq(Nat)
     DEF ChunkSet, Chunk, ErrorChunk, TerminalTypes
<1>4. /\ out' \in Seq(ChunkSet(Keys)) /\ Len(out') = Len(out) + 1
      /\ \A i \in 1..Len(out) : out'[i] = out[i]
  BY <1>3 DEF TypeOK
<1>5. TypeOK'
  BY <1>4 DEF TypeOK
<1>6. Progress' /\ NoErrorYet' /\ OncePerProvider'
  BY LoopUnmoved DEF Progress, NoErrorYet
<1>7. ExhaustionHonest'
  <2> SUFFICES ASSUME NEW i \in DOMAIN out', out'[i].type = "ERROR"
               PROVE  i = Len(out')
    BY <1>1 DEF ExhaustionHonest
  <2>1. i \in 1..Len(out) \/ i = Len(out')
    BY <1>4
  <2>2. i \notin 1..Len(out)
    BY <1>4 DEF NoErrorYet, TypeOK
  <2> QED
    BY <2>1, <2>2
<1> QED
  BY <1>5, <1>6, <1>7

LEMMA StepClose == IInv /\ Close => IInv'
<1> SUFFICES ASSUME IInv, Close PROVE IInv'
  OBVIOUS
<1> USE DEF IInv, Close, config, ledger
<1>1. TypeOK' /\ Progress'
  BY DEF TypeOK, Progress
<1>2. NoErrorYet' /\ ExhaustionHonest' /\ OncePerProvider'
  BY DEF NoErrorYet, ExhaustionHonest, OncePerProvider
<1> QED
  BY <1>1, <1>2

LEMMA NextIInv == IInv /\ [Next]_vars => IInv'
<1> SUFFICES ASSUME IInv, [Next]_vars PROVE IInv'
  OBVIOUS
<1>1. CASE UNCHANGED vars
  <2>1. TypeOK' /\ Progress' /\ NoErrorYet' /\ OncePerProvider' /\ ExhaustionHonest'
    BY <1>1 DEF IInv, TypeOK, Progress, NoErrorYet, OncePerProvider,
                ExhaustionHonest, OnChain, CalledExactly, Walked, Rest, Current,
                vars, config, ledger
  <2> QED
    BY <2>1 DEF IInv
<1>2. CASE Next
  BY <1>2, StepChoosePreferred, StepFailover, StepCallLLM, StepToken,
     StepToolResult, StepEndOfEvents, StepRaise, StepComplete, StepGiveUp,
     StepClose
     DEF Next, Step
<1> QED
  BY <1>1, <1>2

-----------------------------------------------------------------------------
(***************************************************************************)
(* The ledger of failovers                                                 *)
(***************************************************************************)
(* The FAILOVER chunks sent that name provider k.                          *)
Blamed(k) == {i \in DOMAIN out : out[i].type = "FAILOVER" /\ out[i].by = k}

(* Exactly the providers of S have been counted as failed over, each once. *)
FailedExactly(S) == \A k \in Keys : failovers[k] = IF k \in S THEN 1 ELSE 0

(* Of the chain walked so far, all have been counted but the one in hand   *)
(* and, before the switch to it is announced, the one before it.           *)
Failures ==
  /\ pc = "start" => prev = None /\ FailedExactly({})
  /\ pc = "attempt" =>
       \/ prev = None /\ idx = 0 /\ FailedExactly({})
       \/ /\ prev \in Walked \ {Current}
          /\ FailedExactly(Walked \ {Current, prev})
  /\ pc \in {"announced", "streaming"} => FailedExactly(Walked \ {Current})

Told == \A k \in Keys : /\ IsFiniteSet(Blamed(k))
                        /\ failovers[k] = Cardinality(Blamed(k))

LedgerInv == Failures /\ Told /\ FailoverLedger

LEMMA InitLedger == Init => LedgerInv
<1> SUFFICES ASSUME Init PROVE LedgerInv
  OBVIOUS
<1>1. Failures
  BY DEF Init, Failures, FailedExactly
<1>2. ASSUME NEW k \in Keys
      PROVE  IsFiniteSet(Blamed(k)) /\ Cardinality(Blamed(k)) = 0
  <2>1. Blamed(k) = {}
    BY DEF Init, Blamed
  <2> QED
    BY <2>1, FS_EmptySet
<1>3. Told /\ FailoverLedger
  BY <1>2 DEF Init, Told, FailoverLedger, Blamed
<1> QED
  BY <1>1, <1>3 DEF LedgerInv

(* Sending adds one place to the stream.                                   *)
LEMMA Sent ==
  ASSUME out \in Seq(ChunkSet(Keys)), NEW c, out' = Append(out, c)
  PROVE  /\ DOMAIN out' = DOMAIN out \cup {Len(out) + 1}
         /\ Len(out) + 1 \notin DOMAIN out
         /\ out'[Len(out) + 1] = c
         /\ \A i \in DOMAIN out : out'[i] = out[i]
<1>1. Len(out) \in Nat /\ DOMAIN out = 1..Len(out)
  OBVIOUS
<1>2. Len(out') = Len(out) + 1 /\ DOMAIN out' = 1..(Len(out) + 1)
  OBVIOUS
<1>3. out'[Len(out) + 1] = c /\ \A i \in DOMAIN out : out'[i] = out[i]
  OBVIOUS
<1> QED
  BY <1>1, <1>2, <1>3

(* A chunk that is not a FAILOVER blames nobody.                           *)
LEMMA SendBlamesNobody ==
  ASSUME out \in Seq(ChunkSet(Keys)), NEW c, c.type # "FAILOVER", NEW k,
         out' = Append(out, c)
  PROVE  Blamed(k)' = Blamed(k)
<1>1. /\ DOMAIN out' = DOMAIN out \cup {Len(out) + 1}
      /\ out'[Len(out) + 1] = c
      /\ \A i \in DOMAIN out : out'[i] = out[i]
  BY Sent
<1> QED
  BY <1>1 DEF Blamed

LEMMA EmitTextBlamesNobody ==
  ASSUME out \in Seq(ChunkSet(Keys)), NEW fragments, EmitText(fragments), NEW k
  PROVE  Blamed(k)' = Blamed(k)
<1>1. CASE fragments = <<>>
  BY <1>1 DEF EmitText, Blamed
<1>2. CASE fragments # <<>>
  <2>1. TextChunk(Current, fragments).type # "FAILOVER"
    BY DEF Chunk, TextChunk
  <2>2. out' = Append(out, TextChunk(Current, fragments))
    BY <1>2 DEF EmitText
  <2> QED
    BY <2>1, <2>2, SendBlamesNobody
<1> QED
  BY <1>1, <1>2

(* What is told stays true in a step that counts no failover.              *)
LEMMA NobodyBlamed ==
  ASSUME LedgerInv, UNCHANGED failovers,
         \A k \in Keys : Blamed(k)' = Blamed(k),
         \A k \in Keys : failovers[k] <= llmCalls'[k]
  PROVE  Told' /\ FailoverLedger'
<1>1. Told'
  BY DEF LedgerInv, Told
<1>2. ASSUME NEW k \in Keys
      PROVE  /\ failovers'[k] <= llmCalls'[k]
             /\ failovers'[k] = Cardinality({i \in DOMAIN out' :
                                  out'[i].type = "FAILOVER" /\ out'[i].by = k})
  BY <1>1 DEF Told, Blamed
<1>3. FailoverLedger'
  BY <1>2 DEF FailoverLedger
<1> QED
  BY <1>1, <1>3

(* A step within an attempt.                                               *)
LEMMA SameAttempt ==
  ASSUME LedgerInv, UNCHANGED <<registered, preferred, idx, prev, llmCalls, failovers>>,
         \A k \in Keys : Blamed(k)' = Blamed(k),
         pc' = pc \/ pc' \notin {"start", "attempt", "announced", "streaming"}
  PROVE  LedgerInv'
<1>1. Current' = Current /\ Walked' = Walked
  BY LoopUnmoved
<1>2. Failures'
  BY <1>1 DEF LedgerInv, Failures, FailedExactly
<1>3. \A k \in Keys : failovers[k] <= llmCalls'[k]
  BY DEF LedgerInv, FailoverLedger
<1>4. Told' /\ FailoverLedger'
  BY <1>3, NobodyBlamed
<1> QED
  BY <1>2, <1>4 DEF LedgerInv

LEMMA LedgerFailover == IInv /\ LedgerInv /\ Failover => LedgerInv'
<1> SUFFICES ASSUME IInv, LedgerInv, Failover PROVE LedgerInv'
  OBVIOUS
<1> USE DEF Failover, config
<1>1. OnChain /\ CalledExactly(Walked \ {Current}) /\ TypeOK
  BY DEF IInv, Progress
<1>2. Walked \subseteq Keys
  BY <1>1, CurrentWalked DEF TypeOK
<1>3. /\ prev \in Walked \ {Current} /\ prev \in Keys /\ prev # None
      /\ FailedExactly(Walked \ {Current, prev})
  <2>1. ~(prev = None /\ idx = 0)
    BY DEF NeedsFailover, Current
  <2>2. /\ prev \in Walked \ {Current}
        /\ FailedExactly(Walked \ {Current, prev})
    BY <2>1 DEF LedgerInv, Failures
  <2> QED
    BY <2>2, <1>2, MapAssumption DEF Keys
<1>4. /\ failovers' = [failovers EXCEPT ![prev] = @ + 1]
      /\ out' = Append(out, FailoverChunk(prev, Current))
  BY <1>3
<1>5. \A k \in Keys : failovers'[k] = IF k = prev THEN failovers[k] + 1 ELSE failovers[k]
  BY <1>4, <1>1 DEF TypeOK
<1>6. Walked' = Walked /\ Current' = Current
  BY LoopUnmoved
<1>7. Failures'
  <2>1. FailedExactly(Walked \ {Current})'
    BY <1>3, <1>5, <1>6 DEF FailedExactly
  <2> QED
    BY <2>1 DEF Failures
<1>8. ASSUME NEW k \in Keys
      PROVE  /\ IsFiniteSet(Blamed(k)') /\ failovers'[k] = Cardinality(Blamed(k)')
             /\ failovers'[k] <= llmCalls'[k]
  <2>1. /\ DOMAIN out' = DOMAIN out \cup {Len(out) + 1} /\ Len(out) + 1 \notin DOMAIN out
        /\ out'[Len(out) + 1] = FailoverChunk(prev, Current)
        /\ \A i \in DOMAIN out : out'[i] = out[i]
    <3>1. out \in Seq(ChunkSet(Keys)) /\ out' = Append(out, FailoverChunk(prev, Current))
      BY <1>1, <1>4 DEF TypeOK
    <3> QED
      BY <3>1, Sent
  <2>2. FailoverChunk(prev, Current).type = "FAILOVER" /\ FailoverChunk(prev, Current).by = prev
    BY DEF Chunk, FailoverChunk
  <2>3. Blamed(k)' = IF k = prev THEN Blamed(k) \cup {Len(out) + 1} ELSE Blamed(k)
    BY <2>1, <2>2 DEF Blamed
  <2>4. Len(out) + 1 \notin Blamed(k)
    BY <2>1 DEF Blamed
  <2>5. IsFiniteSet(Blamed(k)) /\ failovers[k] = Cardinality(Blamed(k))
    BY DEF LedgerInv, Told
  <2>6. IsFiniteSet(Blamed(k)') /\ failovers'[k] = Cardinality(Blamed(k)')
    <3>1. CASE k = prev
      <4>1. /\ IsFiniteSet(Blamed(k) \cup {Len(out) + 1})
            /\ Cardinality(Blamed(k) \cup {Len(out) + 1}) = Cardinality(Blamed(k)) + 1
        BY <2>4, <2>5, FS_AddElement
      <4>2. Blamed(k)' = Blamed(k) \cup {Len(out) + 1}
        BY <2>3, <3>1
      <4>3. failovers'[k] = failovers[k] + 1
        BY <1>5, <3>1
      <4> QED
        BY <4>1, <4>2, <4>3, <2>5
    <3>2. CASE k # prev
      BY <2>3, <2>5, <1>5, <3>2
    <3> QED
      BY <3>1, <3>2
  <2>7. failovers'[k] <= llmCalls'[k]
    <3>1. failovers[k] <= llmCalls[k] /\ llmCalls' = llmCalls
      BY DEF LedgerInv, FailoverLedger
    <3>2. CASE k = prev
      <4>1. failovers[k] = 0 /\ llmCalls[k] = 1
        BY <1>1, <1>3, <3>2 DEF FailedExactly, CalledExactly
      <4> QED
        BY <4>1, <3>1, <3>2, <1>5
    <3>3. CASE k # prev
      BY <3>1, <3>3, <1>5
    <3> QED
      BY <3>2, <3>3
  <2> QED
    BY <2>6, <2>7
<1>9. Told' /\ FailoverLedger'
  BY <1>8 DEF Told, FailoverLedger, Blamed
<1> QED
  BY <1>7, <1>9 DEF LedgerInv

LEMMA LedgerCallLLM == IInv /\ LedgerInv /\ CallLLM => LedgerInv'
<1> SUFFICES ASSUME IInv, LedgerInv, CallLLM PROVE LedgerInv'
  OBVIOUS
<1> USE DEF CallLLM, config
<1>1. OnChain /\ TypeOK
  BY DEF IInv, Progress
<1>2. Current' = Current /\ Walked' = Walked
  BY DEF Current, Walked
<1>3. FailedExactly(Walked \ {Current})
  <2>1. CASE pc = "announced"
    BY <2>1 DEF LedgerInv, Failures
  <2>2. CASE pc = "attempt" /\ ~NeedsFailover
    <3>1. prev = None
      BY <2>2 DEF NeedsFailover
    <3>2. None \notin Walked
      BY <1>1, CurrentWalked, MapAssumption DEF TypeOK, Keys
    <3>3. idx = 0 /\ FailedExactly({})
      BY <2>2, <3>1, <3>2 DEF LedgerInv, Failures
    <3>4. Walked = {preferred} /\ Current = preferred
      BY <3>3, MapDomain DEF Walked, Current
    <3>5. Walked \ {Current} = {}
      BY <3>4
    <3> QED
      BY <3>3, <3>5
  <2> QED
    BY <2>1, <2>2
<1>4. Failures'
  BY <1>2, <1>3 DEF Failures, FailedExactly
<1>5. \A k \in Keys : Blamed(k)' = Blamed(k)
  BY DEF Blamed
<1>6. ASSUME NEW k \in Keys
      PROVE  failovers[k] <= llmCalls'[k]
  <2>1. failovers[k] <= llmCalls[k] /\ failovers[k] \in Nat /\ llmCalls[k] \in Nat
    BY <1>1 DEF LedgerInv, FailoverLedger, TypeOK
  <2>2. llmCalls'[k] = llmCalls[k] \/ llmCalls'[k] = llmCalls[k] + 1
    BY <1>1 DEF TypeOK
  <2> QED
    BY <2>1, <2>2
<1>7. Told' /\ FailoverLedger'
  BY <1>5, <1>6, NobodyBlamed
<1> QED
  BY <1>4, <1>7 DEF LedgerInv

LEMMA LedgerRaise == IInv /\ LedgerInv /\ Raise => LedgerInv'
<1> SUFFICES ASSUME IInv, LedgerInv, Raise PROVE LedgerInv'
  OBVIOUS
<1> USE DEF Raise, config, ledger
<1>1. OnChain /\ TypeOK
  BY DEF IInv, Progress
<1>2. Current \in Walked
  BY <1>1, CurrentWalked
<1>3. FailedExactly(Walked \ {Current})
  BY DEF LedgerInv, Failures
<1>4. Failures'
  <2>1. CASE idx' \in Rest(idx) /\ (\A i \in Rest(idx) : idx' <= i) /\ pc' = "attempt"
    <3>1. Current' \notin Walked /\ Walked' = Walked \cup {Current'}
      BY <1>1, <2>1, NextEntry
    <3>2. prev' \in Walked' \ {Current'}
      BY <1>2, <3>1
    <3>3. Walked' \ {Current', prev'} = Walked \ {Current}
      BY <3>1
    <3>4. FailedExactly(Walked \ {Current, prev})'
      BY <1>3, <3>3 DEF FailedExactly
    <3> QED
      BY <2>1, <3>2, <3>4 DEF Failures
  <2>2. CASE pc' = "exhausted"
    BY <2>2 DEF Failures
  <2> QED
    BY <2>1, <2>2
<1>5. \A k \in Keys : Blamed(k)' = Blamed(k) /\ failovers[k] <= llmCalls'[k]
  BY DEF Blamed, LedgerInv, FailoverLedger
<1>6. Told' /\ FailoverLedger'
  BY <1>5, NobodyBlamed
<1> QED
  BY <1>4, <1>6 DEF LedgerInv

LEMMA LedgerChoosePreferred == IInv /\ LedgerInv /\ ChoosePreferred => LedgerInv'
<1> SUFFICES ASSUME IInv, LedgerInv, ChoosePreferred PROVE LedgerInv'
  OBVIOUS
<1> USE DEF ChoosePreferred, config, ledger
<1>1. Failures'
  BY DEF IInv, Progress, LedgerInv, Failures, FailedExactly
<1>2. \A k \in Keys : Blamed(k)' = Blamed(k) /\ failovers[k] <= llmCalls'[k]
  BY DEF Blamed, LedgerInv, FailoverLedger
<1>3. Told' /\ FailoverLedger'
  BY <1>2, NobodyBlamed
<1> QED
  BY <1>1, <1>3 DEF LedgerInv

LEMMA LedgerNext == IInv /\ LedgerInv /\ [Next]_vars => LedgerInv'
<1> SUFFICES ASSUME IInv, LedgerInv, [Next]_vars PROVE LedgerInv'
  OBVIOUS
<1> USE DEF config, ledger
<1>0. out \in Seq(ChunkSet(Keys))
  BY DEF IInv, TypeOK
<1>1. CASE UNCHANGED vars
  <2>1. UNCHANGED <<registered, preferred, idx, prev, llmCalls, failovers, pc, out>>
    BY <1>1 DEF vars
  <2>2. \A k \in Keys : Blamed(k)' = Blamed(k)
    BY <2>1 DEF Blamed
  <2> QED
    BY <2>1, <2>2, SameAttempt
<1>2. CASE Token
  <2>1. \A k \in Keys : Blamed(k)' = Blamed(k)
    <3> SUFFICES ASSUME NEW k \in Keys PROVE Blamed(k)' = Blamed(k)
      OBVIOUS
    <3>1. (\E fragments : EmitText(fragments)) \/ UNCHANGED out
      BY <1>2 DEF Token
    <3>2. CASE UNCHANGED out
      BY <3>2 DEF Blamed
    <3> QED
      BY <1>0, <3>1, <3>2, EmitTextBlamesNobody
  <2>2. UNCHANGED <<registered, preferred, idx, prev, llmCalls, failovers, pc>>
    BY <1>2 DEF Token
  <2> QED
    BY <2>1, <2>2, SameAttempt
<1>3. CASE ToolResult
  <2>1. ToolResultChunk(Current, fed').type # "FAILOVER"
    BY DEF Chunk, ToolResultChunk
  <2>2. \A k \in Keys : Blamed(k)' = Blamed(k)
    BY <1>0, <1>3, <2>1, SendBlamesNobody DEF ToolResult
  <2>3. UNCHANGED <<registered, preferred, idx, prev, llmCalls, failovers, pc>>
    BY <1>3 DEF ToolResult
  <2> QED
    BY <2>2, <2>3, SameAttempt
<1>4. CASE EndOfEvents
  <2>1. \A k \in Keys : Blamed(k)' = Blamed(k)
    BY <1>0, <1>4, EmitTextBlamesNobody DEF EndOfEvents
  <2>2. /\ UNCHANGED <<registered, preferred, idx, prev, llmCalls, failovers>>
        /\ pc' \notin {"start", "attempt", "announced", "streaming"}
    BY <1>4 DEF EndOfEvents
  <2> QED
    BY <2>1, <2>2, SameAttempt
<1>5. CASE Complete
  <2>1. CompleteChunk(Current).type # "FAILOVER"
    BY DEF Chunk, CompleteChunk
  <2>2. \A k \in Keys : Blamed(k)' = Blamed(k)
    BY <1>0, <1>5, <2>1, SendBlamesNobody DEF Complete
  <2>3. /\ UNCHANGED <<registered, preferred, idx, prev, llmCalls, failovers>>
        /\ pc' \notin {"start", "attempt", "announced", "streaming"}
    BY <1>5 DEF Complete
  <2> QED
    BY <2>2, <2>3, SameAttempt
<1>6. CASE GiveUp
  <2>1. ErrorChunk(Current).type # "FAILOVER"
    BY DEF Chunk, ErrorChunk
  <2>2. \A k \in Keys : Blamed(k)' = Blamed(k)
    BY <1>0, <1>6, <2>1, SendBlamesNobody DEF GiveUp
  <2>3. /\ UNCHANGED <<registered, preferred, idx, prev, llmCalls, failovers>>
        /\ pc' \notin {"start", "attempt", "announced", "streaming"}
    BY <1>6 DEF GiveUp
  <2> QED
    BY <2>2, <2>3, SameAttempt
<1>7. CASE Close
  <2>1. /\ UNCHANGED <<registered, preferred, idx, prev, llmCalls, failovers, out>>
        /\ pc' \notin {"start", "attempt", "announced", "streaming"}
    BY <1>7 DEF Close
  <2>2. \A k \in Keys : Blamed(k)' = Blamed(k)
    BY <2>1 DEF Blamed
  <2> QED
    BY <2>1, <2>2, SameAttempt
<1> QED
  BY <1>1, <1>2, <1>3, <1>4, <1>5, <1>6, <1>7, LedgerChoosePreferred,
     LedgerFailover, LedgerCallLLM, LedgerRaise DEF Next, Step

-----------------------------------------------------------------------------
(* The inductive invariant: in every state the calls made so far are the   *)
(* part of the chain the loop has walked, and no ERROR has been sent       *)
(* before the end (langgraph_processor.py:79-119).                         *)
THEOREM Inductive == Spec => []IInv
BY InitIInv, NextIInv, PTL DEF Spec

(* Every variable keeps its type, for any catalogue and attempts of any    *)
(* length.                                                                 *)
THEOREM TypeCorrect == Spec => []TypeOK
<1>1. IInv => TypeOK
  BY DEF IInv
<1> QED
  BY <1>1, Inductive, PTL

(* However long the catalogue and whatever fails, no provider is called    *)
(* twice for one message (langgraph_processor.py:64, 79-114).              *)
THEOREM CalledOnce == Spec => []OncePerProvider
<1>1. IInv => OncePerProvider
  BY DEF IInv
<1> QED
  BY <1>1, Inductive, PTL

(* An ERROR chunk is the last one, and is only sent when every registered  *)
(* provider has been called (langgraph_processor.py:60-62, 116-119).       *)
THEOREM ErrorIsHonest == Spec => []ExhaustionHonest
<1>1. IInv => ExhaustionHonest
  BY DEF IInv
<1> QED
  BY <1>1, Inductive, PTL

(* However long the catalogue and whatever fails, a provider is counted as *)
(* failed over exactly when the client was told that it was, at most once  *)
(* and only after it was called (langgraph_processor.py:80-92).            *)
THEOREM FailoversTold == Spec => []FailoverLedger
<1>1. LedgerInv => FailoverLedger
  BY DEF LedgerInv
<1>2. Spec => []LedgerInv
  BY InitLedger, LedgerNext, Inductive, PTL DEF Spec
<1> QED
  BY <1>1, <1>2, PTL
-----------------------------------------------------------------------------
(* Which of prev and Current the client last heard of, at each point of    *)
(* the loop: a provider that failed stays the active one until the switch  *)
(* away from it has been announced.                                        *)
Handover ==
  /\ pc = "start" => prev = None
  /\ pc = "attempt" =>
       \/ prev = None /\ idx = 0
       \/ prev \in Keys /\ failovers[prev] = 0
  /\ pc = "announced" => prev # None
  /\ pc \in {"announced", "streaming", "flushed"} =>
       (prev # None => failovers[prev] = 1)
  /\ pc = "exhausted" =>
       /\ prev = Current
       /\ prev # None => failovers[prev] = 0

(* The provider in hand is registered, and not None, once the chain has a  *)
(* head.                                                                   *)
LEMMA InHand ==
  ASSUME IInv, pc \in {"attempt", "announced", "streaming", "flushed"}
  PROVE  /\ Current \in Walked /\ Current \in registered
         /\ Current \in Keys /\ Current # None
         /\ Walked \subseteq Keys
<1>1. TypeOK /\ OnChain
  BY DEF IInv, Progress
<1>2. Current \in Walked /\ Current \in registered /\ Walked \subseteq registered
  BY <1>1, CurrentWalked
<1> QED
  BY <1>1, <1>2, MapAssumption DEF TypeOK

LEMMA HandoverStep ==
  ASSUME IInv, LedgerInv, Handover, [Next]_vars
  PROVE  Handover'
<1>1. CASE ChoosePreferred
  <2>1. CASE preferred' = None
    BY <1>1, <2>1 DEF ChoosePreferred, Handover, Current, IInv, Progress
  <2>2. CASE preferred' # None
    BY <1>1, <2>2 DEF ChoosePreferred, Handover, IInv, Progress
  <2> QED
    BY <2>1, <2>2
<1>2. CASE Failover
  <2>1. pc = "attempt" /\ pc' = "announced" /\ prev' = prev
    BY <1>2 DEF Failover
  <2>2. prev # None
    BY <1>2, <2>1, MapAssumption DEF Handover, Failover, NeedsFailover, Current
  <2>3. prev \in Keys /\ failovers[prev] = 0
    BY <2>1, <2>2 DEF Handover
  <2>4. failovers' = [failovers EXCEPT ![prev] = @ + 1]
    BY <1>2, <2>2 DEF Failover
  <2>5. failovers'[prev] = 1
    BY <2>3, <2>4 DEF IInv, TypeOK
  <2> QED
    BY <2>1, <2>2, <2>5 DEF Handover
<1>3. CASE CallLLM
  <2>1. /\ pc' = "streaming" /\ UNCHANGED <<prev, failovers>>
        /\ pc = "announced" \/ (pc = "attempt" /\ ~NeedsFailover)
    BY <1>3 DEF CallLLM
  <2>2. prev # None => failovers[prev] = 1
    BY <2>1 DEF Handover, NeedsFailover
  <2> QED
    BY <2>1, <2>2 DEF Handover
<1>4. CASE Raise
  <2>1. pc = "streaming" /\ prev' = Current /\ failovers' = failovers
    BY <1>4 DEF Raise, ledger
  <2>2. failovers[Current] = 0 /\ Current \in Keys
    BY <2>1, InHand DEF LedgerInv, Failures, FailedExactly
  <2>3. CASE pc' = "attempt"
    BY <2>1, <2>2, <2>3 DEF Handover
  <2>4. CASE pc' = "exhausted" /\ idx' = idx
    <3>1. Current' = Current
      BY <1>4, <2>4 DEF Raise, Current
    <3> QED
      BY <2>1, <2>2, <2>4, <3>1 DEF Handover
  <2> QED
    BY <1>4, <2>3, <2>4 DEF Raise
<1>5. CASE Token \/ ToolResult \/ EndOfEvents
  <2>1. /\ pc = "streaming" /\ pc' \in {"streaming", "flushed"}
        /\ UNCHANGED <<prev, failovers>>
    BY <1>5 DEF Token, ToolResult, EndOfEvents, ledger
  <2> QED
    BY <2>1 DEF Handover
<1>6. CASE Complete \/ GiveUp \/ Close
  <2>1. pc' \in {"done", "closed"}
    BY <1>6 DEF Complete, GiveUp, Close
  <2> QED
    BY <2>1 DEF Handover
<1>7. CASE UNCHANGED vars
  BY <1>7 DEF vars, config, ledger, Handover, Current
<1> QED
  BY <1>1, <1>2, <1>3, <1>4, <1>5, <1>6, <1>7 DEF Next, Step

(* What Handover says of the abstract active provider.                     *)
ActiveKnown ==
  /\ pc = "start" => AbsActive = None
  /\ pc = "attempt" => AbsActive = prev
  /\ pc \in {"announced", "streaming", "flushed", "exhausted"} =>
       AbsActive = Current

LEMMA ActiveFromHandover == IInv /\ Handover => ActiveKnown
<1> SUFFICES ASSUME IInv, Handover PROVE ActiveKnown
  OBVIOUS
<1>1. ASSUME pc = "start" PROVE AbsActive = None
  <2>1. prev = None /\ \A k \in Keys : llmCalls[k] = 0
    BY <1>1 DEF Handover, IInv, Progress, CalledExactly
  <2> QED
    BY <2>1 DEF AbsActive
<1>2. ASSUME pc = "attempt" PROVE AbsActive = prev
  <2>1. CASE prev # None
    <3>1. failovers[prev] = 0
      BY <1>2, <2>1 DEF Handover
    <3> QED
      BY <2>1, <3>1 DEF AbsActive
  <2>2. CASE prev = None
    <3>1. idx = 0 /\ CalledExactly(Walked \ {Current})
      BY <1>2, <2>2, MapAssumption DEF Handover, IInv, Progress
    <3>2. Walked \ {Current} = {}
      BY <3>1, MapDomain DEF Walked, Current
    <3>3. \A k \in Keys : llmCalls[k] = 0
      BY <3>1, <3>2 DEF CalledExactly
    <3> QED
      BY <2>2, <3>3 DEF AbsActive
  <2> QED
    BY <2>1, <2>2
<1>3. ASSUME pc = "announced" PROVE AbsActive = Current
  <2>1. prev # None /\ failovers[prev] = 1
    BY <1>3 DEF Handover
  <2> QED
    BY <2>1 DEF AbsActive
<1>4. ASSUME pc \in {"streaming", "flushed"} PROVE AbsActive = Current
  <2>1. prev # None => failovers[prev] = 1
    BY <1>4 DEF Handover
  <2>2. Current \in Keys /\ llmCalls[Current] = 1
    BY <1>4, InHand DEF IInv, Progress, CalledExactly
  <2>3. ~(\A k \in Keys : llmCalls[k] = 0)
    BY <2>2
  <2> QED
    BY <2>1, <2>3 DEF AbsActive
<1>5. ASSUME pc = "exhausted" PROVE AbsActive = Current
  <2>1. prev = Current /\ (prev # None => failovers[prev] = 0)
    BY <1>5 DEF Handover
  <2>2. CASE prev # None
    BY <2>1, <2>2 DEF AbsActive
  <2>3. CASE prev = None
    BY <2>1, <2>3 DEF AbsActive
  <2> QED
    BY <2>2, <2>3
<1> QED
  BY <1>1, <1>2, <1>3, <1>4, <1>5 DEF ActiveKnown

(* The providers that were called.                                         *)
CalledOnes == {k \in Keys : llmCalls[k] > 0}

(* The contract's chunks are those of Chunks.                              *)
LEMMA SameChunks ==
  /\ Contract!ContentTypes = ContentTypes
  /\ \A p : /\ Contract!CompleteChunk(p) = CompleteChunk(p)
            /\ Contract!ErrorChunk(p) = ErrorChunk(p)
  /\ \A p, q : Contract!FailoverChunk(p, q) = FailoverChunk(p, q)
BY DEF Contract!ContentTypes, ContentTypes, Contract!CompleteChunk, CompleteChunk,
       Contract!ErrorChunk, ErrorChunk, Contract!FailoverChunk, FailoverChunk,
       Contract!Chunk, Chunk

(* Sending content of the provider in hand is Content.                     *)
LEMMA ContentMaps ==
  ASSUME IInv, ActiveKnown, ActiveKnown', pc = "streaming",
         pc' \in {"streaming", "flushed"},
         UNCHANGED <<registered, preferred, idx, llmCalls>>,
         NEW c, c.type \in ContentTypes, c.by = Current,
         out' = Append(out, c)
  PROVE  Contract!Content
<1>1. AbsActive = Current /\ AbsActive' = Current
  BY DEF ActiveKnown, Current
<1>2. AbsActive # None
  BY <1>1, InHand
<1>3. AbsPhase = "open" /\ AbsPhase' = "open"
  BY DEF AbsPhase
<1>4. AbsSpent' = AbsSpent
  BY <1>1 DEF AbsSpent
<1>5. out'[Len(out) + 1] = c
  BY Sent DEF IInv, TypeOK
<1>6. Len(out') = Len(out) + 1
  BY DEF IInv, TypeOK
<1> QED
  BY <1>1, <1>2, <1>3, <1>4, <1>5, <1>6, SameChunks DEF Contract!Content

(* A step that sends nothing and leaves the active provider in hand.       *)
LEMMA SilentMaps ==
  ASSUME UNCHANGED <<registered, out>>, AbsPhase' = AbsPhase,
         AbsActive' = AbsActive, AbsSpent' = AbsSpent
  PROVE  UNCHANGED Contract!vars
BY DEF Contract!vars

LEMMA TextMaps ==
  ASSUME IInv, ActiveKnown, ActiveKnown', pc = "streaming",
         pc' \in {"streaming", "flushed"},
         UNCHANGED <<registered, preferred, idx, llmCalls>>,
         NEW fragments, EmitText(fragments)
  PROVE  [Contract!Next]_(Contract!vars)
<1>1. CASE fragments = <<>>
  <2>1. out' = out
    BY <1>1 DEF EmitText
  <2>2. AbsActive' = AbsActive
    BY DEF ActiveKnown, Current
  <2>3. AbsPhase' = AbsPhase /\ AbsSpent' = AbsSpent
    BY <2>2 DEF AbsPhase, AbsSpent
  <2> QED
    BY <2>1, <2>2, <2>3, SilentMaps
<1>2. CASE fragments # <<>>
  <2>1. PICK c : c = TextChunk(Current, fragments)
    OBVIOUS
  <2>2. out' = Append(out, c)
    BY <1>2, <2>1 DEF EmitText
  <2>3. c.type \in ContentTypes /\ c.by = Current
    BY <2>1 DEF TextChunk, Chunk, ContentTypes
  <2>4. Contract!Content
    BY <2>2, <2>3, ContentMaps
  <2> QED
    BY <2>4 DEF Contract!Next
<1> QED
  BY <1>1, <1>2

(* The first provider is called, unannounced: Begin.  A call that was      *)
(* announced changes nothing the client knows of.                          *)
LEMMA CallMaps ==
  ASSUME IInv, Handover, ActiveKnown, ActiveKnown', CallLLM
  PROVE  [Contract!Next]_(Contract!vars)
<1>1. /\ pc = "announced" \/ (pc = "attempt" /\ ~NeedsFailover)
      /\ pc' = "streaming" /\ Current' = Current
      /\ llmCalls' = [llmCalls EXCEPT ![Current] = @ + 1]
      /\ UNCHANGED <<registered, out>>
  BY DEF CallLLM, config, Current
<1>2. Current \in Keys /\ Current \in registered /\ Current # None
  BY <1>1, InHand
<1>3. AbsActive' = Current
  BY <1>1 DEF ActiveKnown
<1>4. CalledOnes' = CalledOnes \cup {Current}
  BY <1>1, <1>2 DEF CalledOnes, IInv, TypeOK
<1>5. AbsSpent' = CalledOnes \ {Current}
  BY <1>3, <1>4 DEF AbsSpent, CalledOnes
<1>6. AbsPhase = "open" /\ AbsPhase' = "open"
  BY <1>1 DEF AbsPhase
<1>7. CASE pc = "announced"
  <2>1. AbsActive = Current
    BY <1>7 DEF ActiveKnown
  <2>2. AbsSpent = CalledOnes \ {Current}
    BY <2>1 DEF AbsSpent, CalledOnes
  <2> QED
    BY <1>1, <1>3, <1>5, <1>6, <2>1, <2>2, SilentMaps
<1>8. CASE pc = "attempt" /\ ~NeedsFailover
  <2>1. prev = None /\ AbsActive = None
    BY <1>8 DEF NeedsFailover, ActiveKnown
  <2>2. idx = 0 /\ CalledExactly(Walked \ {Current})
    BY <1>8, <2>1, MapAssumption DEF Handover, IInv, Progress
  <2>3. Walked \ {Current} = {}
    BY <2>2, MapDomain DEF Walked, Current
  <2>4. CalledOnes = {}
    BY <2>2, <2>3 DEF CalledOnes, CalledExactly
  <2>5. AbsSpent = {} /\ AbsSpent' = {}
    BY <1>5, <2>4 DEF AbsSpent, CalledOnes
  <2>6. Contract!Begin
    BY <1>1, <1>2, <1>3, <1>6, <2>1, <2>5 DEF Contract!Begin
  <2> QED
    BY <2>6 DEF Contract!Next
<1> QED
  BY <1>1, <1>7, <1>8

(* An announced failover is Switch: it gives up the provider that failed   *)
(* for one that was never called.                                          *)
LEMMA FailoverMaps ==
  ASSUME IInv, LedgerInv, Handover, ActiveKnown, ActiveKnown', Failover
  PROVE  Contract!Switch
<1>1. /\ pc = "attempt" /\ pc' = "announced" /\ Current' = Current
      /\ UNCHANGED <<registered, llmCalls>>
  BY DEF Failover, config, Current
<1>2. prev # None
  BY <1>1, MapAssumption DEF Handover, Failover, NeedsFailover, Current
<1>3. prev \in Keys
  BY <1>1, <1>2 DEF Handover
<1>4. AbsActive = prev /\ AbsActive' = Current
  BY <1>1 DEF ActiveKnown
<1>5. Current \in Keys /\ Current \in registered
  BY <1>1, InHand
<1>6. llmCalls[Current] = 0
  BY <1>1, <1>5 DEF IInv, Progress, CalledExactly
<1>7. Current \notin CalledOnes
  BY <1>6 DEF CalledOnes
<1>8. prev \in CalledOnes
  <2>1. prev \in Walked \ {Current} /\ CalledExactly(Walked \ {Current})
    BY <1>1, <1>2 DEF LedgerInv, Failures, IInv, Progress
  <2> QED
    BY <1>3, <2>1 DEF CalledExactly, CalledOnes
<1>9. AbsSpent' = CalledOnes /\ AbsSpent = CalledOnes \ {prev}
  BY <1>1, <1>4, <1>7 DEF AbsSpent, CalledOnes
<1>10. AbsSpent' = AbsSpent \cup {AbsActive}
  BY <1>4, <1>8, <1>9
<1>11. out' = Append(out, FailoverChunk(AbsActive, AbsActive'))
  BY <1>2, <1>4 DEF Failover
<1>12. AbsPhase = "open" /\ AbsPhase' = "open"
  BY <1>1 DEF AbsPhase
<1>13. AbsActive' \in registered \ AbsSpent'
  BY <1>4, <1>5, <1>7, <1>9
<1> QED
  BY <1>1, <1>2, <1>4, <1>10, <1>11, <1>12, <1>13, SameChunks DEF Contract!Switch

(* The end of the stream.                                                  *)
LEMMA EndMaps ==
  ASSUME IInv, ActiveKnown, Complete \/ GiveUp
  PROVE  Contract!Complete \/ Contract!Error
<1>1. /\ pc \in {"flushed", "exhausted"} /\ pc' = "done"
      /\ UNCHANGED <<config, preferred, idx, prev, ledger>>
  BY DEF Complete, GiveUp
<1>2. AbsActive = Current /\ AbsActive' = AbsActive /\ AbsSpent' = AbsSpent
  BY <1>1 DEF ActiveKnown, AbsActive, AbsSpent, Current, ledger
<1>3. AbsPhase = "open" /\ registered' = registered
  BY <1>1 DEF AbsPhase, config
<1>4. CASE Complete
  <2>1. PICK c : c = CompleteChunk(Current)
    OBVIOUS
  <2>2. c.type = "STATUS"
    BY <2>1 DEF CompleteChunk, Chunk
  <2>3. out' = Append(out, c)
    BY <1>4, <2>1 DEF Complete
  <2>4. Last(out') = c
    BY <2>3 DEF Last, IInv, TypeOK
  <2>5. AbsPhase' = "complete"
    BY <1>1, <2>2, <2>4 DEF AbsPhase
  <2>6. AbsActive # None
    BY <1>2, <1>4, InHand DEF Complete
  <2> QED
    BY <1>2, <1>3, <2>1, <2>3, <2>5, <2>6, SameChunks
    DEF Contract!Complete
<1>5. CASE GiveUp
  <2>1. PICK c : c = ErrorChunk(Current)
    OBVIOUS
  <2>2. c.type = "ERROR"
    BY <2>1 DEF ErrorChunk, Chunk
  <2>3. out' = Append(out, c)
    BY <1>5, <2>1 DEF GiveUp
  <2>4. Last(out') = c
    BY <2>3 DEF Last, IInv, TypeOK
  <2>5. AbsPhase' = "error"
    BY <1>1, <2>2, <2>4 DEF AbsPhase
  <2>6. registered \subseteq CalledOnes
    <3>1. CASE registered = {}
      BY <3>1
    <3>2. CASE OnChain /\ Rest(idx) = {} /\ CalledExactly(Walked)
      <4>1. Walked = registered
        BY <3>2, ChainComplete DEF IInv
      <4> QED
        BY <3>2, <4>1 DEF CalledExactly, CalledOnes, IInv, TypeOK
    <3> QED
      BY <1>5, <3>1, <3>2 DEF GiveUp, IInv, Progress
  <2>7. registered \subseteq AbsSpent \cup {AbsActive}
    BY <2>6 DEF AbsSpent, CalledOnes
  <2> QED
    BY <1>2, <1>3, <2>1, <2>3, <2>5, <2>7, SameChunks
    DEF Contract!Error
<1> QED
  BY <1>4, <1>5

(* Every step of the generator is one the contract allows.                 *)
LEMMA StepMaps ==
  ASSUME IInv, LedgerInv, Handover, ActiveKnown, ActiveKnown',
         [Next]_vars
  PROVE  [Contract!Next]_(Contract!vars)
<1>1. CASE ChoosePreferred
  <2>1. pc = "start" /\ pc' \in {"attempt", "exhausted"}
    BY <1>1 DEF ChoosePreferred
  <2>2. AbsActive = None /\ prev' = None
    BY <1>1, <2>1 DEF ActiveKnown, Handover, ChoosePreferred
  <2>3. AbsActive' = None
    <3>1. CASE preferred' = None
      BY <1>1, <3>1 DEF ChoosePreferred, ActiveKnown, Current, IInv, Progress
    <3>2. CASE preferred' # None
      BY <1>1, <2>2, <3>2 DEF ChoosePreferred, ActiveKnown
    <3> QED
      BY <3>1, <3>2
  <2>4. AbsPhase' = AbsPhase
    BY <2>1 DEF AbsPhase
  <2>5. AbsSpent' = AbsSpent /\ UNCHANGED <<registered, out>>
    BY <1>1, <2>2, <2>3 DEF ChoosePreferred, AbsSpent, config, ledger
  <2> QED
    BY <2>2, <2>3, <2>4, <2>5, SilentMaps
<1>2. CASE Failover
  BY <1>2, FailoverMaps DEF Contract!Next
<1>3. CASE CallLLM
  BY <1>3, CallMaps
<1>4. CASE Token
  <2>1. /\ pc = "streaming" /\ pc' = "streaming"
        /\ UNCHANGED <<registered, preferred, idx, llmCalls>>
    BY <1>4 DEF Token, config, ledger
  <2>2. \/ \E fragments : EmitText(fragments)
        \/ out' = out
    BY <1>4 DEF Token
  <2>3. CASE out' = out
    <3>1. EmitText(<<>>)
      BY <2>3 DEF EmitText
    <3> QED
      BY <2>1, <3>1, TextMaps
  <2> QED
    BY <2>1, <2>2, <2>3, TextMaps
<1>5. CASE ToolResult
  <2>1. /\ pc = "streaming" /\ pc' = "streaming"
        /\ UNCHANGED <<registered, preferred, idx, llmCalls>>
    BY <1>5 DEF ToolResult, config, ledger
  <2>2. PICK c : c = ToolResultChunk(Current, fed')
    OBVIOUS
  <2>3. c.type \in ContentTypes /\ c.by = Current
    BY <2>2 DEF ToolResultChunk, Chunk, ContentTypes
  <2>4. out' = Append(out, c)
    BY <1>5, <2>2 DEF ToolResult
  <2> QED
    BY <2>1, <2>3, <2>4, ContentMaps DEF Contract!Next
<1>6. CASE EndOfEvents
  <2>1. /\ pc = "streaming" /\ pc' = "flushed"
        /\ UNCHANGED <<registered, preferred, idx, llmCalls>>
        /\ EmitText(buffer)
    BY <1>6 DEF EndOfEvents, config, ledger
  <2> QED
    BY <2>1, TextMaps
<1>7. CASE Complete \/ GiveUp
  BY <1>7, EndMaps DEF Contract!Next
<1>8. CASE Raise
  <2>1. /\ pc = "streaming" /\ pc' \in {"attempt", "exhausted"}
        /\ prev' = Current /\ UNCHANGED <<registered, out, llmCalls>>
    BY <1>8 DEF Raise, config, ledger
  <2>2. AbsActive = Current
    BY <2>1 DEF ActiveKnown
  <2>3. AbsActive' = Current
    <3>1. CASE pc' = "attempt"
      BY <2>1, <3>1 DEF ActiveKnown
    <3>2. CASE pc' = "exhausted"
      <4>1. Current' = Current
        BY <1>8, <3>2 DEF Raise, Current
      <4> QED
        BY <3>2, <4>1 DEF ActiveKnown
    <3> QED
      BY <2>1, <3>1, <3>2
  <2>4. AbsPhase' = AbsPhase /\ AbsSpent' = AbsSpent
    BY <2>1, <2>2, <2>3 DEF AbsPhase, AbsSpent
  <2> QED
    BY <2>1, <2>2, <2>3, <2>4, SilentMaps
<1>9. CASE Close
  <2>1. /\ pc \notin {"done", "closed"} /\ pc' = "closed"
        /\ UNCHANGED <<config, preferred, idx, prev, out, ledger>>
    BY <1>9 DEF Close
  <2>2. AbsActive' = AbsActive /\ AbsSpent' = AbsSpent
    BY <2>1 DEF AbsActive, AbsSpent, Current, ledger
  <2>3. AbsPhase = "open" /\ AbsPhase' = "abandoned"
    BY <2>1 DEF AbsPhase
  <2>4. Contract!Abandon
    BY <2>1, <2>2, <2>3 DEF Contract!Abandon, config
  <2> QED
    BY <2>4 DEF Contract!Next
<1>10. CASE UNCHANGED vars
  <2>1. AbsActive' = AbsActive /\ AbsSpent' = AbsSpent /\ AbsPhase' = AbsPhase
    BY <1>10 DEF vars, config, ledger, AbsActive, AbsSpent, AbsPhase, Current
  <2> QED
    BY <1>10, <2>1, SilentMaps DEF vars, config
<1> QED
  BY <1>1, <1>2, <1>3, <1>4, <1>5, <1>6, <1>7, <1>8, <1>9, <1>10 DEF Next, Step

(* Whatever the catalogue and whatever fails, what the client receives is  *)
(* a stream ChunkStream allows: one active provider at a time, every       *)
(* switch announced and to a provider not used before, nothing after the   *)
(* end (langgraph_processor.py:50-119, base_processor.py).                 *)
THEOREM ContractIsKept == Spec => ContractHolds
<1>1. Init => Contract!Init /\ Handover
  <2> SUFFICES ASSUME Init PROVE Contract!Init /\ Handover
    OBVIOUS
  <2>1. AbsActive = None /\ AbsPhase = "open"
    BY DEF Init, AbsActive, AbsPhase
  <2>2. AbsSpent = {}
    BY DEF Init, AbsSpent
  <2>3. registered \subseteq Keys
    BY DEF Init, BuildProviders
  <2> QED
    BY <2>1, <2>2, <2>3 DEF Init, Contract!Init, Handover
<1>2. Spec => []LedgerInv
  BY InitLedger, LedgerNext, Inductive, PTL DEF Spec
<1>3. IInv /\ LedgerInv /\ Handover /\ [Next]_vars => Handover'
  BY HandoverStep
<1>4. Spec => []Handover
  BY <1>1, <1>2, <1>3, Inductive, PTL DEF Spec
<1>5. IInv /\ LedgerInv /\ Handover /\ ActiveKnown /\ ActiveKnown' /\ [Next]_vars
        => [Contract!Next]_(Contract!vars)
  BY StepMaps
<1> QED
  BY <1>1, <1>2, <1>4, <1>5, Inductive, ActiveFromHandover, PTL
  DEF Spec, ContractHolds, Contract!Spec

-----------------------------------------------------------------------------
(* Whoever is heard of in a content chunk has been called.                 *)
Spoken ==
  \A i \in DOMAIN out :
    out[i].type \in ContentTypes =>
      out[i].by \in Keys /\ llmCalls[out[i].by] > 0

(* With held still to come, the attempt's chunks are what the model wrote. *)
OfModel(held) ==
  /\ InOrder(Said({"TEXT"})) /\ Increasing(held)
  /\ \A i \in Said({"TEXT"}) : Precedes(out[i].body, held)
  /\ Fragments(Said(ContentTypes)) \cup ToSet(held) = 1..fed

(* A tool result that a text has followed has overtaken nothing of what is *)
(* still held: the sentence it overtook ended with that text.              *)
Overtaken(held) ==
  \A i \in Said({"TOOL_RESULT"}) : \A j \in Said({"TEXT"}) :
    i < j => Precedes(out[i].body, held)

Transparent == mode = "RAW" => InOrder(Said(ContentTypes))

Buffering ==
  /\ Spoken
  /\ ToolOvertakesOneSentence
  /\ pc = "streaming" =>
       /\ OfModel(buffer) /\ Overtaken(buffer) /\ Transparent
       /\ mode = "RAW" => buffer = <<>>
  /\ pc = "flushed" \/ Succeeded => OfModel(<<>>) /\ Transparent

-----------------------------------------------------------------------------
(* The elements of the sequences that are built here.                      *)
LEMMA SetsOf ==
  /\ ToSet(<<>>) = {}
  /\ \A n : ToSet(<<n>>) = {n}
  /\ \A m, n : ToSet(<<m, n>>) = {m, n}
<1>1. ToSet(<<>>) = {}
  BY DEF ToSet
<1>2. ASSUME NEW n PROVE ToSet(<<n>>) = {n}
  BY DEF ToSet
<1>3. ASSUME NEW m, NEW n PROVE ToSet(<<m, n>>) = {m, n}
  <2>1. DOMAIN <<m, n>> = {1, 2} /\ <<m, n>>[1] = m /\ <<m, n>>[2] = n
    OBVIOUS
  <2> QED
    BY <2>1 DEF ToSet
<1> QED
  BY <1>1, <1>2, <1>3

LEMMA SmallOnes ==
  /\ Increasing(<<>>)
  /\ \A n : Increasing(<<n>>)
  /\ \A n \in Nat : Increasing(<<n, n + 1>>)
  /\ \A t : Precedes(<<>>, t) /\ Precedes(t, <<>>)
<1>1. Increasing(<<>>)
  BY DEF Increasing
<1>2. ASSUME NEW n PROVE Increasing(<<n>>)
  BY DEF Increasing
<1>3. ASSUME NEW n \in Nat PROVE Increasing(<<n, n + 1>>)
  <2>1. DOMAIN <<n, n + 1>> = {1, 2}
    OBVIOUS
  <2>2. <<n, n + 1>>[1] < <<n, n + 1>>[2]
    OBVIOUS
  <2>3. ASSUME NEW i \in {1, 2}, NEW j \in {1, 2}, i < j PROVE i = 1 /\ j = 2
    BY <2>3
  <2> QED
    BY <2>1, <2>2, <2>3 DEF Increasing
<1>4. ASSUME NEW t PROVE Precedes(<<>>, t) /\ Precedes(t, <<>>)
  BY SetsOf DEF Precedes
<1> QED
  BY <1>1, <1>2, <1>3, <1>4

(* Joining two texts that are in order.                                    *)
LEMMA Join ==
  ASSUME NEW s \in Seq(Nat), NEW t \in Seq(Nat),
         Increasing(s), Increasing(t), Precedes(s, t)
  PROVE  /\ s \o t \in Seq(Nat) /\ Increasing(s \o t)
         /\ ToSet(s \o t) = ToSet(s) \cup ToSet(t)
<1>1. PICK u : u = s \o t
  OBVIOUS
<1>2. u \in Seq(Nat) /\ Len(u) = Len(s) + Len(t)
  BY <1>1
<1>3. PICK m, n : /\ m \in Nat /\ n \in Nat /\ m = Len(s) /\ n = Len(t)
                  /\ DOMAIN s = 1..m /\ DOMAIN t = 1..n
  <2>1. /\ Len(s) \in Nat /\ DOMAIN s = 1..Len(s)
        /\ Len(t) \in Nat /\ DOMAIN t = 1..Len(t)
    OBVIOUS
  <2> QED
    BY <2>1
<1>4. DOMAIN u = 1..(m + n)
  BY <1>2, <1>3
<1>5. \A i \in 1..m : u[i] = s[i]
  BY <1>1, <1>3
<1>6. \A i \in 1..n : u[m + i] = t[i]
  BY <1>1, <1>3
<1>7. \A i \in (m + 1)..(m + n) : i - m \in 1..n /\ u[i] = t[i - m]
  <2>1. ASSUME NEW i \in (m + 1)..(m + n)
        PROVE  i - m \in 1..n /\ u[i] = t[i - m]
    <3>1. i - m \in 1..n /\ m + (i - m) = i
      BY <1>3
    <3> QED
      BY <3>1, <1>6
  <2> QED
    BY <2>1
<1>8. ToSet(u) = ToSet(s) \cup ToSet(t)
  <2>1. ASSUME NEW x \in ToSet(u) PROVE x \in ToSet(s) \cup ToSet(t)
    <3>1. PICK i \in 1..(m + n) : x = u[i]
      BY <2>1, <1>4 DEF ToSet
    <3>2. CASE i \in 1..m
      BY <3>1, <3>2, <1>3, <1>5 DEF ToSet
    <3>3. CASE i \in (m + 1)..(m + n)
      BY <3>1, <3>3, <1>3, <1>7 DEF ToSet
    <3> QED
      BY <3>2, <3>3, <1>3
  <2>2. ASSUME NEW x \in ToSet(s) PROVE x \in ToSet(u)
    <3>1. PICK i \in 1..m : x = s[i]
      BY <2>2, <1>3 DEF ToSet
    <3>2. i \in 1..(m + n) /\ x = u[i]
      BY <3>1, <1>3, <1>5
    <3> QED
      BY <3>2, <1>4 DEF ToSet
  <2>3. ASSUME NEW x \in ToSet(t) PROVE x \in ToSet(u)
    <3>1. PICK i \in 1..n : x = t[i]
      BY <2>3, <1>3 DEF ToSet
    <3>2. m + i \in 1..(m + n) /\ x = u[m + i]
      BY <3>1, <1>3, <1>6
    <3> QED
      BY <3>2, <1>4 DEF ToSet
  <2> QED
    BY <2>1, <2>2, <2>3
<1>9. ASSUME NEW i \in 1..(m + n), NEW j \in 1..(m + n), i < j
      PROVE  u[i] < u[j]
  <2>1. CASE j \in 1..m
    <3>1. i \in 1..m
      BY <1>3, <1>9, <2>1
    <3> QED
      BY <1>3, <1>5, <1>9, <2>1, <3>1 DEF Increasing
  <2>2. CASE i \in (m + 1)..(m + n)
    <3>1. j \in (m + 1)..(m + n)
      BY <1>3, <1>9, <2>2
    <3>2. PICK a, b : a = i - m /\ b = j - m
      OBVIOUS
    <3>3. /\ a \in 1..n /\ b \in 1..n /\ a < b
          /\ u[i] = t[a] /\ u[j] = t[b]
      BY <1>3, <1>7, <1>9, <2>2, <3>1, <3>2
    <3>4. t[a] < t[b]
      BY <1>3, <3>3 DEF Increasing
    <3> QED
      BY <3>3, <3>4
  <2>3. CASE i \in 1..m /\ j \in (m + 1)..(m + n)
    <3>1. u[i] \in ToSet(s) /\ u[j] \in ToSet(t)
      BY <1>3, <1>5, <1>7, <2>3 DEF ToSet
    <3> QED
      BY <3>1 DEF Precedes
  <2> QED
    BY <1>3, <2>1, <2>2, <2>3
<1> QED
  BY <1>1, <1>2, <1>4, <1>8, <1>9 DEF Increasing

-----------------------------------------------------------------------------
(* One more chunk in the stream, and where it counts.                      *)
LEMMA SaidMore ==
  ASSUME out \in Seq(ChunkSet(Keys)), Current' = Current, NEW types,
         NEW c, c.type \in types => c.by = Current, out' = Append(out, c)
  PROVE  /\ Said(types)' = IF c.type \in types THEN Said(types) \cup {Len(out) + 1}
                           ELSE Said(types)
         /\ \A i \in Said(types) : i \in Nat /\ i < Len(out) + 1 /\ out'[i] = out[i]
         /\ out'[Len(out) + 1] = c
         /\ Len(out) \in Nat
<1>1. /\ DOMAIN out' = DOMAIN out \cup {Len(out) + 1}
      /\ Len(out) + 1 \notin DOMAIN out
      /\ out'[Len(out) + 1] = c
      /\ \A i \in DOMAIN out : out'[i] = out[i]
  BY Sent
<1>2. DOMAIN out = 1..Len(out) /\ Len(out) \in Nat
  OBVIOUS
<1>3. Said(types) \subseteq DOMAIN out
  BY DEF Said
<1>4. Said(types)' = {i \in DOMAIN out' : out'[i].type \in types /\ out'[i].by = Current}
  BY DEF Said
<1>5. Said(types)' = IF c.type \in types THEN Said(types) \cup {Len(out) + 1}
                    ELSE Said(types)
  BY <1>1, <1>4 DEF Said
<1> QED
  BY <1>1, <1>2, <1>3, <1>5

LEMMA OrderMore ==
  ASSUME out \in Seq(ChunkSet(Keys)), Current' = Current, NEW types,
         NEW c, c.type \in types => c.by = Current, out' = Append(out, c),
         InOrder(Said(types)),
         c.type \in types =>
           /\ Increasing(c.body)
           /\ \A i \in Said(types) : Precedes(out[i].body, c.body)
  PROVE  InOrder(Said(types))'
<1>1. /\ Said(types)' = IF c.type \in types THEN Said(types) \cup {Len(out) + 1}
                        ELSE Said(types)
      /\ \A i \in Said(types) : i \in Nat /\ i < Len(out) + 1 /\ out'[i] = out[i]
      /\ out'[Len(out) + 1] = c
      /\ Len(out) \in Nat
  BY SaidMore
<1>2. ASSUME NEW i \in Said(types)'
      PROVE  /\ Increasing(out'[i].body)
             /\ \A j \in Said(types)' : i < j => Precedes(out'[i].body, out'[j].body)
  <2>1. CASE i \in Said(types)
    <3>1. out'[i] = out[i] /\ Increasing(out[i].body)
      BY <1>1, <2>1 DEF InOrder
    <3>2. ASSUME NEW j \in Said(types)', i < j
          PROVE  Precedes(out'[i].body, out'[j].body)
      <4>1. CASE j \in Said(types)
        BY <1>1, <2>1, <3>1, <3>2, <4>1 DEF InOrder
      <4>2. CASE j = Len(out) + 1 /\ c.type \in types
        BY <1>1, <2>1, <3>1, <4>2
      <4> QED
        BY <1>1, <3>2, <4>1, <4>2
    <3> QED
      BY <3>1, <3>2
  <2>2. CASE i = Len(out) + 1 /\ c.type \in types
    <3>1. out'[i] = c /\ Increasing(c.body)
      BY <1>1, <2>2
    <3>2. ASSUME NEW j \in Said(types)', i < j PROVE FALSE
      BY <1>1, <2>2, <3>2
    <3> QED
      BY <3>1, <3>2
  <2> QED
    BY <1>1, <1>2, <2>1, <2>2
<1> QED
  BY <1>2 DEF InOrder

LEMMA FragmentsMore ==
  ASSUME out \in Seq(ChunkSet(Keys)), Current' = Current, NEW types,
         NEW c, c.type \in types => c.by = Current, out' = Append(out, c)
  PROVE  Fragments(Said(types))' = IF c.type \in types
                                  THEN Fragments(Said(types)) \cup ToSet(c.body)
                                  ELSE Fragments(Said(types))
<1>1. /\ Said(types)' = IF c.type \in types THEN Said(types) \cup {Len(out) + 1}
                        ELSE Said(types)
      /\ \A i \in Said(types) : out'[i] = out[i]
      /\ out'[Len(out) + 1] = c
  BY SaidMore
<1>2. \A x : x \in Fragments(Said(types))
               <=> \E i \in Said(types) : x \in ToSet(out[i].body)
  BY DEF Fragments
<1>3. \A x : x \in Fragments(Said(types))'
               <=> \E i \in Said(types)' : x \in ToSet(out'[i].body)
  BY DEF Fragments
<1>4. CASE c.type \in types
  <2>1. \A x : x \in Fragments(Said(types))'
                 <=> x \in Fragments(Said(types)) \/ x \in ToSet(c.body)
    BY <1>1, <1>2, <1>3, <1>4
  <2> QED
    BY <1>4, <2>1
<1>5. CASE c.type \notin types
  <2>1. \A x : x \in Fragments(Said(types))' <=> x \in Fragments(Said(types))
    BY <1>1, <1>2, <1>3, <1>5
  <2> QED
    BY <1>5, <2>1
<1> QED
  BY <1>4, <1>5

(* What the attempt has sent are the numbers up to fed.                    *)
LEMMA SaidUpToFed ==
  ASSUME NEW held, OfModel(held)
  PROVE  /\ \A i \in Said(ContentTypes) : \A x \in ToSet(out[i].body) : x \in 1..fed
         /\ \A x \in ToSet(held) : x \in 1..fed
         /\ Said({"TEXT"}) \subseteq Said(ContentTypes)
         /\ Said({"TOOL_RESULT"}) \subseteq Said(ContentTypes)
<1>1. Fragments(Said(ContentTypes)) \subseteq 1..fed /\ ToSet(held) \subseteq 1..fed
  BY DEF OfModel
<1>2. ASSUME NEW i \in Said(ContentTypes), NEW x \in ToSet(out[i].body)
      PROVE  x \in 1..fed
  BY <1>1 DEF Fragments
<1>3. Said({"TEXT"}) \subseteq Said(ContentTypes)
      /\ Said({"TOOL_RESULT"}) \subseteq Said(ContentTypes)
  BY DEF Said, ContentTypes
<1> QED
  BY <1>1, <1>2, <1>3

-----------------------------------------------------------------------------
(* What a step of the attempt does to the text: s is sent, held is kept    *)
(* back, and together they are what was held and what is new, in order.    *)
Moves(s, held) ==
  /\ s \in Seq(Nat) /\ held \in Seq(Nat)
  /\ Increasing(s) /\ Increasing(held) /\ Precedes(s, held)
  /\ ToSet(s) \cup ToSet(held) = ToSet(buffer) \cup (fed + 1)..fed'
  /\ s # <<>> => \A x \in ToSet(held) : x > fed

(* A text that is older than what was held is older than what is sent and  *)
(* held now.                                                               *)
LEMMA OlderStays ==
  ASSUME fed \in Nat, fed' \in Nat, NEW s, NEW held, Moves(s, held),
         NEW b, \A x \in ToSet(b) : x \in 1..fed, Precedes(b, buffer)
  PROVE  Precedes(b, s) /\ Precedes(b, held)
<1>1. \A y \in ToSet(s) \cup ToSet(held) : y \in ToSet(buffer) \/ y \in (fed + 1)..fed'
  BY DEF Moves
<1>2. ASSUME NEW x \in ToSet(b), NEW y \in ToSet(s) \cup ToSet(held) PROVE x < y
  <2>1. CASE y \in ToSet(buffer)
    BY <2>1 DEF Precedes
  <2>2. CASE y \in (fed + 1)..fed'
    BY <2>2
  <2> QED
    BY <1>1, <2>1, <2>2
<1> QED
  BY <1>2 DEF Precedes

(* A chunk of the provider in hand, or one without content, says nothing   *)
(* of a provider that was not called.                                      *)
LEMMA SpokenMore ==
  ASSUME IInv, Spoken, UNCHANGED llmCalls,
         NEW c, c.type \in ContentTypes => c.by = Current /\ pc = "streaming",
         out' = Append(out, c)
  PROVE  Spoken'
<1>1. /\ DOMAIN out' = DOMAIN out \cup {Len(out) + 1}
      /\ out'[Len(out) + 1] = c
      /\ \A i \in DOMAIN out : out'[i] = out[i]
  BY Sent DEF IInv, TypeOK
<1>2. pc = "streaming" => Current \in Keys /\ llmCalls[Current] > 0
  <2> SUFFICES ASSUME pc = "streaming" PROVE Current \in Keys /\ llmCalls[Current] > 0
    OBVIOUS
  <2>1. Current \in Keys /\ Current \in Walked
    BY InHand
  <2>2. llmCalls[Current] = 1
    BY <2>1 DEF IInv, Progress, CalledExactly
  <2> QED
    BY <2>1, <2>2
<1> QED
  BY <1>1, <1>2 DEF Spoken

(* Sending s and keeping held keeps the order of everything sent so far.    *)
LEMMA TextMoved ==
  ASSUME IInv, Buffering, pc = "streaming",
         UNCHANGED <<mode, preferred, idx, llmCalls>>,
         fed' \in Nat, fed <= fed', NEW s, NEW held, Moves(s, held), EmitText(s),
         mode = "RAW" => held = <<>>
  PROVE  /\ Spoken' /\ ToolOvertakesOneSentence'
         /\ OfModel(held)' /\ Overtaken(held)' /\ Transparent'
<1>1. Current' = Current /\ fed \in Nat /\ out \in Seq(ChunkSet(Keys))
  BY DEF Current, IInv, TypeOK
<1>2. /\ OfModel(buffer) /\ Overtaken(buffer) /\ Transparent
      /\ mode = "RAW" => buffer = <<>>
      /\ Spoken /\ ToolOvertakesOneSentence
  BY DEF Buffering
<1>3. /\ \A i \in Said(ContentTypes) : \A x \in ToSet(out[i].body) : x \in 1..fed
      /\ Said({"TEXT"}) \subseteq Said(ContentTypes)
      /\ Said({"TOOL_RESULT"}) \subseteq Said(ContentTypes)
  BY <1>2, SaidUpToFed
<1>4. \A i \in Said({"TEXT"}) : Precedes(out[i].body, s) /\ Precedes(out[i].body, held)
  <2>1. \A i \in Said({"TEXT"}) : Precedes(out[i].body, buffer)
    BY <1>2 DEF OfModel
  <2> QED
    BY <1>1, <1>3, <2>1, OlderStays
<1>5. \A i \in Said({"TOOL_RESULT"}) : \A j \in Said({"TEXT"}) :
        i < j => Precedes(out[i].body, s) /\ Precedes(out[i].body, held)
  <2>1. \A i \in Said({"TOOL_RESULT"}) : \A j \in Said({"TEXT"}) :
          i < j => Precedes(out[i].body, buffer)
    BY <1>2 DEF Overtaken
  <2> QED
    BY <1>1, <1>3, <2>1, OlderStays
<1>6. mode = "RAW" => \A i \in Said(ContentTypes) : Precedes(out[i].body, s)
  <2> SUFFICES ASSUME mode = "RAW" PROVE \A i \in Said(ContentTypes) : Precedes(out[i].body, s)
    OBVIOUS
  <2>1. \A i \in Said(ContentTypes) : Precedes(out[i].body, buffer)
    BY <1>2, SmallOnes
  <2> QED
    BY <1>1, <1>3, <2>1, OlderStays
<1>7. (1..fed) \cup (fed + 1)..fed' = 1..fed'
  BY <1>1
<1>8. /\ Increasing(s) /\ Increasing(held) /\ Precedes(s, held)
      /\ ToSet(s) \cup ToSet(held) = ToSet(buffer) \cup (fed + 1)..fed'
      /\ s # <<>> => \A x \in ToSet(held) : x > fed
  BY DEF Moves
<1>9. Fragments(Said(ContentTypes)) \cup ToSet(s) \cup ToSet(held) = 1..fed'
  <2>1. Fragments(Said(ContentTypes)) \cup ToSet(buffer) = 1..fed
    BY <1>2 DEF OfModel
  <2> QED
    BY <1>7, <1>8, <2>1
<1>10. CASE s = <<>>
  <2>1. out' = out
    BY <1>10 DEF EmitText
  <2>2. \A types : Said(types)' = Said(types)
    BY <1>1, <2>1 DEF Said
  <2>3. ToSet(s) = {}
    BY <1>10, SetsOf
  <2>4. Fragments(Said(ContentTypes))' = Fragments(Said(ContentTypes))
    BY <2>1, <2>2 DEF Fragments
  <2>5. InOrder(Said({"TEXT"}))'
    BY <1>2, <2>1, <2>2 DEF OfModel, InOrder
  <2>6. OfModel(held)'
    BY <1>4, <1>8, <1>9, <2>1, <2>2, <2>3, <2>4, <2>5 DEF OfModel
  <2>7. Overtaken(held)'
    BY <1>5, <2>1, <2>2 DEF Overtaken
  <2>8. Transparent'
    BY <1>2, <2>1, <2>2 DEF Transparent, InOrder
  <2>9. ToolOvertakesOneSentence' /\ Spoken'
    BY <1>2, <2>1, <2>2 DEF ToolOvertakesOneSentence, Spoken
  <2> QED
    BY <2>6, <2>7, <2>8, <2>9
<1>11. CASE s # <<>>
  <2>1. PICK c : c = TextChunk(Current, s)
    OBVIOUS
  <2>2. c.type = "TEXT" /\ c.by = Current /\ c.body = s
    BY <2>1 DEF TextChunk, Chunk
  <2>3. out' = Append(out, c)
    BY <1>11, <2>1 DEF EmitText
  <2>4. PICK n : n = Len(out) + 1
    OBVIOUS
  <2>5. /\ Said({"TEXT"})' = Said({"TEXT"}) \cup {n}
        /\ \A i \in Said({"TEXT"}) : i \in Nat /\ i < n /\ out'[i] = out[i]
        /\ out'[n] = c /\ n \in Nat
    <3>1. c.type \in {"TEXT"}
      BY <2>2
    <3>2. /\ Said({"TEXT"})' = IF c.type \in {"TEXT"}
                               THEN Said({"TEXT"}) \cup {Len(out) + 1}
                               ELSE Said({"TEXT"})
          /\ \A i \in Said({"TEXT"}) : i \in Nat /\ i < Len(out) + 1 /\ out'[i] = out[i]
          /\ out'[Len(out) + 1] = c
          /\ Len(out) \in Nat
      BY <1>1, <2>2, <2>3, SaidMore
    <3> QED
      BY <2>4, <3>1, <3>2
  <2>6. /\ Said({"TOOL_RESULT"})' = Said({"TOOL_RESULT"})
        /\ \A i \in Said({"TOOL_RESULT"}) : i \in Nat /\ i < n /\ out'[i] = out[i]
    BY <1>1, <2>2, <2>3, <2>4, SaidMore
  <2>7. c.type \in ContentTypes
    BY <2>2 DEF ContentTypes
  <2>8. Fragments(Said(ContentTypes))' = Fragments(Said(ContentTypes)) \cup ToSet(s)
    BY <1>1, <2>2, <2>3, <2>7, FragmentsMore
  <2>9. InOrder(Said({"TEXT"}))'
    <3>1. InOrder(Said({"TEXT"}))
      BY <1>2 DEF OfModel
    <3> QED
      BY <1>1, <1>4, <1>8, <2>2, <2>3, <3>1, OrderMore
  <2>10. OfModel(held)'
    <3>1. \A i \in Said({"TEXT"})' : Precedes(out'[i].body, held)
      BY <1>4, <1>8, <2>2, <2>5
    <3>2. Fragments(Said(ContentTypes))' \cup ToSet(held) = 1..fed'
      BY <1>9, <2>8
    <3> QED
      BY <1>8, <2>9, <3>1, <3>2 DEF OfModel
  <2>11. Overtaken(held)'
    <3>1. ASSUME NEW i \in Said({"TOOL_RESULT"}) PROVE Precedes(out[i].body, held)
      <4>1. \A x \in ToSet(out[i].body) : x \in 1..fed
        BY <1>3, <3>1
      <4>2. \A y \in ToSet(held) : y > fed /\ y \in Nat
        <5>1. \A y \in ToSet(held) : y \in Nat
          BY DEF Moves, ToSet
        <5> QED
          BY <1>8, <1>11, <5>1
      <4> QED
        BY <1>1, <4>1, <4>2 DEF Precedes
    <3> QED
      BY <2>6, <3>1 DEF Overtaken
  <2>12. ToolOvertakesOneSentence'
    <3>1. ASSUME NEW i \in Said({"TOOL_RESULT"}), NEW j \in Said({"TEXT"})',
                 NEW k \in Said({"TEXT"})', i < j, j < k
          PROVE  Precedes(out'[i].body, out'[k].body)
      <4>1. j \in Said({"TEXT"})
        BY <2>5, <3>1
      <4>2. CASE k \in Said({"TEXT"})
        BY <1>2, <2>5, <2>6, <3>1, <4>1, <4>2 DEF ToolOvertakesOneSentence
      <4>3. CASE k = n
        BY <1>5, <2>2, <2>5, <2>6, <3>1, <4>1, <4>3
      <4> QED
        BY <2>5, <4>2, <4>3
    <3> QED
      BY <2>6, <3>1 DEF ToolOvertakesOneSentence
  <2>13. Transparent'
    <3>1. CASE mode = "RAW"
      <4>1. InOrder(Said(ContentTypes))
        BY <1>2, <3>1 DEF Transparent
      <4>2. InOrder(Said(ContentTypes))'
        BY <1>1, <1>6, <1>8, <2>2, <2>3, <3>1, <4>1, OrderMore
      <4> QED
        BY <4>2 DEF Transparent
    <3>2. CASE mode # "RAW"
      BY <3>2 DEF Transparent
    <3> QED
      BY <3>1, <3>2
  <2>14. Spoken'
    BY <1>1, <1>2, <2>2, <2>3, SpokenMore
  <2> QED
    BY <2>10, <2>11, <2>12, <2>13, <2>14
<1> QED
  BY <1>10, <1>11

(* The tokens: what comes before the cut and what comes after it.          *)
LEMMA TokenParts ==
  ASSUME NEW n \in Nat, NEW t \in Tokens(n)
  PROVE  /\ t.before \in Seq(Nat) /\ t.after \in Seq(Nat)
         /\ Increasing(t.before) /\ Increasing(t.after)
         /\ Precedes(t.before, t.after)
         /\ t.size \in 1..2
         /\ ToSet(t.before) \cup ToSet(t.after) = n..(n + t.size - 1)
         /\ ~t.cut => t.after = <<>>
<1>1. /\ <<>> \in Seq(Nat) /\ <<n>> \in Seq(Nat) /\ <<n + 1>> \in Seq(Nat)
      /\ Increasing(<<>>) /\ Increasing(<<n>>) /\ Increasing(<<n + 1>>)
  BY SmallOnes
<1>2. /\ Precedes(<<n>>, <<>>) /\ Precedes(<<>>, <<n>>)
      /\ Precedes(<<n>>, <<n + 1>>)
  BY SmallOnes, SetsOf DEF Precedes
<1>3. /\ ToSet(<<>>) = {} /\ ToSet(<<n>>) = {n} /\ ToSet(<<n + 1>>) = {n + 1}
  BY SetsOf
<1>4. n..(n + 1 - 1) = {n} /\ n..(n + 2 - 1) = {n, n + 1}
  OBVIOUS
<1>5. CASE t = [before |-> <<n>>, cut |-> FALSE, after |-> <<>>, size |-> 1]
  BY <1>1, <1>2, <1>3, <1>4, <1>5
<1>6. CASE t = [before |-> <<n>>, cut |-> TRUE, after |-> <<>>, size |-> 1]
  BY <1>1, <1>2, <1>3, <1>4, <1>6
<1>7. CASE t = [before |-> <<>>, cut |-> TRUE, after |-> <<n>>, size |-> 1]
  BY <1>1, <1>2, <1>3, <1>4, <1>7
<1>8. CASE t = [before |-> <<n>>, cut |-> TRUE, after |-> <<n + 1>>, size |-> 2]
  BY <1>1, <1>2, <1>3, <1>4, <1>8
<1> QED
  BY <1>5, <1>6, <1>7, <1>8 DEF Tokens

LEMMA NatTypes ==
  ASSUME IInv
  PROVE  fed \in Nat /\ buffer \in Seq(Nat)
<1>1. fed \in 0..MaxFed /\ buffer \in Seq(1..MaxFed) /\ MaxFed \in Nat
  BY BoundAssumption DEF IInv, TypeOK
<1>2. buffer \in [1..Len(buffer) -> Nat] /\ Len(buffer) \in Nat
  BY <1>1
<1> QED
  BY <1>1, <1>2

(* A token moves text.                                                     *)
TextMoves ==
  \E s, held : /\ Moves(s, held) /\ EmitText(s) /\ held = buffer'
               /\ fed' \in Nat /\ fed <= fed'
               /\ mode = "RAW" => held = <<>>

LEMMA TokenMoves ==
  ASSUME IInv, Buffering, Token
  PROVE  TextMoves
<1>1. PICK t \in Tokens(fed + 1) :
        /\ fed' = fed + t.size
        /\ \/ /\ mode = "RAW" /\ EmitText(t.before \o t.after)
              /\ buffer' = buffer
           \/ /\ mode = "BUFFERED" /\ t.cut
              /\ EmitText(buffer \o t.before) /\ buffer' = t.after
           \/ /\ mode = "BUFFERED" /\ ~t.cut
              /\ buffer' = buffer \o t.before /\ out' = out
  BY DEF Token
<1>2. fed \in Nat /\ buffer \in Seq(Nat)
  BY NatTypes
<1>3. PICK a, b, k : a = t.before /\ b = t.after /\ k = t.size
  OBVIOUS
<1>4. /\ a \in Seq(Nat) /\ b \in Seq(Nat)
      /\ Increasing(a) /\ Increasing(b) /\ Precedes(a, b)
      /\ k \in 1..2 /\ ToSet(a) \cup ToSet(b) = (fed + 1)..(fed + 1 + k - 1)
      /\ ~t.cut => b = <<>>
  <2>1. fed + 1 \in Nat
    BY <1>2
  <2> QED
    BY <1>3, <2>1, TokenParts
<1>5. /\ fed' \in Nat /\ fed <= fed'
      /\ ToSet(a) \cup ToSet(b) = (fed + 1)..fed'
  BY <1>1, <1>2, <1>3, <1>4
<1>6. /\ pc = "streaming" /\ OfModel(buffer)
      /\ mode = "RAW" => buffer = <<>>
  BY DEF Token, Buffering
<1>7. /\ Increasing(buffer) /\ \A x \in ToSet(buffer) : x \in 1..fed
  BY <1>6, SaidUpToFed DEF OfModel
<1>8. Precedes(buffer, a) /\ Precedes(buffer, b)
  BY <1>2, <1>5, <1>7 DEF Precedes
<1>9. /\ ToSet(<<>>) = {} /\ <<>> \in Seq(Nat) /\ Increasing(<<>>)
      /\ \A u : Precedes(<<>>, u) /\ Precedes(u, <<>>)
  BY SetsOf, SmallOnes
<1>10. /\ buffer \o a \in Seq(Nat) /\ Increasing(buffer \o a)
       /\ ToSet(buffer \o a) = ToSet(buffer) \cup ToSet(a)
  BY <1>2, <1>4, <1>7, <1>8, Join
<1>11. CASE mode = "RAW" /\ EmitText(t.before \o t.after) /\ buffer' = buffer
  <2>1. /\ a \o b \in Seq(Nat) /\ Increasing(a \o b)
        /\ ToSet(a \o b) = ToSet(a) \cup ToSet(b)
    BY <1>4, Join
  <2>2. PICK s : s = a \o b
    OBVIOUS
  <2>3. buffer' = <<>> /\ ToSet(buffer) = {} /\ EmitText(s)
    BY <1>3, <1>6, <1>9, <1>11, <2>2
  <2>4. /\ s \in Seq(Nat) /\ Increasing(s) /\ ToSet(s) = (fed + 1)..fed'
    BY <1>5, <2>1, <2>2
  <2>5. Moves(s, <<>>)
    BY <1>9, <2>3, <2>4 DEF Moves
  <2> QED
    BY <1>5, <2>3, <2>5 DEF TextMoves
<1>12. CASE /\ mode = "BUFFERED" /\ t.cut
            /\ EmitText(buffer \o t.before) /\ buffer' = t.after
  <2>1. PICK s : s = buffer \o a
    OBVIOUS
  <2>2. EmitText(s) /\ buffer' = b
    BY <1>3, <1>12, <2>1
  <2>3. /\ s \in Seq(Nat) /\ Increasing(s)
        /\ ToSet(s) = ToSet(buffer) \cup ToSet(a)
    BY <1>10, <2>1
  <2>4. Precedes(s, b)
    BY <1>4, <1>8, <2>3 DEF Precedes
  <2>5. ToSet(s) \cup ToSet(b) = ToSet(buffer) \cup (fed + 1)..fed'
    BY <1>5, <2>3
  <2>6. \A x \in ToSet(b) : x > fed
    <3>1. \A x \in ToSet(b) : x \in (fed + 1)..fed'
      BY <1>5
    <3> QED
      BY <1>2, <1>5, <3>1
  <2>7. Moves(s, b)
    BY <1>4, <2>3, <2>4, <2>5, <2>6 DEF Moves
  <2> QED
    BY <1>5, <1>12, <2>2, <2>7 DEF TextMoves
<1>13. CASE /\ mode = "BUFFERED" /\ ~t.cut
            /\ buffer' = buffer \o t.before /\ out' = out
  <2>1. PICK h : h = buffer \o a
    OBVIOUS
  <2>2. buffer' = h /\ EmitText(<<>>)
    BY <1>3, <1>13, <2>1 DEF EmitText
  <2>3. /\ h \in Seq(Nat) /\ Increasing(h)
        /\ ToSet(h) = ToSet(buffer) \cup ToSet(a)
    BY <1>10, <2>1
  <2>4. ToSet(b) = {}
    BY <1>4, <1>9, <1>13
  <2>5. ToSet(<<>>) \cup ToSet(h) = ToSet(buffer) \cup (fed + 1)..fed'
    BY <1>5, <1>9, <2>3, <2>4
  <2>6. Moves(<<>>, h)
    BY <1>9, <2>3, <2>5 DEF Moves
  <2> QED
    BY <1>5, <1>13, <2>2, <2>6 DEF TextMoves
<1> QED
  BY <1>1, <1>11, <1>12, <1>13

-----------------------------------------------------------------------------
(* A provider that was not called has said nothing.                        *)
LEMMA Unheard ==
  ASSUME Spoken, Current \in Keys => llmCalls[Current] = 0
  PROVE  Said(ContentTypes) = {}
BY DEF Spoken, Said

LEMMA SaidNothing ==
  ASSUME Said(ContentTypes) = {}
  PROVE  /\ Said({"TEXT"}) = {} /\ Said({"TOOL_RESULT"}) = {}
         /\ Fragments(Said(ContentTypes)) = {}
<1>1. Said({"TEXT"}) = {} /\ Said({"TOOL_RESULT"}) = {}
  BY DEF Said, ContentTypes
<1>2. Fragments({}) = {}
  BY DEF Fragments
<1> QED
  BY <1>1, <1>2

(* Nothing changes in a step that sends no content and keeps the provider. *)
LEMMA NoContent ==
  ASSUME IInv, Spoken, ToolOvertakesOneSentence,
         Current' = Current, UNCHANGED <<mode, fed, llmCalls>>,
         \/ out' = out
         \/ \E c : c.type \notin ContentTypes /\ out' = Append(out, c)
  PROVE  /\ Spoken' /\ ToolOvertakesOneSentence'
         /\ OfModel(<<>>) => OfModel(<<>>)'
         /\ Transparent => Transparent'
<1>1. CASE out' = out
  <2>1. \A types : Said(types)' = Said(types)
    BY <1>1 DEF Said
  <2>2. Fragments(Said(ContentTypes))' = Fragments(Said(ContentTypes))
    BY <1>1, <2>1 DEF Fragments
  <2>3. \A types : InOrder(Said(types)) => InOrder(Said(types))'
    BY <1>1, <2>1 DEF InOrder
  <2>4. Spoken' /\ ToolOvertakesOneSentence'
    BY <1>1, <2>1 DEF Spoken, ToolOvertakesOneSentence
  <2>5. OfModel(<<>>) => OfModel(<<>>)'
    BY <1>1, <2>1, <2>2, <2>3 DEF OfModel
  <2>6. Transparent => Transparent'
    BY <2>3 DEF Transparent
  <2> QED
    BY <2>4, <2>5, <2>6
<1>2. ASSUME NEW c, c.type \notin ContentTypes, out' = Append(out, c)
      PROVE  /\ Spoken' /\ ToolOvertakesOneSentence'
             /\ OfModel(<<>>) => OfModel(<<>>)'
             /\ Transparent => Transparent'
  <2>1. out \in Seq(ChunkSet(Keys))
    BY DEF IInv, TypeOK
  <2>2. c.type \notin {"TEXT"} /\ c.type \notin {"TOOL_RESULT"}
    BY <1>2 DEF ContentTypes
  <2>3. ASSUME NEW types, c.type \notin types
        PROVE  /\ Said(types)' = Said(types)
               /\ \A i \in Said(types) : out'[i] = out[i]
               /\ InOrder(Said(types)) => InOrder(Said(types))'
               /\ Fragments(Said(types))' = Fragments(Said(types))
    <3>1. /\ Said(types)' = Said(types)
          /\ \A i \in Said(types) : out'[i] = out[i]
      BY <1>2, <2>1, <2>3, SaidMore
    <3>2. InOrder(Said(types)) => InOrder(Said(types))'
      BY <3>1 DEF InOrder
    <3>3. Fragments(Said(types))' = Fragments(Said(types))
      BY <1>2, <2>1, <2>3, FragmentsMore
    <3> QED
      BY <3>1, <3>2, <3>3
  <2>4. Spoken'
    BY <1>2, SpokenMore
  <2>5. /\ Said({"TEXT"})' = Said({"TEXT"})
        /\ \A i \in Said({"TEXT"}) : out'[i] = out[i]
        /\ InOrder(Said({"TEXT"})) => InOrder(Said({"TEXT"}))'
    BY <2>2, <2>3
  <2>6. /\ Said({"TOOL_RESULT"})' = Said({"TOOL_RESULT"})
        /\ \A i \in Said({"TOOL_RESULT"}) : out'[i] = out[i]
    BY <2>2, <2>3
  <2>7. /\ InOrder(Said(ContentTypes)) => InOrder(Said(ContentTypes))'
        /\ Fragments(Said(ContentTypes))' = Fragments(Said(ContentTypes))
    BY <1>2, <2>3
  <2>8. ToolOvertakesOneSentence'
    BY <2>5, <2>6 DEF ToolOvertakesOneSentence
  <2>9. OfModel(<<>>) => OfModel(<<>>)'
    BY <2>5, <2>7 DEF OfModel
  <2>10. Transparent => Transparent'
    BY <2>7 DEF Transparent
  <2> QED
    BY <2>4, <2>8, <2>9, <2>10
<1> QED
  BY <1>1, <1>2

(* A new attempt starts with nothing said and nothing held.                *)
LEMMA BufferingCall ==
  ASSUME IInv, Buffering, CallLLM
  PROVE  Buffering'
<1>1. /\ pc \in {"attempt", "announced"} /\ pc' = "streaming"
      /\ Current' = Current /\ out' = out /\ fed' = 0 /\ buffer' = <<>>
      /\ llmCalls' = [llmCalls EXCEPT ![Current] = @ + 1]
  BY DEF CallLLM, Current
<1>2. Current \in Keys /\ llmCalls[Current] = 0
  BY <1>1, InHand DEF IInv, Progress, CalledExactly
<1>3. Said(ContentTypes) = {}
  BY <1>2, Unheard DEF Buffering
<1>4. /\ Said({"TEXT"}) = {} /\ Said({"TOOL_RESULT"}) = {}
      /\ Fragments(Said(ContentTypes)) = {}
  BY <1>3, SaidNothing
<1>5. \A types : Said(types)' = Said(types)
  BY <1>1 DEF Said
<1>6. Fragments(Said(ContentTypes))' = {}
  BY <1>1, <1>4, <1>5 DEF Fragments
<1>7. OfModel(<<>>)'
  <2>1. 1..0 = {}
    OBVIOUS
  <2> QED
    BY <1>1, <1>4, <1>5, <1>6, <2>1, SetsOf, SmallOnes DEF OfModel, InOrder
<1>8. Overtaken(<<>>)' /\ Transparent' /\ ToolOvertakesOneSentence'
  BY <1>3, <1>4, <1>5 DEF Overtaken, Transparent, InOrder, ToolOvertakesOneSentence
<1>9. Spoken'
  <2>1. \A k \in Keys : llmCalls[k] > 0 => llmCalls'[k] > 0
    BY <1>1, <1>2 DEF IInv, TypeOK
  <2> QED
    BY <1>1, <2>1 DEF Buffering, Spoken
<1> QED
  BY <1>1, <1>7, <1>8, <1>9 DEF Buffering, Succeeded

(* A tool result is new, and younger than all that was said or is held.    *)
LEMMA BufferingTool ==
  ASSUME IInv, Buffering, ToolResult
  PROVE  Buffering'
<1>1. /\ pc = "streaming" /\ pc' = "streaming" /\ Current' = Current
      /\ UNCHANGED <<mode, buffer, llmCalls>> /\ fed' = fed + 1
  BY DEF ToolResult, Current, config, ledger
<1>2. PICK c, n : c = ToolResultChunk(Current, fed') /\ n = Len(out) + 1
  OBVIOUS
<1>3. /\ c.type = "TOOL_RESULT" /\ c.by = Current /\ c.body = <<fed'>>
      /\ out' = Append(out, c)
  BY <1>2 DEF ToolResult, ToolResultChunk, Chunk
<1>4. out \in Seq(ChunkSet(Keys)) /\ fed \in Nat
  BY NatTypes DEF IInv, TypeOK
<1>5. /\ Spoken /\ ToolOvertakesOneSentence
      /\ OfModel(buffer) /\ Overtaken(buffer) /\ Transparent
      /\ mode = "RAW" => buffer = <<>>
  BY <1>1 DEF Buffering
<1>6. /\ \A i \in Said(ContentTypes) : \A x \in ToSet(out[i].body) : x \in 1..fed
      /\ \A x \in ToSet(buffer) : x \in 1..fed
      /\ Said({"TEXT"}) \subseteq Said(ContentTypes)
      /\ Said({"TOOL_RESULT"}) \subseteq Said(ContentTypes)
  BY <1>5, SaidUpToFed
<1>7. ToSet(c.body) = {fed + 1} /\ Increasing(c.body)
  BY <1>1, <1>3, SetsOf, SmallOnes
<1>8. \A i \in Said(ContentTypes) : Precedes(out[i].body, c.body)
  BY <1>4, <1>6, <1>7 DEF Precedes
<1>9. /\ c.type \in ContentTypes /\ c.type \notin {"TEXT"}
      /\ c.type \in {"TOOL_RESULT"}
  BY <1>3 DEF ContentTypes
<1>10. /\ Said({"TEXT"})' = Said({"TEXT"})
       /\ \A i \in Said({"TEXT"}) : i \in Nat /\ i < n /\ out'[i] = out[i]
  <2>1. /\ Said({"TEXT"})' = IF c.type \in {"TEXT"}
                             THEN Said({"TEXT"}) \cup {Len(out) + 1}
                             ELSE Said({"TEXT"})
        /\ \A i \in Said({"TEXT"}) :
              i \in Nat /\ i < Len(out) + 1 /\ out'[i] = out[i]
    BY <1>1, <1>3, <1>4, SaidMore
  <2> QED
    BY <1>2, <1>9, <2>1
<1>11. /\ Said({"TOOL_RESULT"})' = Said({"TOOL_RESULT"}) \cup {n}
       /\ \A i \in Said({"TOOL_RESULT"}) : i \in Nat /\ i < n /\ out'[i] = out[i]
       /\ n \in Nat
  <2>1. /\ Said({"TOOL_RESULT"})' = IF c.type \in {"TOOL_RESULT"}
                                    THEN Said({"TOOL_RESULT"}) \cup {Len(out) + 1}
                                    ELSE Said({"TOOL_RESULT"})
        /\ \A i \in Said({"TOOL_RESULT"}) :
              i \in Nat /\ i < Len(out) + 1 /\ out'[i] = out[i]
        /\ Len(out) \in Nat
    BY <1>1, <1>3, <1>4, SaidMore
  <2> QED
    BY <1>2, <1>9, <2>1
<1>12. Fragments(Said(ContentTypes))' = Fragments(Said(ContentTypes)) \cup {fed + 1}
  BY <1>1, <1>3, <1>4, <1>7, <1>9, FragmentsMore
<1>13. Transparent'
  <2>1. CASE mode = "RAW"
    <3>1. InOrder(Said(ContentTypes))
      BY <1>5, <2>1 DEF Transparent
    <3>2. InOrder(Said(ContentTypes))'
      BY <1>1, <1>3, <1>4, <1>7, <1>8, <3>1, OrderMore
    <3> QED
      BY <3>2 DEF Transparent
  <2>2. CASE mode # "RAW"
    BY <1>1, <2>2 DEF Transparent
  <2> QED
    BY <2>1, <2>2
<1>14. OfModel(buffer)'
  <2>1. InOrder(Said({"TEXT"}))
    BY <1>5 DEF OfModel
  <2>2. InOrder(Said({"TEXT"}))'
    BY <1>1, <1>3, <1>4, <1>9, <2>1, OrderMore
  <2>3. (1..fed) \cup {fed + 1} = 1..(fed + 1)
    BY <1>4
  <2>4. Fragments(Said(ContentTypes))' \cup ToSet(buffer) = 1..fed'
    BY <1>1, <1>5, <1>12, <2>3 DEF OfModel
  <2> QED
    BY <1>1, <1>5, <1>10, <2>2, <2>4 DEF OfModel
<1>15. Overtaken(buffer)'
  <2>1. ASSUME NEW i \in Said({"TOOL_RESULT"})', NEW j \in Said({"TEXT"})', i < j
        PROVE  Precedes(out'[i].body, buffer)
    BY <1>5, <1>10, <1>11, <2>1 DEF Overtaken
  <2> QED
    BY <1>1, <2>1 DEF Overtaken
<1>16. ToolOvertakesOneSentence'
  <2>1. ASSUME NEW i \in Said({"TOOL_RESULT"})', NEW j \in Said({"TEXT"})',
               NEW k \in Said({"TEXT"})', i < j, j < k
        PROVE  Precedes(out'[i].body, out'[k].body)
    BY <1>5, <1>10, <1>11, <2>1 DEF ToolOvertakesOneSentence
  <2> QED
    BY <2>1 DEF ToolOvertakesOneSentence
<1>17. Spoken'
  BY <1>1, <1>3, <1>5, SpokenMore
<1> QED
  BY <1>1, <1>5, <1>13, <1>14, <1>15, <1>16, <1>17 DEF Buffering, Succeeded

(* Tokens and the end of the event stream move text on.                    *)
LEMMA BufferingText ==
  ASSUME IInv, Buffering, Token \/ EndOfEvents
  PROVE  Buffering'
<1>1. CASE Token
  <2>1. PICK s, h : /\ Moves(s, h) /\ EmitText(s) /\ h = buffer'
                    /\ fed' \in Nat /\ fed <= fed'
                    /\ mode = "RAW" => h = <<>>
    BY <1>1, TokenMoves DEF TextMoves
  <2>2. /\ pc = "streaming" /\ pc' = "streaming"
        /\ UNCHANGED <<mode, preferred, idx, llmCalls>>
    BY <1>1 DEF Token, config, ledger
  <2>3. /\ Spoken' /\ ToolOvertakesOneSentence'
        /\ OfModel(h)' /\ Overtaken(h)' /\ Transparent'
    BY <2>1, <2>2, TextMoved
  <2>4. OfModel(buffer)' /\ Overtaken(buffer)'
    BY <2>1, <2>3 DEF OfModel, Overtaken
  <2> QED
    BY <2>1, <2>2, <2>3, <2>4 DEF Buffering, Succeeded
<1>2. CASE EndOfEvents
  <2>1. /\ pc = "streaming" /\ pc' = "flushed" /\ EmitText(buffer)
        /\ UNCHANGED <<mode, preferred, idx, llmCalls, fed>>
    BY <1>2 DEF EndOfEvents, config, ledger
  <2>2. fed \in Nat /\ buffer \in Seq(Nat) /\ Increasing(buffer)
    BY <2>1, NatTypes DEF Buffering, OfModel
  <2>3. /\ <<>> \in Seq(Nat) /\ ToSet(<<>>) = {} /\ Increasing(<<>>)
        /\ Precedes(buffer, <<>>) /\ (fed + 1)..fed' = {}
    BY <2>1, <2>2, SetsOf, SmallOnes
  <2>4. Moves(buffer, <<>>)
    BY <2>2, <2>3 DEF Moves
  <2>5. fed' \in Nat /\ fed <= fed'
    BY <2>1, <2>2
  <2>6. /\ Spoken' /\ ToolOvertakesOneSentence'
        /\ OfModel(<<>>)' /\ Transparent'
    BY <2>1, <2>4, <2>5, TextMoved
  <2> QED
    BY <2>1, <2>6 DEF Buffering, Succeeded
<1> QED
  BY <1>1, <1>2

(* The loop moves to a provider that was not called yet.                   *)
LEMMA BufferingMovesOn ==
  ASSUME IInv, IInv', Buffering, ChoosePreferred \/ Raise
  PROVE  Buffering'
<1>1. /\ UNCHANGED <<out, llmCalls, mode, fed>>
      /\ pc' \in {"attempt", "exhausted"}
  BY DEF ChoosePreferred, Raise, config, ledger
<1>2. Spoken'
  BY <1>1 DEF Buffering, Spoken
<1>3. CASE Current' = Current
  <2>1. ToolOvertakesOneSentence'
    BY <1>1, <1>3, NoContent DEF Buffering
  <2> QED
    BY <1>1, <1>2, <2>1 DEF Buffering, Succeeded
<1>4. CASE Said(ContentTypes)' = {}
  <2>1. Said({"TOOL_RESULT"})' = {}
    BY <1>4 DEF Said, ContentTypes
  <2>2. ToolOvertakesOneSentence'
    BY <2>1 DEF ToolOvertakesOneSentence
  <2> QED
    BY <1>1, <1>2, <2>2 DEF Buffering, Succeeded
<1>5. (Current' \in Keys => llmCalls'[Current'] = 0) => Said(ContentTypes)' = {}
  BY <1>2 DEF Spoken, Said
<1>6. CASE pc' = "attempt"
  <2>1. CalledExactly(Walked \ {Current})'
    BY <1>6 DEF IInv, Progress
  <2>2. Current' \in Keys => llmCalls'[Current'] = 0
    BY <2>1 DEF CalledExactly
  <2> QED
    BY <1>4, <1>5, <2>2
<1>7. CASE pc' = "exhausted" /\ ChoosePreferred
  <2>1. preferred' = None /\ idx' = 0
    BY <1>7 DEF ChoosePreferred, IInv, Progress
  <2>2. Current' \notin Keys
    BY <2>1, MapAssumption DEF Current
  <2> QED
    BY <1>4, <1>5, <2>2
<1>8. CASE pc' = "exhausted" /\ Raise
  <2>1. Current' = Current
    BY <1>8 DEF Raise, Current
  <2> QED
    BY <1>3, <2>1
<1> QED
  BY <1>1, <1>6, <1>7, <1>8

LEMMA BufferingNext ==
  ASSUME IInv, IInv', Buffering, [Next]_vars
  PROVE  Buffering'
<1>1. CASE ChoosePreferred \/ Raise
  BY <1>1, BufferingMovesOn
<1>2. CASE CallLLM
  BY <1>2, BufferingCall
<1>3. CASE Token \/ EndOfEvents
  BY <1>3, BufferingText
<1>4. CASE ToolResult
  BY <1>4, BufferingTool
<1>5. CASE Failover
  <2>1. /\ pc' = "announced" /\ Current' = Current
        /\ UNCHANGED <<mode, fed, llmCalls>>
    BY <1>5 DEF Failover, config, Current
  <2>2. PICK c : c = FailoverChunk(IF prev # None THEN prev ELSE preferred, Current)
    OBVIOUS
  <2>3. c.type \notin ContentTypes /\ out' = Append(out, c)
    BY <1>5, <2>2 DEF Failover, FailoverChunk, Chunk, ContentTypes
  <2>4. Spoken' /\ ToolOvertakesOneSentence'
    BY <2>1, <2>3, NoContent DEF Buffering
  <2> QED
    BY <2>1, <2>4 DEF Buffering, Succeeded
<1>6. CASE Complete \/ GiveUp
  <2>1. /\ pc' = "done" /\ Current' = Current
        /\ UNCHANGED <<mode, fed, llmCalls>>
    BY <1>6 DEF Complete, GiveUp, config, ledger, Current
  <2>2. PICK c : c = IF pc = "flushed" THEN CompleteChunk(Current)
                     ELSE ErrorChunk(Current)
    OBVIOUS
  <2>3. /\ out' = Append(out, c)
        /\ c.type = IF pc = "flushed" THEN "STATUS" ELSE "ERROR"
    BY <1>6, <2>2 DEF Complete, GiveUp, CompleteChunk, ErrorChunk, Chunk
  <2>4. c.type \notin ContentTypes
    BY <2>3 DEF ContentTypes
  <2>5. /\ Spoken' /\ ToolOvertakesOneSentence'
        /\ OfModel(<<>>) => OfModel(<<>>)'
        /\ Transparent => Transparent'
    BY <2>1, <2>3, <2>4, NoContent DEF Buffering
  <2>6. Succeeded' => pc = "flushed"
    <3>1. Last(out') = c
      BY <2>3 DEF Last, IInv, TypeOK
    <3> QED
      BY <2>3, <3>1 DEF Succeeded
  <2> QED
    BY <2>1, <2>5, <2>6 DEF Buffering
<1>7. CASE Close \/ UNCHANGED vars
  <2>1. /\ Current' = Current /\ UNCHANGED <<mode, fed, llmCalls, buffer, out>>
        /\ pc' = pc \/ pc' = "closed"
    BY <1>7 DEF Close, vars, config, ledger, Current
  <2>2. \A types : Said(types)' = Said(types)
    BY <2>1 DEF Said
  <2>3. Fragments(Said(ContentTypes))' = Fragments(Said(ContentTypes))
    BY <2>1, <2>2 DEF Fragments
  <2>4. \A types : InOrder(Said(types)) => InOrder(Said(types))'
    BY <2>1, <2>2 DEF InOrder
  <2>5. /\ Spoken' /\ ToolOvertakesOneSentence'
        /\ OfModel(<<>>) => OfModel(<<>>)'
        /\ Transparent => Transparent'
    BY <2>1, NoContent DEF Buffering
  <2>6. OfModel(buffer) => OfModel(buffer)'
    BY <2>1, <2>2, <2>3, <2>4 DEF OfModel
  <2>7. Overtaken(buffer) => Overtaken(buffer)'
    BY <2>1, <2>2 DEF Overtaken
  <2>8. Succeeded' => Succeeded
    BY <2>1 DEF Succeeded
  <2> QED
    BY <2>1, <2>5, <2>6, <2>7, <2>8 DEF Buffering
<1> QED
  BY <1>1, <1>2, <1>3, <1>4, <1>5, <1>6, <1>7 DEF Next, Step

(* Text is moved on, held or sent in the order it came in, at every point. *)
THEOREM BufferingInvariant == Spec => []Buffering
<1>1. Init => Buffering
  <2> SUFFICES ASSUME Init PROVE Buffering
    OBVIOUS
  <2>1. out = <<>> /\ pc = "start"
    BY DEF Init
  <2>2. \A types : Said(types) = {}
    BY <2>1 DEF Said
  <2> QED
    BY <2>1, <2>2 DEF Buffering, Spoken, ToolOvertakesOneSentence, Succeeded
<1>2. IInv /\ IInv' /\ Buffering /\ [Next]_vars => Buffering'
  BY BufferingNext
<1> QED
  BY <1>1, <1>2, Inductive, PTL DEF Spec

(* In both modes, however the text is cut, whatever a tool sends in        *)
(* between and however many providers fail before, what an attempt has     *)
(* sent and still holds is what the model wrote, once and in its order;    *)
(* and when it has succeeded it holds nothing                              *)
(* (stream_processor.py:67-72, 88-90, 113-131).                            *)
THEOREM TextIsExact == Spec => []BufferingExact
<1>1. Buffering => BufferingExact
  <2> SUFFICES ASSUME Buffering PROVE BufferingExact
    OBVIOUS
  <2>1. ToSet(<<>>) = {}
    BY SetsOf
  <2>2. NothingLost
    <3>1. CASE pc = "streaming"
      BY <3>1 DEF Buffering, NothingLost, OfModel, Held
    <3>2. CASE pc = "flushed" \/ Succeeded
      <4>1. Held = <<>>
        BY <3>2 DEF Held, Succeeded
      <4> QED
        BY <3>2, <4>1 DEF Buffering, NothingLost, OfModel
    <3> QED
      BY <3>1, <3>2 DEF NothingLost
  <2>3. RawIsTransparent
    <3>1. ASSUME mode = "RAW", pc \in {"streaming", "flushed"} \/ Succeeded
          PROVE  OfModel(<<>>) /\ Transparent
      BY <3>1 DEF Buffering
    <3> QED
      BY <2>1, <3>1 DEF RawIsTransparent, OfModel, Transparent
  <2> QED
    BY <2>2, <2>3 DEF BufferingExact
<1> QED
  BY <1>1, BufferingInvariant, PTL

(* However many sentences and tool results there are, a tool result        *)
(* overtakes at most the one sentence that was held when it came, which    *)
(* the next TEXT chunk completes (stream_processor.py:92-99).              *)
THEOREM OneSentenceOvertaken == Spec => []ToolOvertakesOneSentence
<1>1. Buffering => ToolOvertakesOneSentence
  BY DEF Buffering
<1> QED
  BY <1>1, BufferingInvariant, PTL
=============================================================================
