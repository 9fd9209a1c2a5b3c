--------------------------- MODULE AgentGraphProofs ---------------------------
(***************************************************************************)
(* Proofs about AgentGraph: for any number of requests, tools, providers,  *)
(* rounds and attempts, how the tools are counted and what a provider is   *)
(* sent.                                                                   *)
(***************************************************************************)
EXTENDS AgentGraph, FiniteSetTheorems, SequenceTheorems, TLAPS

(* The fields of a request's record.                                       *)
Fields == {"pc", "model", "tried", "messages", "call", "results", "steps"}

(* Where a request has begun a call, and where the body of the tool has    *)
(* run as well.                                                            *)
InCall == {"invoking", "counted", "cut"}
PastBody == {"counted", "cut"}

(* What the first theorem needs of the types.                              *)
Kinds ==
  /\ DOMAIN run = Runs /\ \A r \in Runs : DOMAIN run[r] = Fields
  /\ run = [r \in Runs |-> run[r]]
  /\ toolCalls \in [Tools -> Nat] /\ entered \in [Tools -> Nat] /\ left \in [Tools -> Nat]

(* A request is only inside a tool that exists: the hook that counted its  *)
(* way in is that of the tool that counts its way out.                     *)
InsideTools == \A r \in Runs : run[r].pc \in InCall => Current(r).name \in Tools

(* ToolLedger, as it is kept.                                              *)
Counted ==
  \A t \in Tools :
    /\ toolCalls[t] = entered[t] + left[t] + Cardinality(Ran(t))
    /\ Cardinality(Began(t)) <= entered[t] - left[t]

(* The invariant of the first theorem.                                     *)
IInv == Kinds /\ InsideTools /\ Counted

(* The invariant holds initially.                                          *)
LEMMA InitIInv == Init => IInv
  <1> SUFFICES ASSUME Init PROVE IInv
    OBVIOUS
  <1>1. \A r \in Runs : run[r] = Idle
    BY DEF Init
  <1>2. DOMAIN Idle = Fields /\ Idle.pc = "idle"
    BY DEF Idle, Fields
  <1>3. \A t \in Tools : Ran(t) = {} /\ Began(t) = {}
    BY <1>1, <1>2 DEF Ran, Began
  <1>4. \A t \in Tools : Cardinality(Ran(t)) = 0 /\ Cardinality(Began(t)) = 0
    BY <1>3, FS_EmptySet
  <1>5. Kinds
    BY <1>1, <1>2 DEF Init, Kinds
  <1>6. InsideTools
    BY <1>1, <1>2 DEF InsideTools, InCall
  <1>7. Counted
    BY <1>4 DEF Init, Counted
  <1> QED
    BY <1>5, <1>6, <1>7 DEF IInv

(* The sets counted, by where their requests are.                          *)
LEMMA CountedSets ==
  ASSUME NEW t
  PROVE  /\ Ran(t) = {r \in Runs : run[r].pc \in PastBody /\ Current(r).name = t}
         /\ Began(t) = {r \in Runs : run[r].pc \in InCall /\ Current(r).name = t}
         /\ Ran(t) \subseteq Began(t)
         /\ IsFiniteSet(Ran(t)) /\ Cardinality(Ran(t)) \in Nat
         /\ IsFiniteSet(Began(t)) /\ Cardinality(Began(t)) \in Nat
  <1>1. /\ Ran(t) = {r \in Runs : run[r].pc \in PastBody /\ Current(r).name = t}
        /\ Began(t) = {r \in Runs : run[r].pc \in InCall /\ Current(r).name = t}
    BY DEF Ran, Began, InCall, PastBody
  <1>2. Ran(t) \subseteq Runs /\ Began(t) \subseteq Runs /\ IsFiniteSet(Runs)
    BY <1>1, GraphAssumption
  <1>3. IsFiniteSet(Ran(t)) /\ IsFiniteSet(Began(t))
    BY <1>2, FS_Subset
  <1>4. Cardinality(Ran(t)) \in Nat /\ Cardinality(Began(t)) \in Nat
    BY <1>3, FS_CardinalityType
  <1> QED
    BY <1>1, <1>3, <1>4 DEF Began

(* The record of one request is replaced.                                  *)
Replaced(r, rec) ==
  /\ DOMAIN rec = Fields /\ run' = [run EXCEPT ![r] = rec]
  /\ rec.pc \in InCall => rec.messages = run[r].messages /\ rec.call = run[r].call

(* The others are where they were; a request that is in a call then is in  *)
(* the call it was at.                                                     *)
LEMMA OneMoves ==
  ASSUME IInv, NEW r \in Runs, NEW rec, Replaced(r, rec),
         rec.pc \in InCall => Current(r).name \in Tools
  PROVE  /\ DOMAIN run' = Runs /\ \A q \in Runs : DOMAIN run'[q] = Fields
         /\ run' = [q \in Runs |-> run'[q]]
         /\ run'[r] = rec /\ InsideTools'
         /\ \A t : /\ Ran(t)' = IF rec.pc \in PastBody /\ Current(r).name = t
                                THEN Ran(t) \cup {r} ELSE Ran(t) \ {r}
                  /\ Began(t)' = IF rec.pc \in InCall /\ Current(r).name = t
                                  THEN Began(t) \cup {r} ELSE Began(t) \ {r}
  <1>1. run'[r] = rec /\ \A q \in Runs : q # r => run'[q] = run[q]
    BY DEF IInv, Kinds, Replaced
  <1>2. DOMAIN run' = Runs /\ run' = [q \in Runs |-> run'[q]]
    BY DEF IInv, Kinds, Replaced
  <1>3. \A q \in Runs : DOMAIN run'[q] = Fields
    BY <1>1 DEF IInv, Kinds, Replaced
  <1>4. \A q \in Runs : q # r => Current(q)' = Current(q)
    BY <1>1 DEF Current, Calls
  <1>5. rec.pc \in InCall => Current(r)' = Current(r)
    BY <1>1 DEF Current, Calls, Replaced
  <1>6. InsideTools'
    BY <1>1, <1>4, <1>5 DEF IInv, InsideTools
  <1>7. PastBody \subseteq InCall
    BY DEF PastBody, InCall
  <1>8. ASSUME NEW t
        PROVE  /\ Ran(t)' = IF rec.pc \in PastBody /\ Current(r).name = t
                            THEN Ran(t) \cup {r} ELSE Ran(t) \ {r}
               /\ Began(t)' = IF rec.pc \in InCall /\ Current(r).name = t
                              THEN Began(t) \cup {r} ELSE Began(t) \ {r}
    <2>1. /\ Ran(t) = {q \in Runs : run[q].pc \in PastBody /\ Current(q).name = t}
          /\ Began(t) = {q \in Runs : run[q].pc \in InCall /\ Current(q).name = t}
      BY CountedSets
    <2>2. /\ Ran(t)' = {q \in Runs : run'[q].pc \in PastBody /\ Current(q)'.name = t}
          /\ Began(t)' = {q \in Runs : run'[q].pc \in InCall /\ Current(q)'.name = t}
      BY DEF Ran, Began, InCall, PastBody
    <2>3. \A q \in Runs : q # r => /\ q \in Ran(t)' <=> q \in Ran(t)
                                   /\ q \in Began(t)' <=> q \in Began(t)
      BY <1>1, <1>4, <2>1, <2>2
    <2>4. /\ r \in Ran(t)' <=> rec.pc \in PastBody /\ Current(r).name = t
          /\ r \in Began(t)' <=> rec.pc \in InCall /\ Current(r).name = t
      BY <1>1, <1>5, <1>7, <2>2
    <2>5. /\ Ran(t) \subseteq Runs /\ Began(t) \subseteq Runs
          /\ Ran(t)' \subseteq Runs /\ Began(t)' \subseteq Runs
      BY <2>1, <2>2
    <2> QED
      BY <2>3, <2>4, <2>5
  <1> QED
    BY <1>1, <1>2, <1>3, <1>6, <1>8

(* A request that was not past a tool's body, and is in no call then,      *)
(* changes no count.                                                       *)
LEMMA Uncounted ==
  ASSUME IInv, NEW r \in Runs, NEW rec, DOMAIN rec = Fields, rec.pc \notin InCall,
         run[r].pc \notin PastBody, run' = [run EXCEPT ![r] = rec], UNCHANGED tally
  PROVE  IInv'
  <1>1. Replaced(r, rec)
    BY DEF Replaced
  <1>2. rec.pc \notin PastBody
    BY DEF InCall, PastBody
  <1>3. /\ DOMAIN run' = Runs /\ \A q \in Runs : DOMAIN run'[q] = Fields
        /\ run' = [q \in Runs |-> run'[q]]
        /\ InsideTools'
        /\ \A t : Ran(t)' = Ran(t) \ {r} /\ Began(t)' = Began(t) \ {r}
    BY <1>1, <1>2, OneMoves
  <1>4. UNCHANGED <<toolCalls, entered, left>>
    BY DEF tally
  <1>5. Kinds'
    BY <1>3, <1>4 DEF IInv, Kinds
  <1>6. ASSUME NEW t \in Tools
        PROVE  /\ toolCalls'[t] = entered'[t] + left'[t] + Cardinality(Ran(t)')
               /\ Cardinality(Began(t)') <= entered'[t] - left'[t]
    <2>1. Ran(t)' = Ran(t)
      <3>1. Ran(t) = {q \in Runs : run[q].pc \in PastBody /\ Current(q).name = t}
        BY CountedSets
      <3>2. r \notin Ran(t)
        BY <3>1
      <3> QED
        BY <1>3, <3>2
    <2>2. IsFiniteSet(Began(t)) /\ Cardinality(Began(t)) \in Nat
      BY CountedSets
    <2>3. Cardinality(Began(t)') <= Cardinality(Began(t)) /\ Cardinality(Began(t)') \in Nat
      <3>1. Began(t)' \subseteq Began(t)
        BY <1>3
      <3> QED
        BY <2>2, <3>1, FS_Subset, FS_CardinalityType
    <2>4. entered[t] \in Nat /\ left[t] \in Nat
      BY DEF IInv, Kinds
    <2>5. Cardinality(Began(t)') <= entered[t] - left[t]
      BY <2>2, <2>3, <2>4 DEF IInv, Counted
    <2> QED
      BY <1>4, <2>1, <2>5 DEF IInv, Counted
  <1>7. Counted'
    BY <1>6 DEF Counted
  <1> QED
    BY <1>3, <1>5, <1>7 DEF IInv

(* What Enter and Answer make of a record.                                 *)
LEMMA EnterLeaves ==
  ASSUME NEW a, DOMAIN a = Fields, NEW node, node \notin InCall
  PROVE  DOMAIN Enter(a, node) = Fields /\ Enter(a, node).pc \notin InCall
  BY DEF Enter, Fields, InCall

(* ... the same of Answer, which ends a call.                              *)
LEMMA AnswerLeaves ==
  ASSUME IInv, NEW r \in Runs, Answer(r)
  PROVE  \E rec : /\ DOMAIN rec = Fields /\ rec.pc = "tools"
                  /\ run' = [run EXCEPT ![r] = rec]
  <1> DEFINE rec == [run[r] EXCEPT !.pc = "tools", !.call = @ + 1,
                                   !.results = Append(@, ToolMessage(Current(r)))]
  <1>1. DOMAIN run[r] = Fields
    BY DEF IInv, Kinds
  <1>2. DOMAIN rec = Fields /\ rec.pc = "tools"
    BY <1>1 DEF Fields
  <1>3. run' = [run EXCEPT ![r] = rec]
    BY DEF Answer
  <1> QED
    BY <1>2, <1>3

(***************************************************************************)
(* One lemma per action.                                                   *)
(***************************************************************************)
LEMMA StepAttempt ==
  ASSUME IInv, NEW r \in Runs, Attempt(r)
  PROVE  IInv'
  <1>1. PICK k \in ToSet(Catalogue) \ run[r].tried :
          LET state == [run[r] EXCEPT !.model = k, !.tried = @ \cup {k}, !.steps = 0,
                                      !.messages = <<Human>>]
          IN  run' = [run EXCEPT ![r] = Enter(state, "agent")]
    BY DEF Attempt
  <1> DEFINE a   == [run[r] EXCEPT !.model = k, !.tried = @ \cup {k}, !.steps = 0,
                                   !.messages = <<Human>>]
             rec == Enter(a, "agent")
  <1>2. DOMAIN a = Fields
    BY DEF IInv, Kinds
  <1> HIDE DEF a
  <1>3. DOMAIN rec = Fields /\ rec.pc \notin InCall
    BY <1>2, EnterLeaves DEF InCall
  <1>4. run' = [run EXCEPT ![r] = rec]
    BY <1>1 DEF a
  <1> HIDE DEF rec
  <1> QED
    BY <1>3, <1>4, Uncounted DEF Attempt, PastBody

(* Actions that only move the pc.                                          *)
LEMMA StepMoves ==
  ASSUME IInv, NEW r \in Runs, NEW pc, pc \notin InCall, run[r].pc \notin PastBody,
         run' = [run EXCEPT ![r].pc = pc], UNCHANGED tally
  PROVE  IInv'
  <1> DEFINE rec == [run[r] EXCEPT !.pc = pc]
  <1>1. DOMAIN rec = Fields /\ rec.pc = pc
    BY DEF IInv, Kinds, Fields
  <1>2. run' = [run EXCEPT ![r] = rec]
    BY DEF IInv, Kinds
  <1> HIDE DEF rec
  <1> QED
    BY <1>1, <1>2, Uncounted

(* The model's reply calls no tool yet.                                    *)
LEMMA StepReply ==
  ASSUME IInv, NEW r \in Runs, Reply(r)
  PROVE  IInv'
  <1>1. PICK names \in SeqOf(Tools \cup OtherTools, MaxCalls) :
          LET n     == Len(run[r].messages)
              calls == [i \in DOMAIN names |->
                          [id |-> <<Cardinality(run[r].tried), n, i>>, name |-> names[i]]]
              after == [run[r] EXCEPT
                          !.messages = Append(@, AIMessage(Resolve(run[r].model), calls))]
          IN  run' = [run EXCEPT ![r] = IF calls = <<>> THEN [after EXCEPT !.pc = "done"]
                                                        ELSE Enter(after, "tools")]
    BY DEF Reply
  <1> DEFINE n     == Len(run[r].messages)
             calls == [i \in DOMAIN names |->
                         [id |-> <<Cardinality(run[r].tried), n, i>>, name |-> names[i]]]
             after == [run[r] EXCEPT
                         !.messages = Append(@, AIMessage(Resolve(run[r].model), calls))]
             rec   == IF calls = <<>> THEN [after EXCEPT !.pc = "done"] ELSE Enter(after, "tools")
  <1>2. run' = [run EXCEPT ![r] = rec]
    BY <1>1
  <1>3. DOMAIN after = Fields
    BY DEF IInv, Kinds
  <1> HIDE DEF after, calls
  <1>4. DOMAIN [after EXCEPT !.pc = "done"] = Fields /\ [after EXCEPT !.pc = "done"].pc = "done"
    BY <1>3 DEF Fields
  <1>5. DOMAIN Enter(after, "tools") = Fields /\ Enter(after, "tools").pc \notin InCall
    BY <1>3, EnterLeaves DEF InCall
  <1>6. DOMAIN rec = Fields /\ rec.pc \notin InCall
    BY <1>4, <1>5 DEF InCall
  <1> HIDE DEF rec
  <1> QED
    BY <1>2, <1>6, Uncounted DEF Reply, PastBody

(* The tool node hands over to the agent node.                             *)
LEMMA StepToolNodeReturns ==
  ASSUME IInv, NEW r \in Runs, ToolNodeReturns(r)
  PROVE  IInv'
  <1> DEFINE a   == [run[r] EXCEPT !.messages = @ \o run[r].results]
             rec == Enter(a, "agent")
  <1>1. run' = [run EXCEPT ![r] = rec]
    BY DEF ToolNodeReturns
  <1>2. DOMAIN a = Fields
    BY DEF IInv, Kinds
  <1> HIDE DEF a
  <1>3. DOMAIN rec = Fields /\ rec.pc \notin InCall
    BY <1>2, EnterLeaves DEF InCall
  <1> HIDE DEF rec
  <1> QED
    BY <1>1, <1>3, Uncounted DEF ToolNodeReturns, PastBody

(* An unknown tool, and a call whose arguments do not fit, are answered    *)
(* without a count.                                                        *)
LEMMA StepAnswer ==
  ASSUME IInv, NEW r \in Runs, UnknownTool(r) \/ ToolRaises(r)
  PROVE  IInv'
  <1>1. Answer(r) /\ UNCHANGED tally /\ run[r].pc \notin PastBody
    BY DEF UnknownTool, ToolRaises, AtCall, PastBody
  <1>2. PICK rec : /\ DOMAIN rec = Fields /\ rec.pc = "tools"
                   /\ run' = [run EXCEPT ![r] = rec]
    BY <1>1, AnswerLeaves
  <1>3. rec.pc \notin InCall
    BY <1>2 DEF InCall
  <1> QED
    BY <1>1, <1>2, <1>3, Uncounted

(* The counters of one tool go up by these.                                *)
CountUp(u, calls, ins, outs) ==
  /\ toolCalls' = [toolCalls EXCEPT ![u] = @ + calls]
  /\ entered' = [entered EXCEPT ![u] = @ + ins]
  /\ left' = [left EXCEPT ![u] = @ + outs]

(* The figures of one tool still add up.                                   *)
LEMMA AddsUp ==
  ASSUME NEW c \in Nat, NEW e \in Nat, NEW l \in Nat, NEW a \in Nat, NEW b \in Nat,
         NEW x \in Nat, NEW y \in Nat, NEW calls \in Nat, NEW ins \in Nat, NEW outs \in Nat,
         c = e + l + a, b <= e - l, x + ins + outs = a + calls, y + outs <= b + ins
  PROVE  c + calls = (e + ins) + (l + outs) + x /\ y <= (e + ins) - (l + outs)
  OBVIOUS

(* A request at a call of tool u moves, and the counters of u with it: it  *)
(* is enough to add up the figures of u.                                   *)
LEMMA CallMoves ==
  ASSUME IInv, NEW r \in Runs, NEW rec, Replaced(r, rec), NEW u \in Tools,
         Current(r).name = u, NEW calls \in Nat, NEW ins \in Nat, NEW outs \in Nat,
         CountUp(u, calls, ins, outs),
         Cardinality(Ran(u)') + ins + outs = Cardinality(Ran(u)) + calls,
         Cardinality(Began(u)') + outs <= Cardinality(Began(u)) + ins
  PROVE  IInv'
  <1>1. /\ DOMAIN run' = Runs /\ \A q \in Runs : DOMAIN run'[q] = Fields
        /\ run' = [q \in Runs |-> run'[q]]
        /\ InsideTools'
        /\ \A t : t # u => Ran(t)' = Ran(t) \ {r} /\ Began(t)' = Began(t) \ {r}
    BY OneMoves
  <1>2. /\ toolCalls'[u] = toolCalls[u] + calls /\ entered'[u] = entered[u] + ins
        /\ left'[u] = left[u] + outs
        /\ \A t \in Tools : t # u => /\ toolCalls'[t] = toolCalls[t]
                                     /\ entered'[t] = entered[t] /\ left'[t] = left[t]
    BY DEF IInv, Kinds, CountUp
  <1>3. Kinds'
    <2>1. toolCalls[u] + calls \in Nat /\ entered[u] + ins \in Nat /\ left[u] + outs \in Nat
      BY DEF IInv, Kinds
    <2>2. /\ toolCalls' \in [Tools -> Nat] /\ entered' \in [Tools -> Nat]
          /\ left' \in [Tools -> Nat]
      BY <2>1 DEF IInv, Kinds, CountUp
    <2> QED
      BY <1>1, <2>2 DEF Kinds
  <1>4. /\ toolCalls'[u] = entered'[u] + left'[u] + Cardinality(Ran(u)')
        /\ Cardinality(Began(u)') <= entered'[u] - left'[u]
    <2>1. Cardinality(Ran(u)) \in Nat /\ Cardinality(Began(u)) \in Nat
      BY CountedSets
    <2>2. Cardinality(Ran(u)') \in Nat /\ Cardinality(Began(u)') \in Nat
      <3>1. Ran(u)' = Ran(u) \cup {r} \/ Ran(u)' = Ran(u) \ {r}
        BY OneMoves
      <3>2. Began(u)' = Began(u) \cup {r} \/ Began(u)' = Began(u) \ {r}
        BY OneMoves
      <3>3. IsFiniteSet(Ran(u)) /\ IsFiniteSet(Began(u))
        BY CountedSets
      <3>4. IsFiniteSet(Ran(u)') /\ IsFiniteSet(Began(u)')
        BY <3>1, <3>2, <3>3, FS_AddElement, FS_RemoveElement
      <3> QED
        BY <3>4, FS_CardinalityType
    <2>3. /\ toolCalls[u] \in Nat /\ entered[u] \in Nat /\ left[u] \in Nat
          /\ toolCalls[u] = entered[u] + left[u] + Cardinality(Ran(u))
          /\ Cardinality(Began(u)) <= entered[u] - left[u]
      BY DEF IInv, Kinds, Counted
    <2>4. /\ toolCalls[u] + calls = (entered[u] + ins) + (left[u] + outs) + Cardinality(Ran(u)')
          /\ Cardinality(Began(u)') <= (entered[u] + ins) - (left[u] + outs)
      BY <2>1, <2>2, <2>3, AddsUp
    <2> QED
      BY <1>2, <2>4
  <1>5. ASSUME NEW t \in Tools
        PROVE  /\ toolCalls'[t] = entered'[t] + left'[t] + Cardinality(Ran(t)')
               /\ Cardinality(Began(t)') <= entered'[t] - left'[t]
    <2>1. Cardinality(Ran(t)) \in Nat /\ Cardinality(Began(t)) \in Nat
      BY CountedSets
    <2>2. /\ toolCalls[t] \in Nat /\ entered[t] \in Nat /\ left[t] \in Nat
          /\ toolCalls[t] = entered[t] + left[t] + Cardinality(Ran(t))
          /\ Cardinality(Began(t)) <= entered[t] - left[t]
      BY DEF IInv, Kinds, Counted
    <2>3. CASE t = u
      BY <1>4, <2>3
    <2>4. CASE t # u
      <3>1. r \notin Ran(t) /\ r \notin Began(t)
        BY <2>4, CountedSets
      <3>2. Ran(t)' = Ran(t) /\ Began(t)' = Began(t)
        BY <1>1, <2>4, <3>1
      <3> QED
        BY <1>2, <2>2, <2>4, <3>2
    <2> QED
      BY <2>3, <2>4
  <1>6. Counted'
    BY <1>5 DEF Counted
  <1> QED
    BY <1>1, <1>3, <1>6 DEF IInv

(* A request moves on within a call, or into it.                           *)
LEMMA WithinCall ==
  ASSUME IInv, NEW r \in Runs, NEW pc \in InCall, Current(r).name \in Tools,
         run' = [run EXCEPT ![r].pc = pc]
  PROVE  \E rec : Replaced(r, rec) /\ rec.pc = pc
  <1> DEFINE rec == [run[r] EXCEPT !.pc = pc]
  <1>1. DOMAIN rec = Fields /\ rec.pc = pc
    BY DEF IInv, Kinds, Fields
  <1>2. rec.messages = run[r].messages /\ rec.call = run[r].call
    BY DEF IInv, Kinds, Fields
  <1>3. run' = [run EXCEPT ![r] = rec]
    BY DEF IInv, Kinds
  <1> HIDE DEF rec
  <1> QED
    BY <1>1, <1>2, <1>3 DEF Replaced

(* On the way in one request more has begun, and the hook counts.          *)
LEMMA StepPreToolCall ==
  ASSUME IInv, NEW r \in Runs, PreToolCall(r)
  PROVE  IInv'
  <1>0. PICK u : u = Current(r).name
    OBVIOUS
  <1>1. u \in Tools /\ run[r].pc = "tools"
    BY <1>0 DEF PreToolCall, AtCall
  <1>2. CountUp(u, 1, 1, 0)
    BY <1>0, <1>1 DEF PreToolCall, RecordToolCall, CountUp, IInv, Kinds
  <1>3. PICK rec : Replaced(r, rec) /\ rec.pc = "invoking"
    BY <1>0, <1>1, WithinCall DEF PreToolCall, InCall
  <1>4. r \notin Ran(u) /\ r \notin Began(u)
    BY <1>0, <1>1, CountedSets DEF InCall, PastBody
  <1>5. Ran(u)' = Ran(u) /\ Began(u)' = Began(u) \cup {r}
    <2>1. rec.pc \in InCall /\ rec.pc \notin PastBody
      BY <1>3 DEF InCall, PastBody
    <2> QED
      BY <1>0, <1>1, <1>3, <1>4, <2>1, OneMoves
  <1>6. Cardinality(Ran(u)) \in Nat /\ Cardinality(Began(u)) \in Nat /\ IsFiniteSet(Began(u))
    BY CountedSets
  <1>7. Cardinality(Began(u)') = Cardinality(Began(u)) + 1
    BY <1>4, <1>5, <1>6, FS_AddElement
  <1>8. /\ Cardinality(Ran(u)') + 1 + 0 = Cardinality(Ran(u)) + 1
        /\ Cardinality(Began(u)') + 0 <= Cardinality(Began(u)) + 1
    BY <1>5, <1>6, <1>7
  <1> QED
    BY <1>0, <1>1, <1>2, <1>3, <1>8, CallMoves

(* The body counts, and its request is one more whose tool has run.        *)
LEMMA StepToolBody ==
  ASSUME IInv, NEW r \in Runs, ToolBody(r)
  PROVE  IInv'
  <1>0. PICK u : u = Current(r).name
    OBVIOUS
  <1>1. u \in Tools /\ run[r].pc = "invoking"
    BY <1>0 DEF ToolBody, IInv, InsideTools, InCall
  <1>2. CountUp(u, 1, 0, 0)
    BY <1>0, <1>1 DEF ToolBody, RecordToolCall, CountUp, IInv, Kinds
  <1>3. PICK rec : Replaced(r, rec) /\ rec.pc = "counted"
    BY <1>0, <1>1, WithinCall DEF ToolBody, InCall
  <1>4. r \notin Ran(u) /\ r \in Began(u)
    BY <1>0, <1>1, CountedSets DEF InCall, PastBody
  <1>5. Ran(u)' = Ran(u) \cup {r} /\ Began(u)' = Began(u)
    <2>1. rec.pc \in InCall /\ rec.pc \in PastBody
      BY <1>3 DEF InCall, PastBody
    <2>2. Ran(u)' = Ran(u) \cup {r} /\ Began(u)' = Began(u) \cup {r}
      BY <1>0, <1>1, <1>3, <2>1, OneMoves
    <2> QED
      BY <1>4, <2>2
  <1>6. Cardinality(Ran(u)) \in Nat /\ Cardinality(Began(u)) \in Nat /\ IsFiniteSet(Ran(u))
    BY CountedSets
  <1>7. Cardinality(Ran(u)') = Cardinality(Ran(u)) + 1
    BY <1>4, <1>5, <1>6, FS_AddElement
  <1>8. /\ Cardinality(Ran(u)') + 0 + 0 = Cardinality(Ran(u)) + 1
        /\ Cardinality(Began(u)') + 0 <= Cardinality(Began(u)) + 0
    BY <1>5, <1>6, <1>7
  <1> QED
    BY <1>0, <1>1, <1>2, <1>3, <1>8, CallMoves

(* On the way out one request less is in the call and past its body.       *)
LEMMA StepToolReturns ==
  ASSUME IInv, NEW r \in Runs, ToolReturns(r)
  PROVE  IInv'
  <1>0. PICK u : u = Current(r).name
    OBVIOUS
  <1>1. u \in Tools /\ run[r].pc = "counted"
    BY <1>0 DEF ToolReturns, IInv, InsideTools, InCall
  <1>2. CountUp(u, 0, 0, 1)
    BY <1>0, <1>1 DEF ToolReturns, PostToolCall, CountUp, IInv, Kinds
  <1>3. PICK rec : /\ DOMAIN rec = Fields /\ rec.pc = "tools"
                   /\ run' = [run EXCEPT ![r] = rec]
    BY AnswerLeaves DEF ToolReturns
  <1>4. Replaced(r, rec) /\ rec.pc \notin InCall /\ rec.pc \notin PastBody
    BY <1>3 DEF Replaced, InCall, PastBody
  <1>5. r \in Ran(u) /\ r \in Began(u)
    BY <1>0, <1>1, CountedSets DEF InCall, PastBody
  <1>6. Ran(u)' = Ran(u) \ {r} /\ Began(u)' = Began(u) \ {r}
    BY <1>4, OneMoves
  <1>7. /\ Cardinality(Ran(u)) \in Nat /\ Cardinality(Began(u)) \in Nat
        /\ IsFiniteSet(Ran(u)) /\ IsFiniteSet(Began(u))
    BY CountedSets
  <1>8. /\ Cardinality(Ran(u)') = Cardinality(Ran(u)) - 1
        /\ Cardinality(Began(u)') = Cardinality(Began(u)) - 1
    BY <1>5, <1>6, <1>7, FS_RemoveElement
  <1>9. /\ Cardinality(Ran(u)') + 0 + 1 = Cardinality(Ran(u)) + 0
        /\ Cardinality(Began(u)') + 1 <= Cardinality(Began(u)) + 0
    BY <1>7, <1>8
  <1> QED
    BY <1>0, <1>1, <1>2, <1>4, <1>9, CallMoves

(* A request that is closed leaves the call it was in, and what it counted *)
(* with it, but where the body had run it stays among those that ran.      *)
LEMMA StepClose ==
  ASSUME IInv, NEW r \in Runs, Close(r)
  PROVE  IInv'
  <1>1. UNCHANGED tally
    BY DEF Close
  <1>2. CASE run[r].pc # "counted"
    <2>1. run' = [run EXCEPT ![r].pc = "closed"]
      BY <1>2 DEF Close
    <2>2. run[r].pc \notin PastBody
      BY <1>2 DEF Close, PastBody
    <2>3. "closed" \notin InCall
      BY DEF InCall
    <2> QED
      BY <1>1, <2>1, <2>2, <2>3, StepMoves
  <1>3. CASE run[r].pc = "counted"
    <2>0. PICK u : u = Current(r).name
      OBVIOUS
    <2>1. u \in Tools
      BY <1>3, <2>0 DEF IInv, InsideTools, InCall
    <2>2. run' = [run EXCEPT ![r].pc = "cut"]
      BY <1>3 DEF Close
    <2>3. PICK rec : Replaced(r, rec) /\ rec.pc = "cut"
      BY <2>0, <2>1, <2>2, WithinCall DEF InCall
    <2>4. CountUp(u, 0, 0, 0)
      BY <1>1, <2>1 DEF tally, CountUp, IInv, Kinds
    <2>5. r \in Ran(u) /\ r \in Began(u)
      BY <1>3, <2>0, CountedSets DEF InCall, PastBody
    <2>6. Ran(u)' = Ran(u) /\ Began(u)' = Began(u)
      <3>1. rec.pc \in InCall /\ rec.pc \in PastBody
        BY <2>3 DEF InCall, PastBody
      <3>2. Ran(u)' = Ran(u) \cup {r} /\ Began(u)' = Began(u) \cup {r}
        BY <2>0, <2>1, <2>3, <3>1, OneMoves
      <3> QED
        BY <2>5, <3>2
    <2>7. Cardinality(Ran(u)) \in Nat /\ Cardinality(Began(u)) \in Nat
      BY CountedSets
    <2>8. /\ Cardinality(Ran(u)') + 0 + 0 = Cardinality(Ran(u)) + 0
          /\ Cardinality(Began(u)') + 0 <= Cardinality(Began(u)) + 0
      BY <2>6, <2>7
    <2> QED
      BY <2>0, <2>1, <2>3, <2>4, <2>8, CallMoves
  <1> QED
    BY <1>2, <1>3

(* Every step preserves the invariant.                                     *)
LEMMA NextIInv == IInv /\ [Next]_vars => IInv'
  <1> SUFFICES ASSUME IInv, [Next]_vars PROVE IInv'
    OBVIOUS
  <1>1. ASSUME NEW r \in Runs, Attempt(r) PROVE IInv'
    BY <1>1, StepAttempt
  <1>2. ASSUME NEW r \in Runs, ModelRaises(r) \/ CallModel(r) PROVE IInv'
    <2>1. PICK pc \in {"raised", "model"} : run' = [run EXCEPT ![r].pc = pc]
      BY <1>2 DEF ModelRaises, CallModel
    <2>2. UNCHANGED tally /\ run[r].pc \notin PastBody
      BY <1>2 DEF ModelRaises, CallModel, PastBody
    <2>3. pc \notin InCall
      BY DEF InCall
    <2> QED
      BY <2>1, <2>2, <2>3, StepMoves
  <1>3. ASSUME NEW r \in Runs, Reply(r) PROVE IInv'
    BY <1>3, StepReply
  <1>4. ASSUME NEW r \in Runs, UnknownTool(r) \/ ToolRaises(r) PROVE IInv'
    BY <1>4, StepAnswer
  <1>5. ASSUME NEW r \in Runs, PreToolCall(r) PROVE IInv'
    BY <1>5, StepPreToolCall
  <1>6. ASSUME NEW r \in Runs, ToolBody(r) \/ ToolReturns(r) \/ Close(r) PROVE IInv'
    BY <1>6, StepToolBody, StepToolReturns, StepClose
  <1>7. ASSUME NEW r \in Runs, ToolNodeReturns(r) PROVE IInv'
    BY <1>7, StepToolNodeReturns
  <1>8. CASE UNCHANGED vars
    <2>1. UNCHANGED <<run, toolCalls, entered, left>>
      BY <1>8 DEF vars, tally
    <2>2. \A t : Ran(t)' = Ran(t) /\ Began(t)' = Began(t)
      BY <2>1 DEF Ran, Began, Current, Calls
    <2> QED
      BY <2>1, <2>2 DEF IInv, Kinds, InsideTools, Counted, Current, Calls
  <1> QED
    BY <1>1, <1>2, <1>3, <1>4, <1>5, <1>6, <1>7, <1>8 DEF Next, Step

(* However many requests, attempts and rounds call tools, raise, or are    *)
(* cancelled in between, the counter of a tool is the sum of its two log   *)
(* lines and of the calls whose body has run without a line of the way     *)
(* out, either not yet or because they were cancelled there; and a call    *)
(* that is under way has been counted (agent/graph/middleware.py:102,      *)
(* tools/calculate_tool.py:49, resilient_agent_builder.py:91-94).          *)
THEOREM ToolsCounted == Spec => []ToolLedger
  <1>1. IInv => ToolLedger
    <2> SUFFICES ASSUME IInv, NEW t \in Tools
                 PROVE  /\ toolCalls[t] = entered[t] + left[t] + Cardinality(Ran(t))
                        /\ entered[t] - left[t] >= Cardinality(Began(t))
      BY DEF ToolLedger
    <2>1. Cardinality(Began(t)) \in Nat /\ entered[t] \in Nat /\ left[t] \in Nat
      BY CountedSets DEF IInv, Kinds
    <2> QED
      BY <2>1 DEF IInv, Counted
  <1> QED
    BY <1>1, InitIInv, NextIInv, PTL DEF Spec

(***************************************************************************)
(* The messages of an attempt.                                             *)
(***************************************************************************)
(* The values of an attempt's record; a call's id starts with the number   *)
(* of the attempt.                                                         *)
States   == {"idle", "agent", "model", "tools", "invoking", "counted", "done", "raised",
             "closed", "cut"}
Models   == ToSet(Catalogue) \cup {NoModel}
Tries    == {Cardinality(S) : S \in SUBSET ToSet(Catalogue)}
CallSet  == [id : Tries \X Nat \X Nat, name : Tools \cup OtherTools]
Answers  == [kind : {"tool"}, id : Tries \X Nat \X Nat, name : Tools \cup OtherTools]
Replies  == [kind : {"ai"}, by : {Resolve(k) : k \in Models},
             calls : {cs \in Seq(CallSet) : Len(cs) <= MaxCalls}]
Messages == {Human} \cup Replies \cup Answers
Attempts == [pc : States, model : Models, tried : SUBSET ToSet(Catalogue),
             messages : Seq(Messages), call : 1..(MaxCalls + 1), results : Seq(Answers),
             steps : 0..RecursionLimit]

(* The first n messages: each reply's calls are answered, in their order   *)
(* and within them, and there is no other answer.                          *)
Answered(ms, n) ==
  /\ \A i \in 1..n : ms[i].kind = "ai" =>
       /\ i + Len(ms[i].calls) <= n
       /\ \A k \in DOMAIN ms[i].calls : ms[i + k] = ToolMessage(ms[i].calls[k])
  /\ \A i \in 1..n : ms[i].kind = "tool" =>
       \E j \in 1..(i - 1) : ms[j].kind = "ai" /\ i - j <= Len(ms[j].calls)

(* An attempt in a round of tools: what the last reply asked for is        *)
(* answered as far as the round has come.                                  *)
InRound(a) ==
  LET n     == Len(a.messages)
      calls == a.messages[n].calls
  IN  /\ n # 0 /\ a.messages[n].kind = "ai" /\ Answered(a.messages, n - 1)
      /\ Len(a.results) = a.call - 1 /\ a.call <= Len(calls) + 1
      /\ a.pc \in {"invoking", "counted"} => a.call <= Len(calls)
      /\ \A k \in 1..(a.call - 1) : a.results[k] = ToolMessage(calls[k])

(* All replies are of the attempt's provider, and so are their calls.      *)
OfAttempt(a) ==
  \A i \in DOMAIN a.messages : a.messages[i].kind = "ai" =>
    /\ a.messages[i].by = Resolve(a.model)
    /\ \A k \in DOMAIN a.messages[i].calls : a.messages[i].calls[k].id[1] = Cardinality(a.tried)

(* What holds of the record of a request.                                  *)
AttemptOk(a) ==
  /\ a \in Attempts /\ OfAttempt(a)
  /\ a.pc \in {"agent", "model"} => Answered(a.messages, Len(a.messages))
  /\ a.pc \in {"tools", "invoking", "counted"} => InRound(a)

(* The invariant of the second theorem.                                    *)
AttemptsOk ==
  /\ registered \subseteq ToSet(Catalogue) /\ run \in [Runs -> Attempts]
  /\ \A r \in Runs : AttemptOk(run[r])

(* The registry is fixed, so a key resolves to the same provider for ever. *)
LEMMA ResolveKept ==
  ASSUME UNCHANGED registered
  PROVE  /\ \A k : Resolve(k)' = Resolve(k)
         /\ Replies' = Replies /\ Messages' = Messages /\ Attempts' = Attempts
  <1>1. \A k : Resolve(k)' = Resolve(k)
    BY DEF Resolve
  <1> QED
    BY <1>1 DEF Replies, Messages, Attempts

(* The kinds of messages.                                                  *)
LEMMA MessageKinds ==
  /\ Human \in Messages /\ Human.kind = "human"
  /\ \A m \in Replies : m \in Messages /\ m.kind = "ai" /\ m.calls \in Seq(CallSet)
                        /\ Len(m.calls) <= MaxCalls
  /\ \A m \in Answers : m \in Messages /\ m.kind = "tool"
  /\ \A m \in Messages : /\ m.kind \in {"human", "ai", "tool"}
                         /\ m.kind = "ai" => m \in Replies
                         /\ m.kind = "tool" => m \in Answers
  /\ \A c \in CallSet : ToolMessage(c) \in Answers
  BY DEF Messages, Human, Replies, Answers, CallSet, ToolMessage

(* It is enough that the attempt that steps stays sound.                   *)
LEMMA OneSteps ==
  ASSUME AttemptsOk, UNCHANGED registered, NEW r \in Runs, NEW a, AttemptOk(a),
         run' = [run EXCEPT ![r] = a]
  PROVE  AttemptsOk'
  <1>1. \A b : AttemptOk(b) => AttemptOk(b)'
    <2> SUFFICES ASSUME NEW b, AttemptOk(b) PROVE AttemptOk(b)'
      OBVIOUS
    <2>1. b \in Attempts'
      BY ResolveKept DEF AttemptOk
    <2>2. OfAttempt(b)'
      BY ResolveKept DEF AttemptOk, OfAttempt
    <2> QED
      BY <2>1, <2>2 DEF AttemptOk, Answered, InRound
  <1>2. a \in Attempts
    BY DEF AttemptOk
  <1>3. run' \in [Runs -> Attempts]
    BY <1>2 DEF AttemptsOk
  <1>4. \A q \in Runs : run'[q] = a \/ run'[q] = run[q]
    BY DEF AttemptsOk
  <1>5. \A q \in Runs : AttemptOk(run[q])'
    BY <1>1, <1>4 DEF AttemptsOk
  <1> QED
    BY <1>3, <1>5, ResolveKept DEF AttemptsOk

(* The initial states.                                                     *)
LEMMA AttemptsInit == Init => AttemptsOk
  <1> SUFFICES ASSUME Init PROVE AttemptsOk
    OBVIOUS
  <1>1. 1 \in 1..(MaxCalls + 1) /\ 0 \in 0..RecursionLimit
    BY GraphAssumption
  <1>2. Idle \in Attempts
    BY <1>1 DEF Idle, Attempts, States, Models
  <1>3. AttemptOk(Idle)
    BY <1>2 DEF AttemptOk, OfAttempt, Idle
  <1> QED
    BY <1>2, <1>3 DEF Init, AttemptsOk

(* Entering a node starts a round, or raises.                              *)
LEMMA EnterOk ==
  ASSUME NEW a \in Attempts, NEW node \in {"agent", "tools"}, OfAttempt(a),
         node = "agent" => Answered(a.messages, Len(a.messages)),
         node = "tools" => /\ Len(a.messages) # 0
                           /\ a.messages[Len(a.messages)].kind = "ai"
                           /\ Answered(a.messages, Len(a.messages) - 1)
  PROVE  AttemptOk(Enter(a, node))
  <1>1. CASE a.steps < RecursionLimit
    <2>1. PICK steps : steps = a.steps + 1
      OBVIOUS
    <2>2. steps \in 0..RecursionLimit
      BY <1>1, <2>1, GraphAssumption DEF Attempts
    <2>3. PICK b : b = [[[[a EXCEPT !.pc = node] EXCEPT !.steps = steps] EXCEPT !.call = 1]
                        EXCEPT !.results = <<>>]
      OBVIOUS
    <2>4. Enter(a, node) = b
      BY <1>1, <2>1, <2>3 DEF Enter, Attempts
    <2>5. 1 \in 1..(MaxCalls + 1) /\ <<>> \in Seq(Answers) /\ node \in States
      BY GraphAssumption DEF States
    <2>6. /\ b \in Attempts /\ b.pc = node /\ b.messages = a.messages /\ b.call = 1
          /\ b.results = <<>> /\ b.model = a.model /\ b.tried = a.tried
      BY <2>2, <2>3, <2>5 DEF Attempts
    <2>7. OfAttempt(b)
      BY <2>6 DEF OfAttempt
    <2>8. node = "tools" => InRound(b)
      <3> SUFFICES ASSUME node = "tools" PROVE InRound(b)
        OBVIOUS
      <3>1. a.messages[Len(a.messages)] \in Replies /\ a.messages \in Seq(Messages)
        BY MessageKinds DEF Attempts
      <3>2. Len(a.messages[Len(a.messages)].calls) \in Nat
        BY <3>1, MessageKinds
      <3>3. Len(<<>>) = 0
        OBVIOUS
      <3> QED
        BY <2>6, <3>2, <3>3 DEF InRound
    <2> QED
      BY <2>4, <2>6, <2>7, <2>8 DEF AttemptOk
  <1>2. CASE ~(a.steps < RecursionLimit)
    <2>1. PICK b : b = [a EXCEPT !.pc = "raised"]
      OBVIOUS
    <2>2. Enter(a, node) = b
      BY <1>2, <2>1 DEF Enter
    <2>3. /\ b \in Attempts /\ b.pc = "raised" /\ b.messages = a.messages
          /\ b.model = a.model /\ b.tried = a.tried
      BY <2>1 DEF Attempts, States
    <2> QED
      BY <2>2, <2>3 DEF AttemptOk, OfAttempt
  <1> QED
    BY <1>1, <1>2

(* The pc of an attempt moves to where nothing is said of the messages,    *)
(* or from "agent" to "model".                                             *)
LEMMA PcMoves ==
  ASSUME AttemptsOk, UNCHANGED registered, NEW r \in Runs, NEW pc \in States,
         run' = [run EXCEPT ![r].pc = pc],
         \/ pc \in {"raised", "closed", "cut"}
         \/ pc = "model" /\ run[r].pc = "agent"
         \/ pc = "invoking" /\ AtCall(r)
         \/ pc = "counted" /\ run[r].pc = "invoking"
  PROVE  AttemptsOk'
  <1>1. run[r] \in Attempts /\ AttemptOk(run[r])
    BY DEF AttemptsOk
  <1>2. PICK b : b = [run[r] EXCEPT !.pc = pc]
    OBVIOUS
  <1>3. run' = [run EXCEPT ![r] = b]
    BY <1>2 DEF AttemptsOk
  <1>4. /\ b \in Attempts /\ b.pc = pc /\ b.messages = run[r].messages /\ b.call = run[r].call
        /\ b.results = run[r].results /\ b.model = run[r].model /\ b.tried = run[r].tried
    BY <1>1, <1>2 DEF Attempts
  <1>5. AttemptOk(b)
    <2>1. OfAttempt(b)
      BY <1>1, <1>4 DEF AttemptOk, OfAttempt
    <2>2. CASE pc \in {"raised", "closed", "cut"}
      BY <1>4, <2>1, <2>2 DEF AttemptOk
    <2>3. CASE pc = "model" /\ run[r].pc = "agent"
      BY <1>1, <1>4, <2>1, <2>3 DEF AttemptOk
    <2>4. CASE pc = "invoking" /\ AtCall(r)
      <3>1. InRound(run[r]) /\ run[r].call <= Len(run[r].messages[Len(run[r].messages)].calls)
        BY <1>1, <2>4 DEF AttemptOk, AtCall, Calls, Last
      <3> QED
        BY <1>4, <2>1, <2>4, <3>1 DEF AttemptOk, InRound
    <2>5. CASE pc = "counted" /\ run[r].pc = "invoking"
      <3>1. InRound(run[r])
        BY <1>1, <2>5 DEF AttemptOk
      <3> QED
        BY <1>4, <2>1, <2>5, <3>1 DEF AttemptOk, InRound
    <2> QED
      BY <2>2, <2>3, <2>4, <2>5
  <1> QED
    BY <1>3, <1>5, OneSteps

(* A new attempt starts from the conversation alone.                       *)
LEMMA AttemptsAttempt ==
  ASSUME AttemptsOk, NEW r \in Runs, Attempt(r)
  PROVE  AttemptsOk'
  <1>1. run[r] \in Attempts
    BY DEF AttemptsOk
  <1>2. PICK k \in ToSet(Catalogue) \ run[r].tried :
          LET state == [run[r] EXCEPT !.model = k, !.tried = @ \cup {k}, !.steps = 0,
                                      !.messages = <<Human>>]
          IN  run' = [run EXCEPT ![r] = Enter(state, "agent")]
    BY DEF Attempt
  <1>3. PICK ms, tried : ms = <<Human>> /\ tried = run[r].tried \cup {k}
    OBVIOUS
  <1>4. PICK a : a = [[[[run[r] EXCEPT !.model = k] EXCEPT !.tried = tried] EXCEPT !.steps = 0]
                      EXCEPT !.messages = ms]
    OBVIOUS
  <1>5. run' = [run EXCEPT ![r] = Enter(a, "agent")]
    BY <1>1, <1>2, <1>3, <1>4 DEF Attempts
  <1>6. ms \in Seq(Messages) /\ Len(ms) = 1 /\ DOMAIN ms = {1} /\ ms[1] = Human
    BY <1>3, MessageKinds
  <1>7. a \in Attempts /\ a.messages = ms
    <2>1. 0 \in 0..RecursionLimit /\ k \in Models /\ tried \in SUBSET ToSet(Catalogue)
      BY <1>1, <1>2, <1>3, GraphAssumption DEF Models, Attempts
    <2> QED
      BY <1>1, <1>4, <1>6, <2>1 DEF Attempts
  <1>8. OfAttempt(a)
    BY <1>6, <1>7, MessageKinds DEF OfAttempt
  <1>9. Answered(ms, 1)
    BY <1>6, MessageKinds DEF Answered
  <1>10. AttemptOk(Enter(a, "agent"))
    BY <1>6, <1>7, <1>8, <1>9, EnterOk
  <1> QED
    BY <1>5, <1>10, OneSteps DEF Attempt

(* A reply's calls.                                                        *)
CallsOf(names, x, n) ==
  [i \in DOMAIN names |-> [id |-> <<x, n, i>>, name |-> names[i]]]

(* ... and what is needed of them.                                         *)
CallsOk(calls, x) ==
  /\ calls \in Seq(CallSet) /\ Len(calls) <= MaxCalls
  /\ \A k \in DOMAIN calls : calls[k].id[1] = x

(* A reply's calls carry the attempt's number.                             *)
LEMMA ReplyCalls ==
  ASSUME NEW names \in SeqOf(Tools \cup OtherTools, MaxCalls), NEW x \in Tries, NEW n \in Nat
  PROVE  CallsOk(CallsOf(names, x, n), x)
  <1> DEFINE calls == CallsOf(names, x, n)
  <1>1. PICK m \in 0..MaxCalls : names \in [1..m -> Tools \cup OtherTools]
    BY DEF SeqOf
  <1>2. m \in Nat /\ m <= MaxCalls /\ DOMAIN names = 1..m
    BY <1>1, GraphAssumption
  <1>3. \A i \in 1..m : <<x, n, i>> \in Tries \X Nat \X Nat
    BY <1>2
  <1>4. \A i \in 1..m : [id |-> <<x, n, i>>, name |-> names[i]] \in CallSet
    BY <1>1, <1>3 DEF CallSet
  <1>5. calls \in [1..m -> CallSet] /\ \A k \in 1..m : calls[k].id[1] = x
    BY <1>2, <1>4 DEF CallsOf
  <1>6. calls \in Seq(CallSet) /\ Len(calls) = m
    BY <1>2, <1>5
  <1> QED
    BY <1>2, <1>5, <1>6 DEF CallsOk

(* What was answered stays answered when messages are added.               *)
LEMMA SameAnswers ==
  ASSUME NEW ms \in Seq(Messages), NEW n \in Nat, n <= Len(ms), Answered(ms, n), NEW qs,
         \A i \in 1..n : qs[i] = ms[i]
  PROVE  Answered(qs, n)
  <1>1. ASSUME NEW i \in 1..n, qs[i].kind = "ai"
        PROVE  /\ i + Len(qs[i].calls) <= n
               /\ \A k \in DOMAIN qs[i].calls : qs[i + k] = ToolMessage(qs[i].calls[k])
    <2>1. qs[i] = ms[i] /\ ms[i] \in Replies
      BY <1>1, MessageKinds
    <2>2. PICK calls : calls = ms[i].calls
      OBVIOUS
    <2>3. calls \in Seq(CallSet) /\ i + Len(calls) <= n
          /\ \A k \in DOMAIN calls : ms[i + k] = ToolMessage(calls[k])
      BY <1>1, <2>1, <2>2, MessageKinds DEF Answered
    <2>4. \A k \in DOMAIN calls : i + k \in 1..n
      BY <2>3
    <2> QED
      BY <2>1, <2>2, <2>3, <2>4
  <1>2. ASSUME NEW i \in 1..n, qs[i].kind = "tool"
        PROVE  \E j \in 1..(i - 1) : qs[j].kind = "ai" /\ i - j <= Len(qs[j].calls)
    <2>1. PICK j \in 1..(i - 1) : ms[j].kind = "ai" /\ i - j <= Len(ms[j].calls)
      BY <1>2 DEF Answered
    <2>2. j \in 1..n
      OBVIOUS
    <2> QED
      BY <2>1, <2>2
  <1> QED
    BY <1>1, <1>2 DEF Answered

(* A reply ends the run, or starts a round of tools with nothing answered. *)
LEMMA AttemptsReply ==
  ASSUME AttemptsOk, NEW r \in Runs, Reply(r)
  PROVE  AttemptsOk'
  <1>1. run[r] \in Attempts /\ AttemptOk(run[r]) /\ run[r].pc = "model"
    BY DEF AttemptsOk, Reply
  <1>2. PICK names \in SeqOf(Tools \cup OtherTools, MaxCalls) :
          LET n     == Len(run[r].messages)
              calls == [i \in DOMAIN names |->
                          [id |-> <<Cardinality(run[r].tried), n, i>>, name |-> names[i]]]
              after == [run[r] EXCEPT
                          !.messages = Append(@, AIMessage(Resolve(run[r].model), calls))]
          IN  run' = [run EXCEPT ![r] = IF calls = <<>> THEN [after EXCEPT !.pc = "done"]
                                                        ELSE Enter(after, "tools")]
    BY DEF Reply
  <1>3. PICK x, n : x = Cardinality(run[r].tried) /\ n = Len(run[r].messages)
    OBVIOUS
  <1>4. x \in Tries /\ n \in Nat /\ run[r].messages \in Seq(Messages)
    BY <1>1, <1>3 DEF Attempts, Tries
  <1>5. PICK calls : calls = CallsOf(names, x, n)
    OBVIOUS
  <1>6. /\ calls \in Seq(CallSet) /\ Len(calls) <= MaxCalls
        /\ \A k \in DOMAIN calls : calls[k].id[1] = x
    BY <1>4, <1>5, ReplyCalls DEF CallsOk
  <1>7. PICK m : m = AIMessage(Resolve(run[r].model), calls)
    OBVIOUS
  <1>8. m \in Replies /\ m.kind = "ai" /\ m.by = Resolve(run[r].model) /\ m.calls = calls
    BY <1>1, <1>6, <1>7 DEF AIMessage, Replies, Attempts
  <1>9. PICK ms : ms = Append(run[r].messages, m)
    OBVIOUS
  <1>10. /\ ms \in Seq(Messages) /\ Len(ms) = n + 1 /\ ms[n + 1] = m
         /\ \A i \in 1..n : ms[i] = run[r].messages[i]
         /\ DOMAIN ms = 1..(n + 1) /\ DOMAIN run[r].messages = 1..n
    <2>1. m \in Messages
      BY <1>8, MessageKinds
    <2> QED
      BY <1>3, <1>4, <1>9, <2>1
  <1>11. PICK after : after = [run[r] EXCEPT !.messages = ms]
    OBVIOUS
  <1>12. run' = [run EXCEPT ![r] = IF calls = <<>> THEN [after EXCEPT !.pc = "done"]
                                                   ELSE Enter(after, "tools")]
    BY <1>2, <1>3, <1>5, <1>7, <1>9, <1>11 DEF CallsOf
  <1>13. /\ after \in Attempts /\ after.messages = ms /\ after.model = run[r].model
         /\ after.tried = run[r].tried
    BY <1>1, <1>10, <1>11 DEF Attempts
  <1>14. OfAttempt(after)
    <2>1. \A i \in 1..(n + 1) : i \in 1..n \/ i = n + 1
      BY <1>4
    <2> QED
      BY <1>1, <1>3, <1>6, <1>8, <1>10, <1>13, <2>1 DEF AttemptOk, OfAttempt
  <1>15. Answered(ms, n)
    <2>1. Answered(run[r].messages, n)
      BY <1>1, <1>3 DEF AttemptOk
    <2> QED
      BY <1>3, <1>4, <1>10, <2>1, SameAnswers
  <1>16. AttemptOk(Enter(after, "tools"))
    <2>1. Len(ms) # 0 /\ Len(ms) - 1 = n
      BY <1>4, <1>10
    <2> QED
      BY <1>8, <1>10, <1>13, <1>14, <1>15, <2>1, EnterOk
  <1>17. AttemptOk([after EXCEPT !.pc = "done"])
    <2>1. PICK b : b = [after EXCEPT !.pc = "done"]
      OBVIOUS
    <2>2. /\ b \in Attempts /\ b.pc = "done" /\ b.messages = ms /\ b.model = after.model
          /\ b.tried = after.tried
      BY <1>13, <2>1 DEF Attempts, States
    <2>3. OfAttempt(b)
      BY <1>13, <1>14, <2>2 DEF OfAttempt
    <2> QED
      BY <2>1, <2>2, <2>3 DEF AttemptOk
  <1> QED
    BY <1>12, <1>16, <1>17, OneSteps DEF Reply

(* Each call is answered under its id before the next is looked at.        *)
LEMMA AttemptsAnswer ==
  ASSUME AttemptsOk, UNCHANGED registered, NEW r \in Runs, Answer(r),
         run[r].pc \in {"tools", "invoking", "counted"}, run[r].call <= Len(Calls(r))
  PROVE  AttemptsOk'
  <1>1. run[r] \in Attempts /\ AttemptOk(run[r]) /\ InRound(run[r])
    BY DEF AttemptsOk, AttemptOk
  <1>2. PICK ms, n, calls, k, old :
          /\ ms = run[r].messages /\ n = Len(ms) /\ calls = ms[n].calls /\ k = run[r].call
          /\ old = run[r].results
    OBVIOUS
  <1>3. /\ ms \in Seq(Messages) /\ old \in Seq(Answers) /\ k \in 1..(MaxCalls + 1)
        /\ n \in Nat /\ n # 0 /\ ms[n].kind = "ai"
    BY <1>1, <1>2 DEF Attempts, InRound
  <1>4. calls \in Seq(CallSet) /\ Len(calls) <= MaxCalls
    BY <1>2, <1>3, MessageKinds
  <1>5. k \in Nat /\ 1 <= k /\ k <= Len(calls) /\ k \in DOMAIN calls /\ Len(calls) \in Nat
        /\ k + 1 \in 1..(MaxCalls + 1)
    <2>1. Len(calls) \in Nat /\ DOMAIN calls = 1..Len(calls)
      BY <1>4
    <2>2. k <= Len(calls)
      BY <1>2 DEF Calls, Last
    <2>3. MaxCalls \in Nat
      BY GraphAssumption
    <2> QED
      BY <1>3, <1>4, <2>1, <2>2, <2>3
  <1>6. PICK m : m = ToolMessage(calls[k])
    OBVIOUS
  <1>7. m \in Answers
    BY <1>4, <1>5, <1>6, MessageKinds
  <1>8. PICK results : results = Append(old, m)
    OBVIOUS
  <1>9. /\ results \in Seq(Answers) /\ Len(old) = k - 1 /\ Len(results) = k /\ results[k] = m
        /\ \A i \in 1..(k - 1) : results[i] = ToolMessage(calls[i])
    <2>1. Len(old) = k - 1 /\ \A i \in 1..(k - 1) : old[i] = ToolMessage(calls[i])
      BY <1>1, <1>2 DEF InRound
    <2>2. PICK l : l = k - 1
      OBVIOUS
    <2>3. l \in Nat /\ l + 1 = k
      BY <1>5, <2>2
    <2>4. /\ results \in Seq(Answers) /\ Len(results) = l + 1 /\ results[l + 1] = m
          /\ \A i \in 1..l : results[i] = old[i]
      BY <1>3, <1>7, <1>8, <2>1, <2>2
    <2> QED
      BY <2>1, <2>2, <2>3, <2>4
  <1>10. PICK b : b = [[[run[r] EXCEPT !.pc = "tools"] EXCEPT !.call = k + 1]
                       EXCEPT !.results = results]
    OBVIOUS
  <1>11. run' = [run EXCEPT ![r] = b]
    BY <1>1, <1>2, <1>6, <1>8, <1>10 DEF Answer, Current, Calls, Last, Attempts
  <1>12. /\ b \in Attempts /\ b.pc = "tools" /\ b.call = k + 1 /\ b.results = results
         /\ b.messages = ms /\ b.model = run[r].model /\ b.tried = run[r].tried
    BY <1>1, <1>2, <1>5, <1>9, <1>10 DEF Attempts, States
  <1>13. OfAttempt(b)
    BY <1>1, <1>2, <1>12 DEF AttemptOk, OfAttempt
  <1>14. InRound(b)
    <2>1. \A i \in 1..k : results[i] = ToolMessage(calls[i])
      <3>1. \A i \in 1..k : i \in 1..(k - 1) \/ i = k
        BY <1>5
      <3> QED
        BY <1>6, <1>9, <3>1
    <2>2. Answered(ms, n - 1)
      BY <1>1, <1>2 DEF InRound
    <2>3. b.call - 1 = k /\ b.call <= Len(calls) + 1
      BY <1>5, <1>12
    <2>4. Len(b.messages) = n /\ b.messages[n].calls = calls /\ b.messages[n].kind = "ai"
      BY <1>2, <1>3, <1>12
    <2> QED
      BY <1>3, <1>9, <1>12, <2>1, <2>2, <2>3, <2>4 DEF InRound
  <1>15. AttemptOk(b)
    BY <1>12, <1>13, <1>14 DEF AttemptOk
  <1> QED
    BY <1>11, <1>15, OneSteps

(* A round of tools is over: qs are the messages up to the reply, calls    *)
(* what it asked for, rs the answers ...                                   *)
RoundOver(qs, n, calls, rs) ==
  /\ qs \in Seq(Messages) /\ Len(qs) = n /\ n # 0 /\ qs[n].kind = "ai" /\ qs[n].calls = calls
  /\ rs \in Seq(Answers) /\ Len(rs) = Len(calls)
  /\ \A k \in 1..Len(calls) : rs[k] = ToolMessage(calls[k])
  /\ Answered(qs, n - 1)

(* ... and ms all of them, index by index.                                 *)
Joined(ms, qs, n, rs, l) ==
  /\ ms \in Seq(Messages) /\ DOMAIN ms = 1..(n + l) /\ Len(ms) = n + l
  /\ \A i \in 1..n : ms[i] = qs[i]
  /\ \A k \in 1..l : ms[n + k] = rs[k]

(* Concatenation is this.                                                  *)
LEMMA Join ==
  ASSUME NEW qs \in Seq(Messages), NEW rs \in Seq(Messages)
  PROVE  Joined(qs \o rs, qs, Len(qs), rs, Len(rs))
  <1>1. PICK ms, n, l : ms = qs \o rs /\ n = Len(qs) /\ l = Len(rs)
    OBVIOUS
  <1>2. /\ ms \in Seq(Messages) /\ Len(ms) = n + l
        /\ \A i \in 1..(n + l) : ms[i] = IF i <= n THEN qs[i] ELSE rs[i - n]
    BY <1>1, ConcatProperties
  <1>3. n \in Nat /\ l \in Nat
    BY <1>1
  <1>4. \A i \in 1..n : i \in 1..(n + l) /\ i <= n
    BY <1>3
  <1>5. DOMAIN ms = 1..(n + l)
    BY <1>2
  <1>6. \A i \in 1..n : ms[i] = qs[i]
    BY <1>2, <1>4
  <1>7. \A k \in 1..l : ms[n + k] = rs[k]
    <2> SUFFICES ASSUME NEW k \in 1..l PROVE ms[n + k] = rs[k]
      OBVIOUS
    <2>1. PICK j : j = n + k
      OBVIOUS
    <2>2. j \in 1..(n + l) /\ ~(j <= n) /\ j - n = k
      BY <1>3, <2>1
    <2> QED
      BY <1>2, <2>1, <2>2
  <1>8. Joined(ms, qs, n, rs, l)
    BY <1>2, <1>5, <1>6, <1>7 DEF Joined
  <1> QED
    BY <1>1, <1>8

(* After the round every call of its reply is answered, and the rounds     *)
(* before are as they were.                                                *)
LEMMA RoundAnswered ==
  ASSUME NEW qs, NEW n, NEW calls, NEW rs, RoundOver(qs, n, calls, rs), NEW ms,
         Joined(ms, qs, n, rs, Len(calls))
  PROVE  /\ Answered(ms, Len(ms))
         /\ \A i \in DOMAIN ms : ms[i].kind = "ai" => i \in DOMAIN qs /\ ms[i] = qs[i]
  <1>1. PICK l : l = Len(calls)
    OBVIOUS
  <1>2. /\ qs \in Seq(Messages) /\ DOMAIN qs = 1..n /\ n \in Nat /\ n # 0 /\ n - 1 \in Nat
        /\ n - 1 <= Len(qs) /\ qs[n] \in Messages /\ qs[n].kind = "ai" /\ qs[n].calls = calls
        /\ Answered(qs, n - 1) /\ n \in 1..n
    BY DEF RoundOver
  <1>3. calls \in Seq(CallSet) /\ l \in Nat /\ DOMAIN calls = 1..l
    BY <1>1, <1>2, MessageKinds
  <1>4. \A k \in 1..l : rs[k] = ToolMessage(calls[k]) /\ rs[k].kind = "tool"
    BY <1>1, <1>3, MessageKinds DEF RoundOver
  <1>5. /\ Len(ms) = n + l /\ DOMAIN ms = 1..(n + l) /\ \A i \in 1..n : ms[i] = qs[i]
        /\ \A k \in 1..l : ms[n + k] = ToolMessage(calls[k]) /\ ms[n + k].kind = "tool"
    BY <1>1, <1>4 DEF Joined
  <1>6. \A i \in 1..(n + l) : i \in 1..n \/ (i - n \in 1..l /\ n + (i - n) = i)
    BY <1>2, <1>3
  <1>7. ASSUME NEW i \in 1..(n + l), ms[i].kind = "ai"
        PROVE  i \in 1..n /\ ms[i] = qs[i] /\ qs[i] \in Messages
    <2>1. i \in 1..n
      <3>1. CASE i - n \in 1..l /\ n + (i - n) = i
        <4>1. ms[n + (i - n)].kind = "tool"
          BY <1>5, <3>1
        <4> QED
          BY <1>7, <3>1, <4>1
      <3> QED
        BY <1>6, <3>1
    <2> QED
      BY <1>2, <1>5, <2>1
  <1>8. Answered(ms, n - 1)
    <2>1. \A i \in 1..(n - 1) : i \in 1..n
      BY <1>2
    <2> QED
      BY <1>2, <1>5, <2>1, SameAnswers
  <1>9. ASSUME NEW i \in 1..(n + l), ms[i].kind = "ai"
        PROVE  /\ i + Len(ms[i].calls) <= n + l
               /\ \A k \in DOMAIN ms[i].calls : ms[i + k] = ToolMessage(ms[i].calls[k])
    <2>1. i \in 1..n /\ ms[i] = qs[i] /\ qs[i] \in Messages
      BY <1>7, <1>9
    <2>2. PICK cs : cs = ms[i].calls
      OBVIOUS
    <2>3. CASE i = n
      <3>1. cs = calls
        BY <1>2, <2>1, <2>2, <2>3
      <3> QED
        BY <1>1, <1>2, <1>3, <1>5, <2>2, <2>3, <3>1
    <2>4. CASE i # n
      <3>1. i \in 1..(n - 1)
        BY <1>2, <2>1, <2>4
      <3>2. i + Len(cs) <= n - 1 /\ \A k \in DOMAIN cs : ms[i + k] = ToolMessage(cs[k])
        BY <1>8, <1>9, <2>2, <3>1 DEF Answered
      <3>3. cs \in Seq(CallSet)
        BY <1>9, <2>1, <2>2, MessageKinds
      <3>4. Len(cs) \in Nat
        BY <3>3
      <3>5. i + Len(cs) <= n + l
        BY <1>2, <1>3, <3>2, <3>4
      <3> QED
        BY <2>2, <3>2, <3>5
    <2> QED
      BY <2>3, <2>4
  <1>10. ASSUME NEW i \in 1..(n + l), ms[i].kind = "tool"
         PROVE  \E j \in 1..(i - 1) : ms[j].kind = "ai" /\ i - j <= Len(ms[j].calls)
    <2>1. CASE i \in 1..(n - 1)
      BY <1>8, <1>10, <2>1 DEF Answered
    <2>2. CASE i = n
      BY <1>2, <1>5, <1>10, <2>2
    <2>3. CASE i - n \in 1..l
      <3>1. n \in 1..(i - 1) /\ i - n <= l
        BY <1>2, <1>3, <2>3
      <3>2. ms[n].kind = "ai" /\ ms[n].calls = calls
        BY <1>2, <1>5
      <3> QED
        BY <1>1, <3>1, <3>2
    <2>4. i \in 1..n => i \in 1..(n - 1) \/ i = n
      BY <1>2
    <2> QED
      BY <1>6, <2>1, <2>2, <2>3, <2>4
  <1>11. Answered(ms, n + l)
    BY <1>9, <1>10 DEF Answered
  <1> QED
    BY <1>2, <1>5, <1>7, <1>11

(* The answers are added, and the agent node is entered or the limit       *)
(* reached.                                                                *)
LEMMA AttemptsToolNodeReturns ==
  ASSUME AttemptsOk, NEW r \in Runs, ToolNodeReturns(r)
  PROVE  AttemptsOk'
  <1>1. run[r] \in Attempts /\ AttemptOk(run[r]) /\ InRound(run[r])
    BY DEF AttemptsOk, AttemptOk, ToolNodeReturns
  <1>2. PICK qs, n, calls, rs : /\ qs = run[r].messages /\ n = Len(qs) /\ calls = qs[n].calls
                                /\ rs = run[r].results
    OBVIOUS
  <1>3. RoundOver(qs, n, calls, rs)
    <2>1. /\ qs \in Seq(Messages) /\ Len(qs) = n /\ n # 0 /\ qs[n].kind = "ai"
          /\ rs \in Seq(Answers) /\ Answered(qs, n - 1) /\ n \in Nat /\ n \in 1..n
      BY <1>1, <1>2 DEF Attempts, InRound
    <2>2. qs[n] \in Messages
      BY <2>1
    <2>3. calls \in Seq(CallSet)
      BY <1>2, <2>1, <2>2, MessageKinds
    <2>4. PICK l : l = Len(calls) /\ l \in Nat
      BY <2>3
    <2>5. PICK k : k = run[r].call
      OBVIOUS
    <2>6. k \in Int /\ k > l
      BY <1>1, <1>2, <2>4, <2>5, GraphAssumption DEF ToolNodeReturns, Calls, Last, Attempts
    <2>7. k <= l + 1 /\ Len(rs) = k - 1 /\ \A i \in 1..(k - 1) : rs[i] = ToolMessage(calls[i])
      BY <1>1, <1>2, <2>4, <2>5 DEF InRound
    <2>8. k - 1 = l
      BY <2>4, <2>6, <2>7
    <2> QED
      BY <1>2, <2>1, <2>4, <2>7, <2>8 DEF RoundOver
  <1>4. PICK ms : ms = qs \o rs
    OBVIOUS
  <1>5. Joined(ms, qs, n, rs, Len(calls))
    <2>1. rs \in Seq(Answers) /\ Answers \subseteq Messages
      BY <1>3, MessageKinds DEF RoundOver
    <2>2. rs \in Seq(Messages)
      BY <2>1
    <2> QED
      BY <1>3, <1>4, <2>2, Join DEF RoundOver
  <1>6. /\ ms \in Seq(Messages) /\ Answered(ms, Len(ms))
        /\ \A i \in DOMAIN ms : ms[i].kind = "ai" =>
             i \in DOMAIN run[r].messages /\ ms[i] = run[r].messages[i]
    <2>1. ms \in Seq(Messages)
      BY <1>5 DEF Joined
    <2>2. /\ Answered(ms, Len(ms))
          /\ \A i \in DOMAIN ms : ms[i].kind = "ai" => i \in DOMAIN qs /\ ms[i] = qs[i]
      BY <1>3, <1>5, RoundAnswered
    <2> QED
      BY <1>2, <2>1, <2>2
  <1>7. PICK a : a = [run[r] EXCEPT !.messages = ms]
    OBVIOUS
  <1>8. run' = [run EXCEPT ![r] = Enter(a, "agent")]
    BY <1>1, <1>2, <1>4, <1>7 DEF ToolNodeReturns, Attempts
  <1>9. /\ a \in Attempts /\ a.messages = ms /\ a.model = run[r].model
        /\ a.tried = run[r].tried
    BY <1>1, <1>6, <1>7 DEF Attempts
  <1>10. OfAttempt(a)
    BY <1>1, <1>6, <1>9 DEF AttemptOk, OfAttempt
  <1>11. AttemptOk(Enter(a, "agent"))
    BY <1>6, <1>9, <1>10, EnterOk
  <1> QED
    BY <1>8, <1>11, OneSteps DEF ToolNodeReturns

(* Every step keeps the invariant.                                         *)
LEMMA AttemptsNext == AttemptsOk /\ [Next]_vars => AttemptsOk'
  <1> SUFFICES ASSUME AttemptsOk, [Next]_vars PROVE AttemptsOk'
    OBVIOUS
  <1>1. ASSUME NEW r \in Runs, \/ Close(r) \/ ModelRaises(r) \/ CallModel(r)
                              \/ PreToolCall(r) \/ ToolBody(r)
        PROVE  AttemptsOk'
    <2>1. PICK pc \in {"closed", "cut", "raised", "model", "invoking", "counted"} :
            /\ run' = [run EXCEPT ![r].pc = pc]
            /\ pc = "model" => run[r].pc = "agent"
            /\ pc = "invoking" => AtCall(r)
            /\ pc = "counted" => run[r].pc = "invoking"
      BY <1>1 DEF Close, ModelRaises, CallModel, PreToolCall, ToolBody
    <2>2. pc \in States /\ registered' = registered
      BY <1>1 DEF States, Close, ModelRaises, CallModel, PreToolCall, ToolBody
    <2> QED
      BY <2>1, <2>2, PcMoves
  <1>2. ASSUME NEW r \in Runs, UnknownTool(r) \/ ToolReturns(r) \/ ToolRaises(r)
        PROVE  AttemptsOk'
    <2>1. Answer(r) /\ registered' = registered /\ run[r].pc \in {"tools", "invoking", "counted"}
      BY <1>2 DEF UnknownTool, ToolReturns, ToolRaises, AtCall
    <2>2. run[r].call <= Len(Calls(r))
      <3>1. run[r].pc \in {"invoking", "counted"} => InRound(run[r])
        BY DEF AttemptsOk, AttemptOk
      <3> QED
        BY <1>2, <3>1 DEF UnknownTool, ToolReturns, ToolRaises, AtCall, InRound, Calls, Last
    <2> QED
      BY <2>1, <2>2, AttemptsAnswer
  <1>3. CASE UNCHANGED vars
    <2>1. UNCHANGED <<run, registered>>
      BY <1>3 DEF vars
    <2>2. \A r \in Runs : AttemptOk(run[r])' = AttemptOk(run[r])
      BY <2>1, ResolveKept DEF AttemptOk, OfAttempt, Answered, InRound
    <2> QED
      BY <2>1, <2>2, ResolveKept DEF AttemptsOk
  <1> QED
    BY <1>1, <1>2, <1>3, AttemptsAttempt, AttemptsReply, AttemptsToolNodeReturns DEF Next, Step

(* Whatever the tools do, whichever calls fail or name tools that do not   *)
(* exist, and however many attempts a request takes, a provider is only    *)
(* ever sent messages in which every reply's calls are answered, once, in  *)
(* order and under their ids, and which hold replies of its own attempt    *)
(* only (resilient_agent_builder.py:79-109, agent_runner.py:81-93).        *)
THEOREM MessagesAreSound == Spec => []MessagesSound
  <1>1. IInv /\ AttemptsOk => MessagesSound
    <2> SUFFICES ASSUME IInv, AttemptsOk PROVE MessagesSound
      OBVIOUS
    <2>1. TypeOK
      BY MessageKinds DEF IInv, Kinds, AttemptsOk, AttemptOk, Attempts, States, Models, TypeOK
    <2>2. ToolProtocol
      <3> SUFFICES ASSUME NEW r \in Runs, run[r].pc = "model"
                   PROVE  LET ms == run[r].messages
                          IN  /\ \A i \in {j \in DOMAIN ms : ms[j].kind = "ai"} :
                                   /\ i + Len(ms[i].calls) <= Len(ms)
                                   /\ \A k \in DOMAIN ms[i].calls :
                                        ms[i + k] = ToolMessage(ms[i].calls[k])
                              /\ \A i \in {j \in DOMAIN ms : ms[j].kind = "tool"} :
                                   \E j \in 1..(i - 1) :
                                     ms[j].kind = "ai" /\ i - j <= Len(ms[j].calls)
        BY DEF ToolProtocol
      <3>1. PICK ms : ms = run[r].messages
        OBVIOUS
      <3>2. ms \in Seq(Messages) /\ Answered(ms, Len(ms))
        BY <3>1 DEF AttemptsOk, AttemptOk, Attempts
      <3>3. DOMAIN ms = 1..Len(ms)
        BY <3>2
      <3> QED
        BY <3>1, <3>2, <3>3 DEF Answered
    <2>3. CleanAttempt
      BY DEF AttemptsOk, AttemptOk, OfAttempt, CleanAttempt
    <2> QED
      BY <2>1, <2>2, <2>3 DEF MessagesSound
  <1> QED
    BY InitIInv, NextIInv, AttemptsInit, AttemptsNext, <1>1, PTL DEF Spec
=============================================================================
