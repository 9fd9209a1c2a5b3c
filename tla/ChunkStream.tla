----------------------------- MODULE ChunkStream -----------------------------
(***************************************************************************)
(* What a processor promises the routers that iterate over its stream()    *)
(* (BaseProcessor.stream): a sequence of content chunks produced by one    *)
(* active provider at a time, FAILOVER chunks that always move from the    *)
(* active provider to one that was not used before, and at most one        *)
(* terminal chunk, which is the last one: STATUS COMPLETE, or ERROR, and   *)
(* ERROR only when no usable provider is left.  The consumer may abandon   *)
(* the stream at any time (closing the generator); nothing is sent then.   *)
(*                                                                         *)
(* LangGraphProcessor implements this specification (see ContractHolds     *)
(* there).                                                                 *)
(***************************************************************************)
EXTENDS Chunks

CONSTANT Providers      \* the provider keys

VARIABLES
  usable,     \* providers that may be used; fixed for the stream's life
  phase,      \* "open", "complete", "error" or "abandoned"
  active,     \* provider whose content is being sent, None before the first
  spent,      \* providers given up on
  sent        \* chunks the consumer has received

vars == <<usable, phase, active, spent, sent>>

Init ==
  /\ usable \in SUBSET Providers
  /\ phase  = "open"
  /\ active = None
  /\ spent  = {}
  /\ sent   = <<>>

(* The first provider starts silently: no chunk announces it.              *)
Begin ==
  /\ phase = "open" /\ active = None
  /\ active' \in usable
  /\ UNCHANGED <<usable, phase, spent, sent>>

(* One chunk of the active provider's output.                              *)
Content ==
  /\ phase = "open" /\ active # None
  /\ Len(sent') = Len(sent) + 1
  /\ sent' = Append(sent, sent'[Len(sent) + 1])
  /\ sent'[Len(sent) + 1].type \in ContentTypes
  /\ sent'[Len(sent) + 1].by = active
  /\ UNCHANGED <<usable, phase, active, spent>>

(* Failover: the active provider is given up for good, and the consumer is *)
(* told which one replaces it before anything of the new one arrives.      *)
Switch ==
  /\ phase = "open" /\ active # None
  /\ spent' = spent \cup {active}
  /\ active' \in usable \ spent'
  /\ sent' = Append(sent, FailoverChunk(active, active'))
  /\ UNCHANGED <<usable, phase>>

Complete ==
  /\ phase = "open" /\ active # None
  /\ phase' = "complete"
  /\ sent' = Append(sent, CompleteChunk(active))
  /\ UNCHANGED <<usable, active, spent>>

(* An ERROR tells the consumer that every usable provider was given up.    *)
Error ==
  /\ phase = "open"
  /\ usable \subseteq spent \cup {active}
  /\ phase' = "error"
  /\ sent' = Append(sent, ErrorChunk(active))
  /\ UNCHANGED <<usable, active, spent>>

Abandon ==
  /\ phase = "open"
  /\ phase' = "abandoned"
  /\ UNCHANGED <<usable, active, spent, sent>>

Next == Begin \/ Content \/ Switch \/ Complete \/ Error \/ Abandon

Spec == Init /\ [][Next]_vars
=============================================================================
