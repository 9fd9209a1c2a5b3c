------------------------------- MODULE Chunks -------------------------------
(***************************************************************************)
(* The NDJSON chunks a processor yields: TEXT, TOOL_RESULT, FAILOVER,      *)
(* STATUS (always "COMPLETE" in the LangGraph backend) and ERROR.          *)
(*                                                                         *)
(* A chunk is one record, whatever its type.  "by" is the provider that    *)
(* was active when it was made (ghost information for TEXT, TOOL_RESULT,   *)
(* STATUS and ERROR; the "from" metadata of a FAILOVER), "to" the provider *)
(* a FAILOVER announces, "body" the payload: the fragments of model output *)
(* of a TEXT, the position of the tool message of a TOOL_RESULT.           *)
(***************************************************************************)
EXTENDS Naturals, Sequences

CONSTANT None           \* Python's None where a provider key is expected

Chunk(type, by, to, body) ==
  [type |-> type, by |-> by, to |-> to, body |-> body]

TextChunk(by, fragments)     == Chunk("TEXT", by, None, fragments)
ToolResultChunk(by, n)       == Chunk("TOOL_RESULT", by, None, <<n>>)
FailoverChunk(from, to)      == Chunk("FAILOVER", from, to, <<>>)
CompleteChunk(by)            == Chunk("STATUS", by, None, <<>>)
ErrorChunk(by)               == Chunk("ERROR", by, None, <<>>)

ContentTypes  == {"TEXT", "TOOL_RESULT"}
TerminalTypes == {"STATUS", "ERROR"}

(* The chunks whose "by" ranges over Providers and whose fragments are     *)
(* numbered by the naturals.                                               *)
ChunkSet(Providers) ==
  [type : ContentTypes \cup TerminalTypes \cup {"FAILOVER"},
   by   : Providers \cup {None},
   to   : Providers \cup {None},
   body : Seq(Nat)]
=============================================================================
