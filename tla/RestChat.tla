------------------------------- MODULE RestChat -------------------------------
(***************************************************************************)
(* The REST surface, api/v1/chat_router.py, over the in-memory session     *)
(* store: sessions are created, read, listed and deleted, and any number   *)
(* of /stream and /chat requests run at the same time on one event loop.   *)
(*                                                                         *)
(* A handler runs without interruption between two awaits (or yields), so  *)
(* an action is such a segment, and segments interleave.  Each call of     *)
(* the store reads the clock again, so within a segment the clock may move *)
(* by one tick between two calls (now').                                   *)
(*                                                                         *)
(* The processor a request iterates over is the contract of ChunkStream,   *)
(* seen through what the handlers use of it: TEXT chunks, the provider     *)
(* they come from (as the number of FAILOVERs so far) and how it ends.     *)
(***************************************************************************)
EXTENDS ChatService, FiniteSets, SequencesExt

CONSTANTS
  Requests,     \* calls of /v1/stream and /v1/chat
  MaxTime,      \* bound: the clock
  MaxTexts,     \* bound: TEXT chunks of one request
  MaxFailovers, \* bound: providers a request goes through after the first
  MaxMisses     \* bound: 404 answers that are counted

ASSUME RestAssumption ==
  /\ SessionIds # {} /\ IsFiniteSet(Requests)
  /\ MaxTime \in Nat /\ MaxTexts \in Nat /\ MaxFailovers \in Nat /\ MaxMisses \in Nat

VARIABLES
  store,        \* the session store
  created,      \* session ids ever handed out
  now,          \* time.time()
  req,          \* the requests' handlers
  hits,         \* metrics: session_cache_hits
  misses,       \* metrics: session_cache_misses
  errors        \* metrics: error timestamps recorded

vars == <<store, created, now, req, hits, misses, errors>>

Idle == [pc |-> "idle", kind |-> "stream", sid |-> CHOOSE s \in SessionIds : TRUE,
         history |-> <<>>, found |-> FALSE, text |-> <<>>, failovers |-> 0,
         ending |-> "none"]

Init ==
  /\ store = [s \in {} |-> Idle]
  /\ created = {}
  /\ now = 0
  /\ req = [r \in Requests |-> Idle]
  /\ hits = 0 /\ misses = 0 /\ errors = 0

(* The clock readings a segment that starts now may take later.            *)
Later == {t \in now..MaxTime : t <= now + 1}

Tick ==
  /\ now < MaxTime
  /\ now' = now + 1
  /\ UNCHANGED <<store, created, req, hits, misses, errors>>

(* A 404 answer: session_exists() found nothing, evicted what had expired  *)
(* and counted a miss.                                                     *)
NotFound(s) ==
  /\ ~SessionExists(store, s, now)
  /\ misses < MaxMisses
  /\ misses' = misses + 1
  /\ store' = AfterGet(store, s, now)
  /\ UNCHANGED <<now, hits, errors>>

(***************************************************************************)
(* Session endpoints                                                       *)
(***************************************************************************)
InitSession ==
  /\ \E s \in SessionIds \ created, prompted \in BOOLEAN :
       /\ store' = AfterCreateSession(store, s, prompted, now)
       /\ created' = created \cup {s}
  /\ UNCHANGED <<now, req, hits, misses, errors>>

(* GET /session/{id}/history: checks, then reads again at a later time.    *)
ReadHistory ==
  /\ \E s \in created :
       \/ NotFound(s)
       \/ /\ SessionExists(store, s, now)
          /\ now' \in Later
          /\ store' = AfterGet(store, s, now')
          /\ UNCHANGED <<hits, misses, errors>>
  /\ UNCHANGED <<created, req>>

DeleteSession ==
  /\ \E s \in created :
       \/ NotFound(s)
       \/ /\ SessionExists(store, s, now)
          /\ store' = AfterDeleteSession(store, s)
          /\ UNCHANGED <<now, hits, misses, errors>>
  /\ UNCHANGED <<created, req>>

(***************************************************************************)
(* /v1/stream and /v1/chat                                                 *)
(***************************************************************************)
Reject(r) ==
  /\ req[r].pc = "idle"
  /\ \E s \in created : NotFound(s)
  /\ req' = [req EXCEPT ![r].pc = "rejected"]
  /\ UNCHANGED created

(* Seeded fault: a hit is counted before it is known that there is one.    *)
BeginCountingFirst(r) ==
  /\ req[r].pc = "idle"
  /\ \E s \in created, kind \in {"stream", "chat"} :
       /\ SessionExists(store, s, now)
       /\ now' \in Later
       /\ store' = AfterGet(store, s, now')
       /\ hits' = hits + 1
       /\ req' = [req EXCEPT ![r] =
                    [@ EXCEPT !.pc = "reading", !.kind = kind, !.sid = s,
                              !.found = s \in Live(store, now'),
                              !.history = LoadHistory(store, s, now')]]
  /\ UNCHANGED <<created, misses, errors>>

(* The session exists; its history is loaded (at a later clock reading, so *)
(* it may just have expired), and the processor's stream is opened.        *)
Begin(r) ==
  /\ req[r].pc = "idle"
  /\ \E s \in created, kind \in {"stream", "chat"} :
       /\ SessionExists(store, s, now)
       /\ now' \in Later
       /\ store' = AfterGet(store, s, now')
       /\ hits' = IF s \in Live(store, now') THEN hits + 1 ELSE hits
       /\ req' = [req EXCEPT ![r] =
                    [@ EXCEPT !.pc = "reading", !.kind = kind, !.sid = s,
                              !.found = s \in Live(store, now'),
                              !.history = LoadHistory(store, s, now')]]
  /\ UNCHANGED <<created, misses, errors>>

(* A TEXT chunk, of the same provider as the last one or, after FAILOVER   *)
(* chunks (which /stream passes on and /chat ignores), of a later one:     *)
(* /stream appends it and sends it on, /chat appends it.                   *)
TextChunk(r) ==
  /\ req[r].pc = "reading" /\ req[r].ending = "none"
  /\ Len(req[r].text) < MaxTexts
  /\ \E n \in req[r].failovers..MaxFailovers :
       req' = [req EXCEPT ![r].text = Append(@, n), ![r].failovers = n]
  /\ UNCHANGED <<store, created, now, hits, misses, errors>>

Finish(r, ending) == req' = [req EXCEPT ![r].pc = "done", ![r].ending = ending]

(* Seeded fault: the turn is added to the history loaded at the start.     *)
StreamEndStale(r) ==
  /\ req[r].pc = "reading" /\ req[r].kind = "stream"
  /\ Finish(r, "complete")
  /\ store' = IF req[r].text = <<>> THEN store
              ELSE AfterUpdateHistory(store, req[r].sid,
                     req[r].history \o <<HumanMessage(r), AIMessage(r, req[r].text)>>)
  /\ UNCHANGED <<created, now, hits, misses, errors>>

(* Seeded fault: the handler waits for its session to be there.            *)
StreamEndWaiting(r) ==
  /\ req[r].pc = "reading" /\ req[r].kind = "stream"
  /\ req[r].sid \in DOMAIN store
  /\ Finish(r, "complete")
  /\ store' = AfterSaveTurn(store, req[r].sid, now, r, req[r].text)
  /\ UNCHANGED <<created, now, hits, misses, errors>>

(* The processor raises: the error is counted, and the generator waits for *)
(* its ERROR chunk to be sent.                                             *)
StreamRaise(r) ==
  /\ req[r].pc = "reading" /\ req[r].kind = "stream" /\ req[r].ending = "none"
  /\ req' = [req EXCEPT ![r].ending = "exception"]
  /\ errors' = errors + 1
  /\ UNCHANGED <<store, created, now, hits, misses>>

(* The finally block of event_generator(): whatever ended the stream, the  *)
(* text sent so far is saved as the reply, unless there is none.  An ERROR *)
(* chunk that comes from the processor is sent on like any other.          *)
StreamEnd(r) ==
  /\ req[r].pc = "reading" /\ req[r].kind = "stream"
  /\ \E ending \in {"complete", "disconnect"} :
       Finish(r, IF req[r].ending = "none" THEN ending ELSE req[r].ending)
  /\ store' = IF req[r].text = <<>> THEN store
              ELSE AfterSaveTurn(store, req[r].sid, now, r, req[r].text)
  /\ UNCHANGED <<created, now, hits, misses, errors>>

(* /chat waits for the end of the stream and saves the turn, an empty      *)
(* reply included, before it answers.                                      *)
ChatEnd(r) ==
  /\ req[r].pc = "reading" /\ req[r].kind = "chat"
  /\ \E ending \in {"complete", "error"} : Finish(r, ending)
  /\ store' = AfterSaveTurn(store, req[r].sid, now, r, req[r].text)
  /\ UNCHANGED <<created, now, hits, misses, errors>>

(* An exception of the processor leaves /chat as a 500: nothing is saved.  *)
ChatRaise(r) ==
  /\ req[r].pc = "reading" /\ req[r].kind = "chat"
  /\ Finish(r, "exception")
  /\ UNCHANGED <<store, created, now, hits, misses, errors>>

(* The process restarts: the store and the metrics are memory, running     *)
(* requests die.  The clients keep their session ids.                      *)
Restart ==
  /\ store' = [s \in {} |-> Idle]
  /\ req' = [r \in Requests |->
               IF req[r].pc = "idle" THEN req[r]
                                     ELSE [req[r] EXCEPT !.pc = "gone"]]
  /\ hits' = 0 /\ misses' = 0 /\ errors' = 0
  /\ UNCHANGED <<created, now>>

Handle(r) == TextChunk(r) \/ StreamRaise(r) \/ StreamEnd(r) \/ ChatEnd(r) \/ ChatRaise(r)

Next ==
  \/ Tick \/ InitSession \/ ReadHistory \/ DeleteSession \/ Restart
  \/ \E r \in Requests : Reject(r) \/ Begin(r) \/ Handle(r)

Spec == Init /\ [][Next]_vars

(* The processor's stream ends (AlwaysAnswers of LangGraphProcessor), and  *)
(* the event loop runs every handler that can run.                         *)
FairSpec == Spec /\ \A r \in Requests : WF_vars(Handle(r))

(***************************************************************************)
(* Properties                                                              *)
(***************************************************************************)

(* Types of the variables.                                                 *)
Messages ==
  [role : {"system", "human", "ai"}, turn : Requests \cup {NoTurn},
   text : Seq(0..MaxFailovers)]
Entries == [history : Seq(Messages), prompted : BOOLEAN, created : 0..MaxTime]
Handlers ==
  [pc : {"idle", "rejected", "reading", "done", "gone"}, kind : {"stream", "chat"},
   sid : SessionIds, history : Seq(Messages), found : BOOLEAN,
   text : Seq(0..MaxFailovers), failovers : 0..MaxFailovers,
   ending : {"none", "complete", "error", "disconnect", "exception"}]
TypeOK ==
  /\ created \subseteq SessionIds /\ DOMAIN store \subseteq created
  /\ store \in [DOMAIN store -> Entries]
  /\ \A s \in DOMAIN store : store[s].created <= now
  /\ now \in 0..MaxTime
  /\ req \in [Requests -> Handlers]
  /\ hits \in Nat /\ misses \in 0..MaxMisses /\ errors \in Nat

(* However requests overlap, a saved history is the system message, if the *)
(* session has one, followed by whole turns: a question and its own answer *)
(* side by side, the answer being all the text that was streamed, each     *)
(* turn of a request that was made for this session and has ended, and no  *)
(* turn twice (chat_service.py:53-63, chat_router.py:87-92, 123-124).      *)
TurnsIntact ==
  \A s \in DOMAIN store :
    LET e     == store[s]
        d     == DisplayHistory(e)
        turns == Turns(e.history)
    IN  /\ e.history = (IF e.prompted /\ d # <<>> THEN <<SystemMessage>> ELSE <<>>) \o d
        /\ Len(d) = 2 * Len(turns) /\ IsInjective(turns)
        /\ \A i \in DOMAIN turns :
             /\ turns[i] \in Requests
             /\ d[2 * i - 1] = HumanMessage(turns[i])
             /\ d[2 * i] = AIMessage(turns[i], req[turns[i]].text)
             /\ req[turns[i]].sid = s /\ req[turns[i]].pc = "done"

(* No turn is lost to another request of the same session: when a request  *)
(* has ended with a reply to save and its session is still alive, its turn *)
(* is in the history, although the history it was answered from may be     *)
(* stale by then (chat_service.py:54-58).                                  *)
HasReply(r) ==
  IF req[r].kind = "stream" THEN req[r].text # <<>> ELSE req[r].ending # "exception"
NoLostTurn ==
  \A r \in Requests :
    req[r].pc = "done" /\ HasReply(r) /\ req[r].sid \in Live(store, now) =>
      r \in ToSet(Turns(store[req[r].sid].history))

(* The history a model answers from stays a prefix of its session's        *)
(* history for as long as the session lives, and it is the history of      *)
(* another life never: a request that found nothing to load belongs to a   *)
(* session that is gone (chat_service.py:36-45).                           *)
SnapshotIsPrefix ==
  \A r \in Requests :
    req[r].pc = "reading" /\ req[r].sid \in DOMAIN store =>
      /\ req[r].found
      /\ IsPrefix(req[r].history, View(store[req[r].sid]))

(* What a session's history and the history a request answers from look    *)
(* like at any time (the three statements above).                          *)
HistoriesIntact == TypeOK /\ TurnsIntact /\ SnapshotIsPrefix

(* The counters behind the cache hit rate and the error graph: one hit for *)
(* each request whose history was loaded, none for those that were turned  *)
(* away or whose session expired between the check and the load, which are *)
(* counted nowhere; one error for each exception, however many requests    *)
(* end at once (chat_service.py:39, 72; chat_router.py:84).                *)
CacheLedger ==
  LET Since == {r \in Requests : req[r].pc \in {"reading", "done"}}
  IN  /\ hits = Cardinality({r \in Since : req[r].found})
      /\ misses >= Cardinality({r \in Requests : req[r].pc = "rejected"})
      /\ errors = Cardinality({r \in Since : req[r].kind = "stream"
                                             /\ req[r].ending = "exception"})

(* The handlers implement Conversations: a session is open from its        *)
(* creation until it expires, is deleted or the process restarts, even if  *)
(* the store has not evicted it yet.                                       *)
AbsLog == [s \in SessionIds |->
             IF s \in Live(store, now) THEN Turns(store[s].history) ELSE <<>>]

Conversation == INSTANCE Conversations WITH
  Ids <- SessionIds, TurnIds <- Requests,
  opened <- created, open <- ListSessions(store, now), log <- AbsLog

(* Overlapping requests, expiry, deletion and restarts never rewrite,      *)
(* reorder or resurrect a conversation.                                    *)
ConversationHolds == Conversation!Spec

(* Every request that was admitted ends, and then its handler has tried to *)
(* save its turn.                                                          *)
RequestsEnd ==
  \A r \in Requests : req[r].pc = "reading" ~> req[r].pc \in {"done", "gone"}

(* "POST /v1/chat: The final JSON response contains only the successful    *)
(* reply" (docs/architecture.md:188): the reply holds no text of a         *)
(* provider that failed.                                                   *)
ChatReplyOnlySuccessful ==
  \A r \in Requests :
    req[r].pc = "done" /\ req[r].kind = "chat" /\ req[r].ending = "complete" =>
      \A i \in DOMAIN req[r].text : req[r].text[i] = req[r].failovers
=============================================================================
