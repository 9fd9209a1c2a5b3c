# Resilient AI in TLA+

This directory holds a TLA+ model of the Resilient AI gateway (`src/app`): a FastAPI
service that answers chat messages over two surfaces, a REST API and the A2A protocol,
by running one LangGraph agent over a chain of LLM providers with failover. The modules
are checked with TLC on small instances. All the safety properties the runs check are also
proved with TLAPS, for all values of the constants, and so are the two refinements: of the
processor, the REST and A2A surfaces, the agent graph, the three Redis stores under any
number of workers, the log files, the metrics and the UI. Liveness stays with TLC.

## The system

| Part | State it keeps | Operations | Hard behaviour |
|---|---|---|---|
| LangGraph processor (`agent/processors/langgraph_processor.py`) | locals of one `stream()` call: chain, loop position, previous provider | choose preferred, announce failover, call, forward chunks, give up | a provider fails at any point of its stream; the consumer closes the generator |
| Stream processor (`agent/streaming/`) | sentence buffer of one attempt | tokens, tool messages, flush, complete | text held back while other chunks go out; flush at the end, loss on failure |
| LLM registry, catalogue (`agent/registry`, `agent/config`) | dict of clients built once | build, get, available | keys without API key or whose client cannot be built are missing |
| REST router (`api/v1/chat_router.py`) | nothing; locals of each handler | init, list, history, delete, stream, chat | overlapping requests, disconnects, exceptions, sessions that vanish under a request |
| Chat service, session store (`services/`, `repositories/memory/`) | dict session id -> history, prompt, creation time | create, load, save turn, exists, delete, list | read at the start of a request, written at its end; expiry by age, evicted lazily |
| A2A executor (`a2a/executor.py`) | locals of each `execute()` | execute, cancel | several tasks of a context at once; cancellation does not stop execution; completion is reported before the turn is saved |
| Context store (`repositories/memory/context_repository.py`) | dict context id -> session id, creation time | resolve | binding and session have different lifetimes |
| A2A task store (`a2a/task_store.py`) | dict task id -> state, artifacts | create, add artifact, complete, fail | what its Redis twin must do too |
| Redis stores (`repositories/redis/`) | keys shared by several workers | the same interfaces | GET ... SET without a transaction, expiry, workers dying in between |
| Agent graph (`agent/graph/`) | message list of one run | agent node, tool node | tool loop, tool errors, tool metrics |
| Metrics (`config/metrics.py`) | counters, ring buffers | record_*, snapshot | windows that are cut, minutes of the clock against ages |
| HTTP middleware (`api/middleware/`) | trace id in a context variable | dispatch | overlapping requests, responses that start before their body |
| Logging (`config/logging_config.py`) | four queues with a listener thread and hourly files each | configure, start, stop, log, roll over | which record reaches which file, stamped by whom; records during a stop |
| UI (`ui/streamlit_app.py`) | state of a browser session: session id, transcript, tool cards, A2A task, health; a cache all browsers share | run of the script: sidebar, chat, send, refresh, figures | an interaction ends a run anywhere, half-done assignments included; timeouts against late answers |

The two surfaces share the processor, the chat service and the session store. All
handlers run on one asyncio event loop: a handler is interrupted only at an `await` or a
`yield`, so the unit of interleaving is the segment between two of these. Elsewhere it is another:
a command of the Redis server, for workers that share one; what a thread does between
two operations on a queue, for the log listeners; and, for the UI, what a run of the
script does between two places where Streamlit may end it.

The repository also holds near-identical earlier versions of several modules
(`controllers/`, `agent/runner.py`, `services/session_store.py`, ...) that `main.py` does
not reach; they are not modelled.

## Modules

| Module | Models | Reads |
|---|---|---|
| `Chunks` | the chunk records (`_ndjson`) | |
| `ChunkStream` | *abstract*: what a processor's stream promises its consumer | `Chunks` |
| `LangGraphProcessor` | one `stream()` call with its attempts and sentence buffer | `Chunks`; implements `ChunkStream` |
| `LangGraphProcessorProofs` | TLAPS proofs | `LangGraphProcessor` |
| `SessionRepository` | the in-memory session store, as operators on its value | |
| `ChatService` | `services/chat_service.py`, as operators on the store | `SessionRepository` |
| `Conversations` | *abstract*: what happens to conversations | |
| `RestChat` | the REST handlers over the store | `ChatService`; implements `Conversations` |
| `RestChatProofs` | TLAPS proofs | `RestChat` |
| `A2AExecutor` | `execute()`, `cancel()` and the context store | `ChatService` |
| `A2AExecutorProofs` | TLAPS proofs | `A2AExecutor` |
| `AgentGraph` | the LangGraph workflow: agent node, tool node, tool hooks, for concurrent requests | |
| `AgentGraphProofs` | TLAPS proofs | `AgentGraph` |
| `Redis` | the commands the Redis stores use | |
| `RedisContexts` | `RedisContextStore.resolve_session()` on several workers | `Redis` |
| `RedisSessions` | the stream, init and delete handlers over `RedisSessionStore` on several workers | `Redis` |
| `TaskStore` | the in-memory A2A task store, as operators on its value | |
| `RedisTasks` | `RedisTaskStore` on several workers, beside what the in-memory store would hold | `Redis`, `TaskStore` |
| `RedisProofs` | TLAPS proofs about the three Redis stores | `RedisContexts`, `RedisSessions`, `RedisTasks` |
| `Logging` | log records from loggers to files; hourly files, trace ids; the lifespan that starts and stops the listeners | |
| `LoggingProofs` | TLAPS proofs | `Logging` |
| `Metrics` | the buffers of `GatewayMetrics` and the figures made of them, as operators on their value | |
| `Monitoring` | the logging middleware around overlapping requests, what it records, and the UI's health indicator | `Metrics` |
| `Dashboard` | the sidebar and the Chat tab of the UI over a backend | |
| `DashboardProofs` | TLAPS proofs | `Dashboard` |
| `StatusPage` | the A2A tab and the figures of the Monitoring tab | |
| `MonitoringProofs` | TLAPS proofs about `Metrics`, `Monitoring` and `StatusPage` | `MCMonitoring` |
| `MC*` | instances for TLC | |

`MCMonitoring` and `MCRedisSessions` each check two modules whose state has nothing in
common but a clock. A behaviour picks one of them at its start (`explored`) and leaves
the other in its initial state, so every state of each is reached, and none of their
product.

### LangGraphProcessor

State: the configuration (`registered`, `model`, `selected`, `mode`, chosen in `Init` and
never changed), the point the generator is at (`pc`), the locals of the loop
(`preferred`, `idx`, `prev`), the buffer of the attempt, and what others see: `out`
(chunks yielded) and the metrics `llmCalls`, `failovers`. `providers_to_try` is not
kept as a list: the loop variable is a place in the catalogue (`idx`, 0 for the preferred
provider) and `Rest(idx)` the entries that come after it; the next entry is the smallest
of them. This is the same chain, since neither the catalogue nor the registry changes,
and it needs no recursive definition, so proofs can reason about it.

Text is a sequence of numbered fragments. A token carries one or two fragments and at
most one place where `_SENTENCE_BOUNDARY` cuts it; a longer token does what several of
these do one after another. Whitespace-only tokens and tokens without text are left out:
they change nothing but where the next cut is. Tool messages take a number from the same
count, so a property can compare their place with that of the text.

### RestChat and A2AExecutor

The store is a function from ids to entries, and the store's methods are operators on it
(`AfterGet`, `AfterUpdateHistory`, ...), so each handler segment names the calls it makes
in their order. Each call reads the clock itself; a segment that makes two calls may see
the clock move by a tick in between (`now'` in `Later`). A reply is the sequence of the
pieces it was joined from: in `RestChat` the number of failovers before each piece, so
that the text of a failed provider can be told apart; in `A2AExecutor` its number.

`RestChat` sees a processor through `ChunkStream`: TEXT chunks, FAILOVER chunks, an end.
The processor can end a request by completing, by an ERROR chunk, by the stub backend's
`NotImplementedError` (which the handlers treat like completion) or by an exception. After
an exception `/stream` has counted the error and yields an ERROR chunk; only when it is
resumed does the `finally` block save, so these are two actions (`StreamRaise`, `StreamEnd`)
with anything in between.

`A2AExecutor` treats the a2a-sdk as external: it delivers events in order, calls
`cancel()` for a task that has not ended, and may cancel the coroutine at an await
(`Kill`). `execute()` itself is not told of a cancellation.

### AgentGraph

One attempt of the processor is one run of the graph. State of a request: the node it is
in (`pc`), the attempt's message list, the tool call the loop in `tool_node` is at, and
the answers collected so far, which are appended to the messages when the node returns.
A reply is any sequence of up to `MaxCalls` tool calls, for tools that exist and tools
that do not. A call's id names the attempt and place it was asked at, so that an answer
can be matched with its call and an attempt with its leftovers. `toolCalls` is the metric
the requests share; `entered` and `left` count the log lines of the two hooks. A call of a
tool is three actions, because langchain-core awaits between them: the first hook
(`PreToolCall`), the body, which counts itself (`ToolBody`), and the return to the node with
the second hook (`ToolReturns`). A request may be cancelled at any of these awaits; one that
is cancelled when the body has counted stays visible as `cut`. LangGraph's
recursion limit (25 by default) is `RecursionLimit`.

### The Redis stores

The Redis client is a stub in this repository, to be replaced by the synchronous
`redis.Redis` as its comments say; `Redis` models the server. The client blocks its
worker, so a worker is inside one store call at a time and only other workers get in
between two commands: an action is one command with the code up to the next one.
`RedisContexts` records, for each task, when the binding it was routed by was made and,
if it found none, which tasks had been routed by then.
`RedisSessions` follows one reply: EXISTS, GET and EXPIRE at the start, and at its end
GET, EXPIRE, GET in `save_turn()`. There the new history is a list of LangChain messages,
which `json.dumps` refuses, so `update_history()` raises before its SET, and the handler
logs that and goes on; on the A2A surface the same error is reported as the failure of a
task that was already reported complete. That is also why `DeletedStaysDeleted` holds: a SET
of a session that another worker has deleted would bring it back, and it never comes to
that SET. With the encoding repaired (`UpdateEncoded`, its mutant) the property fails.
`RedisSessionStore` also has no `list_all()`, so
`GET /v1/sessions` raises `AttributeError` with it.

`RedisTasks` has `RedisTaskStore` beside `memory`, what `InMemoryTaskStore` holds after the
same updates in the order of their SETs, so that one invariant compares the two stores.
Updates that overlap do lose each other (`add_artifact()` is a GET and a SET of the whole
task, although its docstring, `task_repository.py:154-155`, speaks of RPUSH); `clashed`
holds the tasks to which that happened, and a task is followed up to its first clash.
Nothing in the program calls `get_task_store()` at this commit: the module is about the
interface and its two implementations.

### Logging

A record is its number, the trace id its caller had and the one it was stamped with.
`Handlers` is the wiring of `configure_logging()`: for a logger, the handlers its records
meet in their order, what each queue they feed is, and what their filters do. The filter
that stamps a record changes the record itself, so a handler without it still gets a
stamped record if one before it had it: that is how the ERROR file gets trace ids, and
`LinesStamped` says that it does. Each category has a queue, a listener thread, the open
file and the renamed ones under the hour in their names. The lifespan may run again in one
process, with the same listeners, since `configure_logging()` does nothing the second
time; it may also fail while it builds the registry or the runner, and then leaves the
listeners running.

### Monitoring and Metrics

`Metrics` is the value of `GatewayMetrics` and its methods; all of them hold the lock and
run on the event loop, so `Monitoring` uses them as single steps. The clock is one
number; a minute is `Minute` ticks of it. A request is in the middleware from its REQUEST
line to its RESPONSE line, and a stream's body goes on after that. `trace` is the context
variable, one value for each request since each is a task of its own. `latencies`,
`errors` and `checked` are what really happened, without the windows; the figures are
compared with them.

### Dashboard and StatusPage

Streamlit runs the script from its top for each interaction. An interaction while it
runs ends that run where it next touches the page or the session state, by an exception
that `except Exception` does not catch. So an action is what happens between two such
places, and each of the user's actions is possible at all of them. `script` is where the
run is and what it has at hand. `dropped` and `torn` are ghosts: the questions whose run
was ended, and the keys whose assignment was, in a change of session. They are the
exceptions in `TranscriptOwned` and `RepliesPaired`, and nothing else is one.

The backend of `Dashboard` is what `RestChat` shows of it to a client: ids, sessions that
close at any time, a handler that goes on when nobody listens, and a turn saved at its
end. An answer is what becomes of it on the page: `whole` (text), `note` (an error is
shown), `blank` (nothing at all). `StatusPage` has the two assignments of a sent A2A task,
the refresh of a task, and `_get_metrics()` with its cache, which other browsers fill too.
A call of it is three moments: the request starts (`GetMetrics`), the server reads its
counters (`Answer`), the call returns or gives up and its result is cached (`FetchEnds`).
The clock may move between them, by any amount: the timeout of 5 s is for each read of the
socket and not for the call. `st.cache_data` is external: it makes one call at a time
(another run that needs it waits, `AwaitFetch`, and looks at the cache again), keeps also
the empty result of a failed call, and dates a result when the call has returned. So a
lifetime of 10 s does not make the figures younger than 10 s: `FiguresFresh` says what it
does, that they are the server's from some moment of a call that had ended less than that
before. A run that is blocked in the call cannot be ended there; an interaction is kept
(`next`) until the call is back, and what that returned is cached all the same.

## What the runs check

| Run | Question | Bounds |
|---|---|---|
| `provider_chain` | Is each provider called once, each switch announced and counted, is ERROR true, is every chunk sequence one `ChunkStream` allows, does sentence buffering lose, repeat or reorder text, what may a tool result overtake, and does a client that keeps reading get an answer? | 3 providers of 2 vendors, every subset registered, every preference, 4 fragments or tool results |
| `rest_histories` | Are histories whole, are turns lost, what did the model see, do the cache counters add up, do the handlers implement `Conversations`, does every admitted request end? | 2 sessions, 2 requests, lifetime 1 of 2 ticks |
| `a2a_tasks` | Queue order, what is remembered, contexts apart, one session per binding, counters, do tasks end? | 2 tasks, 2 contexts, session lifetime 0, binding lifetime 2 of 2 ticks |
| `agent_graph` | Are the messages a provider is sent well formed and its own, what do the tool metrics add up to, does a run end? | 1 request, 2 providers, 5 nodes, up to 2 calls each |
| `redis_contexts` | Does a session serve one context only, when does a context get a second one? | 3 tasks, 2 workers, 2 contexts, binding lifetime 2 of 3 ticks |
| `redis_sessions` | Does a session live while used, and not after its deletion? Is a stored task what the in-memory store would hold? | 3 requests, 1 session; 1 task of up to 3 artifacts; 2 workers, lifetimes 2 of 4 ticks |
| `logging` | Is each record that is put on a queue in its category's files or queue, once and in order, under its caller's trace id; does stopping flush, and return? | 3 records of 3 loggers, 2 lifespans, hours of 2 of 3 ticks |
| `dashboard` | Whose transcript does the page show, do questions and answers pair up, is what is shown remembered, is a question answered? | 2 backend sessions, 2 questions, 1 failover each |
| `monitoring` | Are the latency figures and the error graph exact, do log lines carry their request's trace id, are health checks spaced; is the task shown the one that was sent, are the figures fresh? | 2 requests at a time, 3 recorded, windows of 2, 2 and 1, 2 minutes of 2 ticks of 4; up to 2 A2A tasks and 1 request counted, these and the clock 4 together; figures cached for 2 ticks |

Where a property is a conjunction (`FilesSound`, `QueueSound`, `PageCurrent`,
`HistoriesIntact`, ...) its first part is the module's type invariant or its parts are
stated, with comments, right before it.

Why the bounds are enough. Three providers are the least for which the preferred one can
be in the middle of the catalogue with entries on both sides and one vendor can be
missing. Four events let a fragment be held back, a tool overtake it, and two sentences
follow. Lost updates, double sessions and duplicate turns need two overlapping requests;
expiry, eviction and rebinding need the clock to pass each lifetime once. Sessions that
live 0 or 1 ticks next to a binding that lives 2 keep the order of the default lifetimes
(7200 s and 86400 s). A race of GET and SET needs two workers, and a third task
sees what it left behind; three artifacts on two workers let one be added before, between
and after another worker's. Five nodes are two rounds of tools and the reply, or the limit.
One request is enough for `agent_graph`: requests share only counters, which each action
adds to. Three loggers stand for the three ways through the wiring: the root, the filtered
ERROR logger, and one of the three that are alike. A file older than an hour with records
on its queue, and one renamed while the listeners are stopped, need three ticks. The
windows of `Metrics` are smaller than what is recorded, as they are in a process that has
run for a while, and two minutes of two ticks are the least with an edge inside. One
change of session with two sessions is enough to mix two transcripts, and two questions
to pair an answer with the wrong one.

Fairness. `provider_chain` assumes that the generator's own steps happen
(`WF(Step)`): the consumer asks for the next chunk, and a provider's stream ends or
raises, because the LLM clients have timeouts. `rest_histories` and `a2a_tasks` assume
that the event loop runs a handler that can run, and that the processor's stream ends,
which is the property the first run shows. `agent_graph` assumes the same of model calls
and tools. `logging` assumes that the listener threads and the stopping thread run.
`dashboard` assumes that a run of the script goes on while it can, and so that its calls
return: a backend may fail, be silent or be gone, since the calls have timeouts, but these
are for each read, so one that sends a byte now and then for ever is excluded.
Nothing is assumed about clients disconnecting, cancelling, interacting, or sessions
expiring.

### Where code and documentation differ

Three runs end in a violation: each states what a comment or document says.

* `substitution_comment`: an unregistered `request.model` is replaced without a FAILOVER
  chunk, although `langgraph_processor.py:73-75` says it is announced. The loop compares
  with the provider that already replaced it.
* `chat_reply_doc`: the reply of `POST /v1/chat` starts with the partial text of providers
  that failed, although `docs/architecture.md:188` says it contains only the successful
  reply.
* `a2a_continuity_doc`: a context stays bound to a session after that expired (or was
  deleted); its tasks then run without history and system prompt, and their turns are
  dropped until the binding ends, although `docs/architecture.md:304` says that history is
  preserved.

Other differences can be read off a single definition and need no run:

* `AgentGraph.ToolRaises`: `post_tool_call()` is not called when a tool raises, although
  `middleware.py:113` says it is.
* `AgentGraph.ToolBody`: a tool counts its call, which `pre_tool_call()` has counted
  already; `ToolLedger` says what the chart shows: two for a call that came back, one for
  one whose arguments did not fit, and one or two for a cancelled one.
* `RedisSessions.UpdateHistory`: no turn is ever saved in Redis (see above), although
  `task_repository.py:47` says that history survives restarts.
* `RedisContexts.Get` and `Set`: a GET and a later SET without NX, so two workers may bind
  a new context to two sessions, although `docs/architecture.md:304` says that all tasks
  of a context share one; `SplitOnlyByRace` says that nothing else does this.
* `RedisTasks.Load` and `Write`: concurrent updates of a task lose artifacts, although
  `task_repository.py:154-155` describes appending with RPUSH; `TaskUpdatesKept` says that
  nothing else loses one.
* `Logging.Handlers`: the ERROR file gets INFO records of all modules (the root's
  handler has no filter) and no warnings of the SYSTEM, REQ_RESP and UI loggers (they do
  not propagate), although `logging_config.py:8` and `:229-230` say warnings and above
  from all loggers; loggers from `get_logger()` do not reach the SYSTEM file, although its
  docstring (`logging_config.py:274`) and `docs/architecture.md:188` say so.
* `Logging.Due`: the open file keeps the name it was opened under until a record arrives
  an hour later, while the Monitoring tab (`streamlit_app.py:605-615`) names the files of
  the current hour.
* `Monitoring.Checked`: a `ReadTimeout` is kept as Offline like any other error
  (`streamlit_app.py:74-75`), although its docstring (`:58`) says it does not flip the
  status; and a check whose run is ended by an interaction is not kept, so that the
  next run checks at once: `ChecksSpaced` excepts that and nothing else.
* `Dashboard.Adopt` and `Fill`: an interaction between the two leaves the transcript of
  the old session under the id of the new one (`streamlit_app.py:231-233`).
* `Dashboard.Reset` and `Replace`: if no session can be had, the session id is `None` and
  the chat box takes questions without a word of it (`Other`).
* `Dashboard.Post`: a question to a session that is gone gets a blank answer in stream mode,
  since the body of the 404 has no `data:` line.
* `ui_helpers.py:17` says that the texts of artifacts are joined with a space; `:28-30` join
  them without. The models do not go into text that far.

## What is proved

Each proof module starts from the assumptions of the module it is about, which are named
there and no more than types: bounds are natural numbers, null values are outside the
sets they are added to, and requests, tasks and sessions are finitely many where a property
counts them. Every other bound of the runs (sessions, providers, lengths, lifetimes,
time) is a constant the theorems hold for all values of. None of the properties below is
inductive as it stands; the invariants that are, and why, are described with each module.

`LangGraphProcessorProofs` proves, for every catalogue, every registered subset and
attempts of any length, all the safety properties of the run `provider_chain`: `TypeOK`,
`OncePerProvider`, `ExhaustionHonest`, `FailoverLedger` (`FailoversTold`), `BufferingExact`
(`TextIsExact`), `ToolOvertakesOneSentence` (`OneSentenceOvertaken`) and the refinement
`ContractHolds` (`ContractIsKept`). The catalogue has no duplicate key and `None` is not one
of its keys.

`OncePerProvider` is not inductive: a call is safe because of where the loop is. The
inductive invariant `IInv` adds `Progress`, which says that the providers called so far
are exactly `Walked`, the part of the chain up to the loop variable (without the loop
variable itself before its call), that the loop variable is on the chain, and that the
chain is used up when the loop has ended; and `NoErrorYet`, that no ERROR was sent before
the end. Three lemmas carry the argument: `NextEntry` (a step to the next entry reaches a
new provider and skips none, from the uniqueness of keys), `ChainComplete` (with nothing
left, all registered providers were reached) and `CurrentWalked`. Then there is one lemma
per action. `FailoverLedger` has an invariant of its own over `IInv`: `Failures` says that
of the chain walked so far all providers are counted as failed over but the one in hand
and, until the switch is announced, the one before it; `Told` ties each count to the
FAILOVER chunks that name the provider.

For the refinement, `Handover` says at each point of the loop whether the provider that
failed has been counted yet, from which `ActiveKnown` follows: what `AbsActive` is there.
Then every action is a step of `ChunkStream` or none: `Failover` is `Switch` because the
provider it announces was not called (`FailoverMaps`), a call that was not announced is
`Begin`, one that was is no step at all (`CallMaps`), and `GiveUp` is `Error` by
`ChainComplete`.

For the text, `Buffering` says of the attempt's chunks that they are in order among
themselves and before what is held, and that together they are the numbers up to `fed`
(`OfModel`); that what is held is younger than any tool result a text has followed
(`Overtaken`), which is what makes the overtaken text one sentence; and that a provider
nobody has called has said nothing (`Spoken`), so that a new attempt starts from nothing.
A token, in either mode, and the end of the events are the same step (`Moves`): some text
is sent, some is kept, and together they are what was kept before and what is new.

`RestChatProofs` proves `HistoriesIntact` (`HistoriesAreIntact`), `NoLostTurn`
(`NoTurnIsLost`), `CacheLedger` (`CacheLedgerHolds`) and the refinement `ConversationHolds`
(`ConversationIsKept`) for any sessions, any finite set of overlapping requests, any
lifetime. The invariant says of each stored session that there are a dialogue and a
sequence of turns from which its history was written (`Kept`), that each turn is one ended
request's, that no ended request with a reply is missing (`TurnsKept`), and that what a
reading request was given is a prefix (`SnapshotIsPrefix`). `HistoriesIntact` and the
refinement speak of what `get_display_history()` shows, a recursive function (`Shown`);
what it computes for a history that is `Kept` is proved by looking at the least place where
it would differ (`LeastNumber`, from the well-foundedness of finite sets), since induction
itself is out of reach. Then `Outcome` says of every step that it saves no turn, saves one
(`Saves`), or creates a session (`Created`), and the invariant and the refinement follow
from that. `CacheLedger` has `Ledger`, which counts finite sets of requests.

`A2AExecutorProofs` proves `QueueSound` (`QueuesAreSound`), `ContextsKeepSessions`
(`SessionsAreKept`), `CompletedIffRemembered` (`RememberedIsReported`) and `TaskLedger`
(`TasksAreCounted`) for any tasks, contexts and lifetimes. `Queues` says of each task what
may have been reported at the point where it is, and that its text is numbered like its
artifacts. `Routes` adds to `ContextsKeepSessions` that contexts are bound to different
sessions, and that a task's session is its context's or was bound a whole lifetime before
the present binding: the property speaks of tasks, a lookup only sees bindings. `Histories`
says of each stored history that every question is that of a completed task with its answer
right behind it and is there once, and that no completed task's question is missing.

`RedisProofs` proves, of `RedisContexts`, `ContextsTyped`, `ContextsApart` and
`SplitOnlyByRace` for any number of workers, tasks, contexts and sessions and any
lifetime. `ContextsApart` speaks of tasks and bindings; its inductive
invariant adds `BindingsApart`, that no two contexts are bound to one session
(a task takes its session from a binding, not from the task that made the binding), and
`SetHasSession`, that a task that is about to bind has a session and one that has not
created it yet has none. `SplitOnlyByRace` speaks of the tasks a lookup could have known
of, and a lookup sees only the binding: `BindingLasts` says that a routed task's context is
bound for at least the lifetime of the binding that routed it, and that routed tasks stay
routed. The assumptions are those of `RedisContexts`: there is a context,
lifetimes are natural numbers, and the two null values are outside their sets. That
`uuid4` does not repeat is in the model (`CreateSession`), not proved.

Of `RedisSessions` it proves `KeptWhileUsed` (`SessionKept`) and `DeletedStaysDeleted`
(`DeletedGone`) for any number of workers, requests and sessions, any lifetime, and workers
that restart at any point. Neither is inductive. `Backed` says that the key of a session
a request has renewed is stored with at least the lifetime of that renewal (that it is
present now says nothing about the next tick); the lemma `ExpireLengthens` is why other
requests do not disturb it: an EXPIRE never shortens a lifetime, because it is counted from
a later time. `Gone` says that a deleted session's key is not stored at all: that it is not
alive would not do, since EXPIRE gives a stored key another lifetime. `NotYet` says that a
request is for a session that was created and is not marked as having renewed it before it
does.

Of `RedisTasks` it proves `TaskUpdatesKept` (`UpdatesKept`) for any number of workers, tasks
and artifacts. The inductive invariant adds `LoadedCurrent`: what an update loaded is
still what is stored, or the task has clashed. A SET by another worker breaks the one and
makes the other true; and since the SET writes what the GET returned, this is what makes
the stored task equal to the in-memory one. `KeysDated` relates each key's end to its last
write.

`AgentGraphProofs` proves `ToolLedger` (`ToolsCounted`) for any number of concurrent
requests, tools, rounds and attempts, provided that the requests are finitely many (the
property counts them). `Counted` restates the property; `InsideTools` adds that a request is
only ever inside a call of a tool that exists, so that the counter its first hook raised is
the one its body and its second hook raise. A step of one request moves it into one of the
two sets the property counts (`Began`, `Ran`), from one to the other, or out of them, and a
counter of that tool with it; the lemmas `OneMoves` and `CallMoves` say that nothing else
changes, `AddsUp` that the figures agree again. That the difference of the two hooks is an
upper bound only, and not the number of calls under way, is the exception and the
cancellation: both leave a tool without `post_tool_call()`. Of the cancelled ones those whose
body had counted are told apart (`cut`), since they are counted twice like a call that came
back; the equation holds at every await in between.

It also proves `MessagesSound` (`MessagesAreSound`). `AttemptOk` follows a request through its
round of tools: at the model, all calls of all replies are answered behind them and nothing
else is (`Answered`); in a round, all but the last reply's are, and of these the first
`call - 1`, in the results the node has collected and not yet appended (`InRound`); and every
call is one of the attempt in hand (`OfAttempt`), which is what a failover that kept the
messages of the failed attempt would break.

`DashboardProofs` proves `TranscriptOwned` (`TranscriptIsOwned`), `RepliesPaired`
(`RepliesArePaired`) and `ShownIsRemembered` (`ShownAreRemembered`) for any number of sessions
and questions. `AtHand` says of a run that answers a question that the question is on the
page, that nothing in front of it is of that question and only its failovers are behind it
(that is where the answer goes, and why no other entry is left without one), and that a
question about to be sent was not sent before. `LogOwned` and `Remembered` are of the
backend: a session's history holds its own questions, one that a handler is still working
on is in no history, and one whose answer is on its way to the page as a whole is in its
session's. `BlankDone` says that the handler of a question shown as blank has ended, so that
nothing is saved for it afterwards. `IdFirst` is that the session id is assigned before the
transcript. Every interaction is one lemma (`InterruptKeeps`): it may tear what the run was
assigning and drops the question it was answering, whatever else it does. That `Unset` is
not a transcript is assumed: it stands for a key that `st.session_state` does not have.

`LoggingProofs` proves `FilesSound` (`RecordsAreKept`), `LinesStamped` (`StampedAtOrigin`) and
`FlushedAtStop` (`StopFlushes`) for any number of records, lifespans and hours; loggers and
handlers are those of the code. `Stored` says of each category that its renamed files in
the order of their hours, then the open file, then the queue hold what was sent to it, once
and ascending. That alone is not inductive: a file that is renamed replaces one of that name,
so `Stored` adds that no file has the name of the open one's hour, or of a later one, yet
(`Ahead`). It holds because a file is renamed only when an hour has passed since it was
opened. The lemma `PassGoes` goes through the handlers of every logger and finds that a
record reaches one queue at most, once and stamped: so the wiring is, whatever the comments
say of warnings (see above). `Blank` says that nothing is logged before the first
configuration, the only one that opens files. For the stop, `Stopping` says that only the
listener that is waited for has a sentinel, and that what is behind it was logged after the
stop began; so that is all a listener can leave behind when it ends.

`MonitoringProofs` proves `LatencyFigures` (`FiguresOfTheLast`), `ErrorGraphExact`
(`GraphIsExact`), `LinesTraced` (`TracesApart`) and the action property `ChecksSpaced`
(`HealthChecksSpaced`) of `Monitoring`, and `PageCurrent` (`PageIsCurrent`) of the two modules
side by side; `ExploresMonitoring` says that the behaviours TLC explores are `Monitoring`'s.
`Measured` says that each buffer is the window of all that was ever recorded. It is kept by
the lemma `RecentMoves`: appending to a window and cutting it again gives the window of the
longer sequence. `Ascend` adds that errors are recorded in the order of the clock; only
therefore are the errors that a window has lost older than those it has, which
`SkippedOnlyIfFull` needs: if an error of a minute was lost, all that the window keeps, and
that one, came since the minute began. `CountInWindow` maps the places of the window into
those of the whole sequence, one to one, so a bar is at most its minute's count, and is all
of it if none was lost. `BucketInWindow` is why the cut by age takes no error out of a bar: an
error whose minute has a bar is younger than all the bars together. `Traced` adds to
`LinesTraced` that a request whose endpoint runs has its own id in its context, and `Spaced`
says that the time kept of the last check is its start, unless it was cut short. For the
page, `Labels` says which button a run can be for (Refresh only with a task to ask for, so it
never fills in a missing one, and not among the buttons clicked while a run was blocked
either), and that between the two assignments the button's context is
the task's. `TotalAt` says of a reading that the total of the tick it was made in was that,
which later ticks do not change (`TotalsKept`); `FetchRead`, `CacheRead` and `ShownRead`
carry that from the call under way (`TotalIn` says at some tick since it was asked) to the
cache and to the page, also when the call was made for another browser or the run it was
made for is to end. Two assumptions came from here: with a cache that keeps nothing
(`MetricsTTL = 0`) figures are not shown *less* than that after the call, and the name of the
Refresh button is not that of no button; both are as in the code.

Only model-checked: liveness (`ENABLED` is out of the prover's reach). What `FoldSeq` computes
for an average is data as well: `LatencyFigures` is proved of which latencies are averaged,
and `Mean` is not looked into.

## Plan

In this order:

1. *(done)* the processor and its contract, the REST surface, the A2A surface;
2. *(done)* the Redis stores under several workers, the task store among them;
3. *(done)* the agent graph: tool loop, tool errors, tool metrics;
4. *(done)* log routing, hourly files, trace ids and the listeners;
5. *(done)* metrics windows and request accounting; the UI: its sessions, its chat against
   late answers, its A2A tab, its indicator and figures;
6. *(done)* proofs about `RedisSessions`, `RedisTasks` and the counters of `AgentGraph`;
7. *(done)* proofs about the processor's text and its refinement of `ChunkStream`, about
   `RestChat` and its refinement of `Conversations`, about `A2AExecutor`, and about the
   messages of `AgentGraph`;
8. *(done)* proofs about `Dashboard`;
9. *(done)* proofs about `Logging`, `Metrics`, `Monitoring` and `StatusPage`;
10. the sentence splitter on characters, against a reference splitting of the whole text.

## Not modelled

The a2a-sdk, LangGraph, the LLM clients, Streamlit and Redis themselves are external. Left
out are the text of messages, logs and chunks, and with it the PII filter, `ui_helpers.py`
and the parsing of model output; the agent card and the health endpoint, which keep no
state; what tools compute, and the time it takes; the layout of the UI and its charts of
providers and tools; `settings.py` and schemas, which are values; and the earlier versions
of modules that `main.py` does not reach (`controllers/`, `infra/`, `config/logger.py`,
`agent/runner.py`, `agent/stream_processor.py`, ...), about a third of the source lines:
what could be said of them is said of their live twins.
