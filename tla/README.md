# Verification of go-codex

TLA+ models of the concurrent core of go-codex, the TLC runs that check them on
small instances, and TLAPS proofs of the properties that matter most, for every
size of the system. Paths are relative to the repository.

Contents: the inventory of the system, what is modelled and how it corresponds
to the code, the runs, fairness, the proofs, where code and text disagree, what
is not modelled, and what could be done next.

## 1. Inventory

go-codex is a Go library in three layers. Most of it is declarative and
sequential: a codec, a route or a port is declared once, and each request or
message then runs through a fixed chain of decode, check, handle and encode.
What is hard to get right and hard to test sits in the third layer and in the
adapters, where goroutines, channels, locks, contexts, sockets and files meet.

| Component | State it keeps | Operations | Talks to | What makes it correct |
|---|---|---|---|---|
| `app` (lifecycle) | root context, `wg`, `goErr`, hooks, `shutdownOnce`/`shutdownDone` | `Go`, `Supervise`, `OnShutdown`, `Run`, `Shutdown` | supervised functions, ports' `Done` | hooks after goroutines, in reverse order, each accepted one run, no error lost, every call returns |
| `ports.SinkPort` | `feedMode`, `pushCh`, `bindings` | `Bind`, `Feed`, `Start`, `Push`, `Close` | `stream.From`/`Drain`, sink adapters | no send on a closed channel, order and completeness for each adapter, `Close` flushes |
| `ports.PipePort`, `SourcePort` | `connected`, `pushCh`, input ports, outputs, `doneCh` | `InputPort`, `OutputPort`, `Stream`, `Connect`, `Push`, `Done` | source adapters, sink ports, `app.Supervise` | each producer and output are joined by a FIFO link, what is accepted is delivered |
| source adapters (`nethttp`, `chi`, `sql`, `file`, `zeromq`, `mqtt`, `mqtt5`) | a channel or two, what is in hand, registered handlers | `Activate` | `SourcePort`, clients, brokers, files, databases | nothing accepted is lost while the context lives, nothing is sent to the closed port, the end of the context closes it |
| `ports.DuplexPort` | bound adapter, inbound channels | `Bind`, `Inbound`, `Feed` | WebSocket adapters | inbound channels close after their senders have left |
| other ports (`LatestPort`, `IOPort`, `ToolPort`, caches, files) | latest value; a plugged-in function | `Set`/`Get`, calls | adapters | freshness of the latest value |
| `stream` operators | per operator: latest values, a buffer, a timer, the current inner stream | `Combine`, `Zip`, `Buffer`, `Window`, `Debounce`, `Throttle`, `Switch`, `GroupBy`, `Tee`, `Merge`, ... | each other, ports | nothing lost or reordered beyond what the operator says; all goroutines end |
| `stream.BroadcastHub`, `nethttp.SSEFromHub` | `subs` under `mu` | `Subscribe`, `Unsubscribe`, `run` | HTTP handlers | no send on a closed channel; a session gets every value or it was dropped at its full buffer |
| `forge`, `codex`, `format`, `config`, `validate`, `schema`, `render` | none at run time (`codex.Mutable`, `Cacheable` apart) | pure functions | everything above | algebraic laws, unit-testable |
| `api/rest`, `api/events`, `api/reqreply`, `api/mcp`, `api/llm` | route tables, fixed after wiring; `reqreply.Future` | builders, encoding and decoding | adapters | as the dispatch below |
| message dispatch (`restdispatch`, `mqtt5`, `mqtt`, `zeromq`) | none but the context-field box | a chain of checks, the handler, the answer, error channel, dead letter, forward | `api/*`, brokers | one answer per request, no failure vanishes, a handler sees its own fields |
| `reqreply.Client` over `mqtt5` | handlers by reply topic, waiters by correlation data, forwarded routes | `Call`, `ReplayDeadLetter`, forwarding, retries | a broker, services | a call listens as long as it waits and ends with an answer to itself, or a failure |
| `api/file` | none | `Create`, `Read`, `Patch`, `Delete`, `Copy`, `Move` as compositions of backend calls | the file backends | nothing lost or torn when a call fails or others come in between |
| `adapters/websocket` server | `Hub.entries`, a queue per session, `wg` | `register`, `unregister`, `send`, `broadcast`, `closeAll`, `Activate`, `upgradeHandler` | `DuplexPort`, sockets | a queue is closed once, frames in order, sessions end with the context, slow clients are isolated |
| `adapters/websocket` client | `managedConn.sockCh`, backoff | `dialLoop`, `readEach`, `write`, `Activate` | a remote server | writes reach the newest connection, a gap is reported before the next frames |
| `adapters/nethttp` credential cache | `current`, `inflight` under `mu` | `fn`, `invalidate` | an identity provider | one fetch per window, no stale or rejected credential |
| `adapters/nethttp`, `chi` | none between requests | translations | `net/http` | as `api/rest` |
| `adapters/file`, `smb`, `s3`, `ports` `osBackend` | files, lock files, sidecars | `WriteBytes`, `WriteBytesIfMatch`, `DeleteBytes`, ... | a file system several processes share | compare and swap is atomic, across kills |
| `adapters/zeromq` | sockets, reply queues, `wg` | pub-sub loops, REQ/REP, ROUTER/DEALER | a ZMQ binding | one reply per request, calls come back, Serve drains |
| `adapters/mqtt`, `mqtt5` | subscriptions, reply handlers by topic or correlation | connect, subscribe, publish, call, serve | a broker | a call returns with its own reply or times out; subscriptions are cleaned up |
| `adapters/sql`, `redis`, `openai`, `mcpgo`, `mcprest`, `templ` | none | one external call each | services | none beyond the service's own |
| `stats`, `internal`, test doubles | none | observers, matching, fakes | everything | pure |

How they meet: `app` supervises ports through `Supervise(start)`, which waits
for the port's `Done` channel; ports own the channels and hand them to adapters,
which promise to leave before the port closes them; every goroutine is told to
stop by one context. `PROJECT.json` lists each component with its sources and
status, and each hazard (interleavings, channels closed under a sender,
contexts that end between two steps, full buffers, killed processes, late
replies) at the line where it bites.

## 2. Modules

Each step of a model is what one goroutine does between two points where
another can interfere: a lock, a channel operation, a context check, a system
call. Payloads are the names of the calls that submit them, or numbers.

| Module | Models | Notes |
|---|---|---|
| `AppLifecycle` | `app/app.go` | `Go`'s context check (`GoCheck`) and its `wg.Add` (`GoAdd`) are two steps, as in the code. `hookmu` is held between `HookCheck` and `HookAppend`. One teardown: `OnceDo`, `Wait`, `Snapshot`, then per hook `StartHook`, `HookReturn`/`Deadline`, `AwaitHook`, and `Collect`. |
| `FifoLink` | abstract | A bounded first-in-first-out link that loses nothing while it is live, and may lose, never reorder or repeat, once its context has ended. |
| `SinkPort` | `ports/sink_port.go` `Start`/`Push`/`Close`, `stream.From`, `Drain` | `feedMu` is read-locked by each `Push` in "sending" and write-locked by `CloseLock`. An unbuffered port (`Cap = 0`) hands over directly. Implements `FifoLink` from `Push` to each adapter. |
| `PipePort` | `ports/pipe_port.go`, `ports/source_port.go` | Two pumps, one per input port and one for `pushCh`, fan out to sinks (each with a Feed goroutine) and streams. Implements `FifoLink` from each producer side to each output. |
| `SourceAdapters` | `Activate` in the `binding.go` of `nethttp`, `chi`, `sql`, `file`, `zeromq`, `mqtt`, `mqtt5` | One adapter on a port. `query`, `watch` and `sse` send to the port themselves; `poll`, `scan` and `subscribe` have a goroutine that produces and one that forwards; `ingest` has HTTP handlers that produce; the MQTT adapters are called back by the client library and own no goroutine. Implements `FifoLink` from what the adapter accepted to the port. |
| `StreamSteps`, `StreamOps` | `stream/*.go`, and the `CallAdapter`, `DrainCall`, `PublishAdapter`... of the adapters, which have the same loop | `StreamOps` is the select loop: a context, one to four sources with a Values and an Errors channel, a timer, and sends that watch the context. `StreamSteps` is the body of each case of each operator, a pure operator from the loop's locals and the item to new locals and sends. Which operator runs is chosen in the initial state. |
| `Dispatch` | `adapters/internal/restdispatch`, `mqtt5`, `mqtt` and `zeromq` dispatch cores | Seven servers. A server is its list of checks in order; the first that fails decides which outlets are used: error pattern, error channel, dead letter, forward, `onError`. Two messages, so that a ROUTER's handler goroutines share the context-field box. |
| `RpcCall` | `api/reqreply/client.go`, `forward.go`, `dead_letter_replay.go`, `adapters/mqtt5/reqreply_transport.go` | Reply topic, handler, subscription, correlation, request, timer, retries, forwards to another topic, clean-up. The broker may lose, repeat and reorder. Implements `RemoteCall`. |
| `RemoteCall` | abstract: `reqreply.Client` | A call ends once, in a failure or with what a handler answered that ran for this very call. |
| `WsHub` | `adapters/websocket/hub.go`, `binding.go`, `ports/duplex_port.go` | Per connection a handler, a read loop and a writer; the goroutine of `Activate` drains the outbound stream, and then closes and waits. `send` looks a session up, releases the lock and sends: two steps (`Lookup`, `Send`). The client of a session in `Stuck` never reads. |
| `WsDial` | `adapters/websocket/client.go` | `dialLoop` and the outbound loop over `sockCh`, a channel of one place; connections are generations. |
| `BroadcastHub` | `stream/broadcast.go`, `adapters/nethttp/stream.go` | The hub visits its subscribers under `mu` one by one; a session is an SSE handler. |
| `ConditionalRegister` | abstract: `api/file` `ConditionalWriteBackend` | A file that a call replaces in one step, while its ETag is that of the file. |
| `ConditionalWrite` | `adapters/file/conditional_write.go` (repeated by `adapters/smb` and `ports/file_backend.go`) | Lock file, read and compare, temporary file, rename, sidecar, with a failure or a kill anywhere. Implements `ConditionalRegister`. |
| `FileRoutes` | `api/file/dispatch.go` over `adapters/file` and `smb` ("disk"), `s3` and `ports` ("os") | Each call is the backend operations the dispatch makes of it on that backend (a native copy, or a read and a write; a rename, or a copy and a deletion), each of those its system calls or requests. Conditional writes are those of `ConditionalWrite` without retries. A kill is a client that takes no more steps. |
| `CredentialCache` | `adapters/nethttp/credential_cache.go` | `start := time.Now()` (`Begin`), the locked lookup (`Hit`, `Join`, `Lead`), `inner`, the locked store, and the close of `done` are separate steps. |
| `DealerRouter` | `adapters/zeromq/reqreply_transport.go` and its dispatch cores | Several calls over one DEALER socket, a goroutine per request at the ROUTER. |
| `MC*` | | Values for TLC. `MCSources`, `MCFiles`, `MCFanOut` (`SinkPort` and `BroadcastHub`) and `MCRequestReply` (`RpcCall` and `DealerRouter`) each hold two specifications with disjoint variables: the initial state chooses which of the two runs, and the other's variables stay as they are. |
| `*Proofs` | | The TLAPS proofs of one component each, or of the two that share an `MC` module. |

The composition is inside the modules: `SinkPort` runs with `stream.From` and
`Drain`, `PipePort` with its source and sink ports, `SourceAdapters` with the
port that closes behind the adapter, `WsHub` with the duplex port that closes
its inbound channel, `BroadcastHub` with the SSE handlers, `RpcCall` with the
registry of handlers that calls share, `FileRoutes` with the backends,
`ConditionalWrite` with several processes and with programs that take no lock.
`AppLifecycle` represents any port by its `start`/`done` contract.

Undefined or external behaviour is nondeterministic: which ready case a
`select` takes, when a context ends, whether a supervised function fails, which
reply a socket refuses, whether two writes get the same file-system stamp, how
much of a file a reader sees that is being written in place.

What `WsHub` shows and a race detector would not: a frame for a session may be
looked up before, and sent after, the session's queue is closed. In Go this
panics; the model has a variable `crashed` for it and stops there.

## 3. Runs

| Run | Instance | Distinct states | Question |
|---|---|---|---|
| `AppLifecycle` | 1 `Go`, 1 `Supervise`, 2 hooks, `Run` beside `Shutdown` | 233,884 | Does the teardown keep its order, run what it accepted, report what failed, and end? |
| `FanOut` | the sink port with 2 `Push`, 1 `Close`, 2 adapters, buffer 1; the hub with 2 sessions, buffer 1, 2 values | 69,876 | Is `Close` safe beside `Push`, does each adapter see every item, once, in order? Is nothing of the hub lost silently or sent to a closed channel, and do sessions end? |
| `PipePort` | 2 `Push`, 1 ingested item, 1 sink, 1 stream, buffer 1 | 104,451 | Does each producer see a FIFO link to each output, and does what is accepted arrive? |
| `StreamOps` | every operator, 3 items (2 per source of a join), 1 error, 2 ticks | 335,619 | Does an operator put out what its comment says, and do its outputs close with the context though a source never closes or an output is never read? |
| `Sources` | the dialled WebSocket with 4 connections; nine source adapters with 3 items, buffers 0 and 1 | 64,912 | Does the writer reach the newest connection, is each gap reported first; is nothing accepted lost, nothing sent to a closed port, and does the end of the context close it? |
| `WsHub` | 2 sessions, one of which never reads, 2 frames, queue 1 | 266,894 | Closed once, frames in order, ended at return; does a slow client block anyone; do sessions end? |
| `Dispatch` | 7 servers, every route declaration, 2 messages | 385,682 | Is each request answered once, does every failure reach somebody, does a handler see its own fields? |
| `RequestReply` | MQTT 5: 2 calls, 3 routes on 2 topics, 1 forward, 1 retry; DEALER: 3 calls | 273,337 | Does a call listen as long as it waits, and end as `RemoteCall` promises? What can overlapping DEALER calls do to each other, and is each reply used once? |
| `Files` | 2 writers, 2 lock attempts, 3 versions, 2 stamps; 2 calls by 2 clients on 2 files over 3 backends | 725,438 | Is the compare and swap atomic, with kills, failures and foreign writes; do the file routes lose or tear anything? |
| `CredentialCache` | 2 callers, TTL 2, 3 fetches, 3 ticks | 323,407 | One fetch at a time, once per window, fresh, never a rejected credential. |
| `DealerRouter` | 3 calls | 57,340 | Does every DEALER call come back? |

Every property has a mutant in `PROJECT.json`, several have more: an operator in
the module, marked "Mutant", with a plausible bug in the code it replaces, that
breaks the property under the run's own configuration.

Some properties are conjunctions of named parts, so that one run of TLC answers
for all of them: `FilesIntact` is `MovesKeep` (a move that fails half-way has
not lost the file), `NeverPartial` (conditional and streamed writes are seen
whole), `MetadataFollows`, `CreatedOnce` (one of two Strict creates wins) and
`NoUpdateLost` (a patch under a strong ETag holds what was in the file it
replaced, unless contents come back, see section 6);
`TTLKept` says that a credential is not fetched again within its time and not
used after it; `SourcesStop` joins what the end of the context does to the
dialled WebSocket and to the other source adapters.

Why the bounds are enough to be interesting:

- Two of everything that competes: two hooks to have an order, `Run` beside
  `Shutdown` to share `shutdownOnce`, two pushes for a buffer of one place so
  that the buffer is full, two adapters to see one served and not the other,
  two sessions so that one is slow and the other is not, two writers for one
  lock, two requests for one box, two calls for one reply topic.
- A buffer of one place is the smallest with a full, an empty and a blocked
  state. What happens at `Cap = 0` is in `SinkPort` and in its proof; `PipePort`
  has no unbuffered case because the code replaces it by 8; the source adapters
  are checked with both.
- Four generations in `WsDial`: a stale socket put back needs two, the writer
  holding one that is two generations old needs three.
- `StreamOps`: a buffer or window of 2 and 3 with a step of 2, and three items,
  so that one is left when the source closes or the timer fires.
- Three versions and two stamps: two of them may share a stamp and so a weak
  ETag. Two lock attempts: one that fails and one after it.
- `FileRoutes`: two calls of any kind, of one client or of two; the second is
  whatever can come between two steps of the first. As clients and paths are
  interchangeable, `MCFiles` fixes who calls first and where a file is.
- `MaxFetches`, `MaxTime`, `MaxConns`, `MaxItems`, `MaxTicks`, `MaxForwards`,
  `Retries`, `MaxValues`, `MaxVersions`, `MaxTries`, `MaxCalls` and `Frames`
  bound counters that are unbounded in the code, each in a guard of one action.
  A behaviour that reaches a bound goes on with every other action.

Deadlock is not checked: every one of these systems may legitimately stop, all
its calls made and its context done.

## 4. Fairness

Fairness is assumed of what the Go runtime or a documented contract guarantees,
and never of the outside world: nobody has to call, cancel, connect, send or
disconnect, and a client need not read its socket.

- Weak fairness of a goroutine that can take a step and that nothing takes it
  away from.
- Strong fairness of a channel send or a lock that others also compete for:
  the runtime queues waiting goroutines in order, a writer waiting for an
  `RWMutex` is given it when its readers leave, and a `select` chooses among
  its ready cases at random.
- Contracts: a supervised function and a source adapter return once their
  context is done (`app/app.go:114`, `ports/source_port.go`), an adapter
  consumes what it is sent, handlers of requests return. A shutdown hook need not return:
  its deadline passes instead. `inner` of the credential cache returns.
- `StreamOps` is weakly fair in each goroutine of the operator, `RpcCall` in
  each call's own steps, which include the timer every exchange has: neither
  the broker nor a service has to do anything. `SourceAdapters` is fair in the
  adapter's goroutines, the port's and the receiver's, and in what an adapter
  tries once, such as opening its file. `Dispatch` and `FileRoutes` state
  safety only and assume no fairness.
- `BroadcastHub`'s `SessionsEnd` excludes, by its own antecedent, a client that
  blocks a write for ever. `WsHub` needs no such exception, since closing the
  socket ends the write.

## 5. Proofs

All theorems hold for every value of the constants under the assumptions named
in the modules: name sets are disjoint from the markers used beside them, and
sizes are natural numbers (positive where the code makes them so).

| Module | Theorems | Inductive invariant, and why it is needed |
|---|---|---|
| `ServiceProofs` | `AppTypeCorrect`, `HooksAfterGoroutinesHolds`, `HooksRunHolds`, `ErrorsReportedHolds`, `ClosedOnceHolds`, `RegisteredIsOpenHolds`, `EndedAtReturnHolds`, `FramesInOrderHolds`, `SingleFlightHolds`, `RejectedNotReusedHolds`, `TTLKeptHolds` | The lifecycle of the App (`A`, the instance of `AppLifecycle` in `MCAppLifecycle`): `wg` holds exactly the jobs between `GoAdd` and `GoDone`, so an empty `wg` at `Wait` says who can still run. For hooks, what is still to be run followed backwards by what has run is the list of accepted hooks, and after the snapshot none is accepted, because the context check and the append are under the lock that the snapshot takes after the cancel. For errors, a job that failed has either recorded its error or is still counted in `wg`, so that none is missing when `Collect` reads `goErr`. The WebSocket hub: a token per session: not yet made, in the registry, with the read loop, with `closeAll`, or spent. Whoever removes the session under the lock holds the token, and closing spends it. The wait group counts exactly the sessions between `Add` and `Done`, so an empty one at the return says who has ended. For order: what was accepted for a session is what was written, then what its writer has in hand, then its queue. The credential cache (`C`, the instance of `CredentialCache` in `MCCredentialCache`): a caller that leads owns the fetch in flight, and there is one. A rejected credential is neither cached nor in flight, and no fetch yields it again. A fetch begins only when no credential is within its time, and what a caller is handed was within its time when the caller began. |
| `FanOutProofs` | `NoSendOnClosedHolds`, `FlushedWhenDoneHolds`, `AdapterSeesFifoHolds`, `SubscribersOpenHolds`, `AccountedHolds`, `ProducerSeesFifoHolds` | The sink port: once the mode is "closed" no `Push` is past the check under the read lock, and the channel is closed only then. The way from `Push` to an adapter is the channels and hands between them, one after the other; what the adapter got followed by what is on its way is what was accepted, and a stage that has ended of itself left nothing before it. The refinement to `FifoLink` is read off the same line: each step puts an item at its end, takes one off its front, moves one along, or loses one when the context is done. The hub: what it has still to visit is a part of `subs`, and `subs` and the closed channels are disjoint except for what is being closed. For a session, what it got and what is in its channel is in order and, with what was dropped for it, is all that the hub offered since it subscribed. The pipe port (`P`, the instance of `PipePort` in `MCPipePort`, under the assumption `PipeSizes` on its constants): what comes in by a pump is of its own side, and what one side put into an output's channel is `Mine`, a join over the items of that channel which both pumps fill. The link's queue is then one line again, and the step of the other pump adds nothing to it. |
| `StreamProofs` | `OutputsAsDocumentedHolds` | A *lane* (`LaneInv`) ties one output channel to one source channel: what came out of the one, what is being sent there, what the loop holds back and what is still to come of the other are together what the whole source makes due there, an equation between joined sequences; once the context is done, what came out is a prefix of it. Each case of a select loop keeps every lane, since what it sends brings to the channel exactly what the item it took makes due (`Brings`), and `LanesInv` lists the lanes of each operator. With `EmptyInv` (what a loop held back is out when its source is closed) a lane at the end is the documented result. A *path* (`OrdersInv`) says less, for `Debounce`, `Throttle` and the error channels of `SplitEither` and `GroupBy`, where items may be left out: positions rise through what came, what is being sent and what waits for the timer; `FreshInv` and `FirstInv` say that the newest value and the first are not among those left out. `SlideInv`: the buffer of `SlidingWindow` is the end of what it read. `CombineInv`: each tuple has the newest value of every source, and the tuples climb one component at a time. |
| `SequenceLemmas` | lemmas only | What a join of sequences (`FlattenSeq`), and what the items of a sequence stand for one after the other (`Gather`), make of a sequence with one more item at either end, of two sequences put together, and of a prefix: by induction on the length, from the least number that a set of naturals leaves out (`Least`, `Induct`). `FanOutProofs` and `StreamProofs` rest on it. |
| `SourcesProofs` | `ReachesNewestHolds`, `SentOnNewestHolds`, `GapBeforeFramesHolds`, `SendsInTimeHolds`, `AcceptedArrivesHolds` | The dialled WebSocket: where the newest generation can be (slot, writer's hand, neither while it is being offered), older generations are closed, and the dial loop does not go on before it has reported the end of the last one. The source adapters: an item goes through six places (the batch, the producer's hand, the adapter's channel, the forwarder's hand, the port's channel, the receiver), in order and once; and how far an adapter has got in ending says who may still send, so that nobody may when the port closes its channel. For the refinement to `FifoLink` the places of one channel are joined (port's channel, forwarder's hand, adapter's channel, producer's hand), and a send that hands its item straight to a waiting receiver needs the places ahead of it empty; `Bounded` says that no place holds more than its buffer, so that an item entering finds room for it. |
| `FilesProofs` | `OneHolderHolds`, `AtomicSwapHolds`, `SidecarInStepHolds`, `FilesIntactHolds` | Conditional writes: the holder of the lock is the one in a phase that has it. Between its read and its rename the file has not changed unless a foreign program changed it. The refinement maps `Rename` to the atomic commit and everything else to the begin or end of a call or to a stutter. File routes: `Intact`, in layers, each kept by every step given those before it. What a call has open is a file that is or was there; what it is doing fits what it was asked for; its conditional update is in no file and no other hand before it is written; a file that is empty was written in place or cut; one Strict create at most has made the file that is at a path; whoever checks an ETag or renames under one has the path's lock; a patch that reads or merges has seen what its ETag names; and a move or a copy under way has its content and its metadata in the source, in its hand or in the target. |
| `RequestReplyProofs` | `ListensWhileOpenHolds`, `AnswersOwnHolds`, `StrayNeedsOverlapHolds`, `RepliesKeptHolds` | Over MQTT 5: a handler in the router is that of a call which has not cleaned up, each call has its handler from its registration on unless it shares the topic, and a subscription is that of an open exchange or of one whose context had ended. For the refinement of `RemoteCall`, every answer a call holds was given to a request of its own, and it has moved to another topic only when a handler told it to; an execution maps to an execution, a return to an end, and whatever happens on the wire to a stutter. Over ZeroMQ (`D`, the instance of `DealerRouter` in `MCRequestReply`): a call's name is in one place, the request queue, a running handler, the reply queue, a refused reply, or a result; and whatever is unanswered while a call waits is known to be near it. |
| `DispatchProofs` | `OwnFieldHolds`, `AnsweredOnceHolds`, `FailuresSurfaceHolds` | What is left of a message's steps ends with the server's last one. Messages under way at the same time know of each other; and while a message is under way, the middleware is still ahead of its handler, or the context box holds a field that it may read. For answers and reports: what was attempted, followed by what is queued, is one of the plans that the outcome, the route and the server allow, and each attempt's result fits the plan's length. The properties are read off the finished plans. |

A safety theorem combines the base case, the step (one lemma or one named step
per action) and the implication to the property with `PTL`. Each inductive
invariant was first checked with TLC.

The definitions that say what an operator promises are joins as well (`FlatMap`
over the items of an input), so that they have a law for one more item; a
definition by selection or sorting would say the same and could not be unfolded
by the provers.

`MCAppLifecycle`, `MCCredentialCache` and `MCPipePort` take their component as an
instance over constants and variables with names of their own, so that one proof
module can speak of several components.

Every invariant that a run checks has a theorem. Only model-checked: the
liveness properties (`ShutdownReturns`, `CallsReturn`, `AcceptedDelivered`,
`OutputsClose`, `SlowClientIsolated`, `SessionsEnd`, `SourcesStop`, and the
liveness in `KeepsPromise`), because liveness under fairness and `ENABLED` are
beyond the prover. No module uses `RECURSIVE`.

## 6. Where the code and its text disagree

These were met while modelling. The properties are stated so that they promise
no more than the code keeps, and the models take the code's side:

- `adapters/websocket/hub.go:126` sends on a queue it looked up under the lock
  but uses after it; `closeAll` or the read loop may have closed it meanwhile,
  and the process panics (`crashed` in `WsHub`). The comment (`:116-117`) says:
  "Returns false when the session is unknown or its queue is full".
- `docs/guides/zeromq.md:522-524` says that the DEALER client "is safe to call
  concurrently from multiple goroutines"; nothing on the wire says which reply
  is whose (`adapters/zeromq/reqreply_transport.go:1103`). `StrayNeedsOverlap`
  says when two calls may return with each other's replies.
- `app/app.go:124`: `Go` may count a goroutine after `Wait` returned, against
  "all supervised goroutines have exited" (`:238`) and "a safe no-op" (`:116`).
  `late` in `AppLifecycle` records these. `Supervise` (`:172`) has already
  started its component when `Go` then ignores it.
- `ports/sink_port.go:395`: when the context of `Start` ends, the drain
  goroutine goes, and a `Push` with a live context of its own stays at a full
  channel, with the read lock, so that `Close` stays too; the comment at
  `:388-389` says that "a blocked Push always progresses (or unblocks via
  ctx)". A second `Close` (`:409`) returns at once, while the comment says it
  "blocks until the drain goroutine and all bound adapters have finished".
- `ports/pipe_port.go:286`: with its context done a pump exits although items
  wait in its channel, and `doneCh` then closes, against "all in-flight items
  have drained" (`:103-106`). The closer does not wait for the Feed
  goroutines either (`:299`, against `:74-75`).
- `adapters/websocket/binding.go:567`: a connection accepted around the end of
  the context may be counted after `wg.Wait` and emit after `Activate`
  returned, against "no sends after Activate returns" (`:204`); and one
  registered after `closeAll` took its list (`:705`) is closed by nobody, so
  that `Activate` may wait for it. `late` in `WsHub` records both.
- `adapters/websocket/client.go:479`: the dial loop sends to `sockCh` without
  looking at the context. If the writer puts back a replaced socket while the
  slot is empty, the loop waits until the writer takes it out again, or for
  ever: "Blocks until ctx is done." (`:475`). `StopsUnlessStale`, a part of
  `SourcesStop`, excepts this.
- `stream/broadcast.go:125`: with a buffer of 0 a value is dropped unless the
  subscriber is waiting, against "the hub blocks until the subscriber reads
  each item" (`:41`). Channels of an unsubscribed stream, and of one that
  subscribes after the hub has gone, are never closed (`:58`, `:73`).
- `adapters/file/conditional_write.go:111`: an `IfMatch` that equals the weak
  ETag is accepted, while `api/file/backend.go:83` says "only commits if path's
  CURRENT strong ETag equals *IfMatch". `ConditionalRegister` promises what the
  code does: two contents with one time and size are not told apart by a weak
  ETag.
- `adapters/nethttp/credential_cache.go:95`: with a TTL of zero a call joins a
  fetch under way, while `:16` says "every call invokes inner".
- `adapters/zeromq/reqreply_transport.go:984`: handlers send on the ROUTER
  socket while the loop receives on it; `serve_subscribers.go:26-30` says that
  such sockets are "NOT safe for concurrent use from multiple goroutines". The
  model takes one socket operation at a time. When a receive fails, Serve
  returns without waiting for its handlers (`:966`).
- `adapters/zeromq/reqreply_transport.go:918`: the ROUTER server makes one
  context-field box for all its concurrent handlers, against
  `context_field.go:43-45`. `OwnField` excepts this server.
- `adapters/mqtt5/transport_dispatch.go:282` and `adapter.go:256-270`: when the
  publish to an error channel or a dead letter is refused, the error is dropped
  and `onError` is not called. Failures of the subscriber's credential go to
  `onError` only. `FailuresSurface` excepts the refused publish of a subscriber.
- `adapters/nethttp/adapter.go:577`: a pattern response whose body cannot be
  written is followed by the adapter's own error response on the same writer.
  `AnsweredOnce` excepts the case in which the connection
  failed under the pattern's response.
- `api/reqreply/client.go:413-421`: a forward to a route whose response has
  another type gives the caller a zero value and no error, which
  `docs/features/reqreply-forward.md` does not say.
- `adapters/mqtt5/reqreply_transport.go:713`: the clean-up of a call removes
  every handler of its reply topic, so a builder that returns a topic twice
  (`docs/guides/mqtt5.md:369` does not forbid it) lets one call deafen another;
  and the Unsubscribe is sent in the call's own context, which may have ended,
  and then the subscription stays. `forward.go:300` reads `entry.poisoned`
  outside the lock.
- `stream`: `Buffer` and the `CombineLatest` family whose send gives up because
  the context is done go round the loop once more; `GroupBy` and `SplitEither`
  offer an error to each branch without waiting for it, although the comments
  (`stream/route.go:38`, `:599`) say that every active stream, or both branches, get it.
- `adapters/mqtt5/binding.go:193` and `adapters/mqtt/binding.go`: Activate
  returns when the context ends and leaves its handler registered and its
  subscription in place; the port then closes its channels
  (`ports/source_port.go:269-276`), and a later message may pick the send to
  the closed channel and panic. `SendsInTime` excepts the two callbacks. While
  the port lives they drop messages silently when its buffer is full, or, by
  default, when nobody is receiving. mqtt's `token.Wait` ignores the context,
  which `SourceEnds` excepts.
- `adapters/nethttp/binding.go`: the ingest handler stays registered after the
  context ended and answers 200 to requests that go nowhere; `CallSSEAdapter`
  discards `consumeSSE`'s set-up error, as `adapters/zeromq/binding.go` does that
  of `subscribeWithHandle`. `file.ScanAdapter` does not look at `scanner.Err()`,
  and `file.WatchAdapter` reports a file that is removed and created again
  once only.
- `api/file/dispatch.go:427`: when `MarshalTo` fails the writer is closed all
  the same, and Close renames the partial temporary file into place (on S3,
  puts the partial object), while `api/file/backend.go` says of
  `StreamWriteBackend` that a reader must never observe a partial file.
  `NeverPartial` excepts these files (`cut`).
- `api/file/dispatch.go:572`: a conditional patch reads its base without the
  lock and does not compare it with `IfMatch`; only `WriteBytesIfMatch` compares,
  with what is there at the end. If the content was A when the caller took its
  ETag, B when the patch read it, and A again at the end, a patch built on B is
  committed under the ETag of A; with a weak ETag, another content of the same
  time and size does as well. `NoUpdateLost` and `FilesIntactHolds` are about
  strong ETags and contents that do not come back: in `FileRoutes` every call's
  update is its own.
- `adapters/smb/conditional_write.go:54` removes the lock file in the call's
  context. When that has ended the removal fails, which is ignored, and the lock
  of a living process keeps the others out, although `:41` promises only that a
  wait for it ends. `Release` and `Unlocked` may leave the lock behind on every
  backend, since `os.Remove` may fail too.
- `adapters/file/backend.go:299`: `CopyBytes` of a file onto itself empties it
  and returns nil, while the generic read and write keeps it; against "never
  changes its observable result" (`api/file/backend.go:261`). A move onto itself
  on a backend without a native one ends by deleting the file. `MovesKeep` is
  about two different paths.
- Deleting and moving leave the metadata sidecar behind, so that a later
  create without metadata inherits it, and a copy of a file without metadata
  leaves the old sidecar beside the new content. `dispatch.go:1081` says so of moves.
- `adapters/s3/stream.go`: a streamed Strict create does not look whether the
  object exists; on disk the look and the rename are two steps, as
  `adapters/file/stream.go` says. `CreatedOnce` excepts streamed creates. Plain
  writes and copies on a disk are in place, so readers may see a part of them.

## 7. Not modelled, and why

- Codecs, formats, schemas, validation, rendering, `forge`, `config`: pure and
  sequential, with unit tests that say more than a bounded model would. They
  and the API builders (`api/rest/builder.go`, `api/events/builder.go`,
  `api/file/builder.go`, ...) are by far the greater part of the repository's lines:
  declarations put together before anything runs, whose correctness is a matter
  of values and not of order.
- Route and template matching (`internal/router`, `internal/templatematch`):
  string algorithms with no state.
- Adapters that make one external call per operation (`sql`, `redis`, `openai`,
  `mcpgo`, `mcprest`, `templ`), and the examples and test doubles.
- Observers and loggers everywhere: they are told what happened and change
  nothing.
- `LatestPort`, an atomic cell; `reqreply.Future` and `CallAsync`, a goroutine
  around `Call` that fills a write-once cell; the REQ/REP client, one call at a
  time.
- Inside the modelled components: error channels beside value channels where
  the code treats them alike, `SinkPort.Feed` as an alternative to `Start`,
  wiring-time calls such as `Bind` after `Connect`, a panic of user code, decode
  failures, which drop an item before it enters the pipe, general middleware
  around a handler; operators with a Buffer option above zero; more than one
  adapter bound to a source port (`SourcePort.pluginPattern` checks and sets
  under two separate lock sections); connections that drop under a call
  (an UNSUBSCRIBE on a live connection is taken to succeed).
- In `FileRoutes`: directories, lists, `BatchDelete` (deletes one after the
  other), dry runs, permissions, ranges, and the torn write of a sidecar.
- Abstractions to be aware of: an item of `StreamOps` is one of three or four
  classes; the call adapters share one body, as do the drain adapters and the
  publishers; the scanner's raw-line goroutine and `FromCodec` are one step;
  a check of `Dispatch` passes or fails without saying what it computes.

## 8. What could be done next

1. A broker connection that drops and comes back under `RpcCall` and under the
   MQTT source adapters.
2. `BatchDelete` and recursive deletion beside writers, with the walk as a
   sequence of listings.
3. Matching (`internal/router`, `internal/templatematch`, file globs) as
   recursive functions, checked against a reference definition over all short
   inputs.
