# Machine-Gun: specifications of the load generator

Machine-Gun generates fake messages from schemas and publishes them to RabbitMQ
and Kafka: in load tests, in bursts, and in flows (graphs of schemas in which a
message triggers further messages). This directory specifies its backend, the
services of its frontend and its test consumer in TLA+, model-checks the
specifications with TLC and proves theorems about them with TLAPS. File names
below are those of the repository, without the directories above them.

## The system

The backend is one Node.js process, a browser runs one page, the test consumer is
a process of its own. They share the brokers and the events of Socket.IO, nothing
else.

| component | state | operations | who calls it |
|---|---|---|---|
| flow engine (`flow-engine.service.ts`) | `activeFlows`: for each flow id one execution state with node states, `activeTimers`, `activeExecutions` | startFlow, stopFlow, pulse, executeNode, triggerDownstream, scheduleDelayedEdge, maybeFinalizeFlow | the gateway; timers; itself |
| RabbitMQ pool (`rabbit-connection-pool.ts`) | `connections`, each with its slots and `drainPromise`; `ready`, `closing` | initialize, openConnection, writeToPool, armDrain, waitForAnyDrain, close, reconnect, onModuleDestroy | the RabbitMQ publisher; sockets; timers |
| load tests (`generator.service.ts`) | `activeIntervals`, `activeFrequencies`, per test a loop with an accumulator and `inFlightBatches` | startLoadTest, stopLoadTest, tick, runBackgroundGeneration, generateBatch | the gateway; timers |
| RabbitMQ publisher (`rabbit-publisher.service.ts`) | the link, `channelPool`, `assertionCache`, `backpressureActive` | prepareDestination, publish, publishBatch (standard and RPC) | generator and flow engine |
| Kafka publisher (`kafka-publisher.service.ts`) | producer and admin client, `assertionCache` | prepareDestination, publish, publishBatch | generator and flow engine |
| schema store (`discovery.service.ts`, `persistence.service.ts`) | files of schemas and flows; the merged lists | create, update (rename), delete, refresh | the gateway |
| custom data (`custom-data.service.ts`) | two files; the merged lists | save and delete templates and modules | the gateway |
| workers (`generator.worker.ts`, Piscina) | a queue of tasks; the custom modules each thread was given | generate a chunk of records | generateBatch |
| status gateway (`status.gateway.ts`) and `socket.service.ts` | `throttledUpdates`, telemetry; what a browser believes of tests, flows, bursts and nodes | one handler for each event, in both directions | browsers; the streams of the services |
| flow editor (`flow.service.ts`, `flow-canvas.component.ts`) | the open flow, drafts in localStorage, selection and panels | edits, save, discard, delete, reset; six effects of signals | a user; `flows_loaded`; timers |
| test consumer (`apps/test-consumer`) | registered, pending and missing handlers; receipts | registration, retries, health requests, receipts | timers; the broker; HTTP |
| cards, dashboard, live hub | views over the services | buttons | a user |
| other frontend components and utilities | forms of one user | edits of a form | a user |
| health, authentication, configuration, bootstrap | none that changes | checks | - |
| built-in library; `packages/common` | constants, types | - | - |

Handlers, timers and socket events are interleaved at every `await`; between two
awaits the code runs alone. The hard behaviours come from that: state read before
an await and used after it (limits, budgets, caches, lists that are written back),
callbacks of something that was stopped or replaced meanwhile, promises nobody
resolves, loops that never give up the processor, and partial failures (a chunk of
a batch, a connection of a pool, one of two file operations). A browser adds lost
links with events on their way, effects that set each other off, and reloads. What
has to be right of each component:

- **flow engine**: the bookkeeping that decides when a flow is over is exact; a run
  that was ended stays silent; limits hold; a limited flow ends.
- **RabbitMQ pool and batches**: no message skipped, no batch waiting for ever,
  each connection of the pool owned by one connection or one attempt, no live
  connection forgotten.
- **load tests**: the frequencies promised never exceed the global limit, nothing
  runs that cannot be stopped, a test keeps its rate and gets on after failures.
- **publishers**: a target is asserted before it is used, once at a time, and again
  when the first attempt failed; back-pressure is not claimed for ever.
- **schema store, custom data, workers**: what is served, what the files hold and
  what clients were sent agree; a batch uses the modules it was asked with.
- **gateway and browser**: what is shown is what runs; counts add up; a button that
  waits does not wait for ever.
- **flow editor**: unsaved edits are neither replaced nor lost; flows stay well
  formed; effects come to rest.
- **test consumer**: a handler consumes once, as soon as its target exists.

`PROJECT.json` lists every component with what is and is not modelled, every hazard
with its line, and for every definition the lines it translates.

## Modules

| module | models | composed in |
|---|---|---|
| `FlowLifecycle` | what the engine promises of one flow: runs, endings, outstanding work | abstract specification of `FlowEngine` |
| `FlowEngine` | the engine for one flow id, started and stopped any number of times | `MCFlowEngine` |
| `ConnectionPool` | the RabbitMQ pool and the batches published through it | `MCConnectionPool` |
| `LoadTest` | load tests with the gateway's start and stop handlers | `MCLoadTest` |
| `TargetAssertion` | what `prepareDestination` promises of a target | abstract specification of `Publisher` |
| `Publisher` | both publishers: links, assertions, calls, the fallback channels | `MCPublisher` |
| `SchemaStore` | files, cache and events of schemas and flows | `MCStores` |
| `CustomData` | files, cache and events of custom templates and modules | `GeneratorWorkers` |
| `GeneratorWorkers` | batches, chunks and threads over the modules of `CustomData` | `MCStores` |
| `StatusGateway` | tests, flows and bursts as browsers see them, over links that drop | `MCGateway` |
| `LiveUpdates` | counts, samples and telemetry on their way to a browser | `MCGateway` |
| `NodeDisplay` | the statuses of nodes and their timers in a browser | `MCGateway` |
| `TestConsumer` | registration, health, Kafka start and receipts | `MCTestConsumer` |
| `FlowEditor` | the open flow, its difference, its draft, two effects | `FlowCanvas` |
| `FlowCanvas` | the canvas handlers over `FlowEditor`, panels and four effects | `MCFlowCanvas` |

The `MC...` modules give the constants their values. The theorems are in
`FlowEngineProofs`, `FlowLimitsProofs` (limits and lifecycle), `ConnectionPoolProofs`,
`LoadTestProofs`, `PublisherProofs`, `StoresProofs` (schema store, custom data,
workers), `GatewayProofs` (gateway, live updates, node display, test consumer) and
`FlowCanvasProofs` (flow editor and canvas).

All actions are the code between two awaits, and definitions carry the names of the
source where there is one. Definitions named `..._Mutant...` are plausible faults:
each property is tried on at least one of them and must fail.

Some MC modules hold several specifications that share no state (`MCLoadTest`,
`MCStores`, `MCGateway`). Their variable `part` says which of them a behaviour is
about, so that one run checks them all without multiplying their states.

### FlowEngine

`run[r]` is the `FlowExecutionState` the r-th start created. `activeRun` is what
`activeFlows` holds under the flow's id: `maybeFinalizeFlow` and the pulse look the
run up by that id, so they may find a later run than their own, and the model does
the same. A *task* is a timer callback: the pulse loop of a node or one delayed
edge. `phase` says whether its timer is armed or its callback runs, `stack` holds
the nested `executeNode` calls of a running callback, each with the await it is at.

| code | definitions |
|---|---|
| `startFlow`, `createExecutionState`, `resolveNodesToStart` | `StartFlow`, `CreatedRun`, `NodesToStart` |
| `stopFlow` | `StopFlow`, `Cleared` |
| `startNodePulse` (the function `pulse`) | `PulseFires`, `PulseReturns`, `PulseEnds` |
| `hasNodeReachedLimit`, `updateNodeStatus` | `AtLimit`, `WithStatus` |
| `executeNode` | `ExecuteNode` up to the first await, `Generated`, `ExecutionFails`, `Published`, `ExecutionReturns` |
| `triggerDownstream`, `shouldTriggerEdge`, `resolveEdgeDelay` | `TriggerDownstream`, `Plans`, `DownstreamContinues` |
| `scheduleDelayedEdge` | `NewTimers`, `Tracked`, `DelayedFires`, `DelayedReturns` |
| `maybeFinalizeFlow` | `Quiet`, `Completed`, `MaybeFinalize` |

Left out: message contents (bindings, expressions), so a filter, a condition and a
delay choose among the outcomes the constants `Filter` and `Edges` allow; the rate
of a pulse (its timer may fire at any time). Generating and publishing may fail at
any time. `sentCount` is counted only for nodes that have a count, since nothing
else reads it.

### ConnectionPool

`connections` is the array of the pool (0 where it has a hole), `socket` the life
of every connection ever attempted, `channel` a slot with the number of writes
amqplib buffered and whether its `drainPromise` is pending. A batch is the loop of
`handleStandardBatch`: `running` while it has the processor, `waiting` at
`waitForAnyDrain`, `resolved` when that promise is resolved. Since promise
continuations run before any timer or socket event, every event is guarded by
`EventLoopFree`; that is what makes the loop over a dead pool hang the process.
`openConnection` awaits `amqplib.connect` (`connecting`), then the channels
(`opening`: the connection is open and in no slot yet), and stores it (`alive`). When
`createChannel` throws, the catch block arms the reconnect and drops the connection
without closing it: it is `abandoned`, open beside the one that will replace it.

| code | definitions |
|---|---|
| `initialize`, `openConnection` | `Initialize`, `Opening`, `Connected`, `ChannelsCreated`, `OpenReturned`, `Stored` |
| the catch block of `openConnection` | `Caught`, `ConnectFailed`, `CreateChannelFailed`, `AbandonedCloses` |
| `"close"`, the reconnect timer, `onModuleDestroy` | `ConnectionCloses`, `Reconnecting`, `Reconnect`, `ShutDown` |
| `writeToPool` | `Usable`, `Holes`, `WriteMessage`, `FindNoChannel`, `MeetHole` |
| `armDrain`, `waitForAnyDrain` | `Drain`, `DrainTimeout`, `Resolved`, `WaitForAnyDrain`, `Draining` |
| `handleStandardBatch` | `StartBatch`, `Accepted`, `Resume`, `Retried`, `FinishBatch` |
| `isReady`, `isFullySaturated`, `isBackpressured` | the same names |

Of amqplib the model uses what the code relies on: `publish` returns false when
the write fills the buffer, though the message was taken; `drain` is emitted when
the buffer is empty again; writing to a closed channel throws. The two round-robin
cursors are a choice among the channels they rotate over.

### LoadTest

`request` holds the `start_test` handlers at the await of `prepareDestination`,
`active` and `frequency` are `activeIntervals` and `activeFrequencies`, `test[i]`
the i-th `ActiveLoadTestState` with the variables of its loop, `batch[i][k]` its
k-th batch. A chunk that fails rejects `Promise.all` at once and the other chunks
go on. The accumulator counts thousandths of a message, exactly.

| code | definitions |
|---|---|
| `handleStartTest` before and after its await | `RequestStart`, `PrepareFails`, `StartTest`, `Announce` |
| `handleStopTest` | `StopTest` |
| `startLoadTest`, `stopLoadTest`, `calculateRemainingBudget` | `NewTest`, `Stopped`, `Released`, `RemainingBudget` |
| `tick` of `startLoadTestLoop` | `Tick`, `Credited`, `Due`, `Spent`, `Saturated`, `Backlog` |
| `generateBatch`, `runBackgroundGeneration` | `Chunks`, `ChunkPublished`, `ChunkFails`, `Settled` |

### Publisher

`call[c]` is one call of `prepareDestination`, `publish` or `publishBatch`, at the
await it is at; `assertionCache[k]` how far the assertion behind a key is. The two
publishers have the same shape of cache and differ in what an attempt does:
RabbitMQ checks, then asserts; Kafka connects an admin client, then creates the
topic. `draining` and `nextChannelIndex` are the fallback channels, which a new
link replaces. The event loop is treated as in `ConnectionPool`.

| code | definitions |
|---|---|
| `ensureRabbitConnection`, `prepareDestination` and its dispatch | `OffRabbit`, `StartCall`, `Admit`, `Dispatched` |
| `assertRabbitDestination`, `checkResourceExists`, `createAssertionPromise` | `Begun`, `Checked`, `AssertAnswers`, `AssertionFails`, `Forgotten` |
| `ensureKafkaTopic`, the admin client | `AdminConnects`, `TopicCreated` |
| `publish`, `handleRpcBatch`, Kafka's `send` | `RequestAnswered`, `RequestFails` |
| `handleStandardBatch` over `getChannel` | `TryChannel`, `GiveUp`, `Races`, `DrainResolves`, `Resume`, `FinishBatch` |
| "connect", "disconnect", the producer's events | `RabbitConnects`, `RabbitDisconnects`, `RabbitRetries`, `KafkaStarts`, `KafkaLinkChanges` |

`TargetLost` is the broker's: an auto-deleted or expired target is gone although the
cache still says it was asserted.

### SchemaStore, CustomData, GeneratorWorkers

`op[h]` is a socket event at one of its file operations. `writeFile` truncates
before it writes: a crash leaves a torn file, two handlers with the same file open
may leave one too. `refresh` lists a directory, then reads file by file, then
assigns the list; `Merge` puts built-in documents under those of the files. A
document is a version. A crash keeps the files and starts `onModuleInit` again.
A file that cannot be read is logged and skipped (`FileReadFails`), a directory that
cannot be listed counts as empty (`ListFails`), and the refresh goes on. `settled` says
that the last event overlapped no other; it is set by the model, the code has no such
variable, and so are `inStep`, `alone` and, for what a refresh could not read, `missed`
and `unread`.

In `CustomData` each kind is one file, written anew from the next list, which
becomes the list in memory after the write: `SaveItem` is the code up to the write,
`FileTruncated`, `FileWritten` and `FileWriteFails` the write and what follows.

`GeneratorWorkers` takes the custom modules from `CustomData` at the moment
`generateBatch` reads them. `RecordOutcomes` follows `generateRecord` through
objects and arrays, and says of a record whether it fails and which versions of
modules it used: `FieldLists` is a set of lists of fields that contains the list of
every object and array in it, and `Depth` says how deep each is nested, since a schema
is a finite tree. `Registered` is `registerCustomModules`, which a thread never undoes.

### StatusGateway, LiveUpdates, NodeDisplay

`StatusGateway` has both ends of the socket: `outbox` and `inbox` are the events of
one browser on their way, in order, lost with the link (what is emitted while the
link is down is buffered by the client library); `view[c]` are the signals of
`SocketService`. `Told` is what each event makes of them, `Connect` what
`bootstrapClient` sends, `Handle...` are the gateway's handlers, and the buttons are
those of the cards and the canvas with the conditions that disable them. Of the
frequency a card asks for it matters here whether it is 0: such a request, which only
the field for the frequency of a running test sends, registers a test without an event
(`Registers`), and `atZero` are the tests that take nothing of the budget.

`LiveUpdates` follows the counts of published batches through `emitThrottledUpdate`
to the statistics of a browser and through `recordPublished` to the telemetry.
`published` and `log` remember what was reported. `NodeDisplay` is
`handleFlowNodeStatus` with its minimum time and its timers.

### TestConsumer

`loop` is the one `registerRabbitHandlers` that may run, with the handler it is at
and the await it is at; whoever asks for a refresh meanwhile shares its promise
(`refreshing`). `consumers[h]` counts how often the broker was asked to consume.
`TargetChecked` counts every failure of the check as missing, as `checkTargetExists`
does.

### FlowEditor and FlowCanvas

Signals and effects are modelled as Angular runs them: a signal that is set makes
the effects due that read it, and a flush runs the effects that are due in the order
they were created until none is. `FlowEditor` has the two effects of `FlowService`
(`OpenEffect`, `StoreEffect`), `FlowCanvas` the four of the canvas (`PanelEffect`).
Clicks, messages and timers come between flushes. `NodeDiff` and `EdgeDiff` are
`calculateNodeDiff` and `calculateEdgeDiff`; a flow's nodes and edges are functions
from ids to what the difference compares. `released` and `before` are the model's:
the flow the user saved or discarded last, and what was open and unsaved at a reload.

## Runs

| run | configuration | instance | what it checks |
|---|---|---|---|
| `flow_join` | `FlowJoin.cfg` | 4 nodes, two entry nodes (counts 2 and 1) meeting in a third; a possibly delayed and a conditional edge; a node limited in time; 1 run | `ExecutionsCounted`, `FinalisedQuiet`, `LimitsKept`, `EntryNodesEndOnce`, `RunsEnd`, `StoppedRunDrains` |
| `flow_restart` | `FlowRestart.cfg` | 2 nodes, one edge immediate or delayed, 2 runs | `HandlesTracked`, refinement `LifecycleSpec` |
| `pool` | `Pool.cfg` | 2 connections of one channel, 2 batches of 2 messages, one connection that fails to connect, to create its channels or that closes, one channel lost, shutdown | `NothingSkipped`, `WaitersWillWake`, `OneOwnerPerIndex`, `LiveConnectionsHeld`, `BatchesEnd`, `ReconnectsFire` |
| `load` | `Load.cfg` | 2 schemas, 3 tests at frequencies 0, 30 and 70 of a limit of 70, 2 overlapping handlers; or 1 schema, 2 tests of 2 batches with late ticks and chunks that fail | `BudgetKept`, `OneRunning`, `AnnouncedIsActive`, `RateRespected`, `InFlightBounded`, `SaturationEnds` |
| `publisher` | `Publisher.cfg` | 2 calls, 4 destinations (asserted queue, RPC, topic, untyped), one new link, one loss | refinement `AssertionSpec`, `BackpressureHeld`, `BatchesEnd` |
| `stores` | `Stores.cfg` | 2 handlers, a built-in and another document, 2 events and 1 fault; 3 saves and 1 fault; 2 batches of no records or of 2 chunks, of 2 nested schemas, on 2 threads while a module is saved | `SettledIsFresh`, `BuiltInsServed`, `InStepAgrees`, `BatchAsAsked` |
| `gateway` | `Gateway.cfg` | 2 browsers, 3 requests, 1 lost link; 2 batches over 5 ticks with 1 reset; 5 statuses of 2 nodes | `SteadyViewAgrees`, `CountsAddUp`, `ThroughputWithinWindow`, `NodeShowsLast`, `PendingEnds` |
| `test_consumer` | `TestConsumer.cfg` | 2 handlers and a topic, 1 health request, 3 messages, 2 faults | `RegisteredOnce`, `ReceiptsAddUp`, `RefreshesServe` |
| `flow_editor` | `FlowCanvas.cfg` | a built-in flow of two joined nodes and one the user may create, 2 clicks, 1 change of another client, 1 reload | `ReloadRestores`, `PanelsExclusive`, `FlowsWellFormed`, `EditsKept`, `EffectsSettle` |
| `pool_spins` | `PoolSpinViolated.cfg` | 1 batch, 2 lost connections | `ReconnectsFire` is violated: the retry loop starves the reconnect timer |
| `gateway_start_stuck` | `GatewayStartViolated.cfg` | 1 browser, 3 requests | `StartEnds` is violated: a start the budget refuses leaves the button waiting |
| `flow_editor_selection` | `FlowSelectionViolated.cfg` | `flow_editor` without other clients and reloads | `SelectedNodeExists` is violated: the configuration of a node that is gone stays open |

### Bounds

- *Flows.* Two runs are enough for everything one execution state can do to its
  successor: they are linked through `activeFlows` only, which holds one run. Two
  entry nodes with a common target are the smallest flow with concurrent executions
  of a node, and a node behind it adds nested calls. A delayed edge has one pending
  timer at a time (`MaxPending`); the theorems hold for any number.
- *Pool.* Two connections of one channel are the smallest pool in which one can fail
  while another serves; `HighWater` 2 lets a write be accepted and the next one fill
  the buffer. One lost connection is the bound under which the liveness properties
  hold; two are `pool_spins`.
- *Load tests.* Three tests let one schema be started twice beside the other; of a
  limit of 70, asking for 30 or 70 makes a start fit, be clamped to 40 or get nothing.
  The loop's times cover ticks on time and late ones, beyond the backlog cap; a batch
  has up to two chunks.
- *Publisher.* Two calls can share an assertion, meet in the fallback channels and
  wait for the same drain; two channels let one be full while the other takes a write;
  one reconnection replaces the channels under a waiting batch.
- *Stores.* Two handlers overlap in every way two can; a third only adds another
  writer of the same kind. One fault may hit any operation, the listing of a directory
  or the reading of one file, or be a crash; the other event refreshes after it. Three
  saves let two overlap and a third one put things right. Three records make a whole
  chunk and a rest, none make no chunk at all; two batches on two threads let a thread
  serve both.
- *Gateway.* Two browsers see each other's actions; one lost link and three requests
  let a start, its restart or stop and another browser's request meet, with one
  reconnection in between. A window of two buckets, five ticks and two batches put
  the batches in one bucket, in two, and in and out of the window.
- *Test consumer.* Two handlers are enough for a loop to be at one while the other
  waits; two faults let a registration throw while the link or a target is lost.
- *Flow editor.* Two clicks, one remote change and a reload in every order, with all
  effects between them; most pairs of operations that could disturb each other are of
  this size.

Deadlock is not checked: every model can stop for good, at its bounds or because
everything is over.

### Fairness

- `FlowEngine!FairSpec`: timers fire, workers and brokers answer, time passes; nobody
  need start or stop a flow.
- `ConnectionPool!FairSpec`: loops run, timers fire when the event loop gets to them
  (weak fairness: a loop that never gives up the processor disables them), attempts
  to connect end, and the broker takes what was written whatever the process does
  meanwhile (strong fairness). A process that shuts down need not reconnect or end
  its batches: with every connection gone it spins as in `pool_spins`.
- `LoadTest!Fairness`: only that chunks end; ticks and requests are not needed.
- `Publisher!FairSpec`: loops run on and a drain's event or its 2000 ms timer comes;
  brokers need not answer.
- `StatusGateway!GatewayFairness`: an open link delivers, handlers go on, a browser
  reconnects and the status interval fires.
- `TestConsumer!Fairness`: awaits settle, the interval fires, and the link comes back.
- `FlowCanvas!CanvasFairness`: Angular runs effects that are due; users, the server
  and timers need do nothing.

## Findings and disagreements

Three runs find a violation of something the repository says; `PROJECT.json` quotes
it. The models show more places of that kind. Some have a definition that no run
checks: add it to the configuration named here to see the counterexample.

| definition | add it to | what happens |
|---|---|---|
| `CountRespected` | `FlowJoin.cfg` | a node with two parents passes its limit check twice before either call counts, and sends more than its count (`flow-engine.service.ts:225`) |
| `StopEndsPulses` | `FlowRestart.cfg` | the pulse of a stopped run finds the next run under the flow's id and goes on beside it (`:182`) |
| `WrittenOnce` | `Pool.cfg` | the write that fills a buffer returns false and its message is written again after the drain (`rabbit-connection-pool.ts:109`) |
| `ConnectionsAsConfigured` | `Pool.cfg` | `createChannel` throws after `connect` succeeded; the catch block opens another connection for the index and never closes the first (`rabbit-connection-pool.ts:214`, `:239`), so more are open than "Number of separate TCP connections to RabbitMQ" (`:30`) |
| `AnnouncedExactly` | `Load.cfg` | a test of frequency 0 is registered without `test_started` (`status.gateway.ts:114`) |
| `SettledIsComplete` | `Stores.cfg` | a refresh that cannot read a file leaves its document out, and its event reports success (`persistence.service.ts:139`) |
| `OneBatchPerTest` | `Load.cfg` | after a failed chunk the next batch is queued while others of the last one still work |
| `SentWasWritten` | `Publisher.cfg` | a message for which every fallback channel was draining is skipped and reported as sent (`rabbit-publisher.service.ts:490`) |
| `SuppressedNotSent` | `Gateway.cfg` | a throttled update carries the samples of an earlier window (`status.gateway.ts:438`) |

Others follow from reading the models:

- *Flow engine.* A duration of 0 ends a node at its first pulse, while the form says
  0 is infinite (`flow-canvas.component.html:758`). A call in flight during
  `stopFlow` arms delayed edges of the stopped run, which publish later
  (`TimersTracked` and `StoppedRunDrains` say what does hold). In a flow without entry
  nodes a failure drops the handle of an armed pulse timer, the flow is reported
  complete and the timer publishes once more: `PulsesTracked` and `FinalisedQuiet`
  hold for flows with an entry node. A node whose filter is never true never reaches
  its count; a flow without nodes is never finalised; immediate edges in a cycle
  recurse as long as limits and conditions allow.
- *Pool.* With one dead connection `isFullySaturated` is false while nothing can be
  published. A second `initialize` during the first one opens every connection twice
  (`OneOwnerPerIndex` is checked for one call). While the first connection could
  not be opened, `writeToPool` throws at the hole of the array although another is
  available (`MeetHole`). An attempt in flight at `onModuleDestroy` is stored
  afterwards and never closed; nor does `onModuleDestroy` close an abandoned connection,
  which no slot holds.
- *Publishers.* After the broker lost a target the cache still lets publishes through
  (`TargetLost`). `backpressureActive` goes down while a batch still waits: when the link
  comes back (`rabbit-publisher.service.ts:179`), and when the first of two waiting
  batches goes on (`:549`). `BackpressureHeld` says the other direction only: it is never
  up without a batch that waits.
- *Load tests.* A frequency of 0, which the schema card sends when 0 is typed while a
  test runs (`schema-card.component.ts:196-206`), registers a test that is announced to
  nobody (`generator.service.ts:232`, `status.gateway.ts:114`): with a `stop_test` handled
  while the handler waits for the broker, a test is active that clients believe stopped;
  and when another test takes the budget it gave back, a refused restart leaves clients
  with a test that is over (`AnnouncedExactly`). A negative frequency, which no client of
  the repository sends, would pass `Math.min`, be announced and enlarge the budget of the
  others; the model's frequencies are natural numbers.
- *Stores.* A file that cannot be read is skipped and the event reports success
  (`persistence.service.ts:139`): until the next refresh its document is not served, or a
  built-in one as the code has it (`SettledIsComplete`). A rename onto an id that
  exists overwrites it silently (`discovery.service.ts:73`). One torn templates file keeps modules and built-in
  items from being served too (`custom-data.service.ts:35-47`). A module that was
  deleted lives on in the threads that were given it.
- *Gateway and browsers.* Of two overlapping bursts of a schema the end of the first
  hides both. After a reconnection a browser shows no flow as running until the next
  event, so "Run Flow" starts a running flow again (`SteadyViewAgrees` is about browsers that
  kept their link). The whole batch is counted as sent though items of it failed
  (`status.gateway.ts:262-273`).
- *Flow editor.* Opening another flow and coming back destroys the draft
  (`flow-canvas.component.ts:345`). A list that arrives within the 500 ms of a reset
  leaves the canvas empty. The panels of a node and of an edge can be open at once.
  Asking to delete with no open flow reads a property of null. A flow the server has
  deleted is shown as unsaved.
- *Test consumer.* A handler whose first registration throws is neither pending nor
  missing, so the retry timer passes it over until the next connect or health request
  (`rabbit-consumers.service.ts:212`); `MissingGetReady` is about those that are
  missing.

## Proofs

Every safety invariant, action property and refinement that the passing runs check is
also a theorem: the runs show it on a small instance, the theorem for all values of
the constants that satisfy the named assumptions of its module.

| module | theorem | statement |
|---|---|---|
| `FlowEngineProofs` | `Invariance`, `TypeCorrect` | `Spec => []IInv`, `Spec => []TypeOK` |
| | `ExecutionsAreCounted` | `activeExecutions` is the number of calls that have not returned |
| | `TimersAreTracked` | `activeTimers` is exactly the armed and running delayed edges of a run not stopped |
| | `PulsesAreTracked`, `HandlesAreTracked` | in a flow with an entry node, everything armed has its handle |
| | `FinalisedIsQuiet` | in a flow with an entry node, a run `maybeFinalizeFlow` ended has no call and no timer left |
| `FlowLimitsProofs` | `LimitsAreKept` | in a flow with an entry node, `LimitsKept` |
| | `EntryNodesAreDone` | an entry node that reached a limit or failed never executes again |
| | `ImplementsLifecycle` | in a flow with an entry node, the engine implements `FlowLifecycle` |
| `ConnectionPoolProofs` | `PoolTypes` | `Spec => []TypeOK` |
| | `PoolSkipsNothing`, `PoolWakesWaiters` | `NothingSkipped`, `WaitersWillWake` |
| | `PoolOneOwner`, `PoolHoldsLiveConnections` | if `MaxInits = 1`, `OneOwnerPerIndex` and `LiveConnectionsHeld` |
| `LoadTestProofs` | `LoadInvariant` | `Spec => []LoadInv`, which contains `TypeOK` |
| | `LoadBudgetKept`, `LoadOneRunning`, `LoadAnnounced` | `BudgetKept`, `OneRunning`, `AnnouncedIsActive`, for any number of schemas |
| | `LoadRateRespected`, `LoadInFlightBounded` | `RateRespected`, `InFlightBounded` |
| `PublisherProofs` | `PublisherTypes`, `BackpressureIsHeld` | `TypeOK`, `BackpressureHeld` |
| | `ImplementsTargetAssertion` | the publishers implement `TargetAssertion` |
| `StoresProofs` | `SettledStoreIsFresh`, `BuiltInsAlwaysServed` | `TypeOK` and `SettledIsFresh`, `BuiltInsServed` |
| | `CustomDataInStep` | `CustomTypeOK` and `InStepAgrees` |
| | `BatchesAreAsAsked` | `BatchAsAsked`, for schemas of any depth and any number of threads |
| `GatewayProofs` | `SteadyViewsAgree` | `SteadyViewAgrees`, for any number of browsers |
| | `ThroughputIsOfTheWindow` | `ThroughputWithinWindow`, for every size of buckets and window |
| | `CountsAreComplete` | `CountsAddUp` |
| | `NodesShowTheLast` | `NodeShowsLast` |
| | `HandlersConsumeOnce`, `ReceiptsTellTheStory` | `RegisteredOnce`, `ReceiptsAddUp` |
| `FlowCanvasProofs` | `OnePanelIsOpen` | `PanelsExclusive` |
| | `EditsAreKept`, `UnsavedChangesSurvive` | `EditsKept`, `ReloadRestores` |
| | `FlowsStayWellFormed` | `FlowsWellFormed` |

The assumptions are the shape of what the code is given, never its size: flows, pools
and destinations as their types and forms allow; documents, versions and the markers of
torn and absent files are different things (`StoreAssumption`); a schema is a finite
tree of fields (`WorkersAssumption`); buckets, window and history are not empty
(`LiveUpdatesAssumption`); the flows the code comes with are well formed and their edges
are numbered (`CanvasAssumption`). Theorems about flows with an entry node leave out
those without, for which the statements are false (see above), and the two about
connections leave out a second `initialize`.

Few of these properties are inductive alone.

**Flow engine.** `IInv` is the conjunction of the types and of: the active run is the
one that is running (`ActiveRunning`); a run that has not started has no timers
(`NewIdle`); stacks are empty exactly for tasks that are not running and never deeper
than the bound their calls are indexed by (`CallsRunning`, `DepthBounded`,
`CallsFinite`), without which nothing could be counted (`ExecutionsCounted`); a pulse
of an unfinished node keeps `pulseEnabled` (`LiveTracked`), handles of delayed edges
are kept (`TimersTracked`); in a flow with an entry node only entry nodes pulse and
only their own pulse executes them and drops their handles (`EntryCalls`,
`EntryPulses`, `OnlyEntryPulses`); and a finalised run is quiet (`FinalisedQuiet`).
Each action preserves each part, with lemmas for the steps that actions share
(`ExecuteNode`, `TriggerDownstream`, `MaybeFinalize`, returning from a call), so that
nested calls are treated once.

**Limits.** `LimitInv` adds what a count owes to its pulse: an entry node kept to its
count and is completed for a reason (`Sound`), one that may send another message has
not reached its limit (`Free`), and only the call on top of a stack generates or
publishes (`AtTop`, `OnlyTopWorks`), so that the limit checked before the await still
holds after it. A node with two parents has no such invariant, and does overshoot.

**Lifecycle.** A step of the engine is a step of `FlowLifecycle` under
`busy = {r : Busy(r)}`. Most steps leave the abstract variables alone or drain a run:
`NoNewWork` says that work is never created but by a start, and `FinalisedQuiet` that
a run ends with its last work.

**Pool.** Skipping and waking are inductive with the types. The other two rest on
`OwnerInv`: sockets are used in the order of their numbers, so that the one a timer
opens is new (`UsedInOrder`); no index has two live sockets, those being opened
included, or a live socket and a timer (`OneOwner`); and after `initialize`, until the
process shuts down, each has one of them (`NoneGivenUp`). Otherwise storing a connection
could overwrite one that is alive, and closing one could start a second timer. An
abandoned connection is not live in this sense; nothing is proved of it.

**Load tests.** `LoadInv` adds that an active test was started for its schema
(`ActiveHasTest`) and is the last one of it (`InOrder`, `ActiveIsLast`): a start that
finds no budget announces nothing, which is right because then no test of the schema was
running, or one of frequency 0 was. It adds that batches not
queued yet are settled (`Unqueued`) and that what a test queued and the credit it has
left are covered by its rate and time (`CreditCovered`). The total of the frequencies
is a fold over the schemas; that it exists, is a natural number and moves by the
difference when one frequency changes (`SumsExist`, `SumsNat`, `SumsUpdate`) is an
induction over the subsets of a finite set, with the good subsets as a set
(`SubsetsReached`) instead of a predicate.

**Publisher.** `PubInv` says of each call what it must remember at its await
(`CallsKnowTheirs`), that the cache never holds a promise that was rejected
(`NoRejectedPromise`) and that the flag is up only while a batch waits. Each step is
then a step of `TargetAssertion` or leaves it alone: `Begun` with `StartCall` is `Ask`,
the answers are `Succeed`, `AssertionFails` with `Forgotten` is `Fail`.

**Schema store.** What is said of an event that overlapped no other holds for its
whole way: who works alone is the only one at work, and nobody is once something is
settled (`WorksAlone`, `SettledIdle`); what it has read so far is what the files hold, but
for those it has not come to or could not read (`ReadsFiles`), and by the time it reads
the flows the schemas it loaded are those of the files, but for those it could not read
(`SchemasFresh`). So an error of an earlier event, or an earlier refresh, leaves no trace
in what is served; one during the last event's own refresh does, until the next. The
built-in documents are served from the end of the start on (`BootServes`), whatever a
later refresh found.

**Custom data.** Who saves alone has no other beside it and none that ended while it
wrote (`AloneWithFile`), and nobody saves a kind that is in step (`InStepIdle`).

**Workers.** `WorkerInv` says that a chunk is in one place, the queue or a thread
(`InOnePlace`); that a batch waits for exactly the chunks that are somewhere, and that
what it got is what the others were asked for (`ChunksCounted`), so that the last one
completes it; and that the modules a batch used are its own (`UsesItsModules`). A
record uses only modules its thread has, in the version the thread has
(`RecordsHarmless`, an induction over `Depth`), and those of its task were registered
first.

**Gateway.** Of a browser that kept its link, the last event on its way that tells of a
flow tells the truth, and if none does, what it shows is true (`LastIsTrue`); the end of
a burst that is over is behind its start (`EndComes`). Handlers append what is true then,
deliveries take the first event.

**Live updates.** The throughput does not follow from itself: `ThroughputInv` says that
for every cutoff of the window, not only the present one, the buckets count what the log
counts when each batch is put in its bucket; a tick moves the cutoff and dropping old
buckets changes no such count. `CountsInv` adds the types to the sum that is checked.
Both rest on lemmas about sums over sequences: what appending an entry, merging one into
the last and dropping the first adds (`CountAppended`, `CountMerged`, `CountShifted`,
`SumNext`, `SumShift`).

**Node display.** A minimum runs only for a node that shows executing
(`MinimumOfExecuting`). **Test consumer.** One loop runs while its promise is shared,
the handler it is at has no consumer yet (`LoopShared`), and what is pending is what it
is at (`PendingIsAt`); the registry's invariant relates counters and list to the
sequence of messages.

**Flow editor.** Two panels are open together only while an effect is due that closes
one (`PanelsInv`). `FlowsInv` says that all flows, whether open, drafted, served or on
their way, agree on the ends of an edge (`FlowsFit`), and that an edge is drawn from a
node of the open flow (`DrawnFromNode`). Since `calculateEdgeDiff` compares the settings
of edges and not their ends, only that agreement makes a flow without differences the
same flow (`NoDifferenceIsSame`), which the effect may replace by the server's. Changes
the second effect has seen are the draft of the flow that opens next (`DraftKept`), and
after a reload that draft opens or is open (`BeforeKept`).

Inductions over the natural numbers, over subsets and over nested fields are done
without an induction theorem, since those take an operator: the set of counterexamples
would have a smallest member, which has none below it.

Model-checked only is liveness (`RunsEnd`, `StoppedRunDrains`, `BatchesEnd`,
`ReconnectsFire`, `SaturationEnds`, `PendingEnds`, `RefreshesServe`, `EffectsSettle`):
fairness and ENABLED are out of the prover's reach.

## Plan

Done, in this order: the flow engine with its lifecycle and limits; the pool; load
tests; the publishers and their assertions; the stores and the workers; the gateway
with live updates and node statuses; the test consumer; the flow editor; theorems for
every safety property, action property and refinement the runs check.

Left, in this order:

1. A refinement of one abstract register of documents by `SchemaStore` and
   `CustomData`.
2. `Publisher` composed with `ConnectionPool`, so that a batch falls back to the
   channels when the pool is lost between two of its messages.
3. The schema builder and the forms of the frontend.

## Not modelled

- *Generated values and their formats, and the contents of messages.* No property is
  about them; where they decide a branch (filters, conditions, delays, fields that
  fail) the model has the outcomes.
- *The forms and views of the frontend* (schema builder, field rows, date picker,
  dialogs, live hub layout): one user edits one form, nothing else depends on it, and
  what is sent in the end is an event of `StatusGateway`, `SchemaStore` or
  `CustomData`. Of the canvas: pan, zoom, searches, the help page, paths of edges.
- *Start-up, configuration, health checks and authentication*, which keep no state.
- *The built-in library and `packages/common`*: constants, types, two pure helpers.
- *The client libraries* (amqplib, amqp-connection-manager, kafkajs, Socket.IO,
  Piscina, Angular) beyond what the code relies on; that part is in the actions named
  above and marked external in `PROJECT.json` where it has a definition of its own.
