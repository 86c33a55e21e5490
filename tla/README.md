# A verification development of the order example

The repository is an example system of four services built on a stream-processing
framework, `servicelib`. The framework itself is not in the repository; what is here
is the wiring of the streams (generated) and the functions and endpoint handlers
(written by hand). This directory holds TLA+ models of that code, TLC
configurations that check them on small instances, and proofs for all instances.

## 1. Inventory

| Part | State | Operations | Interacts with |
| --- | --- | --- | --- |
| **orderservice, order pipeline** (`orderservice/internal/functions`, `internal/app/streams.generated.cpp`) | `SharedState` per request: order, results, `responseSent`, stop source, under a mutex; the HTTP response | `beginRequest`, `consumeMessage`, result callback, `endRequest` of `ProcessOrderSource`; `consumeMessage`, `handleResponse`, `endRequest` of `ProcessOrderItemSink`; the map functions; the soft deadline; `OrderProcessedEndpointSink` | calls inventoryservice by gRPC for each line; sends events to Kafka |
| **inventoryservice, reservation** (`inventoryservice/internal/functions`) | one relaxed atomic per SKU | `ProcessOrderItemSource`, `GetInventoryItemData`, `GetInventoryItemError` | answers orderservice |
| **analyticsservice, event counting** | two atomic counters | `OrderProcessedEndpointSource`, `CountOrderProcessed` | reads orderservice's events from Kafka |
| **analyticsservice, joins, cycle, sub-stream** | join tables with a TTL, the loop edge of the cycle, the sub-stream handle | key functions, join functions, `RouteAnalyticsResult`, advance/continue/complete of the cycle, `InvokeAnalyticsSubstream` | fed by function sources of the same process, which produce fixed inputs and check what comes out; the cron stream has no consumer |
| **lifecycle of the C++ services** (`internal/app/service.generated.cpp`, `functions.generated.cpp`, `servers.generated.cpp`, `cmd/service/main.cpp`) | shutdown task, runtime, servers, exit code | start, stop, waitStopped, signals, the shutdown watchdog, concurrent makers | process, framework runtime |
| **automationservice** (Go; `internal/app/service.generated.go`, `functions.generated.go`, `clients.generated.go`, `temporal_workflows.generated.go`) | the channel `stop`, the group of makers, the runtime, the deadline of `StopService`; for each workflow task a graph of its own | `Start`, `initFunctions`, signals, `StopService`, `close`; `executeTemporalWorkflowEndpoint` | process, Go runtime of the framework, Temporal |
| model and API types | none | JSON and protobuf conversions | all |
| **configuration of the C++ services** (`config.generated.hpp`) | defaults, YAML file, environment; the published snapshot | `MakeConfig`, `ApplyConfig`, `ApplyEnvironment`, the loader | every part reads it; the loader publishes it anew |
| **gRPC server of inventoryservice** (`grpc_service.generated.cpp`, `main.cpp`) | listening, its handlers, calls that wait | `registerServices`, `BuildAndStart`, `registerHandlers`, `Shutdown` | orderservice; the lifecycle |
| scripts, deployment | none shared | | |

Hard behaviour, and what makes each part correct:

* **Order pipeline.** The results of an order's lines arrive in parallel threads and
  race with the soft deadline, with failures of the request and with the end of the
  request. Correct means: each request is answered once; a complete answer is
  exactly the results of the submitted lines; the deadline answers only for an
  incomplete set; nothing is lost while an order waits; every accepted order is
  answered although inventory may stay silent; and what is pending after the
  request drains.
* **Reservation.** Threads decide on values that may be stale. Correct means: no
  overdraw, no reservation lost or repeated, no wrong refusal, termination of the
  loop; in one word, linearizable.
* **Event counting.** Delivery is at least once and the counters are volatile.
  Correct means a count that relates to the events sent.
* **Joins, cycle, sub-stream.** Arrival order and TTL; termination of the cycle; the
  handle is bound before it is used.
* **Lifecycle.** Stop races with start, with a second stop and with the watchdog; one
  of several concurrent makers fails. Correct means one shutdown, no component used
  after it was released, and a process that ends.
* **Configuration.** It is loaded again every few seconds while the service runs on what it was
  started with. Correct means that work always finds a configuration, that an accepted edition is
  published, that what is used was checked, and that services generated apart agree.
* **automationservice.** Signals arrive while the service still starts; makers run at once and
  one of them fails; a stop has one deadline for three phases; workflows are replayed and run
  into the stop. Correct means that no early signal is lost, that a start is whole or fails with its
  cause, that each replay builds the same graph or fails alike, and that the clients are last.
* **gRPC server.** It listens before the service exists and is closed before it stops;
  correct means that no call meets a service that is not started.

`PROJECT.json` lists every hazard at its line, with the properties that cover it or
the reason why none does.

## 2. Modules

| Module | What it is |
| --- | --- |
| `OrderProcessing` | the order pipeline of orderservice: handlers, graph, threads |
| `OrderAnswer` | what the pipeline promises a client, without threads or streams |
| `OrderProcessing_proofs` | its inductive invariant, seven theorems and the refinement of `OrderAnswer` |
| `MCOrderProcessing` | an instance for TLC |
| `OrderSystem` | orderservice and inventoryservice together, over calls that get lost, with restarts |
| `OrderSystem_proofs` | that it implements the pipeline and its promise, and the volatile ledger; three invariants across the two services |
| `InventoryReservation` | the reservation in inventoryservice, with relaxed atomics |
| `InventoryLedger` | what it promises: atomic reservations |
| `VolatileLedger` | what inventoryservice promises over restarts: a ledger whose table is filled again |
| `InventoryReservation_proofs` | its inductive invariant, four theorems and the refinement of `InventoryLedger` |
| `MCInventoryReservation` | instances for TLC |
| `MakerInit` | concurrent construction of functions, servers and clients |
| `ServiceLifecycle` | start and stop of a C++ service: main, shutdown task, loader, watchdog |
| `MakerInit_proofs` | its inductive invariant and four theorems |
| `ServiceProcess` | a `ServiceLifecycle` with the configuration it runs on and its gRPC server |
| `ServiceConfiguration` | the configurations of the three C++ services: fields, variables, identifiers, conversions |
| `ServiceProcess_proofs` | seven theorems of the lifecycle; that a process is a lifecycle; two invariants of the process |
| `EventDelivery` | the events: Kafka sink, partition, source, counters; what analyticsservice promises of them |
| `StreamGraph` | the graphs of the three services, as configured and as built |
| `AnalyticsService` | analyticsservice: start, stop, crash, joins, cycle, sub-stream, and its Kafka handler |
| `EventDelivery_proofs` | what is proved of the delivery |
| `AnalyticsService_proofs` | that the service implements the delivery, and that its example streams never fail and bring each result once |
| `AutomationService` | the Go service: start with its makers, signals, stop, exit, and its workflow tasks |
| `AutomationService_proofs` | its inductive invariant and six theorems |
| `MCAutomationService`, `MCOrderSystem`, `MCMakerInit`, `MCServiceLifecycle`, `MCServiceProcess`, `MCAnalyticsService` | instances for TLC |

`OrderSystem` composes `OrderProcessing` and `InventoryReservation` by `INSTANCE`;
`VolatileLedger` extends `InventoryLedger`;
`AnalyticsService` extends `StreamGraph` and instantiates `EventDelivery`;
`ServiceProcess` extends `ServiceLifecycle` and `ServiceConfiguration`, which extends
`StreamGraph`.

Operators marked `(defect)` stand beside the definition they spoil. They are no part
of any specification; each is a plausible bug of the code, and replacing the
definition by it makes TLC find the property named in `PROJECT.json` violated.

### OrderProcessing

| Variable | Code |
| --- | --- |
| `request` | how far the framework has taken the request: `beginRequest` (`idle` to `begun` or `failed`), `consumeMessage` (`dispatching`, then `awaiting` when `collect` returns), `endRequest` (`ended`) |
| `order`, `results`, `responseSent`, `cancel` | the fields of `SharedState`; `expectedItems` is the cardinality of `order` |
| `call` | the gRPC call of each line |
| `timer` | the delay of `softDeadline` |
| `published`, `merged`, `entered` | where an order state is: its event sent; on its way from `splitOrderResult` to the callback; waiting for the mutex in the callback |
| `callback` | whether the result callback is registered |
| `response` | `data.response` and `data.responseBody` |

`BeginRequest`, `RejectRequest`, `ConsumeMessage`, `SendItem`, `ArmSoftDeadline`,
`FailSoftDeadline` and `EndRequest` are the steps of the request's thread.
`CompleteCall` is `handleResponse` or `endRequest` of the sink with everything they
call up to the event; `FireSoftDeadline` is the delay with the same continuation;
`RouteResult` is the second branch of `splitOrderResult`. The callback holds the
mutex from its first line to its last, so each of its four exits is one action:
`IgnoreLateResult`, `CollectResult`, `AnswerComplete`, `AnswerTimedOut`.

Two abstractions. A line is a position in the order, so two lines with the same
`item_id` are two lines, as in the code, which only counts them. An amount is
represented by the set of lines it is the sum of; floating point is left out.

Assumed of `servicelib`, because its code is not here: the three calls of a request
come in order; a unary gRPC call completes exactly once, with a response or with an
error; a callback that returned `true`, or whose request ended, is not looked up any
more, and it is looked up in the request the result belongs to; `endRequest` does
not overlap a callback already entered for the same request (it reads and may write the
response without the mutex, `process_order_source.hpp:184`, so this is where that would matter,
and nothing here checks it). The links of this graph
are function calls (`config.generated.hpp`), so a split calls its branches in order.
The error stream of `processOrderItem`, third input of `mergeResults`
(`streams.generated.cpp:73`), has no producer among the handlers.

### InventoryReservation

`stock` is the table of atomics and `past` every value each has had. `Load` and
`Retry` choose any of those values no more recent than what the thread has already
seen, which is all that relaxed order allows a single atomic; a successful exchange
(`Reserve`) acts on the latest value. `Retry` without a change of the value is the
spurious failure of `compare_exchange_weak`. Since stock only decreases,
a reload that goes back in time would have to be larger: `v <= available`.
Quantities are positive because `beginRequest` of orderservice rejects others;
`OrderSystem` does not assume it but models the check.

### OrderSystem

The variables are those of both modules, `quantity` (what the client wrote in each line)
and `restarts`. A call is named by its order and line. orderservice sends it with
`SendItem`; `ReceiveCall` is its arrival, at any time after that, also when orderservice
has given up. `HandleResponse` takes a reply that exists, `HandleError` stands for a lost
request, a lost reply, the deadline of the call and its cancellation, which the sink
cannot tell apart. `RestartInventory` makes a new `State` with the full table and drops
the calls being handled. `AcceptOrder` checks the quantities, `RejectOrder` answers 400.

Assumed: a call is delivered at most once (gRPC does not repeat a call that may have
been handled; nothing in the code repeats one either).

### MakerInit

| Variable | Code |
| --- | --- |
| `part` | what is built: the functions (`initFunctions`) or the infrastructure (`initInfrastructure`) |
| `configured`, `router` | the makers that are set; the HTTP router and its maker |
| `init` | how far the thread of `initFunctions` or `initInfrastructure` is |
| `task`, `function`, `cause` | the coroutine of each maker, what it makes, the reason it threw |
| `stop`, `firstError` | the locals `maker_cancellation` and `first_maker_error` the coroutines point at |

`RequestStop` and `Record` are two steps, as in the handler of the coroutine. Launches come in any
order among makers that are checked together; these are alike, so that is a renaming.

The two functions join with the same code but get there differently. `initFunctions` checks every
maker (`CheckMakers`), then launches all. `initInfrastructure` checks router and server, awaits the
router alone (`AwaitRouter`), launches the server, and only then checks the maker of a client
(`Clients`) before it launches it. If that maker is missing it throws (`RefuseClient`) with the coroutine
of the server running on locals that are gone (`servers.generated.cpp:62-64`). `initMakers` sets all
makers, so a custom init would have to clear one. `NoTaskOutlivesInit` states this as the one
exception; what the abandoned coroutine then does with the destroyed locals, or while `stopRuntime` runs
beside it, is undefined and not modelled: it may end only before it reaches them.

### ServiceLifecycle

| Variable | Code |
| --- | --- |
| `main` | where `main()` is: in `start()`, in its handler (`aborting`), waiting for signals (`serving`), in the handler of `main` (`failed`), in the stages of `shutdown_runtime`, destroying the host |
| `stage`, `lifecycleStarted`, `accepting` | how far `start()` has come; `lifecycle_started_`; whether endpoints admit work |
| `task` | the shutdown task, with `stopSynchronously` (`stopping`) and `waitForShutdown` (`draining`) |
| `loader`, `registry` | the loader thread; what `RuntimeConfigRegistry` holds |
| `watchdog`, `exitCode` | the exit code latched by the first `begin_shutdown`; the one of the process |
| `failure` | the exception the handler of `main` rethrows |

`work` says whether a worker is busy with admitted work; it may stay so for ever.
`Bounded` says whether `shutdownTimeout` is positive, which bounds `stop()` but not
`waitStopped()`. Time is abstracted: an armed watchdog may fire at any moment, an
expired context lets `stop()` return at any moment. Every step of `start()` may throw, the
publication included, and so may `runtime.start()` before it (`MainFails`); the shutdown then runs on
what was never started. Assumed of `servicelib`:
`loader.Stop` does not throw and joins its thread, a shutdown task runs its function
once on a thread of its own, a service or a runtime that was not started may be stopped, and
`getRuntimeConfigSnapshot` reads the registry, which is what `WorkFindsConfiguration` is about: the
soft deadline of an order throws without a configuration. Left out is that the shutdown
task shares the ownership of the host (`service.generated.cpp:118`), so `HostOutlivesShutdown` asks of
`main()` alone what that would also prevent. analyticsservice has the same `main()` and the same generated
service; inventoryservice also has the gRPC server of `ServiceProcess`.

### ServiceProcess and ServiceConfiguration

| Variable | Code |
| --- | --- |
| `subject` | the field whose value is followed, as object, name and kind |
| `file`, `environment` | the texts of that field in the editions of the YAML file, and in its variable |
| `own` | `config` of `main()`, which the service is constructed with |
| `published` | what `RuntimeConfigRegistry` publishes |
| `grpc`, `call` | `grpc_server`; one call of a client |

`ServiceConfiguration` translates `config.generated.hpp` of the three services into
tables: identifiers, objects, types, listeners, the fields `ApplyConfig` reads, the objects
whose custom properties it reads, the variables `ApplyEnvironment` reads. A value is the
layer it comes from and a text: `valid`, `other` (converted, but refused later: a port of
70000, no connections), `empty` or `invalid`. `Converts` and `Usable` say what the conversions
and the makers do with each text. `Load` applies the layers; `Rejected` is an exception.

The actions refine those of `ServiceLifecycle`: each does what its counterpart does and
says what becomes of configuration and server. `BuildAndStart` comes before anything of
the service, `RegisterHandlers` after `loader.Start`; only then `main()` waits for signals
(`SignalStep`); `ShutdownServer` precedes `StopServiceStep`.

Assumed of `servicelib`: the loader applies defaults, file and environment in this order
and drops an edition whose conversion throws (`ConfigLoader`, used at `main.cpp:90` and 189). That
order and that drop are not in the repository, so no property is about them; what a service runs on
(`RunsOnChecked`) and whether a good edition comes through (`EditIsPublished`) rest on them.
Assumed of gRPC: a call waits until a handler takes it or the server shuts down, which
ends calls by its deadline. Edits are followed while somebody still reads the file.

### EventDelivery

| Variable | Code |
| --- | --- |
| `outbox` | events `OrderProcessedEndpointSink` has handed to `message.send` |
| `partition`, `committed` | the messages Kafka stores; its committed offset |
| `handling` | per message: delivered to `consumeMessage`, counted, marked by the callback |
| `successful`, `unsuccessful` | the counters of `CountOrderProcessed` |
| `first`, `counted`, `redelivered`, `resumptions` | history: where this incarnation began, what was counted by any, whether a rebalance repeated deliveries to it, restarts and rebalances |

`Store` without acknowledgement stores a message that will be sent again;
`EndRequestWithError` is a send that fails, whose error `endRequest` drops. `Deliver`, `Count`
and `Mark` are the handler; `Commit` moves the offset over a prefix of marked messages.
`Restart` and `Rebalance` resume at the offset. Three simplifications. A message that does not parse
(`order_processed_endpoint_source.hpp:37-39`) would never be marked and would hold back the committed
offset; nothing but the sink writes to the topic here, so there is none. A rebalance ends the handlers in
flight, while in the code they run on and may still count and mark; such a message counts as passed or
is delivered again, and no property distinguishes that. The callback of a message is looked up in the
request it belongs to, as `servicelib` is assumed to do. The assumptions on Kafka and its client are in
the header of the module. The module is also the abstract specification `AnalyticsService` is proved to
implement.

### AnalyticsService and StreamGraph

`StreamGraph` holds, for the three services, each graph twice: as `MakeConfig` describes it
(`...Sources`: the sources of every stream) and as `ServiceStreams::build` connects it
(`...Consumers`, `...ResultOf` for `setSource`), with endpoints, connectors and bindings.
`AnalyticsService` runs on the graph as built.

| Variable | Code |
| --- | --- |
| `stage` | how far `start()` and `initRuntime` are; `running`, `stopping`, `stopped` |
| `maker`, `function`, `handle` | the custom maker of `InvokeAnalyticsSubstream`, the function it makes, the sub-stream handle |
| `bindings` | the sink bindings that have a function |
| `begun`, `stack` | inputs the sources have produced; per input the calls its thread has still to make |
| `held`, `expired` | per join and key the vector of values of each side; joins and keys whose TTL passed |
| `delivered`, `failed` | results sinks accepted; streams a call of which threw |

A link is a function call, so an input sets off a depth-first walk of the graph, which
`stack` holds; threads of different inputs interleave call by call. `Pass` is every stream
whose function looks at nothing but the value, `Join`, `Invoke` and `Write` are the others.
The sinks compare what they get with the value they expect and throw otherwise, as in the
code. `keys` picks the inputs of a behaviour: those of one key, which meet in the joins, or none,
and then the Kafka handler is active. Both share start, stop, crash and restart, and no
other state.

Assumed of `servicelib`: a join keeps its values by key, calls its function under a lock at
each arrival, and forgets the key when the function returns `true` or its TTL has passed;
sources start after `ServiceApp::start`; `stop` lets running calls end before the graph is
released, so a handle called after its stream is gone is excluded by assumption.

### AutomationService

| Variable | Code |
| --- | --- |
| `main` | where `Start()` is, down to `os.Exit` (`exit0`, `exit1`) or the panic of a send on a closed channel |
| `mode` | whether `GORUNDEBUG_TEST` is set, in which case the channel is closed a second after the start |
| `pending`, `stop`, `signals` | the channel `stop` with its buffer of two; how many signals the process received |
| `maker`, `cause` | the goroutines of the errgroup in `initFunctions`; the maker whose error it keeps |
| `runtime` | the `ServiceApp`: accepting work, stopping, stopped |
| `deadline` | whether `timeoutCtx` of `StopService` is done |
| `cleanup` | the goroutine in which `close` calls the custom `stop` |
| `job` | for each workflow task the stage of `executeTemporalWorkflowEndpoint`; how many makers of its `workflowMakerGroup` ran, which made their functions, and `firstError` |

`MakeService` to `ExitFailed` are the path of `Start()` up to the wait; `ReceiveStop` to `Exit`
are `StopService`: the server phase has nothing to do, the goroutine of the runtime phase is
`StopRuntime` and `RuntimeStops`, the clean-up phase `CallStop` and `StopReturns`; `CloseClients`
and `Exit` are the two selects. The makers of a workflow run as coroutines, one after the other, so
`MakeInWorkflow` takes them in the order in which `scheduleFunctions` starts them.

Assumed of the Go runtime of the framework, which is not in the repository: it accepts work from
some moment of `ServiceApp.Start` on, and `ServiceApp.Stop` accepts no more and returns when the
work has ended or its context is done. `errgroup` keeps the first error and then cancels; a
workflow's coroutines run in the order they were started and makers do not yield; `signal.Notify` sends without blocking;
`service.Release()` returns. The `N` makers are those that are set, which `initMakers` does for all of them: a
nil one would be skipped without an error, and one that returns nil without an error counts as having made its
function (`functions.generated.go:75-80`), so a whole start presumes makers that are set.

## 3. Runs

| Run | Question | Bounds |
| --- | --- | --- |
| `order` | is every answer single, exact and published, nothing lost or wrongly cancelled, every accepted order answered and drained, and does the pipeline implement `OrderAnswer`? | one order, 3 lines |
| `order_events` (violation) | does an event describe the final order state? | one order, 2 lines |
| `inventory` | does the loop end, and is it linearizable? | 3 calls, 2 SKUs with stock 3 and 2 and an unknown one, quantities 1 and 2 |
| `inventory_refusal` (violation) | does a refusal report no quantity? | 2 calls, one SKU |
| `maker_init` | does no coroutine outlive the construction, is it complete or an error with a cause, and does one failure end it? | functions by 4 makers; infrastructure by 4, two of them of clients; any of them may be missing |
| `maker_cancellation` (violation) | is a failure recorded before it cancels others? | 3 makers |
| `lifecycle` | is the shutdown complete, with the failure reported, and does the process end? does admitted work find a configuration, does each accepted edition come through, and no call meet a service that is not started? do the configurations agree? | four fields, one of each kind that behaves differently: a checked number, a name that may be empty, an enumeration, a gRPC listener; 2 edits; `shutdownTimeout` positive, as configured |
| `lifecycle_deadline` (violation) | does no cleanup run before the deadline is set? | none: the state of `ServiceLifecycle` is finite |
| `order_system` | does what an answer says agree with the stock, and is stock nobody knows of reported as an error? does inventoryservice implement a ledger that each restart fills again? | one order with up to 2 lines of one SKU with stock 2, quantities -1, 1 and 2; two restarts |
| `automation` | is an early signal kept, a start whole or caused, each replay alike, the clean-up last, and does a stop end? | 2 makers, 2 workflow tasks, 3 signals, in a test and not |
| `automation_stop` (violation) | is the custom `stop` called before the service exits? | 2 makers, one task, one signal |
| `analytics_service` | does no call throw, is every result exact, are events counted, marked and committed, and does every input end? | the inputs of one key together, or Kafka with 2 events, one CONFIRMED, and 3 messages; 2 restarts or rebalances |

Why the bounds are enough: orders share no state inside orderservice, so one order
shows all its interleavings; with three lines one can be collected, one waiting for
the mutex and one pending when the deadline fires. Three calls exhaust either SKU in every
order, with a stale load before each exchange. With four makers one fails, one is cancelled
by it, one succeeds and one hangs. Two lines that ask for 1 or 2 of a stock of 2 can both
succeed, compete, or one of them take what the other needs; a restart lets the sum exceed the
stock, and a second one meets calls of two incarnations. Inputs of different keys meet
nowhere, so one key shows what the joins can do (the cycle and the sub-stream, which have an
input each, run together). Three messages hold two events and a repeated one, and two
resumptions a redelivery of a redelivery. Two edits are a bad one between two good ones. Two
makers of the Go service are one that fails and one it cancels; two tasks, one that executes
while another is built; three signals overflow the channel. The proofs lift the bounds of what
they cover.

What is proved (section 4) and follows from another property of a run, or only restates
types, is not repeated by a run: type correctness; `NoOverdraw`, `RefusalJustified` and
`RefusalReportsStock` beside `ImplementsLedger`; that a shutdown task runs once;
that a service runs on checked values; `ExitCodeIsTrue` of the Go service.

The five violations are disagreements between the documents and the code:

* `spec/orderservice/task2.md:16` asks for an event "from the final order state". The
  graph maps every order state that leaves `mergeResults`, so an order of *n* lines
  produces an event for each result and one for its deadline, each with one item or
  none.
* `spec/inventoryservice/task2.md:16` asks for an OUT_OF_STOCK result "with no available
  quantity". `GetInventoryItemError` reports the quantity the loop saw. (`spec/inventoryservice/task1.md:17`
  asks for the current available quantity, so the documents also disagree with one another.)
* `servers.generated.cpp:92` says "The task recorded the first failure before requesting
  cancellation". The handler requests the stop first, so a maker that answers the
  cancellation may be recorded, and rethrown, in place of the cause.
* `main.cpp:32-33` says that "no cleanup stage may extend the one shutdown deadline". The
  handler of `start()` calls `stop()`, which waits up to `shutdownTimeout`, before `main()`
  sets the deadline; without a positive `shutdownTimeout` it waits for ever.
* `automationservice/internal/app/service.go:89` says that "stop is called during graceful shutdown
  before the service exits". `close` calls it in a goroutine and waits for it with the context that the runtime may
  have used up; the select can then return before the goroutine ran, and the process exits with 0.

### Fairness

For the order pipeline (`Fairness`): threads that were given work run (`Dispatch`,
`RouteResult`, `RunCallback`), the armed delay fires or is dropped with its cancelled
context, a call whose context is cancelled ends, and the framework ends a request
that is answered or failed. There is no fairness for a reply of inventory, nor for
the hard deadline of the request. `FailSoftDeadline`, `BeginRequest` and the outcome of
a call are choices of the environment.

For the reservation: a thread keeps running, a store becomes visible to later loads in
finite time, and `compare_exchange_weak` does not fail spuriously for ever. These are
the progress guarantees the C++ standard asks of implementations; strong fairness of
`Reserve` and `ReloadLatest` says just that, and weak fairness would not be enough.

For the makers: the launching thread and the executor run, and a maker answers the
cancellation of its context; it owes nothing else. For the lifecycle: `main()` goes on
once it is stopping (`Stop`) and the deadline of an armed watchdog comes. Nothing is
assumed of `start()`, of admitted work or of the shutdown task, so `ProcessEnds` rests on
the watchdog alone; it needs `Bounded`, without which the failed start above hangs. For the
configuration: the loader looks at the file every 5 s (`main.cpp:189`), so an accepted edition
that stays is published, whether or not a rejected one came before.

For automationservice: the goroutine of `main()` goes on once it serves, and the deadline comes
(`shutdownTimeout` is 30 s). The runtime, the work, the custom `stop` and the goroutines that wait
for them owe nothing, so `StopEnds` rests on the deadline alone.

For analyticsservice: `start()` runs on, a thread makes the calls it was given, a handler
that was given a message runs to its end, the client delivers and commits, running calls end so that a stop ends,
and a service that stopped is started again by the platform. Nothing has to stop, crash, expire or be
sent, and Kafka owes no acknowledgement.

## 4. Proofs

Checked by TLAPS for every set of orders, every finite set of lines, every number of
calls and SKUs, any stock and positive quantities (`ItemsFinite`, `StockAssumption`),
every number of makers, both values of `Bounded`, any events, any bound on messages and
resumptions (`BoundsAreNatural`), any followed fields and any number of edits; the two
services together for any finite sets of orders and lines, any stock, any quantities a client
may write and any number of restarts (`SystemAssumption`); the example streams for any
selection of their inputs (`KeySets`); the Go service for any number of makers and signals and any
tasks (`AutomationAssumption`). No other assumption is made.

**Order pipeline.** `CompleteAnswerIsExact` is not inductive: the callback compares the
*length* of the vector with the number of lines, which says something about lines
only if the vector has no line twice. `IInv` adds that. A result exists once: what is
on its way is of an ended call, not in the vector, and no other result on its way
is of the same line (`InFlightIsNew`); the vector's length is the number of its
distinct lines (`ResultsAreDistinct`); an order not answered lacks a result
(`ResultMissing`); an answer is the vector as it was when it was given, and the vector
does not grow any more (`AnswerIsOfResults`). That an answer is never replaced needs in
addition that an order answered by `beginRequest` or `endRequest` has nobody left in
the callback (`FailureIsLast`). `OthersAreSame` and `SameKeepsInv` reduce a step to the order
that takes it; there is one lemma per action. Theorems: `PipelineTypeCorrect`,
`CompleteAnswersExact`, `TimedOutAnswersPartial`, `AnswersListPublished`,
`ResultsAreKept`, `CompleteAnswersSpared`, `AnswersAreFinal`.

**Reservation.** The stock only decreases, so every value it has had bounds it from
above (`PastBoundsStock`), and a thread in the loop holds one of those values
(`ThreadSawStock`); a thread that sees too little is therefore right. Theorems:
`ReservationTypeCorrect`, `StockNeverOverdrawn`, `RefusalsJustified`,
`RefusalsReportStock`.

**Refinements.** `ReservationImplementsLedger` and `PipelineImplementsPromise` prove the safety
part of both refinements. In the ledger, the exchange that succeeds is the grant and
leaving the loop is the refusal; loads and retries are stutters, and a refusal on a
stale value is right because the value bounds the latest one. In the promise, the end
of a call settles its line, `RejectRequest`, `AnswerComplete`, `AnswerTimedOut` and
`EndRequest` with an error give the answer, and the rest stutters. `RInv` adds to `IInv`
that inventory settles a line once (`SettledOnce`), so an outcome in the promise never
changes, and that a failed request without an order was answered by `beginRequest`
(`RejectedIsAnswered`), so `endRequest` fails only accepted orders.

**The two services.** `SystemImplementsPipeline`: a step of orderservice is a step of the
pipeline, one of inventoryservice, a restart included, a stutter. The only fact it needs is that a
reply which exists is one of the outcomes the pipeline accepts (`TInv`). With it everything
proved of the pipeline holds in the system, its promise too (`SystemImplementsPromise`).
The invariants across the services need to know what the pipeline and the threads of inventoryservice
know of each other (`SInv`): the lines of an accepted order have positive quantities
(`QuantityInv`); a call is replied to once, by a thread that then ends, so no reply changes and
a restart drops only calls without one (`ThreadInv`); an outcome other than PROCESSING_ERROR is
published only if it is the one of the reply, and a call that is done has published one
(`PublishedInv`); and what all incarnations sold and what is left of the last one fit in their
initial stocks (`SoldInv`). The sum of what was sold is a fold over a set of calls. That it grows
by the quantity of a call that is added, and does not change otherwise (`SumAdds`, `SumSame`), is
proved by a least counterexample (`LeastNumber`, `LeastSet`), because induction theorems cannot be
instantiated. Theorems: `LostReservationsReported`, `StockBacksSales`,
`AnswersAgreeWithStock`.

`SystemImplementsVolatileLedger` proves the other half: behind its calls, inventoryservice implements
`VolatileLedger`. The arrival of a call is its demand on the ledger, the exchange its grant, the
refusal its refusal; a restart fills the ledger again and loses the calls that were being handled;
all else stutters, steps of orderservice included. What it needs beyond `QuantityInv` is `LInv`: the
values the atomic has had since the last restart bound the latest one, and a thread in the loop holds
one of them. A restart that kept a thread with a quantity it read before would break it, and is the
defect the run's mutant plants.

**Makers.** `TaskInv` says what a coroutine leaves behind: one that ended made its function
or recorded an error; `ErrorInv` says that only a failing coroutine requests a stop before the
join, so behind every cancellation there is a failure (`RootCause`). `CheckInv` says which makers were
checked when a step is taken: all of them for functions, for infrastructure those that are not of clients.
So the construction is left before the join with a coroutine running only over a client that is missing. Theorems:
`MakerTypeCorrect`, `TasksAreJoined`, `ReturnIsComplete`, `ErrorsHaveACause`.

**Lifecycle.** The exit code after a failure depends on the order of two calls of
`begin_shutdown`: `WatchdogInv` keeps that the watchdog is never armed with success once
the start or the wait for signals failed, because it is off until then (`ServingInv`)
and the handler arms it first. `StoppedInv` and `DrainInv` relate `main` to the task. Theorems:
`LifecycleTypeCorrect`, `HostIsKept`, `ShutdownsComplete`, `FailuresReported`,
`ShutdownIsRunOnce`, `RegistryIsLeftEmpty`, `WorkIsConfigured`, for both values of `Bounded`.
`RegistryIsLeftEmpty` needs that the loader is gone when the host is released (`StoppedInv`);
`WorkIsConfigured`, that the registry is filled from the publication to the release (`RegistryInv`) and that
no work is left at the release unless the drain threw.

**Process.** `ProcessIsALifecycle` proves that every step of `ServiceProcess` is a step of
`ServiceLifecycle` or a stutter, so all the theorems above hold of a process with its configuration and
server. `StageInv` ties the values to the stage
(`RunsOnChecked`); `ServerInv` says that a handler exists only between a successful start
and the closing of the server, during which endpoints admit work (`CallsAlwaysMeetTheService`).

**Delivery.** `CommittedWereCounted` is not inductive: the offset moves over messages that
are marked, so `HandlingInv` adds that a marked message was counted and that everything up to
the offset stays marked, which `Resume` must not disturb. For the counters, the set of
messages passed since the start grows by the one being counted (`HandledIsFinite` and the
cardinality theorems); a rebalance shrinks it, which is why the counters may then exceed it. Theorems:
`DeliveryTypeCorrect`, `CommittedAreCounted`, `CountersAreExact`. `ServiceImplementsDelivery`
maps the steps of `AnalyticsService` to those of `EventDelivery`: start, streams and stop
stutter, a crash and a new start are `Restart`. With it `ServiceCountsCommitted` and
`ServiceCountersAreExact` carry the results over to the service.

**Example streams.** `NothingFails` follows from two things (`AInv`). What `start()` sets up is
there whenever a call can run, from the end of the start to the release of the graph
(`StartedInv`). And each stream is called only with the values of its branch: `ValuesAt` says which
ones, a join holds on a side only values of that side and of its key (`FlowInv`), and so what it
makes of them is what the sink behind it checks for. Theorem: `StreamsNeverFail`.

`ResultsAreExact` is about what has become of every call, so it needs an account of them
(`ExactInv`). A call has *goals*: the sides of joins it will arrive at and the results it will
write before the next join. An input not yet produced counts as a call of its source. A step hands
the goals of its call on to the calls it makes, or reaches them (`GoalsHandedOn`); the branches of a
split share them out, of the branches behind a filter or a case one has them, and only a complete
join opens a new one, its result. So no goal is ever that of two calls (`Once`). For each join and key
`JoinInv` relates the open goals, the vectors held and the TTL: a side whose value has yet to arrive is
empty; a value that arrived and is not held was joined or expired; a key that expired is never
joined; a join never holds all of its sides. `SinkInv` says that a result is not both open and
delivered, and `DeliveredInv` that none is delivered twice. At rest nothing is open, and the
theorem follows: `ResultsComeOnce`.

**automationservice.** `SignalsAreKept` needs the whole history of the channel (`ChannelInv`):
nothing receives before the service serves, and only a test closes it. `StopInv` says what
`main()` may conclude from each select: a stopped runtime has no busy task unless the deadline
passed, and a task that is built while the runtime stops keeps it from having stopped. `JobInv`
relates the makers tried to those that succeeded: all before the first error did. Theorems:
`AutomationTypeCorrect`, `SignalsKept`, `StartsWholeOrCaused`, `WorkflowsReplay`,
`CleanupComesLast`, `ExitCodesAreTrue`.

**Only model-checked:** the liveness properties and the fairness part of the refinements, which are out
of the prover's reach; and the tables (`GraphsAreAsConfigured`, `ConfigurationsAgree`). These
have no parameters and no state, so that TLC decides them completely; a proof would
enumerate the same entries.

## 5. Plan

All modules planned are written, and every safety and action property of a run that depends on state or on a
constant is a theorem. What could follow:

1. Two orders in the run of `OrderSystem`, with one line each, which stays within a minute; the proofs
   cover any number.
2. What workflows and activities of the Go service compute, when their functions are written.

## 6. Not modelled

* `servicelib`, Kafka, gRPC, Temporal: not in the repository; what is assumed of each is stated
  above and in the headers of the modules.
* automationservice beyond its lifecycle and the graphs of its workflows: the functions of its workflows
  and activities have TODO bodies, and history, retries, timers and schedules are Temporal's. Its HTTP and
  gRPC servers and clients do not exist (the makers return nil), so those phases do nothing.
* JSON, YAML and protobuf conversions beyond what becomes of a field; names, positions and
  descriptions in the generated configuration; its Go counterpart; logging, metrics, dashboards.
* The arithmetic of amounts and of the soft deadline: time and money are abstracted.
* Scripts and deployment, sequential tools. Whether `INVENTORY_SERVICE_GRPC_PORT` (which moves the
  listener) and `INVENTORY_SERVICE_API_ADDRESS` (which orderservice calls) fit each other is decided there, for
  instance by the fixed address at `docker-compose.yml:84`; no code compares them.
* A Kafka message that does not parse; a maker of the Go service that is not set; the coroutine a missing
  client maker leaves behind; the overlap of `endRequest` with a callback: each is excluded or cut off as
  section 2 says.
* The order in which the loader applies its layers, and its drop of a rejected edition.
* What follows from an event being sent for every result of an order (`order_events`): the
  counters of analyticsservice count order states, not orders.
