------------------------- MODULE AutomationService -------------------------
(***************************************************************************)
(* automationservice, the Go service: Start() with its construction of     *)
(* functions, the wait for a signal, StopService with its one deadline,    *)
(* and the Temporal workflows, each of which builds a graph of its own.    *)
(*                                                                         *)
(* Assumed of what is not in the repository.  errgroup keeps the first     *)
(* error and then cancels its context.  A workflow's coroutines run one    *)
(* after the other in the order they were started; makers do not yield.    *)
(* The runtime accepts work from some moment of ServiceApp.Start on; its   *)
(* Stop accepts no more, and returns when the work has ended or its        *)
(* context is done.  signal.Notify sends without blocking.                 *)
(*                                                                         *)
(* The HTTP and gRPC servers and clients of serviceServers and             *)
(* serviceClients are nil in this service.  The N makers are those that    *)
(* are set, which initMakers does for all of them: a nil one would be      *)
(* skipped without an error.  A maker that returns nil without an error    *)
(* counts as having made its function, as in the code.                     *)
(***************************************************************************)
EXTENDS Integers

CONSTANTS
  N,          \* makers of functions, numbered as scheduleFunctions starts them
  Jobs,       \* workflow tasks the worker may be given
  MaxSignals  \* bound: signals the process receives

ASSUME AutomationAssumption == N \in Nat /\ MaxSignals \in Nat

VARIABLES
  main,      \* where Start() is, and how the process ended
  mode,      \* "test" if GORUNDEBUG_TEST is set
  pending,   \* signals in the channel stop, which holds two
  stop,      \* the channel stop is open or closed
  signals,   \* signals received since signal.Notify
  maker,     \* the goroutines of initFunctions
  cause,     \* the maker whose error the errgroup keeps, 0 for none
  runtime,   \* the runtime.ServiceApp
  deadline,  \* of StopService: ahead, or passed and timeoutCtx is done
  cleanup,   \* the goroutine of clients.close that calls s.stop
  job        \* the workflow tasks: graph and group of makers of each

vars == <<main, mode, pending, stop, signals, maker, cause, runtime, deadline, cleanup, job>>

channel == <<mode, pending, stop, signals>>
functions == <<maker, cause>>
stopping == <<runtime, deadline, cleanup>>

Makers == 1..N

NoJob == [stage |-> "none", tried |-> 0, made |-> {}, error |-> 0]

Init ==
  /\ main = "making"
  /\ mode \in {"test", "service"}
  /\ pending = 0 /\ stop = "open" /\ signals = 0
  /\ maker = [m \in Makers |-> "idle"] /\ cause = 0
  /\ runtime = "none" /\ deadline = "ahead" /\ cleanup = "none"
  /\ job = [j \in Jobs |-> NoJob]

Over == main \in {"exit0", "exit1", "panic"}

Go(from, to) == main = from /\ main' = to

-----------------------------------------------------------------------------
(* Start() *)

\* MakeService, which may fail before there is a service to release.
MakeService ==
  /\ Go("making", "building") \/ Go("making", "exit1")
  /\ UNCHANGED <<channel, functions, stopping, job>>

\* initFunctions, after initConnectors, starts all makers at once.
ScheduleFunctions ==
  /\ Go("building", "joining")
  /\ maker' = [m \in Makers |-> "running"]
  /\ UNCHANGED <<channel, cause, stopping, job>>

\* A maker that ends: with its function, with an error of its own, or because
\* it saw the context of the group cancelled.
EndMaker(m) ==
  /\ ~Over
  /\ maker[m] = "running"
  /\ \E end \in {"made", "failed"} \cup (IF cause = 0 THEN {} ELSE {"cancelled"}) :
       /\ maker' = [maker EXCEPT ![m] = end]
       /\ cause' = IF end # "made" /\ cause = 0 THEN m ELSE cause
  /\ UNCHANGED <<main, channel, stopping, job>>

\* (defect) the wait ends with the first error
JoinEarly ==
  /\ cause # 0 \/ \A m \in Makers : maker[m] # "running"
  /\ Go("joining", "graph")
  /\ UNCHANGED <<channel, functions, stopping, job>>

\* eg.Wait ends when every goroutine has; initFunctions returns its error.
JoinFunctions ==
  /\ \A m \in Makers : maker[m] # "running"
  /\ Go("joining", IF cause = 0 THEN "graph" ELSE "failed")
  /\ UNCHANGED <<channel, functions, stopping, job>>

\* buildGraph, and ServiceApp.Start begins.
BuildGraph ==
  /\ Go("graph", "starting")
  /\ UNCHANGED <<channel, functions, stopping, job>>

\* The runtime begins to accept work, at some moment of ServiceApp.Start.
AcceptWork ==
  /\ main = "starting" /\ runtime = "none"
  /\ runtime' = "running"
  /\ UNCHANGED <<main, channel, functions, deadline, cleanup, job>>

Started ==
  /\ runtime = "running"
  /\ Go("starting", "serving")
  /\ UNCHANGED <<channel, functions, stopping, job>>

\* initConnectors, buildGraph or ServiceApp.Start returns an error; whatever had
\* begun is not stopped.
StartFails ==
  /\ \E from \in {"building", "graph", "starting"} : Go(from, "failed")
  /\ UNCHANGED <<channel, functions, stopping, job>>

\* Start() releases the service and returns the error, main() exits with it.
ExitFailed ==
  /\ Go("failed", "exit1")
  /\ UNCHANGED <<channel, functions, stopping, job>>

-----------------------------------------------------------------------------
(* The channel stop *)

Open == main \notin {"making", "exit0", "exit1", "panic"}

\* (defect) the channel is not buffered: a signal is lost unless main() waits
SignalUnbuffered ==
  /\ Open /\ signals < MaxSignals
  /\ signals' = signals + 1
  /\ pending' = IF main = "serving" /\ pending < 2 THEN pending + 1 ELSE pending
  /\ main' = IF stop = "closed" THEN "panic" ELSE main
  /\ UNCHANGED <<mode, stop, functions, stopping, job>>

\* A signal is dropped if the channel is full; to send on a closed one panics.
Signal ==
  /\ Open /\ signals < MaxSignals
  /\ signals' = signals + 1
  /\ pending' = IF pending < 2 /\ stop = "open" THEN pending + 1 ELSE pending
  /\ main' = IF stop = "closed" THEN "panic" ELSE main
  /\ UNCHANGED <<mode, stop, functions, stopping, job>>

\* In a test the channel is closed a second after the start.
CloseStop ==
  /\ mode = "test" /\ stop = "open" /\ main \in {"serving", "stopping", "closing"}
  /\ stop' = "closed"
  /\ UNCHANGED <<main, mode, pending, signals, functions, stopping, job>>

-----------------------------------------------------------------------------
(* StopService *)

\* <-stop returns; StopService starts its deadline.  There is no server to stop,
\* and a goroutine is to stop the runtime.
ReceiveStop ==
  /\ pending > 0 \/ stop = "closed"
  /\ Go("serving", "stopping")
  /\ pending' = IF pending > 0 THEN pending - 1 ELSE 0
  /\ UNCHANGED <<mode, stop, signals, functions, stopping, job>>

\* The goroutine runs: the runtime accepts no more work ...
StopRuntime ==
  /\ main \in {"stopping", "closing"}
  /\ runtime = "running"
  /\ runtime' = "stopping"
  /\ UNCHANGED <<main, channel, functions, deadline, cleanup, job>>

Busy(j) == job[j].stage \in {"building", "executing"}

\* ... and ServiceApp.Stop returns when its work has ended or the deadline came.
RuntimeStops ==
  /\ ~Over /\ runtime = "stopping"
  /\ deadline = "passed" \/ \A j \in Jobs : ~Busy(j)
  /\ runtime' = "stopped"
  /\ UNCHANGED <<main, channel, functions, deadline, cleanup, job>>

Expire ==
  /\ main \in {"stopping", "closing"} /\ deadline = "ahead"
  /\ deadline' = "passed"
  /\ UNCHANGED <<main, channel, functions, runtime, cleanup, job>>

\* (defect) the clients are closed while the runtime stops
CloseClientsAtOnce ==
  /\ Go("stopping", "closing")
  /\ cleanup' = "spawned"
  /\ UNCHANGED <<channel, functions, runtime, deadline, job>>

\* The select returns, and clients.close starts a goroutine for s.stop.
CloseClients ==
  /\ runtime = "stopped" \/ deadline = "passed"
  /\ Go("stopping", "closing")
  /\ cleanup' = "spawned"
  /\ UNCHANGED <<channel, functions, runtime, deadline, job>>

\* The goroutine runs and s.stop, the custom clean-up, is called; it returns.
CallStop ==
  /\ main = "closing" /\ cleanup = "spawned"
  /\ cleanup' = "called"
  /\ UNCHANGED <<main, channel, functions, runtime, deadline, job>>

StopReturns ==
  /\ main = "closing" /\ cleanup = "called"
  /\ cleanup' = "ended"
  /\ UNCHANGED <<main, channel, functions, runtime, deadline, job>>

\* (defect) the exit waits for the clean-up alone
ExitAfterCleanup ==
  /\ cleanup = "ended"
  /\ Go("closing", "exit0")
  /\ UNCHANGED <<channel, functions, stopping, job>>

\* clients.close returns, Start() releases the service, main() exits.
Exit ==
  /\ cleanup = "ended" \/ deadline = "passed"
  /\ Go("closing", "exit0")
  /\ UNCHANGED <<channel, functions, stopping, job>>

-----------------------------------------------------------------------------
(* Workflows *)

\* executeTemporalWorkflowEndpoint of a task the worker got while it accepted
\* work; what precedes the makers may fail.
BeginWorkflow(j) ==
  /\ ~Over /\ runtime = "running" /\ job[j].stage = "none"
  /\ \E stage \in {"building", "failed"} : job' = [job EXCEPT ![j].stage = stage]
  /\ UNCHANGED <<main, channel, functions, stopping>>

Building(j) == ~Over /\ job[j].stage = "building"

\* (defect) the last error is kept
MakeInWorkflowKeepingLast(j) ==
  LET m == job[j].tried + 1 IN
  /\ Building(j) /\ m \in Makers
  /\ \/ job' = [job EXCEPT ![j].tried = m, ![j].made = @ \cup {m}]
     \/ job' = [job EXCEPT ![j].tried = m, ![j].error = m]
  /\ UNCHANGED <<main, channel, functions, stopping>>

\* The next coroutine of workflowMakerGroup runs its maker.  The first error is
\* kept, and the makers after it may see the context cancelled.
MakeInWorkflow(j) ==
  LET m == job[j].tried + 1 IN
  /\ Building(j) /\ m \in Makers
  /\ \/ job' = [job EXCEPT ![j].tried = m, ![j].made = @ \cup {m}]
     \/ job' = [job EXCEPT ![j].tried = m, ![j].error = IF @ = 0 THEN m ELSE @]
  /\ UNCHANGED <<main, channel, functions, stopping>>

\* Wait returns, the graph is built and its environment started; each may fail.
BuildWorkflowGraph(j) ==
  /\ Building(j) /\ job[j].tried = N
  /\ \E stage \in IF job[j].error = 0 THEN {"executing", "failed"} ELSE {"failed"} :
       job' = [job EXCEPT ![j].stage = stage]
  /\ UNCHANGED <<main, channel, functions, stopping>>

\* The workflow ends, with a result or an error, and its environment is stopped.
EndWorkflow(j) ==
  /\ ~Over /\ job[j].stage = "executing"
  /\ job' = [job EXCEPT ![j].stage = "ended"]
  /\ UNCHANGED <<main, channel, functions, stopping>>

-----------------------------------------------------------------------------
Terminated == Over /\ UNCHANGED vars

StartStep ==
  \/ MakeService \/ ScheduleFunctions \/ (\E m \in Makers : EndMaker(m)) \/ JoinFunctions
  \/ BuildGraph \/ AcceptWork \/ Started \/ StartFails \/ ExitFailed

StopStep ==
  \/ Signal \/ CloseStop \/ ReceiveStop \/ StopRuntime \/ RuntimeStops \/ Expire
  \/ CloseClients \/ CallStop \/ StopReturns \/ Exit

WorkflowStep(j) ==
  BeginWorkflow(j) \/ MakeInWorkflow(j) \/ BuildWorkflowGraph(j) \/ EndWorkflow(j)

Next == StartStep \/ StopStep \/ (\E j \in Jobs : WorkflowStep(j)) \/ Terminated

Spec == Init /\ [][Next]_vars

(***************************************************************************)
(* Fairness.  The goroutine of main() runs on once the service is started, *)
(* and the deadline comes (shutdownTimeout is 30 s).  Nothing is owed by   *)
(* the runtime, the work, s.stop or the goroutines that wait for them.     *)
(***************************************************************************)
Fairness ==
  /\ WF_vars(ReceiveStop) /\ WF_vars(CloseClients) /\ WF_vars(Exit)
  /\ WF_vars(Expire)

FairSpec == Spec /\ Fairness

-----------------------------------------------------------------------------
(* Properties *)

Stages == {"making", "building", "joining", "graph", "starting", "serving", "stopping",
           "closing", "failed", "exit0", "exit1", "panic"}

TypeOK ==
  /\ main \in Stages
  /\ mode \in {"test", "service"} /\ stop \in {"open", "closed"} /\ deadline \in {"ahead", "passed"}
  /\ pending \in 0..2 /\ signals \in 0..MaxSignals
  /\ maker \in [Makers -> {"idle", "running", "made", "failed", "cancelled"}]
  /\ cause \in 0..N
  /\ runtime \in {"none", "running", "stopping", "stopped"}
  /\ cleanup \in {"none", "spawned", "called", "ended"}
  /\ job \in [Jobs -> [stage : {"none", "building", "executing", "ended", "failed"},
                       tried : 0..N, made : SUBSET Makers, error : 0..N]]

HasStarted == main \in {"graph", "starting", "serving", "stopping", "closing", "exit0"}

\* A signal that comes while the service still starts, and nobody waits for it,
\* stops the service as soon as it serves: it is in the channel.
SignalsAreKept == main = "serving" /\ signals > 0 => pending > 0 \/ stop = "closed"

\* The service goes on with all of its functions or ends with the error of a maker
\* that failed, never with the cancellation that error caused in another one.
StartIsWholeOrCaused ==
  /\ HasStarted => \A m \in Makers : maker[m] = "made"
  /\ cause = 0 <=> \A m \in Makers : maker[m] \notin {"failed", "cancelled"}
  /\ cause # 0 => maker[cause] = "failed"

\* A workflow executes a graph with all of its functions, and one whose makers
\* failed fails with the first of them in the order of the generated code,
\* whatever the cancelled makers after it answered: each replay ends alike.
WorkflowsAreReplayable ==
  \A j \in Jobs :
    /\ job[j].stage \in {"executing", "ended"} => job[j].made = Makers
    /\ job[j].stage = "building" /\ job[j].error = 0 => job[j].made = 1..job[j].tried
    /\ job[j].error # 0 => job[j].error \notin job[j].made
                           /\ 1..(job[j].error - 1) \subseteq job[j].made

\* Clients and resources are cleaned up when no workflow can still need them,
\* unless the deadline cut that wait short (clients.generated.go:20-21).
CleanupIsLast ==
  cleanup # "none" => deadline = "passed" \/ (runtime = "stopped" /\ \A j \in Jobs : ~Busy(j))

\* What the exit code says: 0, a stop was asked for, and either everything was stopped
\* and cleaned up or the deadline came; 1, the start failed, and what it had begun was
\* released without being stopped; a panic needs a closed channel, which only a test
\* has.
ExitCodeIsTrue ==
  /\ main = "exit0" => /\ signals > 0 \/ mode = "test"
                       /\ deadline = "passed" \/ (runtime = "stopped" /\ cleanup = "ended")
  /\ main \in {"failed", "exit1"} => runtime \in {"none", "running"} /\ cleanup = "none"
  /\ main = "panic" => mode = "test" /\ signals > 0

\* A service asked to stop ends, though its runtime, its work and its clean-up
\* may hang: one deadline bounds all phases.
StopEnds == main = "serving" /\ (pending > 0 \/ stop = "closed") ~> Over

\* service.go:89: "stop is called during graceful shutdown before the service
\* exits."
CustomStopIsCalled == main = "exit0" => cleanup \in {"called", "ended"}
=============================================================================
