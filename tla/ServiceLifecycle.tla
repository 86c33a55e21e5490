-------------------------- MODULE ServiceLifecycle --------------------------
(***************************************************************************)
(* Start and stop of a C++ service: main() of cmd/service/main.cpp drives  *)
(* ServiceGenerated of internal/app/service.generated.cpp.  Four threads:  *)
(*                                                                         *)
(*   main      starts the service, waits for a signal, stops everything    *)
(*   task      the shutdown task: stopSynchronously, then waitForShutdown  *)
(*   loader    publishes a new configuration now and then                  *)
(*   watchdog  ends the process at the shutdown deadline                   *)
(*                                                                         *)
(* and the workers of the runtime, which are busy with admitted work or    *)
(* not.  orderservice and analyticsservice have the same main();           *)
(* inventoryservice also shuts its gRPC server down before stop().         *)
(*                                                                         *)
(* Assumed of servicelib: loader.Stop joins the loader; a shutdown task    *)
(* runs its function once, on a thread of its own; waitForShutdown returns *)
(* when admitted work has finished, or throws; a service and a runtime     *)
(* that were not started may be stopped; getRuntimeConfigSnapshot reads    *)
(* what RuntimeConfigRegistry holds.                                       *)
(*                                                                         *)
(* Left out: the shutdown task shares the ownership of the host            *)
(* (setShutdownLifetime, service.generated.cpp:118), which would keep it   *)
(* alive if main() left it too early.  Here main() alone must not do so.   *)
(***************************************************************************)
CONSTANT Bounded   \* is shutdownTimeout > 0

ASSUME BoundedIsBoolean == Bounded \in BOOLEAN

VARIABLES
  main,              \* where main() is
  stage,             \* how far ServiceGenerated::start has come
  lifecycleStarted,  \* lifecycle_started_
  accepting,         \* do endpoints and servers admit work
  work,              \* is a worker busy with admitted work
  task,              \* shutdown_task_
  loader,            \* does the loader thread run
  registry,          \* what RuntimeConfigRegistry holds
  watchdog,          \* the exit code the armed watchdog ends the process with
  runtimeShutdown,   \* runtime_shutdown
  failure,           \* the exception the catch of main() handles
  exitCode           \* of the process

service == <<stage, lifecycleStarted, accepting>>
config  == <<loader, registry>>
process == <<watchdog, runtimeShutdown, failure, exitCode>>
vars    == <<main, service, work, task, config, process>>

Init ==
  /\ main = "starting" /\ stage = "new"
  /\ lifecycleStarted = FALSE /\ accepting = FALSE /\ work = FALSE
  /\ task = "none" /\ loader = FALSE /\ registry = "none"
  /\ watchdog = "off" /\ runtimeShutdown = FALSE
  /\ failure = "none" /\ exitCode = "none"

TaskEnded == task \in {"done", "failed"}

(***************************************************************************)
(* ServiceGenerated::start, in the main thread.                            *)
(***************************************************************************)
StartStep(from, to) ==
  /\ main = "starting" /\ stage = from
  /\ stage' = to
  /\ UNCHANGED <<main, work, task, loader, process>>

\* (defect) the publication is left to the loader
PublishLater ==
  /\ StartStep("new", "published")
  /\ UNCHANGED <<registry, lifecycleStarted, accepting>>

PublishConfig ==
  /\ StartStep("new", "published")
  /\ registry' = "initial"
  /\ UNCHANGED <<lifecycleStarted, accepting>>

\* serviceInit, initMakers, customMakersInit, initRuntime
InitRuntime ==
  /\ StartStep("published", "built")
  /\ UNCHANGED <<registry, lifecycleStarted, accepting>>

StartApp ==
  /\ StartStep("built", "running")
  /\ lifecycleStarted' = TRUE
  /\ accepting' = TRUE
  /\ UNCHANGED registry

StartServer ==
  /\ StartStep("running", "listening")
  /\ UNCHANGED <<registry, lifecycleStarted, accepting>>

\* stop() creates the shutdown task under shutdown_mutex_, unless there is one.
EmplaceTask == task' = IF task = "none" THEN "stopping" ELSE task

\* (defect) stop() waits for the task without a bound
StopReturnsWhenDone == TaskEnded

\* stop() returns when the task has ended or its context has expired; it is
\* noexcept, so the error of the task is logged.
StopReturns == TaskEnded \/ Bounded

\* Any step of start() throws, the publication included: its catch calls stop().
StartFails ==
  /\ main = "starting"
  /\ EmplaceTask
  /\ failure' = "start"
  /\ main' = "aborting"
  /\ UNCHANGED <<service, work, config, watchdog, runtimeShutdown, exitCode>>

AbortEnds ==
  /\ main = "aborting"
  /\ StopReturns
  /\ main' = "failed"
  /\ UNCHANGED <<service, work, task, config, process>>

\* serviceStarted, and start() returns.
Started ==
  /\ main = "starting" /\ stage = "listening"
  /\ main' = "loading"
  /\ UNCHANGED <<service, work, task, config, process>>

(***************************************************************************)
(* main() after start.                                                     *)
(***************************************************************************)
StartLoader ==
  /\ main = "loading"
  /\ loader' = TRUE
  /\ main' = "serving"
  /\ UNCHANGED <<service, work, task, registry, process>>

\* An exception of runtime.start, which precedes service.start, of loader.Start
\* or of the wait for signals.
MainFails ==
  /\ main \in {"loading", "serving"} \/ (main = "starting" /\ stage = "new")
  /\ failure' = "runtime"
  /\ main' = "failed"
  /\ UNCHANGED <<service, work, task, config, watchdog, runtimeShutdown, exitCode>>

\* begin_shutdown: the first call arms the watchdog and fixes its exit code.
BeginShutdown(code) == watchdog' = IF watchdog = "off" THEN code ELSE watchdog

Signal ==
  /\ main = "serving"
  /\ BeginShutdown("success")
  /\ main' = "shutdown"
  /\ UNCHANGED <<service, work, task, config, runtimeShutdown, failure, exitCode>>

\* (defect) the handler leaves begin_shutdown to shutdown_runtime
CatchUnarmed ==
  /\ main = "failed"
  /\ main' = IF runtimeShutdown THEN "leaving" ELSE "shutdown"
  /\ UNCHANGED <<service, work, task, config, process>>

\* The handler: begin_shutdown(EXIT_FAILURE), then shutdown_runtime, which
\* returns at once when the runtime is already down.
Catch ==
  /\ main = "failed"
  /\ BeginShutdown("failure")
  /\ main' = IF runtimeShutdown THEN "leaving" ELSE "shutdown"
  /\ UNCHANGED <<service, work, task, config, runtimeShutdown, failure, exitCode>>

(***************************************************************************)
(* shutdown_runtime.                                                       *)
(***************************************************************************)
ShutdownRuntime ==
  /\ main = "shutdown"
  /\ BeginShutdown("success")
  /\ main' = "unloading"
  /\ UNCHANGED <<service, work, task, config, runtimeShutdown, failure, exitCode>>

\* (defect) the loader goes on while the service stops
StopServiceOnly ==
  /\ main = "unloading"
  /\ EmplaceTask
  /\ main' = "stopping"
  /\ UNCHANGED <<service, work, config, process>>

\* loader.Stop, and service.stop begins.
StopService ==
  /\ main = "unloading"
  /\ loader' = FALSE
  /\ EmplaceTask
  /\ main' = "stopping"
  /\ UNCHANGED <<service, work, registry, process>>

StopEnds ==
  /\ main = "stopping"
  /\ StopReturns
  /\ main' = "waiting"
  /\ UNCHANGED <<service, work, task, config, process>>

\* (defect) waitStopped is taken to be over when stop() is
WaitForNothing ==
  /\ main = "waiting"
  /\ main' = "joining"
  /\ UNCHANGED <<service, work, task, config, process>>

WaitStopped ==
  /\ main = "waiting" /\ task = "done"
  /\ main' = "joining"
  /\ UNCHANGED <<service, work, task, config, process>>

\* waitStopped rethrows the error of the task; in the handler it is dropped.
WaitStoppedThrows ==
  /\ main = "waiting" /\ task = "failed"
  /\ main'    = IF failure = "none" THEN "failed" ELSE "leaving"
  /\ failure' = IF failure = "none" THEN "shutdown" ELSE failure
  /\ UNCHANGED <<service, work, task, config, watchdog, runtimeShutdown, exitCode>>

\* runtime.stop, runtime.join
JoinRuntime ==
  /\ main = "joining" /\ ~work
  /\ runtimeShutdown' = TRUE
  /\ main' = IF failure = "none" THEN "flushing" ELSE "leaving"
  /\ UNCHANGED <<service, work, task, config, watchdog, failure, exitCode>>

Flush ==
  /\ main = "flushing"
  /\ \E flushed \in BOOLEAN :
       /\ main'    = IF flushed THEN "leaving" ELSE "failed"
       /\ failure' = IF flushed THEN "none" ELSE "telemetry"
  /\ UNCHANGED <<service, work, task, config, watchdog, runtimeShutdown, exitCode>>

\* The host is destroyed: ~ServiceGenerated, releaseRuntime.
Release ==
  /\ main = "leaving"
  /\ registry' = "none"
  /\ accepting' = FALSE
  /\ main' = "released"
  /\ UNCHANGED <<stage, lifecycleStarted, work, task, loader, process>>

Exit ==
  /\ main = "released"
  /\ exitCode' = IF failure = "none" THEN "success" ELSE "failure"
  /\ main' = "exited"
  /\ UNCHANGED <<service, work, task, config, watchdog, runtimeShutdown, failure>>

(***************************************************************************)
(* The other threads.                                                      *)
(***************************************************************************)
Alive == exitCode = "none"

\* (defect) endpoints and servers are left open while the work drains
StopNothing ==
  /\ Alive /\ task = "stopping"
  /\ lifecycleStarted' = FALSE
  /\ task' = "draining"
  /\ UNCHANGED <<main, stage, accepting, work, config, process>>

\* serviceStopping if the service has started, then stopRuntime.
StopSynchronously ==
  /\ Alive /\ task = "stopping"
  /\ lifecycleStarted' = FALSE
  /\ accepting' = FALSE
  /\ task' = "draining"
  /\ UNCHANGED <<main, stage, work, config, process>>

WaitForShutdown ==
  /\ Alive /\ task = "draining"
  /\ \/ ~work /\ task' = "done"
     \/ task' = "failed"
  /\ UNCHANGED <<main, service, work, config, process>>

Admit ==
  /\ Alive /\ accepting /\ ~work
  /\ work' = TRUE
  /\ UNCHANGED <<main, service, task, config, process>>

Finish ==
  /\ Alive /\ work
  /\ work' = FALSE
  /\ UNCHANGED <<main, service, task, config, process>>

Reload ==
  /\ Alive /\ loader
  /\ registry' = "reloaded"
  /\ UNCHANGED <<main, service, work, task, loader, process>>

\* std::_Exit at the deadline, whatever the other threads do.
Watchdog ==
  /\ Alive /\ watchdog # "off"
  /\ exitCode' = watchdog
  /\ main' = "exited"
  /\ UNCHANGED <<service, work, task, config, watchdog, runtimeShutdown, failure>>

Exited == ~Alive /\ UNCHANGED vars

Start == PublishConfig \/ InitRuntime \/ StartApp \/ StartServer \/ StartFails \/ Started

Stop ==
  \/ AbortEnds \/ Catch \/ ShutdownRuntime \/ StopService \/ StopEnds \/ WaitStopped
  \/ WaitStoppedThrows \/ JoinRuntime \/ Flush \/ Release \/ Exit

Next ==
  \/ Start \/ StartLoader \/ MainFails \/ Signal \/ Stop
  \/ StopSynchronously \/ WaitForShutdown \/ Admit \/ Finish \/ Reload \/ Watchdog
  \/ Exited

Spec == Init /\ [][Next]_vars

(***************************************************************************)
(* Fairness.  main() goes on once it stops, and the deadline comes.  Start *)
(* may hang in a maker, admitted work and the shutdown task for ever.      *)
(***************************************************************************)
Fairness == WF_vars(Stop) /\ WF_vars(Watchdog)

FairSpec == Spec /\ Fairness

-----------------------------------------------------------------------------
(* Properties *)

\* Every variable stays in the range the code gives it.
TypeOK ==
  /\ main \in {"starting", "aborting", "loading", "serving", "failed", "shutdown", "unloading",
               "stopping", "waiting", "joining", "flushing", "leaving", "released", "exited"}
  /\ stage \in {"new", "published", "built", "running", "listening"}
  /\ lifecycleStarted \in BOOLEAN /\ accepting \in BOOLEAN /\ work \in BOOLEAN
  /\ loader \in BOOLEAN /\ runtimeShutdown \in BOOLEAN
  /\ task \in {"none", "stopping", "draining", "done", "failed"}
  /\ registry \in {"none", "initial", "reloaded"}
  /\ watchdog \in {"off", "success", "failure"}
  /\ failure  \in {"none", "start", "runtime", "shutdown", "telemetry"}
  /\ exitCode \in {"none", "success", "failure"}

\* stop() gives up at its timeout, waitStopped does not (service.generated.cpp
\* 125 and 149): the host is never destroyed under a shutdown task that runs.
HostOutlivesShutdown == main = "released" => TaskEnded

\* A shutdown that is done leaves nothing behind that could admit work or is
\* still busy with it, also when start() failed half way.
ShutdownIsComplete == task = "done" => ~work /\ ~accepting /\ ~lifecycleStarted

\* The loader never publishes a configuration after releaseRuntime emptied the
\* registry.
RegistryStaysEmpty == main = "released" => registry = "none" /\ ~loader

\* The soft deadline of an order looks the configuration up in the registry when
\* it is armed and throws if there is none (soft_deadline.hpp:54-56).  Admitted
\* work finds one: it was published before endpoints admit work, and work has
\* drained before the host empties the registry, unless the drain itself threw.
WorkFindsConfiguration == Alive /\ work => registry # "none" \/ task = "failed"

\* main.cpp:183, "Preserve the original startup/runtime failure": the process
\* reports it, also when the watchdog cuts the cleanup short, although
\* shutdown_runtime itself begins the shutdown with EXIT_SUCCESS.
FailureIsReported ==
  failure \in {"start", "runtime"} /\ exitCode # "none" => exitCode = "failure"

\* The shutdown runs once, however often stop() is called: in the handler of
\* start(), in shutdown_runtime, and once more if that failed.
ShutdownRunsOnce == [][TaskEnded => task' = task]_vars

\* Once a signal came or something failed the process ends, although admitted
\* work may never finish.
ProcessEnds == failure # "none" \/ watchdog # "off" ~> exitCode # "none"

\* main.cpp:32-33: "Keep the watchdog alive through static destruction too: no
\* cleanup stage may extend the one shutdown deadline."  No cleanup runs before
\* the deadline is set.
CleanupHasDeadline == task # "none" => watchdog # "off"
=============================================================================
