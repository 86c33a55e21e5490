----------------------- MODULE ServiceProcess_proofs -----------------------
(***************************************************************************)
(* Proofs about start and stop of a service, and about a process with its  *)
(* configuration and its gRPC server, for any fields, any number of        *)
(* editions of the file and any environment.                               *)
(***************************************************************************)
EXTENDS ServiceProcess, TLAPS

(***************************************************************************)
(* The lifecycle.                                                          *)
(***************************************************************************)

\* Before main() stops anything, nothing has failed and nothing is stopped.
Serving == main \in {"starting", "loading", "serving"}

ServingInv ==
  /\ Serving => task = "none" /\ failure = "none"
  /\ Serving \/ main = "aborting" => watchdog = "off" /\ ~runtimeShutdown

\* The watchdog is armed before shutdown_runtime goes on, and never with
\* EXIT_SUCCESS when the service or the wait for signals failed.
WatchdogInv ==
  /\ main \in {"shutdown", "unloading", "stopping", "waiting", "joining", "flushing", "leaving", "released"}
       => watchdog # "off"
  /\ failure \in {"start", "runtime"} => watchdog # "success"

\* How the process ended.
ExitInv ==
  /\ main = "exited" <=> exitCode # "none"
  /\ FailureIsReported

\* Past waitStopped the task has ended and the loader is gone.
StoppedInv ==
  /\ main \in {"joining", "flushing", "leaving", "released"} \/ runtimeShutdown => TaskEnded
  /\ main \in {"stopping", "waiting", "joining", "flushing", "leaving", "released"} \/ runtimeShutdown => ~loader
  /\ main = "released" => registry = "none"

\* A task that drains has closed every entrance.
DrainInv ==
  /\ task \in {"draining", "done"} => ~accepting /\ ~lifecycleStarted
  /\ task = "done" => ~work

IInv == TypeOK /\ ServingInv /\ WatchdogInv /\ ExitInv /\ StoppedInv /\ DrainInv

LEMMA InitInv == Init => IInv
BY DEF Init, IInv, TypeOK, ServingInv, Serving, WatchdogInv, ExitInv, FailureIsReported, StoppedInv,
   TaskEnded, DrainInv

\* start() works before anything is stopped.
LEMMA StartInv == IInv /\ Start => IInv'
<1> SUFFICES ASSUME IInv, Start PROVE IInv'
  OBVIOUS
<1> USE DEF IInv, TypeOK, ServingInv, Serving, WatchdogInv, ExitInv, FailureIsReported, StoppedInv,
            TaskEnded, DrainInv, service, config, process
<1>1. CASE PublishConfig \/ InitRuntime \/ StartApp \/ StartServer
  <2>1. TypeOK'
    BY <1>1 DEF PublishConfig, InitRuntime, StartApp, StartServer, StartStep
  <2>2. ServingInv'
    BY <1>1 DEF PublishConfig, InitRuntime, StartApp, StartServer, StartStep
  <2>3. WatchdogInv'
    BY <1>1 DEF PublishConfig, InitRuntime, StartApp, StartServer, StartStep
  <2>4. ExitInv'
    BY <1>1 DEF PublishConfig, InitRuntime, StartApp, StartServer, StartStep
  <2>5. StoppedInv'
    BY <1>1 DEF PublishConfig, InitRuntime, StartApp, StartServer, StartStep
  <2>6. DrainInv'
    BY <1>1 DEF PublishConfig, InitRuntime, StartApp, StartServer, StartStep
  <2> QED
    BY <2>1, <2>2, <2>3, <2>4, <2>5, <2>6
<1>2. CASE StartFails
  BY <1>2 DEF StartFails, EmplaceTask
<1>3. CASE Started
  BY <1>3 DEF Started
<1> QED
  BY <1>1, <1>2, <1>3 DEF Start

LEMMA ServeInv == IInv /\ (StartLoader \/ MainFails \/ Signal) => IInv'
<1> SUFFICES ASSUME IInv, StartLoader \/ MainFails \/ Signal PROVE IInv'
  OBVIOUS
<1> USE DEF IInv, TypeOK, ServingInv, Serving, WatchdogInv, ExitInv, FailureIsReported, StoppedInv,
            TaskEnded, DrainInv, service, config, process
<1>1. CASE StartLoader
  <2>1. TypeOK'
    BY <1>1 DEF StartLoader
  <2>2. ServingInv' /\ WatchdogInv' /\ ExitInv' /\ DrainInv'
    BY <1>1 DEF StartLoader
  <2>3. StoppedInv'
    BY <1>1 DEF StartLoader
  <2> QED
    BY <2>1, <2>2, <2>3
<1>2. CASE MainFails \/ Signal
  BY <1>2 DEF MainFails, Signal, BeginShutdown
<1> QED
  BY <1>1, <1>2

\* shutdown_runtime and the handlers around it.
LEMMA StopInv == IInv /\ Stop => IInv'
<1> SUFFICES ASSUME IInv, Stop PROVE IInv'
  OBVIOUS
<1> USE DEF IInv, TypeOK, ServingInv, Serving, WatchdogInv, ExitInv, FailureIsReported, StoppedInv,
            TaskEnded, DrainInv, service, config, process
<1>1. CASE AbortEnds \/ StopEnds \/ WaitStopped
  BY <1>1 DEF AbortEnds, StopEnds, WaitStopped
<1>2. CASE Catch \/ ShutdownRuntime
  BY <1>2 DEF Catch, ShutdownRuntime, BeginShutdown
<1>3. CASE StopService
  <2>1. TypeOK'
    <3>1. task' \in {"none", "stopping", "draining", "done", "failed"}
      BY <1>3 DEF StopService, EmplaceTask
    <3> QED
      BY <1>3, <3>1 DEF StopService
  <2>2. ServingInv'
    BY <1>3 DEF StopService, EmplaceTask
  <2>3. WatchdogInv'
    BY <1>3 DEF StopService, EmplaceTask
  <2>4. ExitInv'
    BY <1>3 DEF StopService, EmplaceTask
  <2>5. StoppedInv'
    BY <1>3 DEF StopService, EmplaceTask
  <2>6. DrainInv'
    BY <1>3 DEF StopService, EmplaceTask
  <2> QED
    BY <2>1, <2>2, <2>3, <2>4, <2>5, <2>6
<1>4. CASE WaitStoppedThrows
  BY <1>4 DEF WaitStoppedThrows
<1>5. CASE JoinRuntime
  BY <1>5 DEF JoinRuntime
<1>6. CASE Flush
  BY <1>6 DEF Flush
<1>7. CASE Release
  BY <1>7 DEF Release
<1>8. CASE Exit
  BY <1>8 DEF Exit
<1> QED
  BY <1>1, <1>2, <1>3, <1>4, <1>5, <1>6, <1>7, <1>8 DEF Stop

\* Work is admitted or ends: only work changes, and work is admitted only while
\* the service accepts it.
LEMMA WorkInv == IInv /\ (Admit \/ Finish) => IInv'
<1> SUFFICES ASSUME IInv, Admit \/ Finish PROVE IInv'
  OBVIOUS
<1>1. /\ work' \in BOOLEAN
      /\ work' => accepting \/ work
      /\ UNCHANGED <<main, stage, lifecycleStarted, accepting, task, loader, registry>>
      /\ UNCHANGED <<watchdog, runtimeShutdown, failure, exitCode>>
  BY DEF Admit, Finish, service, config, process
<1>2. TypeOK'
  BY <1>1 DEF IInv, TypeOK
<1>3. ServingInv'
  BY <1>1 DEF IInv, ServingInv, Serving
<1>4. WatchdogInv'
  BY <1>1 DEF IInv, WatchdogInv
<1>5. ExitInv'
  BY <1>1 DEF IInv, ExitInv, FailureIsReported
<1>6. StoppedInv'
  BY <1>1 DEF IInv, StoppedInv, TaskEnded
<1>7. DrainInv'
  BY <1>1 DEF IInv, DrainInv
<1> QED
  BY <1>2, <1>3, <1>4, <1>5, <1>6, <1>7 DEF IInv

\* The threads beside main().
LEMMA ThreadInv ==
  IInv /\ (StopSynchronously \/ WaitForShutdown \/ Admit \/ Finish \/ Reload \/ Watchdog) => IInv'
<1> SUFFICES ASSUME IInv, StopSynchronously \/ WaitForShutdown \/ Admit \/ Finish \/ Reload \/ Watchdog
             PROVE  IInv'
  OBVIOUS
<1> USE DEF IInv, TypeOK, ServingInv, Serving, WatchdogInv, ExitInv, FailureIsReported, StoppedInv,
            TaskEnded, DrainInv, service, config, process, Alive
<1>1. CASE StopSynchronously
  <2>1. TypeOK'
    BY <1>1 DEF StopSynchronously
  <2>2. ServingInv'
    BY <1>1 DEF StopSynchronously
  <2>3. WatchdogInv'
    BY <1>1 DEF StopSynchronously
  <2>4. ExitInv'
    BY <1>1 DEF StopSynchronously
  <2>5. StoppedInv'
    BY <1>1 DEF StopSynchronously
  <2>6. DrainInv'
    BY <1>1 DEF StopSynchronously
  <2> QED
    BY <2>1, <2>2, <2>3, <2>4, <2>5, <2>6
<1>2. CASE WaitForShutdown
  BY <1>2 DEF WaitForShutdown
<1>3. CASE Admit \/ Finish
  BY <1>3, WorkInv
<1>4. CASE Reload
  BY <1>4 DEF Reload
<1>5. CASE Watchdog
  BY <1>5 DEF Watchdog
<1> QED
  BY <1>1, <1>2, <1>3, <1>4, <1>5

LEMMA StepInv == IInv /\ [Next]_vars => IInv'
<1> SUFFICES ASSUME IInv, [Next]_vars PROVE IInv'
  OBVIOUS
<1>1. CASE UNCHANGED vars
  BY <1>1 DEF vars, service, config, process, IInv, TypeOK, ServingInv, Serving, WatchdogInv, ExitInv,
     FailureIsReported, StoppedInv, TaskEnded, DrainInv
<1> QED
  BY <1>1, StartInv, ServeInv, StopInv, ThreadInv DEF Next, Exited

LEMMA IInvHolds == Spec => []IInv
BY InitInv, StepInv, PTL DEF Spec

\* Type correctness of start and stop.
THEOREM LifecycleTypeCorrect == Spec => []TypeOK
BY IInvHolds, PTL DEF IInv

\* The host is not destroyed under a shutdown task that runs, with or without
\* a bound on stop().
THEOREM HostIsKept == Spec => []HostOutlivesShutdown
<1>1. IInv => HostOutlivesShutdown
  BY DEF IInv, StoppedInv, HostOutlivesShutdown
<1> QED
  BY <1>1, IInvHolds, PTL

\* A shutdown that is done has closed every entrance and drained the work.
THEOREM ShutdownsComplete == Spec => []ShutdownIsComplete
<1>1. IInv => ShutdownIsComplete
  BY DEF IInv, DrainInv, ShutdownIsComplete
<1> QED
  BY <1>1, IInvHolds, PTL

\* Nothing is published after the registry was emptied.
THEOREM RegistryIsLeftEmpty == Spec => []RegistryStaysEmpty
<1>1. IInv => RegistryStaysEmpty
  BY DEF IInv, StoppedInv, RegistryStaysEmpty
<1> QED
  BY <1>1, IInvHolds, PTL

\* The registry is empty only before start() has published anything and after the
\* host was released, when nobody admits work.
RegistryInv ==
  /\ accepting => registry # "none"
  /\ stage # "new" => registry # "none" \/ main \in {"released", "exited"}
  /\ WorkFindsConfiguration

LEMMA RegistryStep ==
  ASSUME IInv, RegistryInv, [Next]_vars
  PROVE  RegistryInv'
<1> USE DEF RegistryInv, WorkFindsConfiguration, Alive, service, config, process
<1>1. CASE Start
  <2>1. CASE PublishConfig
    BY <2>1 DEF PublishConfig, StartStep
  <2>2. CASE InitRuntime \/ StartApp \/ StartServer
    BY <2>2 DEF InitRuntime, StartApp, StartServer, StartStep
  <2>3. CASE StartFails
    BY <2>3 DEF StartFails, EmplaceTask, IInv, ServingInv, Serving
  <2>4. CASE Started
    BY <2>4 DEF Started
  <2> QED
    BY <1>1, <2>1, <2>2, <2>3, <2>4 DEF Start
<1>2. CASE StartLoader \/ MainFails \/ Signal
  BY <1>2 DEF StartLoader, MainFails, Signal
<1>3. CASE Stop
  <2>1. CASE StopService
    <3>1. task' = "failed" <=> task = "failed"
      BY <2>1 DEF StopService, EmplaceTask
    <3> QED
      BY <2>1, <3>1 DEF StopService
  <2>2. CASE Release
    <3>1. task = "failed" \/ ~work
      BY <2>2 DEF Release, IInv, StoppedInv, TaskEnded, DrainInv
    <3> QED
      BY <2>2, <3>1 DEF Release
  <2>3. CASE Exit
    BY <2>3 DEF Exit
  <2>4. CASE \/ AbortEnds \/ Catch \/ ShutdownRuntime \/ StopEnds \/ WaitStopped
             \/ WaitStoppedThrows \/ JoinRuntime \/ Flush
    BY <2>4 DEF AbortEnds, Catch, ShutdownRuntime, StopEnds, WaitStopped, WaitStoppedThrows,
                JoinRuntime, Flush, IInv, ExitInv
  <2> QED
    BY <1>3, <2>1, <2>2, <2>3, <2>4 DEF Stop
<1>4. CASE StopSynchronously \/ WaitForShutdown
  BY <1>4 DEF StopSynchronously, WaitForShutdown
<1>5. CASE Admit \/ Finish
  BY <1>5 DEF Admit, Finish
<1>6. CASE Reload
  BY <1>6 DEF Reload
<1>7. CASE Watchdog
  BY <1>7 DEF Watchdog, IInv, TypeOK
<1>8. CASE UNCHANGED vars
  BY <1>8 DEF vars
<1> QED
  BY <1>1, <1>2, <1>3, <1>4, <1>5, <1>6, <1>7, <1>8 DEF Next, Exited

\* Admitted work finds a configuration, wherever the start fails and however the
\* shutdown, the loader and the watchdog interleave.
THEOREM WorkIsConfigured == Spec => []WorkFindsConfiguration
<1>1. Init => RegistryInv
  BY DEF Init, RegistryInv, WorkFindsConfiguration
<1>2. RegistryInv => WorkFindsConfiguration
  BY DEF RegistryInv
<1>3. IInv /\ RegistryInv /\ [Next]_vars => RegistryInv'
  BY RegistryStep
<1> QED
  BY <1>1, <1>2, <1>3, IInvHolds, PTL DEF Spec

\* A failure of the start or of the wait for signals is the exit code.
THEOREM FailuresReported == Spec => []FailureIsReported
BY IInvHolds, PTL DEF IInv, ExitInv

\* The shutdown runs once.
THEOREM ShutdownIsRunOnce == Spec => ShutdownRunsOnce
<1>1. IInv /\ [Next]_vars => [TaskEnded => task' = task]_vars
  <2> SUFFICES ASSUME Next, TaskEnded PROVE task' = task
    OBVIOUS
  <2> USE DEF TaskEnded, process
  <2>1. CASE Start
    BY <2>1 DEF Start, PublishConfig, InitRuntime, StartApp, StartServer, StartStep, StartFails, EmplaceTask, Started
  <2>2. CASE StartLoader \/ MainFails \/ Signal
    BY <2>2 DEF StartLoader, MainFails, Signal
  <2>3. CASE Stop
    BY <2>3 DEF Stop, AbortEnds, Catch, ShutdownRuntime, StopService, EmplaceTask, StopEnds, WaitStopped,
       WaitStoppedThrows, JoinRuntime, Flush, Release, Exit
  <2>4. CASE StopSynchronously \/ WaitForShutdown \/ Admit \/ Finish \/ Reload \/ Watchdog
    BY <2>4 DEF StopSynchronously, WaitForShutdown, Admit, Finish, Reload, Watchdog
  <2> QED
    BY <2>1, <2>2, <2>3, <2>4 DEF Next, Exited, vars
<1> QED
  BY <1>1, IInvHolds, PTL DEF Spec, ShutdownRunsOnce

-----------------------------------------------------------------------------
(***************************************************************************)
(* The process.                                                            *)
(***************************************************************************)

\* The steps of ServiceLifecycle that neither the configuration nor the server
\* restricts.
PlainStep ==
  \/ Signal \/ Watchdog
  \/ AbortEnds \/ Catch \/ ShutdownRuntime \/ StopEnds \/ WaitStopped
  \/ WaitStoppedThrows \/ JoinRuntime \/ Flush \/ Exit
  \/ StartApp \/ StartServer \/ StartFails \/ Started \/ StartLoader \/ MainFails
  \/ StopSynchronously \/ WaitForShutdown \/ Admit \/ Finish

\* The kinds of steps the proofs distinguish.
LEMMA StepKinds ==
  ASSUME [ProcessNext]_processVars
  PROVE  \/ LoadConfiguration \/ Edit \/ PublishOwn \/ InitChecked \/ Republish
         \/ ReleaseConfiguration \/ StopServiceStep \/ GrpcStep
         \/ Runs /\ PlainStep /\ UNCHANGED <<layers, inUse, server>>
         \/ UNCHANGED processVars
<1>1. StopStep => \/ ReleaseConfiguration \/ StopServiceStep \/ ShutdownServer
                  \/ Runs /\ PlainStep /\ UNCHANGED <<layers, inUse, server>>
  BY DEF StopStep, PlainStep
<1>2. SignalStep \/ WatchdogStep \/ OtherStep
        => Runs /\ PlainStep /\ UNCHANGED <<layers, inUse, server>>
  BY DEF SignalStep, WatchdogStep, OtherStep, PlainStep
<1> QED
  BY <1>1, <1>2 DEF ProcessNext, GrpcStep, Over

-----------------------------------------------------------------------------
(* The process is one of ServiceLifecycle. *)

LEMMA StepIsLifecycleStep == [ProcessNext]_processVars => [Next]_vars
<1> SUFFICES ASSUME [ProcessNext]_processVars PROVE Next \/ UNCHANGED vars
  OBVIOUS
<1>1. CASE LoadConfiguration \/ Edit \/ GrpcStep
  BY <1>1 DEF LoadConfiguration, Edit, GrpcStep, BuildAndStart, RegisterHandlers, ShutdownServer,
              Arrive, Handle
<1>2. CASE PublishOwn \/ InitChecked \/ Republish \/ ReleaseConfiguration \/ StopServiceStep
  BY <1>2 DEF PublishOwn, InitChecked, Republish, ReleaseConfiguration, StopServiceStep, Next,
              Start, Stop
<1>3. CASE PlainStep
  BY <1>3 DEF PlainStep, Next, Start, Stop
<1>4. CASE UNCHANGED processVars
  BY <1>4 DEF processVars
<1> QED
  BY <1>1, <1>2, <1>3, <1>4, StepKinds

\* Configuration and server only restrict a process of ServiceLifecycle: what
\* is proved of it holds of them.
THEOREM ProcessIsALifecycle == ProcessSpec => Spec
<1>1. ProcessInit => Init
  BY DEF ProcessInit
<1> QED
  BY <1>1, StepIsLifecycleStep, PTL DEF ProcessSpec, Spec

-----------------------------------------------------------------------------
(* The configuration *)

\* start() has not begun without a configuration, and has built nothing on a
\* value that cannot be used.
StageInv ==
  /\ own = NotLoaded => stage = "new"
  /\ RunsOnUsableValues

LEMMA StageInit == ProcessInit => StageInv
BY DEF ProcessInit, Init, StageInv, RunsOnUsableValues

LEMMA StageStep ==
  ASSUME StageInv, [ProcessNext]_processVars
  PROVE  StageInv'
<1> USE DEF StageInv, RunsOnUsableValues
<1>1. ASSUME UNCHANGED <<subject, own, stage>> PROVE StageInv'
  BY <1>1 DEF Kind
<1>2. CASE LoadConfiguration
  <2>1. UNCHANGED <<subject, stage>> /\ own = NotLoaded
    BY <1>2 DEF LoadConfiguration, layers, vars, service
  <2> QED
    BY <2>1
<1>3. CASE PublishOwn
  <2>1. own # NotLoaded /\ own' = own /\ stage' = "published"
    BY <1>3 DEF PublishOwn, Runs, Loaded, PublishConfig, StartStep
  <2> QED
    BY <2>1
<1>4. CASE InitChecked
  <2>1. own # NotLoaded /\ UNCHANGED <<own, subject>> /\ Usable(Kind, own.value)
    BY <1>4 DEF InitChecked, Runs, Loaded, inUse, layers
  <2> QED
    BY <2>1 DEF Kind
<1>5. CASE Runs /\ PlainStep /\ UNCHANGED <<layers, inUse, server>>
  <2>1. own # NotLoaded /\ UNCHANGED <<own, subject>>
    BY <1>5 DEF Runs, Loaded, inUse, layers
  <2>2. \/ stage' = stage
        \/ stage = "built" /\ stage' = "running"
        \/ stage = "running" /\ stage' = "listening"
    BY <1>5 DEF PlainStep, Signal, Watchdog, AbortEnds, Catch, ShutdownRuntime, StopEnds,
                WaitStopped, WaitStoppedThrows, JoinRuntime, Flush, Exit, StartApp, StartServer,
                StartStep, StartFails, Started, StartLoader, MainFails, StopSynchronously,
                WaitForShutdown, Admit, Finish, service
  <2> QED
    BY <2>1, <2>2 DEF Kind
<1>6. CASE Republish \/ ReleaseConfiguration \/ StopServiceStep
  BY <1>1, <1>6 DEF Republish, Reload, ReleaseConfiguration, Release, StopServiceStep, StopService,
                    layers, inUse, service
<1>7. CASE Edit \/ GrpcStep \/ UNCHANGED processVars
  BY <1>1, <1>7 DEF Edit, GrpcStep, BuildAndStart, RegisterHandlers, ShutdownServer, Arrive, Handle,
                    processVars, vars, service, layers, inUse
<1> QED
  BY <1>2, <1>3, <1>4, <1>5, <1>6, <1>7, StepKinds

\* A service that has been built runs on values it can use.
THEOREM RunsOnChecked == ProcessSpec => []RunsOnUsableValues
<1>1. StageInv /\ [ProcessNext]_processVars => StageInv'
  BY StageStep
<1>2. StageInv => RunsOnUsableValues
  BY DEF StageInv
<1> QED
  BY <1>1, <1>2, StageInit, PTL DEF ProcessSpec

-----------------------------------------------------------------------------
(* The gRPC server *)

\* Endpoints admit work from ServiceApp::start on until the shutdown task or
\* the end of the host, and the handlers are only there in between.
ServerInv ==
  /\ stage \in {"running", "listening"} /\ main = "starting" => accepting
  /\ main \in {"loading", "serving"} => accepting
  /\ grpc = "handling" =>
       /\ main \in {"serving", "failed", "shutdown", "unloading", "exited"}
       /\ task = "none" /\ (Alive => accepting)
  /\ call # "refused"

LEMMA ServerInit == ProcessInit => ServerInv
BY DEF ProcessInit, Init, ServerInv

LEMMA ServerStep ==
  ASSUME IInv, ServerInv, [ProcessNext]_processVars
  PROVE  ServerInv'
<1> USE DEF ServerInv, IInv, Alive
<1>1. CASE LoadConfiguration \/ Edit \/ UNCHANGED processVars
  BY <1>1 DEF LoadConfiguration, Edit, processVars, vars, service, process, server
<1>2. CASE GrpcStep
  <2>1. CASE RegisterHandlers
    BY <2>1 DEF RegisterHandlers, vars, service, process, ServingInv, Serving
  <2>2. CASE Handle
    BY <2>2 DEF Handle, vars, service, process
  <2>3. CASE BuildAndStart \/ ShutdownServer \/ Arrive
    BY <2>3 DEF BuildAndStart, ShutdownServer, Arrive, vars, service, process
  <2> QED
    BY <1>2, <2>1, <2>2, <2>3 DEF GrpcStep
<1>3. CASE PublishOwn \/ InitChecked \/ Republish
  BY <1>3 DEF PublishOwn, PublishConfig, InitChecked, InitRuntime, StartStep, Republish, Reload,
              service, process, server
<1>4. CASE StopServiceStep \/ ReleaseConfiguration
  BY <1>4 DEF StopServiceStep, StopService, ReleaseConfiguration, Release, service, process, server
<1>5. CASE Runs /\ PlainStep /\ UNCHANGED <<layers, inUse, server>>
  <2>0. UNCHANGED <<grpc, call>>
    BY <1>5 DEF server
  <2>1. CASE StartApp \/ StartServer \/ StartFails \/ Started
    BY <2>0, <2>1 DEF StartApp, StartServer, StartStep, StartFails, EmplaceTask, Started, service,
                      process, ServingInv, Serving
  <2>2. CASE StartLoader \/ MainFails \/ Signal
    BY <2>0, <2>2 DEF StartLoader, MainFails, Signal, service, process
  <2>3. CASE Catch
    <3>1. grpc = "handling" => ~runtimeShutdown
      BY DEF StoppedInv, TaskEnded
    <3> QED
      BY <2>0, <2>3, <3>1 DEF Catch, service
  <2>4. CASE StopSynchronously \/ WaitForShutdown
    BY <2>0, <2>4 DEF StopSynchronously, WaitForShutdown, service, process, ServingInv, Serving
  <2>5. CASE \/ AbortEnds \/ ShutdownRuntime \/ StopEnds \/ WaitStopped \/ WaitStoppedThrows
             \/ JoinRuntime \/ Flush
    BY <2>0, <2>5 DEF AbortEnds, ShutdownRuntime, StopEnds, WaitStopped, WaitStoppedThrows,
                      JoinRuntime, Flush, service, process
  <2>6. CASE Exit \/ Watchdog
    BY <2>0, <2>6 DEF Exit, Watchdog, service, TypeOK
  <2>7. CASE Admit \/ Finish
    BY <2>0, <2>7 DEF Admit, Finish, service, process
  <2> QED
    BY <1>5, <2>1, <2>2, <2>3, <2>4, <2>5, <2>6, <2>7 DEF PlainStep
<1> QED
  BY <1>1, <1>2, <1>3, <1>4, <1>5, StepKinds

\* No call meets a service that does not admit work, wherever the start fails
\* and whenever the shutdown begins.
THEOREM CallsAlwaysMeetTheService == ProcessSpec => []CallsMeetTheService
<1>1. ProcessSpec => []IInv
  BY ProcessIsALifecycle, IInvHolds, PTL
<1>2. IInv /\ ServerInv /\ [ProcessNext]_processVars => ServerInv'
  BY ServerStep
<1>3. ServerInv => CallsMeetTheService
  BY DEF ServerInv, CallsMeetTheService
<1> QED
  BY <1>1, <1>2, <1>3, ServerInit, PTL DEF ProcessSpec
=============================================================================
