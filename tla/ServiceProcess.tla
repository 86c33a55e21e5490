--------------------------- MODULE ServiceProcess ---------------------------
(***************************************************************************)
(* A process of ServiceLifecycle with the configuration it runs on and,    *)
(* for inventoryservice, its gRPC server: main() loads the configuration   *)
(* and opens the server before anything else, start() publishes and uses   *)
(* the configuration, the loader publishes it anew when the file has       *)
(* changed, and the server gets its handlers last and is shut down first.  *)
(*                                                                         *)
(* One field of the service is followed, subject, for every kind of field  *)
(* there is; the edition of the file stands for all the others.  One call  *)
(* of a client is followed.                                                *)
(*                                                                         *)
(* Assumed of servicelib: the loader builds a configuration from the       *)
(* defaults, the file and the environment, in this order, and drops it if  *)
(* a conversion throws; it looks at the file again and again.  Its code is *)
(* not in the repository, so nothing is claimed about that order or drop.  *)
(* Assumed of gRPC: a call waits until a handler takes it or the server    *)
(* shuts down.                                                             *)
(***************************************************************************)
EXTENDS ServiceLifecycle, ServiceConfiguration

CONSTANTS
  Subjects,   \* the fields followed, as <<object, field, kind>>
  MaxEdits    \* bound: how often the file is edited

VARIABLES
  subject,      \* the field this behaviour follows
  file,         \* the texts of the subject in the editions of the file
  environment,  \* the text of its variable
  own,          \* the configuration main() has loaded and start() uses
  published,    \* what RuntimeConfigRegistry publishes
  grpc,         \* grpc_server
  call          \* a call of a client

layers    == <<subject, file, environment>>
inUse     == <<own, published>>
server    == <<grpc, call>>
processVars == <<vars, layers, inUse, server>>

Kind == subject[3]

FileTexts(kind) ==
  {"absent", "valid", "invalid"}
    \cup (IF kind \in CheckedKinds \cup {"bool"} THEN {"other"} ELSE {})
    \cup (IF kind \in {"string", "environment"} THEN {"empty"} ELSE {})

EnvironmentTexts(kind) ==
  {"unset", "valid", "empty"}
    \cup (IF kind = "string" THEN {} ELSE {"invalid"})
    \cup (IF kind \in CheckedKinds \cup {"bool"} THEN {"other"} ELSE {})

NotLoaded == [ edition |-> 0, value |-> Rejected ]

Edition == Len(file)

\* MakeConfig, ApplyConfig, ApplyEnvironment on an edition of the file, in the
\* order assumed of ConfigLoader.
Load(n) ==
  [ edition |-> n, value |-> ApplyEnvironment(Kind, ApplyConfig(Default, file[n]), environment) ]

\* Only inventoryservice has a gRPC server.
ProcessInit ==
  /\ Init
  /\ subject \in Subjects
  /\ file \in { <<text>> : text \in FileTexts(Kind) }
  /\ environment \in EnvironmentTexts(Kind)
  /\ own = NotLoaded /\ published = NotLoaded
  /\ grpc = IF subject[1] = "inventoryService" THEN "unbuilt" ELSE "none"
  /\ call = "none"

-----------------------------------------------------------------------------
(* The configuration *)

\* loader.Load at the start of main(), which ends at once if it throws.
LoadConfiguration ==
  /\ own = NotLoaded
  /\ own' = Load(Edition)
  /\ UNCHANGED <<vars, layers, published, server>>

Loaded == own # NotLoaded /\ Accepted(own.value)

\* Edits are followed while somebody still reads the file.
Edit ==
  /\ Edition <= MaxEdits /\ Loaded
  /\ main \in {"starting", "loading", "serving"}
  /\ \E text \in FileTexts(Kind) : file' = Append(file, text)
  /\ UNCHANGED <<vars, subject, environment, inUse, server>>

\* main() has come as far as the service.
Runs == Loaded /\ grpc \notin {"unbuilt", "failed"}

PublishOwn ==
  /\ Runs /\ PublishConfig
  /\ published' = own
  /\ UNCHANGED <<layers, own, server>>

\* Makers of the HTTP server and of the gRPC client refuse a bad value; then
\* start() fails.
InitChecked ==
  /\ Runs /\ InitRuntime
  /\ Usable(Kind, own.value)
  /\ UNCHANGED <<layers, inUse, server>>

\* (defect) the loader publishes one change and no more
RepublishOnce ==
  /\ Runs /\ registry = "initial" /\ Reload
  /\ Accepted(Load(Edition).value)
  /\ published' = Load(Edition)
  /\ UNCHANGED <<layers, own, server>>

\* The loader publishes the file as it is now, unless it is rejected.
Republish ==
  /\ Runs /\ Reload
  /\ Accepted(Load(Edition).value)
  /\ published' = Load(Edition)
  /\ UNCHANGED <<layers, own, server>>

ReleaseConfiguration ==
  /\ Runs /\ Release
  /\ published' = NotLoaded
  /\ UNCHANGED <<layers, own, server>>

-----------------------------------------------------------------------------
(* The gRPC server *)

\* registerServices, BuildAndStart: the server listens, and nothing handles its
\* calls.  main() ends if it does not start.
BuildAndStart ==
  /\ Loaded /\ grpc = "unbuilt"
  /\ grpc' = IF Usable(Kind, own.value) THEN "listening" ELSE "failed"
  /\ UNCHANGED <<vars, layers, inUse, call>>

\* (defect) the handlers are registered while start() is under way
RegisterHandlersEarly ==
  /\ Runs /\ grpc = "listening" /\ main \in {"starting", "serving"}
  /\ grpc' = "handling"
  /\ UNCHANGED <<vars, layers, inUse, call>>

\* registerHandlers, after loader.Start and before the wait for signals.
RegisterHandlers ==
  /\ Runs /\ grpc = "listening" /\ main = "serving"
  /\ grpc' = "handling"
  /\ UNCHANGED <<vars, layers, inUse, call>>

\* grpc_server->Shutdown waits for its calls until the deadline, when it
\* cancels them; it is repeated if shutdown_runtime is.
ShutdownServer ==
  /\ Runs /\ main = "unloading" /\ grpc \in {"listening", "handling"}
  /\ grpc' = "closed"
  /\ call' = IF call = "waiting" THEN "cancelled" ELSE call
  /\ UNCHANGED <<vars, layers, inUse>>

Arrive ==
  /\ Runs /\ Alive /\ grpc \in {"listening", "handling"} /\ call = "none"
  /\ call' = "waiting"
  /\ UNCHANGED <<vars, layers, inUse, grpc>>

\* The handler asks the service for its endpoint and throws if there is none;
\* an endpoint that does not admit work refuses the call as well.
Handle ==
  /\ Runs /\ Alive /\ grpc = "handling" /\ call = "waiting"
  /\ call' = IF accepting THEN "handled" ELSE "refused"
  /\ UNCHANGED <<vars, layers, inUse, grpc>>

GrpcStep == BuildAndStart \/ RegisterHandlers \/ ShutdownServer \/ Arrive \/ Handle

-----------------------------------------------------------------------------
(* The steps of ServiceLifecycle that leave both alone *)

\* The wait for signals begins when the handlers are registered.
SignalStep == Runs /\ grpc # "listening" /\ Signal /\ UNCHANGED <<layers, inUse, server>>

\* service.stop comes after the server is closed.
StopServiceStep ==
  /\ Runs /\ grpc \in {"none", "closed"} /\ StopService
  /\ UNCHANGED <<layers, inUse, server>>

StopStep ==
  \/ ReleaseConfiguration \/ StopServiceStep \/ ShutdownServer
  \/ /\ Runs
     /\ \/ AbortEnds \/ Catch \/ ShutdownRuntime \/ StopEnds \/ WaitStopped
        \/ WaitStoppedThrows \/ JoinRuntime \/ Flush \/ Exit
     /\ UNCHANGED <<layers, inUse, server>>

WatchdogStep == Runs /\ Watchdog /\ UNCHANGED <<layers, inUse, server>>

OtherStep ==
  /\ Runs
  /\ \/ StartApp \/ StartServer \/ StartFails \/ Started \/ StartLoader \/ MainFails
     \/ StopSynchronously \/ WaitForShutdown \/ Admit \/ Finish
  /\ UNCHANGED <<layers, inUse, server>>

\* main() returned, at once or after a run.
Over ==
  /\ \/ own # NotLoaded /\ ~Loaded
     \/ grpc = "failed"
     \/ ~Alive
  /\ UNCHANGED processVars

ProcessNext ==
  \/ LoadConfiguration \/ Edit \/ PublishOwn \/ InitChecked \/ Republish
  \/ GrpcStep \/ SignalStep \/ StopStep \/ WatchdogStep \/ OtherStep \/ Over

ProcessSpec == ProcessInit /\ [][ProcessNext]_processVars

\* Fairness of ServiceLifecycle, and of the loader, which wakes up every 5 s.
ProcessFairSpec ==
  /\ ProcessSpec
  /\ WF_processVars(StopStep) /\ WF_processVars(WatchdogStep) /\ WF_processVars(Republish)

-----------------------------------------------------------------------------
(* Properties *)

\* A service listens and calls on values that were checked, whatever a reload,
\* which checks nothing, has published meanwhile.
RunsOnUsableValues == stage \in {"built", "running", "listening"} => Usable(Kind, own.value)

\* grpc_service.generated.cpp:23 throws if a call meets a service that is not
\* started.  No call does, although the server listens before the service is
\* even constructed and main() may fail or stop at any point.
CallsMeetTheService == call # "refused"

\* An accepted edition is published in the end while the service runs, also
\* after a rejected one.
EditIsPublished ==
  \A n \in 1 .. MaxEdits + 1 :
    (main = "serving" /\ Edition = n /\ Accepted(Load(Edition).value))
      ~> (published.edition = n \/ Edition # n \/ main # "serving")

GeneratedAlike ==
  /\ VariablesAgree(AnalyticsVariables, AnalyticsFields)
  /\ VariablesAgree(OrderVariables, OrderFields)
  /\ VariablesAgree(InventoryVariables, InventoryFields)
  /\ ObjectsAgree(AnalyticsObjects, AnalyticsCustom, AnalyticsIds)
  /\ ObjectsAgree(OrderObjects, OrderCustom, OrderIds)
  /\ ObjectsAgree(InventoryObjects, InventoryCustom, InventoryIds)
  /\ LET ids       == {AnalyticsIds, OrderIds, InventoryIds}
         types     == {AnalyticsTypes, OrderTypes, InventoryTypes}
         variables == {AnalyticsVariables, OrderVariables, InventoryVariables}
         listeners == <<AnalyticsListeners, OrderListeners, InventoryListeners>>
     IN  /\ \A a, b \in ids : IdsAgree(a, b)
         /\ \A a, b \in types : a # b => TypesAgree(a, b)
         /\ \A a, b \in variables : SharedVariablesAgree(a, b)
         /\ \A j, k \in DOMAIN listeners, s, t \in {"http", "grpc"} :
              listeners[j][s] = listeners[k][t] => j = k /\ s = t

\* What the three services are generated with agrees, so that a process that
\* runs is configured like its peers: file and environment set the same fields,
\* identifiers and types they share are the same, custom properties reach every
\* object, listeners differ.
ConfigurationsAgree == Runs => GeneratedAlike
=============================================================================
