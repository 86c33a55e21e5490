----------------------------- MODULE MakerInit -----------------------------
(***************************************************************************)
(* Concurrent construction of a service: initFunctions of functions and    *)
(* initInfrastructure of servers and clients.  Both spawn one coroutine    *)
(* per maker on the executor and join them all.  A coroutine that fails    *)
(* requests the others to stop and records its error if it is the first to *)
(* reach the mutex.                                                        *)
(*                                                                         *)
(* They differ before the join.  initFunctions checks that every maker is  *)
(* set before it launches anything.  initInfrastructure checks the makers  *)
(* of the HTTP router and server, awaits the router alone, launches the    *)
(* server, and only then checks each maker of a client before it launches  *)
(* it: if one is missing it throws without joining what it has launched.   *)
(*                                                                         *)
(* The coroutines point at locals: the stop source, the mutex and the      *)
(* error.  What one does with them once they are destroyed is undefined    *)
(* and no step of this module; that one is left at all is what             *)
(* NoTaskOutlivesInit is about.                                            *)
(***************************************************************************)
EXTENDS Naturals, FiniteSets

CONSTANTS
  Makers,
  Clients,  \* those of clients, if what is built is the infrastructure
  None

ASSUME NoneIsNoMaker == None \notin Makers

ASSUME ClientsAreMakers == Clients \subseteq Makers

VARIABLES
  part,        \* what is built
  configured,  \* makers that are set, ServiceMakers
  router,      \* http_router_ and its maker
  init,        \* progress of initFunctions or initInfrastructure
  task,        \* the coroutine of each maker
  function,    \* is the field of ServiceFunctions, servers_ or clients_ set
  cause,       \* why a coroutine threw
  stop,        \* maker_cancellation
  firstError   \* whose error first_maker_error holds

makers == <<part, configured>>
vars   == <<makers, router, init, task, function, cause, stop, firstError>>

Init ==
  /\ part \in {"functions", "infrastructure"}
  /\ configured \in SUBSET Makers
  /\ router \in IF part = "functions" THEN {"none"} ELSE {"missing", "unmade"}
  /\ init       = "checking"
  /\ task       = [m \in Makers |-> "none"]
  /\ function   = [m \in Makers |-> FALSE]
  /\ cause      = [m \in Makers |-> "none"]
  /\ stop       = FALSE
  /\ firstError = None

(***************************************************************************)
(* The thread of initFunctions or initInfrastructure.                      *)
(***************************************************************************)

\* The makers that are checked before anything is launched.
CheckedFirst == IF part = "functions" THEN Makers ELSE Makers \ Clients

CheckMakers ==
  /\ init = "checking"
  /\ init' = IF CheckedFirst \subseteq configured /\ router # "missing"
               THEN IF part = "functions" THEN "launching" ELSE "routing"
               ELSE "threw"
  /\ UNCHANGED <<makers, router, task, function, cause, stop, firstError>>

\* The router is made alone; its maker may throw or return null.
AwaitRouter ==
  /\ init = "routing"
  /\ \/ router' = "made"   /\ init' = "launching"
     \/ router' = "failed" /\ init' = "threw"
  /\ UNCHANGED <<makers, task, function, cause, stop, firstError>>

\* What is checked later is launched later.
FirstAreLaunched == \A m \in CheckedFirst : task[m] # "none"

Launch(m) ==
  /\ init = "launching"
  /\ task[m] = "none" /\ m \in configured
  /\ m \in CheckedFirst \/ FirstAreLaunched
  /\ task' = [task EXCEPT ![m] = "running"]
  /\ init' = IF \A n \in Makers \ {m} : task[n] # "none" THEN "joining" ELSE "launching"
  /\ UNCHANGED <<makers, router, function, cause, stop, firstError>>

\* The throw of initInfrastructure past coroutines that run.
RefuseClient ==
  /\ init = "launching" /\ FirstAreLaunched
  /\ ~(Makers \subseteq configured)
  /\ init' = "threw"
  /\ UNCHANGED <<makers, router, task, function, cause, stop, firstError>>

\* (defect) the first task.get() that throws is left at once
JoinUntilFailure ==
  /\ init = "joining"
  /\ \/ \A m \in Makers : task[m] = "ended"
     \/ \E m \in Makers : task[m] = "ended" /\ cause[m] # "none"
  /\ stop' = TRUE
  /\ init' = IF firstError = None THEN "returned" ELSE "threw"
  /\ UNCHANGED <<makers, router, task, function, cause, firstError>>

\* task.get() of every task, then the first error is rethrown.
Join ==
  /\ init = "joining"
  /\ \A m \in Makers : task[m] = "ended"
  /\ stop' = TRUE
  /\ init' = IF firstError = None THEN "returned" ELSE "threw"
  /\ UNCHANGED <<makers, router, task, function, cause, firstError>>

Ended == init \in {"returned", "threw"}

(***************************************************************************)
(* The coroutine of a maker.                                               *)
(***************************************************************************)
Succeed(m) ==
  /\ task[m] = "running"
  /\ function' = [function EXCEPT ![m] = TRUE]
  /\ task'     = [task EXCEPT ![m] = "ended"]
  /\ UNCHANGED <<makers, router, init, cause, stop, firstError>>

Throw(m, why) ==
  /\ task[m] = "running"
  /\ cause' = [cause EXCEPT ![m] = why]
  /\ task'  = [task EXCEPT ![m] = "failing"]
  /\ UNCHANGED <<makers, router, init, function, stop, firstError>>

\* (defect) a null function is taken for a function
AcceptNull(m) ==
  /\ task[m] = "running"
  /\ task' = [task EXCEPT ![m] = "ended"]
  /\ UNCHANGED <<makers, router, init, function, cause, stop, firstError>>

ReturnNull(m) == Throw(m, "null")

MakerFails(m) == Throw(m, "failure")

\* (defect) the context of the makers inherits a stop nobody of them requested
MakerCancelledUnasked(m) == Throw(m, "cancelled")

\* The maker gives up because its context has been cancelled.
MakerCancelled(m) == stop /\ Throw(m, "cancelled")

\* (defect) the others are not asked to stop
RequestNoStop(m) ==
  /\ task[m] = "failing" /\ ~Ended
  /\ task' = [task EXCEPT ![m] = "recording"]
  /\ UNCHANGED <<makers, router, init, function, cause, stop, firstError>>

RequestStop(m) ==
  /\ task[m] = "failing" /\ ~Ended
  /\ stop' = TRUE
  /\ task' = [task EXCEPT ![m] = "recording"]
  /\ UNCHANGED <<makers, router, init, function, cause, firstError>>

Record(m) ==
  /\ task[m] = "recording" /\ ~Ended
  /\ firstError' = IF firstError = None THEN m ELSE firstError
  /\ task' = [task EXCEPT ![m] = "ended"]
  /\ UNCHANGED <<makers, router, init, function, cause, stop>>

Finished == Ended /\ UNCHANGED vars

Task(m) ==
  \/ Succeed(m) \/ ReturnNull(m) \/ MakerFails(m) \/ MakerCancelled(m)
  \/ RequestStop(m) \/ Record(m)

Next ==
  \/ CheckMakers \/ AwaitRouter \/ RefuseClient \/ Join \/ Finished
  \/ \E m \in Makers : Launch(m) \/ Task(m)

Spec == Init /\ [][Next]_vars

(***************************************************************************)
(* Fairness.  The launching thread and the executor run; a maker may hang, *)
(* but answers the cancellation of its context.                            *)
(***************************************************************************)
Fairness ==
  /\ WF_vars(CheckMakers) /\ WF_vars(RefuseClient) /\ WF_vars(Join)
  /\ \A m \in Makers :
       WF_vars(Launch(m)) /\ WF_vars(MakerCancelled(m)) /\ WF_vars(RequestStop(m)) /\ WF_vars(Record(m))

FairSpec == Spec /\ Fairness

-----------------------------------------------------------------------------
(* Properties *)

\* Every variable stays in the range the code gives it.
TypeOK ==
  /\ part       \in {"functions", "infrastructure"}
  /\ configured \in SUBSET Makers
  /\ router     \in {"none", "missing", "unmade", "made", "failed"}
  /\ init       \in {"checking", "routing", "launching", "joining", "returned", "threw"}
  /\ task       \in [Makers -> {"none", "running", "failing", "recording", "ended"}]
  /\ function   \in [Makers -> BOOLEAN]
  /\ cause      \in [Makers -> {"none", "null", "failure", "cancelled"}]
  /\ stop       \in BOOLEAN
  /\ firstError \in Makers \cup {None}

\* When initFunctions or initInfrastructure is left, by return or by exception,
\* no coroutine runs that still holds pointers to its locals
\* (functions.generated.cpp:222-224, servers.generated.cpp:88-94), with one
\* exception: a client whose maker is missing (servers.generated.cpp:62).
NoTaskOutlivesInit ==
  Ended =>
    \/ \A m \in Makers : task[m] \in {"none", "ended"}
    \/ part = "infrastructure" /\ ~(Clients \subseteq configured)

\* A construction that returned has made everything: no failure and no null is
\* swallowed by the empty catch of the join (functions.generated.cpp:223).
ReturnedIsComplete ==
  init = "returned" => \A m \in Makers : function[m]

\* The stop request never aborts an initialization on its own: behind what is
\* thrown there is a maker that is missing, failed or returned null.
ErrorHasACause ==
  init = "threw" =>
    \/ configured # Makers \/ router \in {"missing", "failed"}
    \/ /\ firstError # None
       /\ \E m \in Makers : cause[m] \in {"failure", "null"}

\* One failure ends the initialization although other makers would hang.
FailureEndsInit ==
  \A m \in Makers : cause[m] # "none" ~> init = "threw"

\* servers.generated.cpp:92: "The task recorded the first failure before
\* requesting cancellation."  Whoever is cancelled finds it recorded.
RecordedBeforeCancellation ==
  \A m \in Makers : cause[m] = "cancelled" => firstError # None
=============================================================================
