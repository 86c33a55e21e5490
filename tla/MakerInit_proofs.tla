-------------------------- MODULE MakerInit_proofs --------------------------
(***************************************************************************)
(* Proofs about the concurrent construction of functions and of            *)
(* infrastructure, for any number of makers and clients.                   *)
(***************************************************************************)
EXTENDS MakerInit, TLAPS

RootCause == \E m \in Makers : cause[m] \in {"failure", "null"}

ClientMissing == part = "infrastructure" /\ ~(Clients \subseteq configured)

\* What a coroutine leaves behind.
TaskInv(m) ==
  /\ init \in {"checking", "routing"} => task[m] = "none"
  /\ init = "joining" => task[m] # "none"
  /\ Ended => task[m] \in {"none", "ended"} \/ ClientMissing
  /\ init = "returned" => task[m] = "ended"
  /\ task[m] \in {"none", "running"} => cause[m] = "none"
  /\ task[m] \in {"failing", "recording"} => cause[m] # "none"
  /\ task[m] = "ended" => function[m] \/ (cause[m] # "none" /\ firstError # None)
  /\ cause[m] # "none" => RootCause
  /\ firstError = m => cause[m] # "none"

\* Only a failing coroutine requests a stop before the join.
ErrorInv ==
  /\ stop => RootCause \/ \A m \in Makers : task[m] = "ended"
  /\ init = "returned" => firstError = None
  /\ init = "threw" =>
       configured # Makers \/ router \in {"missing", "failed"} \/ firstError # None

\* What is launched unchecked is a client.
CheckInv == init \in {"routing", "launching"} => CheckedFirst \subseteq configured

IInv == TypeOK /\ (\A m \in Makers : TaskInv(m)) /\ ErrorInv /\ CheckInv

LEMMA InitInv == Init => IInv
BY NoneIsNoMaker DEF Init, IInv, TypeOK, TaskInv, ErrorInv, CheckInv, Ended

LEMMA CheckMakersInv == IInv /\ CheckMakers => IInv'
<1> SUFFICES ASSUME IInv, CheckMakers PROVE IInv'
  OBVIOUS
<1>1. TypeOK' /\ CheckInv'
  BY DEF IInv, CheckMakers, makers, TypeOK, CheckInv, CheckedFirst
<1>2. ~(CheckedFirst \subseteq configured) => configured # Makers
  BY DEF CheckedFirst
<1>3. ErrorInv'
  BY <1>2 DEF IInv, CheckMakers, makers, ErrorInv, RootCause
<1>4. ASSUME NEW m \in Makers PROVE TaskInv(m)'
  BY DEF IInv, CheckMakers, makers, TaskInv, Ended, RootCause, ClientMissing
<1> QED
  BY <1>1, <1>3, <1>4 DEF IInv

LEMMA AwaitRouterInv == IInv /\ AwaitRouter => IInv'
<1> SUFFICES ASSUME IInv, AwaitRouter PROVE IInv'
  OBVIOUS
<1>1. TypeOK' /\ CheckInv' /\ ErrorInv'
  BY DEF IInv, AwaitRouter, makers, TypeOK, CheckInv, CheckedFirst, ErrorInv, RootCause
<1>2. ASSUME NEW m \in Makers PROVE TaskInv(m)'
  BY DEF IInv, AwaitRouter, makers, TaskInv, Ended, RootCause, ClientMissing
<1> QED
  BY <1>1, <1>2 DEF IInv

\* All that was checked first is set: a maker that is missing is a client's.
LEMMA RefuseClientInv == IInv /\ RefuseClient => IInv'
<1> SUFFICES ASSUME IInv, RefuseClient PROVE IInv'
  OBVIOUS
<1>1. TypeOK' /\ CheckInv' /\ ErrorInv'
  BY DEF IInv, RefuseClient, makers, TypeOK, CheckInv, ErrorInv, RootCause
<1>2. ClientMissing
  BY DEF IInv, RefuseClient, CheckInv, CheckedFirst, ClientMissing, TypeOK
<1>3. ClientMissing'
  BY <1>2 DEF RefuseClient, makers, ClientMissing
<1>4. ASSUME NEW m \in Makers PROVE TaskInv(m)'
  BY <1>3 DEF IInv, RefuseClient, makers, TaskInv, Ended, RootCause
<1> QED
  BY <1>1, <1>4 DEF IInv

LEMMA LaunchInv ==
  ASSUME IInv, NEW m \in Makers, Launch(m)
  PROVE  IInv'
<1>1. TypeOK' /\ ErrorInv' /\ CheckInv'
  BY DEF IInv, Launch, makers, TypeOK, ErrorInv, CheckInv, CheckedFirst, Ended, RootCause
<1>2. ASSUME NEW n \in Makers PROVE TaskInv(n)'
  BY DEF IInv, Launch, makers, TypeOK, TaskInv, Ended, RootCause, ClientMissing
<1> QED
  BY <1>1, <1>2 DEF IInv

LEMMA JoinInv == IInv /\ Join => IInv'
<1> SUFFICES ASSUME IInv, Join PROVE IInv'
  OBVIOUS
<1>1. TypeOK' /\ ErrorInv' /\ CheckInv'
  BY DEF IInv, Join, makers, TypeOK, ErrorInv, CheckInv, CheckedFirst, Ended, RootCause
<1>2. ASSUME NEW n \in Makers PROVE TaskInv(n)'
  BY DEF IInv, Join, makers, TypeOK, TaskInv, Ended, RootCause, ClientMissing
<1> QED
  BY <1>1, <1>2 DEF IInv

LEMMA SucceedInv ==
  ASSUME IInv, NEW m \in Makers, Succeed(m)
  PROVE  IInv'
<1>1. TypeOK' /\ ErrorInv' /\ CheckInv'
  BY DEF IInv, Succeed, makers, TypeOK, ErrorInv, CheckInv, CheckedFirst, Ended, RootCause
<1>2. ASSUME NEW n \in Makers PROVE TaskInv(n)'
  BY DEF IInv, Succeed, makers, TypeOK, TaskInv, Ended, RootCause, ClientMissing
<1> QED
  BY <1>1, <1>2 DEF IInv

\* A maker throws; if it was cancelled, another has failed before.
LEMMA ThrowInv ==
  ASSUME IInv, NEW m \in Makers, ReturnNull(m) \/ MakerFails(m) \/ MakerCancelled(m)
  PROVE  IInv'
<1>1. PICK why \in {"null", "failure", "cancelled"} : Throw(m, why) /\ (why = "cancelled" => stop)
  BY DEF ReturnNull, MakerFails, MakerCancelled
<1>2. TypeOK /\ TypeOK' /\ task[m] = "running"
  BY <1>1 DEF IInv, Throw, makers, TypeOK
<1>3. cause[m] = "none" \/ RootCause
  BY DEF IInv, TaskInv
<1>4. RootCause'
  <2>1. CASE why = "cancelled"
    <3>1. PICK n \in Makers : cause[n] \in {"failure", "null"}
      BY <1>1, <1>2, <2>1 DEF IInv, ErrorInv, RootCause
    <3>2. cause[m] = "none"
      BY <1>1 DEF IInv, Throw, TaskInv, TypeOK
    <3>3. cause'[n] = cause[n]
      BY <1>1, <1>2, <3>1, <3>2 DEF Throw, TypeOK
    <3> QED
      BY <3>1, <3>3 DEF RootCause
  <2>2. CASE why # "cancelled"
    BY <1>1, <1>2, <2>2 DEF Throw, TypeOK, RootCause
  <2> QED
    BY <2>1, <2>2
<1>5. ErrorInv' /\ CheckInv'
  BY <1>1, <1>4 DEF IInv, Throw, makers, ErrorInv, CheckInv, CheckedFirst
<1>6. ASSUME NEW n \in Makers PROVE TaskInv(n)'
  BY <1>1, <1>2, <1>4 DEF IInv, Throw, makers, TypeOK, TaskInv, Ended, ClientMissing
<1> QED
  BY <1>2, <1>5, <1>6 DEF IInv

LEMMA RequestStopInv ==
  ASSUME IInv, NEW m \in Makers, RequestStop(m)
  PROVE  IInv'
<1>1. TypeOK' /\ ErrorInv' /\ CheckInv'
  BY DEF IInv, RequestStop, makers, TypeOK, TaskInv, ErrorInv, CheckInv, CheckedFirst, Ended, RootCause
<1>2. ASSUME NEW n \in Makers PROVE TaskInv(n)'
  BY DEF IInv, RequestStop, makers, TypeOK, TaskInv, Ended, RootCause, ClientMissing
<1> QED
  BY <1>1, <1>2 DEF IInv

LEMMA RecordInv ==
  ASSUME IInv, NEW m \in Makers, Record(m)
  PROVE  IInv'
<1>1. TypeOK' /\ ErrorInv' /\ CheckInv' /\ ~Ended
  BY DEF IInv, Record, makers, TypeOK, TaskInv, ErrorInv, CheckInv, CheckedFirst, Ended, RootCause
<1>2. firstError' # None
  BY NoneIsNoMaker DEF Record
<1>3. ASSUME NEW n \in Makers PROVE TaskInv(n)'
  BY <1>1, <1>2 DEF IInv, Record, makers, TypeOK, TaskInv, Ended, RootCause, ClientMissing
<1> QED
  BY <1>1, <1>3 DEF IInv

LEMMA StepInv == IInv /\ [Next]_vars => IInv'
<1> SUFFICES ASSUME IInv, [Next]_vars PROVE IInv'
  OBVIOUS
<1>1. ASSUME NEW m \in Makers, Launch(m) \/ Task(m) PROVE IInv'
  BY <1>1, LaunchInv, SucceedInv, ThrowInv, RequestStopInv, RecordInv DEF Task
<1>2. CASE UNCHANGED vars
  BY <1>2 DEF vars, makers, IInv, TypeOK, TaskInv, ErrorInv, CheckInv, CheckedFirst, Ended, RootCause,
     ClientMissing
<1> QED
  BY <1>1, <1>2, CheckMakersInv, AwaitRouterInv, RefuseClientInv, JoinInv DEF Next, Finished

LEMMA IInvHolds == Spec => []IInv
BY InitInv, StepInv, PTL DEF Spec

\* Type correctness of the construction.
THEOREM MakerTypeCorrect == Spec => []TypeOK
BY IInvHolds, PTL DEF IInv

\* No coroutine outlives the locals it points at, however many makers fail,
\* unless the maker of a client is missing.
THEOREM TasksAreJoined == Spec => []NoTaskOutlivesInit
<1>1. IInv => NoTaskOutlivesInit
  BY DEF IInv, TaskInv, NoTaskOutlivesInit, ClientMissing
<1> QED
  BY <1>1, IInvHolds, PTL

\* A construction returns only when everything has been made.
THEOREM ReturnIsComplete == Spec => []ReturnedIsComplete
<1>1. IInv => ReturnedIsComplete
  BY DEF IInv, TaskInv, ErrorInv, ReturnedIsComplete
<1> QED
  BY <1>1, IInvHolds, PTL

\* A cancellation is always the consequence of a failure.
THEOREM ErrorsHaveACause == Spec => []ErrorHasACause
<1>1. IInv => ErrorHasACause
  <2> SUFFICES ASSUME IInv, init = "threw", configured = Makers, router \notin {"missing", "failed"}
               PROVE  firstError # None /\ RootCause
    BY DEF ErrorHasACause, RootCause
  <2>1. firstError \in Makers /\ firstError # None
    BY DEF IInv, TypeOK, ErrorInv
  <2> QED
    BY <2>1 DEF IInv, TaskInv
<1> QED
  BY <1>1, IInvHolds, PTL
=============================================================================
