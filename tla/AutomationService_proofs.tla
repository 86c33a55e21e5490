---------------------- MODULE AutomationService_proofs ----------------------
(***************************************************************************)
(* Proofs about automationservice, for any number of makers, workflow      *)
(* tasks and signals, with and without GORUNDEBUG_TEST.                    *)
(***************************************************************************)
EXTENDS AutomationService, TLAPS

(***************************************************************************)
(* The inductive invariant: what each part of the service knows of where   *)
(* main() is.                                                              *)
(***************************************************************************)
MakersInv ==
  /\ main \in {"making", "building"} => \A m \in Makers : maker[m] = "idle"
  /\ main = "joining" => \A m \in Makers : maker[m] # "idle"
  /\ StartIsWholeOrCaused

\* A signal that nobody has received is in the channel; only a test closes it.
ChannelInv ==
  /\ main \in {"making", "building", "joining", "graph", "starting", "serving"} /\ signals > 0
       => pending > 0 \/ stop = "closed"
  /\ pending > 0 => signals > 0
  /\ stop = "closed" => mode = "test"
  /\ main \in {"stopping", "closing", "exit0"} => signals > 0 \/ mode = "test"
  /\ main = "panic" => mode = "test" /\ signals > 0

\* Nothing is stopped before a stop was received, and what stopped the runtime
\* was the end of its work or the deadline.
StopInv ==
  /\ main \notin {"stopping", "closing", "exit0", "panic"} =>
       deadline = "ahead" /\ cleanup = "none" /\ runtime \in {"none", "running"}
  /\ runtime = "stopped" => deadline = "passed" \/ \A j \in Jobs : ~Busy(j)
  /\ cleanup # "none" => deadline = "passed" \/ runtime = "stopped"
  /\ main = "exit0" => deadline = "passed" \/ (runtime = "stopped" /\ cleanup = "ended")

\* The makers of a workflow run in order, and all before the first error made
\* their functions.
JobInv(j) ==
  /\ job[j].stage = "none" => job[j] = NoJob
  /\ job[j].stage \in {"executing", "ended"} => job[j].made = Makers
  /\ job[j].error = 0 => job[j].made = 1..job[j].tried
  /\ job[j].error # 0 => /\ job[j].error <= job[j].tried
                         /\ job[j].error \notin job[j].made
                         /\ 1..(job[j].error - 1) \subseteq job[j].made

IInv == TypeOK /\ MakersInv /\ ChannelInv /\ StopInv /\ \A j \in Jobs : JobInv(j)

JobRecords == [stage : {"none", "building", "executing", "ended", "failed"},
               tried : 0..N, made : SUBSET Makers, error : 0..N]

LEMMA InitInv == Init => IInv
<1> SUFFICES ASSUME Init PROVE IInv
  OBVIOUS
<1>1. TypeOK
  BY AutomationAssumption DEF Init, TypeOK, Stages, NoJob
<1>2. MakersInv /\ ChannelInv /\ StopInv
  BY DEF Init, MakersInv, StartIsWholeOrCaused, HasStarted, ChannelInv, StopInv
<1>3. ASSUME NEW j \in Jobs PROVE JobInv(j)
  <2>1. job[j] = NoJob /\ 1..0 = {}
    BY DEF Init
  <2> QED
    BY <2>1 DEF JobInv, NoJob
<1> QED
  BY <1>1, <1>2, <1>3 DEF IInv

\* Makers and causes change in the construction only, jobs in the workflows only.
LEMMA SameMakers ==
  ASSUME IInv, UNCHANGED functions,
         \/ main' = main
         \/ main' \in {"graph", "starting", "serving", "stopping", "closing", "exit0"} /\ HasStarted
         \/ main' \in {"failed", "exit1", "panic"}
  PROVE  MakersInv'
BY DEF IInv, MakersInv, StartIsWholeOrCaused, HasStarted, functions

LEMMA SameJobs == ASSUME IInv, UNCHANGED job PROVE \A j \in Jobs : JobInv(j)'
BY DEF IInv, JobInv

LEMMA StartStepInv == IInv /\ StartStep => IInv'
<1> SUFFICES ASSUME IInv, StartStep PROVE IInv'
  OBVIOUS
<1> USE DEF Go, channel, functions, stopping
<1>1. CASE MakeService
  BY <1>1, SameJobs DEF MakeService, IInv, TypeOK, Stages, MakersInv, StartIsWholeOrCaused, HasStarted,
     ChannelInv, StopInv, Busy
<1>2. CASE ScheduleFunctions
  <2>1. /\ maker' = [m \in Makers |-> "running"] /\ cause' = cause
        /\ main = "building" /\ main' = "joining"
        /\ UNCHANGED <<channel, stopping, job>>
    BY <1>2 DEF ScheduleFunctions
  <2>2. cause = 0
    BY <2>1 DEF IInv, TypeOK, MakersInv, StartIsWholeOrCaused, Makers
  <2>3. TypeOK' /\ ChannelInv' /\ StopInv'
    BY <2>1 DEF IInv, TypeOK, Stages, ChannelInv, StopInv, Busy
  <2>4. MakersInv'
    BY <2>1, <2>2 DEF MakersInv, StartIsWholeOrCaused, HasStarted
  <2> QED
    BY <2>1, <2>3, <2>4, SameJobs DEF IInv
<1>3. ASSUME NEW m \in Makers, EndMaker(m) PROVE IInv'
  <2>1. PICK end \in {"made", "failed"} \cup (IF cause = 0 THEN {} ELSE {"cancelled"}) :
          /\ maker' = [maker EXCEPT ![m] = end]
          /\ cause' = IF end # "made" /\ cause = 0 THEN m ELSE cause
    BY <1>3 DEF EndMaker
  <2>2. maker[m] = "running" /\ UNCHANGED <<main, channel, stopping, job>>
    BY <1>3 DEF EndMaker
  <2>3. TypeOK' /\ ChannelInv' /\ StopInv'
    <3>1. main' = main /\ UNCHANGED channel /\ UNCHANGED stopping /\ job' = job
      BY <2>2
    <3>2. ChannelInv' /\ StopInv'
      BY <3>1 DEF IInv, ChannelInv, StopInv, Busy
    <3>3. maker' \in [Makers -> {"idle", "running", "made", "failed", "cancelled"}]
      BY <2>1 DEF IInv, TypeOK
    <3>4. cause' \in 0..N
      BY <2>1, AutomationAssumption DEF IInv, TypeOK, Makers
    <3> QED
      BY <3>1, <3>2, <3>3, <3>4 DEF IInv, TypeOK
  <2>4. \A n \in Makers : maker'[n] = IF n = m THEN end ELSE maker[n]
    BY <2>1 DEF IInv, TypeOK
  <2>5. m # 0 /\ m \in 1..N
    BY AutomationAssumption DEF Makers
  <2>6. StartIsWholeOrCaused'
    <3>1. ~HasStarted' /\ main' = main
      BY <2>2 DEF IInv, MakersInv, StartIsWholeOrCaused, HasStarted
    <3>2. cause \in Makers \cup {0}
      BY AutomationAssumption DEF IInv, TypeOK, Makers
    <3>3. CASE cause = 0
      BY <2>1, <2>4, <2>5, <3>1, <3>3 DEF IInv, MakersInv, StartIsWholeOrCaused
    <3>4. CASE cause # 0
      <4>1. cause' = cause /\ cause # m /\ maker'[cause] = "failed"
        BY <2>1, <2>2, <2>4, <3>2, <3>4 DEF IInv, MakersInv, StartIsWholeOrCaused
      <4> QED
        BY <3>1, <3>2, <3>4, <4>1 DEF StartIsWholeOrCaused
    <3> QED
      BY <3>3, <3>4
  <2>7. MakersInv'
    BY <2>1, <2>2, <2>4, <2>6 DEF IInv, MakersInv
  <2> QED
    BY <2>2, <2>3, <2>7, SameJobs DEF IInv
<1>4. CASE JoinFunctions
  <2>1. /\ main = "joining" /\ main' = IF cause = 0 THEN "graph" ELSE "failed"
        /\ \A m \in Makers : maker[m] # "running"
        /\ UNCHANGED <<channel, functions, stopping, job>>
    BY <1>4 DEF JoinFunctions
  <2>2. cause = 0 => \A m \in Makers : maker[m] = "made"
    BY <2>1 DEF IInv, TypeOK, MakersInv, StartIsWholeOrCaused
  <2>3. MakersInv'
    BY <2>1, <2>2 DEF IInv, MakersInv, StartIsWholeOrCaused, HasStarted
  <2>4. TypeOK' /\ ChannelInv' /\ StopInv'
    BY <2>1 DEF IInv, TypeOK, Stages, ChannelInv, StopInv, Busy
  <2> QED
    BY <2>1, <2>3, <2>4, SameJobs DEF IInv
<1>5. CASE BuildGraph \/ AcceptWork \/ Started \/ StartFails \/ ExitFailed
  <2>1. UNCHANGED <<channel, functions, deadline, cleanup, job>>
    BY <1>5 DEF BuildGraph, AcceptWork, Started, StartFails, ExitFailed
  <2>2. MakersInv'
    BY <1>5, <2>1, SameMakers DEF BuildGraph, AcceptWork, Started, StartFails, ExitFailed, HasStarted
  <2>3. TypeOK' /\ ChannelInv' /\ StopInv'
    BY <1>5, <2>1 DEF BuildGraph, AcceptWork, Started, StartFails, ExitFailed, IInv, TypeOK, Stages,
       ChannelInv, StopInv, Busy
  <2> QED
    BY <2>1, <2>2, <2>3, SameJobs DEF IInv
<1> QED
  BY <1>1, <1>2, <1>3, <1>4, <1>5 DEF StartStep

LEMMA StopStepInv == IInv /\ StopStep => IInv'
<1> SUFFICES ASSUME IInv, StopStep PROVE IInv'
  OBVIOUS
<1> USE DEF Go, channel, functions, stopping
<1>1. UNCHANGED <<functions, job>>
  BY DEF StopStep, Signal, CloseStop, ReceiveStop, StopRuntime, RuntimeStops, Expire, CloseClients,
     CallStop, StopReturns, Exit
<1>2. MakersInv'
  <2>1. \/ main' = main
        \/ main' \in {"stopping", "closing", "exit0"} /\ HasStarted
        \/ main' = "panic"
    <3>1. CASE Signal \/ ReceiveStop \/ CloseClients \/ Exit
      BY <3>1 DEF Signal, ReceiveStop, CloseClients, Exit, HasStarted
    <3>2. CASE CloseStop \/ StopRuntime \/ RuntimeStops \/ Expire \/ CallStop \/ StopReturns
      BY <3>2 DEF CloseStop, StopRuntime, RuntimeStops, Expire, CallStop, StopReturns
    <3> QED
      BY <3>1, <3>2 DEF StopStep
  <2> QED
    BY <1>1, <2>1, SameMakers
<1>3. TypeOK'
  <2>1. TypeOK /\ pending \in 0..2 /\ signals \in 0..MaxSignals /\ MaxSignals \in Nat
    BY AutomationAssumption DEF IInv, TypeOK
  <2>2. CASE Signal
    <3>1. pending' \in 0..2
      BY <2>1, <2>2 DEF Signal
    <3>2. signals' \in 0..MaxSignals
      BY <2>1, <2>2 DEF Signal
    <3>3. main' \in Stages /\ UNCHANGED <<mode, stop, functions, stopping, job>>
      BY <2>1, <2>2 DEF Signal, TypeOK, Stages
    <3> QED
      BY <2>1, <3>1, <3>2, <3>3 DEF TypeOK
  <2>3. CASE ReceiveStop
    BY <1>1, <2>1, <2>3 DEF ReceiveStop, TypeOK, Stages
  <2>4. CASE CloseStop \/ StopRuntime \/ RuntimeStops \/ Expire
    BY <1>1, <2>1, <2>4 DEF CloseStop, StopRuntime, RuntimeStops, Expire, TypeOK, Stages
  <2>5. CASE CloseClients \/ CallStop \/ StopReturns \/ Exit
    BY <1>1, <2>1, <2>5 DEF CloseClients, CallStop, StopReturns, Exit, TypeOK, Stages
  <2> QED
    BY <2>2, <2>3, <2>4, <2>5 DEF StopStep
<1>4. ChannelInv'
  <2>1. pending \in Nat /\ signals \in Nat /\ stop \in {"open", "closed"}
    BY AutomationAssumption DEF IInv, TypeOK
  <2>2. ChannelInv
    BY DEF IInv
  <2>3. CASE Signal
    BY <2>1, <2>2, <2>3 DEF Signal, Open, ChannelInv
  <2>4. CASE CloseStop \/ ReceiveStop
    BY <2>1, <2>2, <2>4 DEF CloseStop, ReceiveStop, ChannelInv
  <2>5. CASE StopRuntime \/ RuntimeStops \/ Expire \/ CallStop \/ StopReturns
    BY <2>2, <2>5 DEF StopRuntime, RuntimeStops, Expire, CallStop, StopReturns, ChannelInv
  <2>6. CASE CloseClients \/ Exit
    BY <2>2, <2>6 DEF CloseClients, Exit, ChannelInv
  <2> QED
    BY <2>3, <2>4, <2>5, <2>6 DEF StopStep
<1>5. StopInv'
  <2>1. StopInv /\ \A j \in Jobs : Busy(j)' <=> Busy(j)
    BY <1>1 DEF IInv, Busy
  <2>2. CASE Signal \/ CloseStop \/ ReceiveStop
    BY <2>1, <2>2 DEF Signal, Open, CloseStop, ReceiveStop, StopInv
  <2>3. CASE StopRuntime \/ RuntimeStops \/ Expire
    BY <2>1, <2>3 DEF StopRuntime, RuntimeStops, Expire, Over, StopInv
  <2>4. CASE CloseClients \/ CallStop \/ StopReturns \/ Exit
    BY <2>1, <2>4 DEF CloseClients, CallStop, StopReturns, Exit, StopInv
  <2> QED
    BY <2>2, <2>3, <2>4 DEF StopStep
<1> QED
  BY <1>1, <1>2, <1>3, <1>4, <1>5, SameJobs DEF IInv

LEMMA BeginWorkflowInv == ASSUME IInv, NEW j \in Jobs, BeginWorkflow(j) PROVE IInv'
<1> USE DEF channel, functions, stopping
<1>1. PICK stage \in {"building", "failed"} : job' = [job EXCEPT ![j].stage = stage]
  BY DEF BeginWorkflow
<1>2. /\ runtime = "running" /\ job[j].stage = "none"
      /\ UNCHANGED <<main, channel, functions, stopping>>
  BY DEF BeginWorkflow
<1>3. job[j] = NoJob
  BY <1>2 DEF IInv, JobInv
<1>4. /\ job'[j] = [stage |-> stage, tried |-> 0, made |-> {}, error |-> 0]
      /\ \A k \in Jobs \ {j} : job'[k] = job[k]
  <2>1. job' = [job EXCEPT ![j] = [job[j] EXCEPT !.stage = stage]]
    BY <1>1
  <2>2. [NoJob EXCEPT !.stage = stage] = [stage |-> stage, tried |-> 0, made |-> {}, error |-> 0]
    BY DEF NoJob
  <2> QED
    BY <1>3, <2>1, <2>2 DEF IInv, TypeOK
<1>5. TypeOK'
  <2>1. 0 \in 0..N /\ {} \in SUBSET Makers
    BY AutomationAssumption
  <2>2. job' \in [Jobs -> JobRecords]
    BY <1>1, <1>3, <2>1 DEF IInv, TypeOK, NoJob, JobRecords
  <2> QED
    BY <1>2, <2>2 DEF IInv, TypeOK, JobRecords
<1>6. MakersInv' /\ ChannelInv'
  BY <1>2 DEF IInv, MakersInv, StartIsWholeOrCaused, HasStarted, ChannelInv
<1>7. StopInv'
  BY <1>2 DEF IInv, StopInv
<1>8. ASSUME NEW k \in Jobs PROVE JobInv(k)'
  <2>1. CASE k = j
    <3>1. 1..0 = {}
      OBVIOUS
    <3>2. /\ job'[k].stage \notin {"none", "executing", "ended"}
          /\ job'[k].error = 0 /\ job'[k].made = {} /\ job'[k].tried = 0
      BY <1>1, <1>4, <2>1
    <3> QED
      BY <3>1, <3>2 DEF JobInv
  <2>2. CASE k # j
    BY <1>4, <2>2 DEF IInv, JobInv
  <2> QED
    BY <2>1, <2>2
<1> QED
  BY <1>5, <1>6, <1>7, <1>8 DEF IInv

\* What the steps of a workflow that was begun have in common: nothing else moves
\* and no job becomes busy.
LEMMA WorkflowFrame ==
  ASSUME IInv, NEW j \in Jobs, UNCHANGED <<main, channel, functions, stopping>>,
         job' \in [Jobs -> JobRecords], \A k \in Jobs \ {j} : job'[k] = job[k],
         Busy(j), job'[j].stage # "none",
         job'[j].stage \in {"executing", "ended"} => job'[j].made = Makers,
         job'[j].error = 0 => job'[j].made = 1..job'[j].tried,
         job'[j].error # 0 => /\ job'[j].error <= job'[j].tried
                              /\ job'[j].error \notin job'[j].made
                              /\ 1..(job'[j].error - 1) \subseteq job'[j].made
  PROVE  IInv'
<1> USE DEF channel, functions, stopping
<1>1. TypeOK'
  BY DEF IInv, TypeOK, JobRecords
<1>2. MakersInv' /\ ChannelInv'
  BY DEF IInv, MakersInv, StartIsWholeOrCaused, HasStarted, ChannelInv
<1>3. runtime = "stopped" => deadline = "passed"
  BY DEF IInv, StopInv
<1>4. StopInv'
  BY <1>3 DEF IInv, StopInv
<1>5. ASSUME NEW k \in Jobs PROVE JobInv(k)'
  <2>1. CASE k = j
    BY <2>1 DEF JobInv
  <2>2. CASE k # j
    BY <2>2 DEF IInv, JobInv
  <2> QED
    BY <2>1, <2>2
<1> QED
  BY <1>1, <1>2, <1>4, <1>5 DEF IInv

LEMMA MakeInWorkflowInv == ASSUME IInv, NEW j \in Jobs, MakeInWorkflow(j) PROVE IInv'
<1> DEFINE m == job[j].tried + 1
<1>1. /\ job \in [Jobs -> JobRecords] /\ JobInv(j) /\ N \in Nat
  BY AutomationAssumption DEF IInv, TypeOK, JobRecords
<1>2. /\ m \in Makers /\ job[j].stage = "building" /\ Busy(j)
      /\ UNCHANGED <<main, channel, functions, stopping>>
  BY DEF MakeInWorkflow, Building, Busy
<1>3. /\ job[j].tried \in 0..N /\ job[j].error \in 0..N /\ job[j].made \in SUBSET Makers
      /\ m \in 1..N /\ m \in 0..N
      /\ 1..m = (1..job[j].tried) \cup {m}
  BY <1>1, <1>2 DEF Makers, JobRecords
<1>4. CASE job' = [job EXCEPT ![j].tried = m, ![j].made = @ \cup {m}]
  <2>1. job' \in [Jobs -> JobRecords] /\ \A k \in Jobs \ {j} : job'[k] = job[k]
    BY <1>1, <1>2, <1>3, <1>4 DEF JobRecords
  <2>2. /\ job'[j].tried = m /\ job'[j].made = job[j].made \cup {m}
        /\ job'[j].stage = "building" /\ job'[j].error = job[j].error
    BY <1>1, <1>2, <1>4 DEF JobRecords
  <2>3. job'[j].error = 0 => job'[j].made = 1..job'[j].tried
    BY <1>1, <1>3, <2>2 DEF JobInv
  <2>4. job'[j].error # 0 => /\ job'[j].error <= job'[j].tried
                             /\ job'[j].error \notin job'[j].made
                             /\ 1..(job'[j].error - 1) \subseteq job'[j].made
    BY <1>1, <1>3, <2>2 DEF JobInv
  <2> QED
    BY <1>2, <2>1, <2>2, <2>3, <2>4, WorkflowFrame
<1>5. CASE job' = [job EXCEPT ![j].tried = m, ![j].error = IF @ = 0 THEN m ELSE @]
  <2>1. job' \in [Jobs -> JobRecords] /\ \A k \in Jobs \ {j} : job'[k] = job[k]
    BY <1>1, <1>2, <1>3, <1>5 DEF JobRecords
  <2>2. /\ job'[j].tried = m /\ job'[j].made = job[j].made
        /\ job'[j].stage = "building"
        /\ job'[j].error = IF job[j].error = 0 THEN m ELSE job[j].error
    BY <1>1, <1>2, <1>5 DEF JobRecords
  <2>3. /\ job'[j].error # 0
        /\ job'[j].error <= job'[j].tried
        /\ job'[j].error \notin job'[j].made
        /\ 1..(job'[j].error - 1) \subseteq job'[j].made
    BY <1>1, <1>3, <2>2 DEF JobInv
  <2> QED
    BY <1>2, <2>1, <2>2, <2>3, WorkflowFrame
<1> QED
  BY <1>4, <1>5 DEF MakeInWorkflow

LEMMA BuildOrEndInv ==
  ASSUME IInv, NEW j \in Jobs, BuildWorkflowGraph(j) \/ EndWorkflow(j) PROVE IInv'
<1>1. /\ job \in [Jobs -> JobRecords] /\ JobInv(j) /\ N \in Nat
  BY AutomationAssumption DEF IInv, TypeOK, JobRecords
<1>2. Busy(j) /\ UNCHANGED <<main, channel, functions, stopping>>
  BY DEF BuildWorkflowGraph, EndWorkflow, Building, Busy
<1>3. PICK stage \in {"executing", "ended", "failed"} :
        /\ job' = [job EXCEPT ![j].stage = stage]
        /\ stage \in {"executing", "ended"} => job[j].made = Makers
  <2>1. CASE BuildWorkflowGraph(j)
    BY <1>1, <2>1 DEF BuildWorkflowGraph, JobInv, Makers
  <2>2. CASE EndWorkflow(j)
    BY <1>1, <2>2 DEF EndWorkflow, JobInv
  <2> QED
    BY <2>1, <2>2
<1>4. job' \in [Jobs -> JobRecords] /\ \A k \in Jobs \ {j} : job'[k] = job[k]
  BY <1>1, <1>3 DEF JobRecords
<1>5. /\ job'[j].stage = stage /\ job'[j].tried = job[j].tried
      /\ job'[j].made = job[j].made /\ job'[j].error = job[j].error
  BY <1>1, <1>3 DEF JobRecords
<1> QED
  BY <1>1, <1>2, <1>3, <1>4, <1>5, WorkflowFrame DEF JobInv

LEMMA StepInv == IInv /\ [Next]_vars => IInv'
<1> SUFFICES ASSUME IInv, [Next]_vars PROVE IInv'
  OBVIOUS
<1>1. CASE StartStep
  BY <1>1, StartStepInv
<1>2. CASE StopStep
  BY <1>2, StopStepInv
<1>3. ASSUME NEW j \in Jobs, WorkflowStep(j) PROVE IInv'
  BY <1>3, BeginWorkflowInv, MakeInWorkflowInv, BuildOrEndInv DEF WorkflowStep
<1>4. CASE UNCHANGED vars
  <2>1. MakersInv' /\ ChannelInv' /\ StopInv'
    BY <1>4 DEF vars, IInv, MakersInv, StartIsWholeOrCaused, HasStarted, ChannelInv, StopInv, Busy
  <2>2. TypeOK' /\ \A j \in Jobs : JobInv(j)'
    BY <1>4 DEF vars, IInv, TypeOK, JobInv
  <2> QED
    BY <2>1, <2>2 DEF IInv
<1> QED
  BY <1>1, <1>2, <1>3, <1>4 DEF Next, Terminated

LEMMA IInvHolds == Spec => []IInv
BY InitInv, StepInv, PTL DEF Spec

(***************************************************************************)
(* The theorems.                                                           *)
(***************************************************************************)

\* Every variable of the Go service keeps its type (service.generated.go).
THEOREM AutomationTypeCorrect == Spec => []TypeOK
<1>1. IInv => TypeOK
  BY DEF IInv
<1> QED
  BY <1>1, IInvHolds, PTL

\* A signal that comes while Start() constructs the service is received when it
\* serves: the channel is buffered before the construction begins.
THEOREM SignalsKept == Spec => []SignalsAreKept
<1>1. IInv => SignalsAreKept
  BY DEF IInv, ChannelInv, SignalsAreKept
<1> QED
  BY <1>1, IInvHolds, PTL

\* initFunctions gives a service with every function, or the error of the maker
\* that failed first.
THEOREM StartsWholeOrCaused == Spec => []StartIsWholeOrCaused
<1>1. IInv => StartIsWholeOrCaused
  BY DEF IInv, MakersInv
<1> QED
  BY <1>1, IInvHolds, PTL

\* The graph of a workflow, or the error it fails with, is the same in each replay
\* of the task: makers are tried in order and the first error is kept.
THEOREM WorkflowsReplay == Spec => []WorkflowsAreReplayable
<1>1. IInv => WorkflowsAreReplayable
  BY DEF IInv, JobInv, WorkflowsAreReplayable
<1> QED
  BY <1>1, IInvHolds, PTL

\* StopService closes the clients when no workflow can need them, or its deadline
\* has passed.
THEOREM CleanupComesLast == Spec => []CleanupIsLast
<1>1. IInv => CleanupIsLast
  BY DEF IInv, StopInv, CleanupIsLast
<1> QED
  BY <1>1, IInvHolds, PTL

\* What main() may conclude from the exit of Start().
THEOREM ExitCodesAreTrue == Spec => []ExitCodeIsTrue
<1>1. IInv => ExitCodeIsTrue
  BY DEF IInv, ChannelInv, StopInv, ExitCodeIsTrue
<1> QED
  BY <1>1, IInvHolds, PTL
=============================================================================
