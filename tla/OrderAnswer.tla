---------------------------- MODULE OrderAnswer ----------------------------
(***************************************************************************)
(* What orderservice promises a client of ProcessOrder, without threads,   *)
(* streams or callbacks (spec/orderservice/task6.md:16-18): every order    *)
(* gets one answer; CONFIRMED when inventory reserved all its lines,       *)
(* PARTIALLY_CONFIRMED when all lines were settled but not all reserved,   *)
(* TIMED_OUT or a failure otherwise.  Lines may still settle afterwards.   *)
(***************************************************************************)
EXTENDS FiniteSets

CONSTANTS Orders, Items

VARIABLES
  submitted,  \* the lines of each accepted order, {} before it is accepted
  outcome,    \* what inventory settled for each line
  answer      \* the answer given to the client

vars == <<submitted, outcome, answer>>

Answers == {"none", "REJECTED", "CONFIRMED", "PARTIALLY_CONFIRMED", "TIMED_OUT", "FAILED"}

TypeOK ==
  /\ submitted \in [Orders -> SUBSET Items]
  /\ outcome   \in [Orders -> [Items -> {"none", "reserved", "refused"}]]
  /\ answer    \in [Orders -> Answers]

Init ==
  /\ submitted = [o \in Orders |-> {}]
  /\ outcome   = [o \in Orders |-> [i \in Items |-> "none"]]
  /\ answer    = [o \in Orders |-> "none"]

Give(o, a) ==
  /\ answer[o] = "none"
  /\ answer' = [answer EXCEPT ![o] = a]
  /\ UNCHANGED <<submitted, outcome>>

Submit(o, lines) ==
  /\ submitted[o] = {} /\ answer[o] = "none"
  /\ lines # {}
  /\ submitted' = [submitted EXCEPT ![o] = lines]
  /\ UNCHANGED <<outcome, answer>>

Reject(o) == submitted[o] = {} /\ Give(o, "REJECTED")

Settle(o, i, result) ==
  /\ i \in submitted[o]
  /\ outcome[o][i] = "none"
  /\ outcome' = [outcome EXCEPT ![o][i] = result]
  /\ UNCHANGED <<submitted, answer>>

Confirm(o) ==
  /\ submitted[o] # {}
  /\ \A i \in submitted[o] : outcome[o][i] = "reserved"
  /\ Give(o, "CONFIRMED")

ConfirmPartially(o) ==
  /\ \A i \in submitted[o] : outcome[o][i] # "none"
  /\ \E i \in submitted[o] : outcome[o][i] = "refused"
  /\ Give(o, "PARTIALLY_CONFIRMED")

TimeOut(o) == submitted[o] # {} /\ Give(o, "TIMED_OUT")

Fail(o) == submitted[o] # {} /\ Give(o, "FAILED")

Answer(o) == Confirm(o) \/ ConfirmPartially(o) \/ TimeOut(o) \/ Fail(o)

Next ==
  \E o \in Orders :
    \/ \E lines \in SUBSET Items : Submit(o, lines)
    \/ Reject(o)
    \/ \E i \in Items, result \in {"reserved", "refused"} : Settle(o, i, result)
    \/ Answer(o)

Spec == Init /\ [][Next]_vars

\* An accepted order is always answered.
FairSpec == Spec /\ \A o \in Orders : WF_vars(Answer(o))

\* An answer given is never replaced (spec/orderservice/task6.md:18).
AnswersAreFinal == [][\A o \in Orders : answer[o] # "none" => answer'[o] = answer[o]]_vars
=============================================================================
