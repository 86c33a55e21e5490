----------------------- MODULE OrderProcessing_proofs -----------------------
(***************************************************************************)
(* Proofs about the order pipeline, for any number of orders and lines and *)
(* every interleaving of the request, the inventory calls and the delay.   *)
(***************************************************************************)
EXTENDS OrderProcessing, FiniteSetTheorems, TLAPS

(***************************************************************************)
(* The inductive invariant, order by order.  A result travels from its     *)
(* call to the vector once: what is on the way is of an ended call, not    *)
(* yet in the vector and nowhere twice.  Hence the length of the vector    *)
(* counts distinct lines, which is what the callback compares with the     *)
(* number of lines submitted.                                              *)
(***************************************************************************)
InFlight(o) == merged[o] \cup entered[o]

Untouched(o) ==
  /\ \A i \in Items : call[o][i] = "unsent"
  /\ timer[o] = "unarmed"
  /\ InFlight(o) = {}
  /\ ~callback[o]
  /\ results[o] = << >>
  /\ ~responseSent[o]

\* Nothing moves before consumeMessage, or without a SharedState; only lines
\* of the order are sent.
FreshIsUntouched(o) ==
  /\ request[o] \in {"idle", "begun"} \/ order[o] = {} => Untouched(o)
  /\ request[o] = "idle" => order[o] = {}
  /\ request[o] \in {"begun", "dispatching", "awaiting"} => order[o] # {}
  /\ \A i \in Items : call[o][i] # "unsent" => i \in order[o]

CallbackWaits(o) ==
  request[o] \in {"dispatching", "awaiting"} /\ ~responseSent[o] => callback[o]

Carried(o, r) == MapOrderItemResultToOrderState(r) \in InFlight(o)

InFlightIsNew(o) ==
  /\ InFlight(o) \subseteq published[o]
  /\ \A r \in ItemResults : Carried(o, r) =>
       r.item \in order[o] /\ call[o][r.item] = "done" /\ r.item \notin ItemsOf(results[o])
  /\ \A r, q \in ItemResults : Carried(o, r) /\ Carried(o, q) /\ r.item = q.item => r = q
  /\ \A r \in ItemResults : MapOrderItemResultToOrderState(r) \notin merged[o] \cap entered[o]

ResultsAreDistinct(o) ==
  /\ \A i \in ItemsOf(results[o]) : i \in order[o] /\ call[o][i] = "done"
  /\ Len(results[o]) = Cardinality(ItemsOf(results[o]))
  /\ \A k \in DOMAIN results[o] : MapOrderItemResultToOrderState(results[o][k]) \in published[o]

ResultMissing(o) ==
  ~responseSent[o] /\ order[o] # {} => Len(results[o]) < Cardinality(order[o])

Justified(o, status) ==
  IF status = "TIMED_OUT"
  THEN Len(results[o]) < Cardinality(order[o])
  ELSE Len(results[o]) >= Cardinality(order[o]) /\ status = CompleteStatus(results[o])

AnswerIsOfResults(o) ==
  /\ response[o].code = 200 <=> responseSent[o]
  /\ responseSent[o] =>
       response[o] = OrderResponse(o, response[o].status, results[o])
       /\ Justified(o, response[o].status)

FailureIsLast(o) ==
  Answered(o) /\ ~responseSent[o] =>
    request[o] \in {"failed", "ended"} /\ ~callback[o] /\ entered[o] = {}

DoneIsKept(o) ==
  request[o] \in {"dispatching", "awaiting"} /\ ~Answered(o) =>
    \A i \in order[o] : call[o][i] = "done" =>
      i \in ItemsOf(results[o]) \/ \E r \in ItemResults : r.item = i /\ Carried(o, r)

OrderInv(o) ==
  /\ FreshIsUntouched(o)
  /\ CallbackWaits(o)
  /\ InFlightIsNew(o)
  /\ ResultsAreDistinct(o)
  /\ ResultMissing(o)
  /\ AnswerIsOfResults(o)
  /\ FailureIsLast(o)
  /\ DoneIsKept(o)

IInv == TypeOK /\ \A o \in Orders : OrderInv(o)

(***************************************************************************)
(* The data.                                                               *)
(***************************************************************************)

\* An order state made of a result carries that result and is no timeout.
LEMMA OrderStateCarries ==
  ASSUME NEW r \in ItemResults
  PROVE  LET s == MapOrderItemResultToOrderState(r) IN
         /\ s \in OrderStates
         /\ s.status # "TIMED_OUT"
         /\ s.status = IF r.reserved THEN "CONFIRMED" ELSE "PARTIALLY_CONFIRMED"
         /\ s.confirmed_items = <<r>>
BY DEF OrderStates, MapOrderItemResultToOrderState

LEMMA OrderStateInjective ==
  ASSUME NEW r \in ItemResults, NEW q \in ItemResults,
         MapOrderItemResultToOrderState(r) = MapOrderItemResultToOrderState(q)
  PROVE  r = q
<1>1. <<r>> = <<q>>
  BY OrderStateCarries
<1> QED
  BY <1>1

LEMMA OrderStateCases ==
  ASSUME NEW s \in OrderStates
  PROVE  /\ s.status = "TIMED_OUT" => s = MapToOrderState
         /\ s.status # "TIMED_OUT" => \E r \in ItemResults : s = MapOrderItemResultToOrderState(r)
<1>1. CASE s = MapToOrderState
  BY <1>1 DEF MapToOrderState
<1>2. CASE \E r \in ItemResults : s = MapOrderItemResultToOrderState(r)
  BY <1>2, OrderStateCarries
<1> QED
  BY <1>1, <1>2 DEF OrderStates

\* Inserting a result at the end of the vector adds its line.
LEMMA ResultAdded ==
  ASSUME NEW rs \in Seq(ItemResults), NEW r \in ItemResults
  PROVE  /\ rs \o <<r>> \in Seq(ItemResults)
         /\ Len(rs \o <<r>>) = Len(rs) + 1
         /\ ItemsOf(rs \o <<r>>) = ItemsOf(rs) \cup {r.item}
         /\ \A k \in DOMAIN (rs \o <<r>>) :
              (rs \o <<r>>)[k] = r \/ (k \in DOMAIN rs /\ (rs \o <<r>>)[k] = rs[k])
<1> DEFINE ns == rs \o <<r>>
<1>1. ns \in Seq(ItemResults) /\ Len(ns) = Len(rs) + 1 /\ Len(rs) \in Nat
  OBVIOUS
<1>2. \A k \in 1 .. Len(rs) : ns[k] = rs[k]
  OBVIOUS
<1>3. ns[Len(rs) + 1] = r
  OBVIOUS
<1>4. DOMAIN ns = 1 .. Len(rs) + 1 /\ DOMAIN rs = 1 .. Len(rs)
  BY <1>1
<1>5. \A k \in 1 .. Len(rs) + 1 : k \in 1 .. Len(rs) \/ k = Len(rs) + 1
  BY <1>1
<1> HIDE DEF ns
<1>6. ItemsOf(ns) = ItemsOf(rs) \cup {r.item}
  <2>1. ItemsOf(ns) \subseteq ItemsOf(rs) \cup {r.item}
    BY <1>2, <1>3, <1>4, <1>5 DEF ItemsOf
  <2>2. ItemsOf(rs) \subseteq ItemsOf(ns)
    BY <1>1, <1>2, <1>4 DEF ItemsOf
  <2>3. r.item \in ItemsOf(ns)
    <3>1. Len(rs) + 1 \in DOMAIN ns
      BY <1>1, <1>4
    <3> QED
      BY <3>1, <1>3 DEF ItemsOf
  <2> QED
    BY <2>1, <2>2, <2>3
<1>7. \A k \in DOMAIN ns : ns[k] = r \/ (k \in DOMAIN rs /\ ns[k] = rs[k])
  BY <1>2, <1>3, <1>4, <1>5
<1> QED
  BY <1>1, <1>6, <1>7 DEF ns

LEMMA EmptyVector == Len(<< >>) = 0 /\ ItemsOf(<< >>) = {} /\ << >> \in Seq(ItemResults)
BY DEF ItemsOf

\* The lines of an order, and those that have a result, can be counted.
LEMMA LinesFinite ==
  ASSUME NEW lines \in SUBSET Items
  PROVE  IsFiniteSet(lines) /\ Cardinality(lines) \in Nat /\ (Cardinality(lines) = 0 <=> lines = {})
BY ItemsFinite, FS_Subset, FS_CardinalityType, FS_EmptySet

-----------------------------------------------------------------------------
(***************************************************************************)
(* A step of one order leaves the others alone.                            *)
(***************************************************************************)
Same(p) ==
  /\ request'[p] = request[p] /\ order'[p] = order[p] /\ call'[p] = call[p]
  /\ timer'[p] = timer[p] /\ published'[p] = published[p] /\ merged'[p] = merged[p]
  /\ callback'[p] = callback[p] /\ entered'[p] = entered[p] /\ results'[p] = results[p]
  /\ responseSent'[p] = responseSent[p] /\ cancel'[p] = cancel[p] /\ response'[p] = response[p]

LEMMA SameKeepsInv ==
  ASSUME NEW p \in Orders, OrderInv(p), Same(p)
  PROVE  OrderInv(p)'
BY DEF OrderInv, Same, FreshIsUntouched, Untouched, InFlight, CallbackWaits, InFlightIsNew,
   Carried, ResultsAreDistinct, ResultMissing, AnswerIsOfResults, Justified, FailureIsLast,
   DoneIsKept, Answered, OrderResponse, TotalAmount

LEMMA OthersAreSame ==
  ASSUME TypeOK, NEW o \in Orders, RequestStep(o) \/ ResultStep(o), NEW p \in Orders, p # o
  PROVE  Same(p)
<1> USE DEF TypeOK, Same, pipeline, shared
<1>1. CASE RequestStep(o)
  <2>1. CASE \E lines \in SUBSET Items : BeginRequest(o, lines)
    BY <2>1 DEF BeginRequest
  <2>2. CASE RejectRequest(o)
    BY <2>2 DEF RejectRequest
  <2>3. CASE ConsumeMessage(o)
    BY <2>3 DEF ConsumeMessage
  <2>4. CASE \E i \in Items : SendItem(o, i)
    BY <2>4 DEF SendItem
  <2>5. CASE ArmSoftDeadline(o)
    BY <2>5 DEF ArmSoftDeadline
  <2>6. CASE FailSoftDeadline(o)
    BY <2>6 DEF FailSoftDeadline
  <2>7. CASE \E error \in BOOLEAN : EndRequest(o, error)
    BY <2>7 DEF EndRequest, Finish, RequestStop, Fail
  <2> QED
    BY <1>1, <2>1, <2>2, <2>3, <2>4, <2>5, <2>6, <2>7 DEF RequestStep
<1>2. CASE ResultStep(o)
  <2>1. CASE \E i \in Items, outcome \in Outcomes : CompleteCall(o, i, outcome)
    BY <2>1 DEF CompleteCall, PublishOrderProcessed
  <2>2. CASE FireSoftDeadline(o)
    BY <2>2 DEF FireSoftDeadline, PublishOrderProcessed
  <2>3. CASE DropSoftDeadline(o)
    BY <2>3 DEF DropSoftDeadline
  <2>4. CASE \E s \in merged[o] : RouteResult(o, s)
    BY <2>4 DEF RouteResult
  <2>5. CASE \E s \in entered[o] : IgnoreLateResult(o, s)
    BY <2>5 DEF IgnoreLateResult, LeaveCallback
  <2>6. CASE \E s \in entered[o] : CollectResult(o, s)
    BY <2>6 DEF CollectResult, LeaveCallback, Insert
  <2>7. CASE \E s \in entered[o] : AnswerComplete(o, s)
    BY <2>7 DEF AnswerComplete, LeaveCallback, SendResponse
  <2>8. CASE \E s \in entered[o] : AnswerTimedOut(o, s)
    BY <2>8 DEF AnswerTimedOut, LeaveCallback, SendResponse
  <2> QED
    BY <1>2, <2>1, <2>2, <2>3, <2>4, <2>5, <2>6, <2>7, <2>8 DEF ResultStep
<1> QED
  BY <1>1, <1>2

-----------------------------------------------------------------------------
(***************************************************************************)
(* Types.                                                                  *)
(***************************************************************************)

LEMMA ItemResultType ==
  ASSUME NEW i \in Items, NEW outcome \in Outcomes
  PROVE  OrderItemResult(i, outcome) \in ItemResults
BY DEF OrderItemResult, ItemResults, Outcomes

LEMMA OrderResponseType ==
  ASSUME NEW o \in Orders, NEW rs \in Seq(ItemResults), order[o] \in SUBSET Items,
         NEW status \in {"CONFIRMED", "PARTIALLY_CONFIRMED", "TIMED_OUT"}
  PROVE  OrderResponse(o, status, rs) \in Responses
<1>1. ItemsOf(rs) \subseteq Items
  <2>1. \A k \in DOMAIN rs : rs[k] \in ItemResults
    OBVIOUS
  <2> QED
    BY <2>1 DEF ItemsOf, ItemResults
<1>2. TotalAmount(o, rs) \in SUBSET Items
  BY <1>1 DEF TotalAmount
<1> QED
  BY <1>2 DEF OrderResponse, Responses

\* What the callback collects is a vector of results.
LEMMA CollectedType ==
  ASSUME TypeOK, NEW o \in Orders, NEW s \in entered[o], s.status # "TIMED_OUT"
  PROVE  \E r \in ItemResults :
           /\ s = MapOrderItemResultToOrderState(r)
           /\ Collected(o, s) = results[o] \o <<r>>
           /\ Collected(o, s) \in Seq(ItemResults)
<1>1. s \in OrderStates /\ results[o] \in Seq(ItemResults)
  BY DEF TypeOK
<1>2. PICK r \in ItemResults : s = MapOrderItemResultToOrderState(r)
  BY <1>1, OrderStateCases
<1>3. s.confirmed_items = <<r>>
  BY <1>2, OrderStateCarries
<1> QED
  BY <1>1, <1>2, <1>3, ResultAdded DEF Collected

LEMMA InitType == Init => TypeOK
BY EmptyVector DEF Init, TypeOK, Responses

LEMMA RequestStepType ==
  ASSUME TypeOK, NEW o \in Orders, RequestStep(o)
  PROVE  TypeOK'
<1> USE DEF TypeOK, pipeline, shared
<1>1. CASE \E lines \in SUBSET Items : BeginRequest(o, lines)
  BY <1>1 DEF BeginRequest
<1>2. CASE RejectRequest(o)
  BY <1>2 DEF RejectRequest, Responses
<1>3. CASE ConsumeMessage(o)
  BY <1>3 DEF ConsumeMessage
<1>4. CASE \E i \in Items : SendItem(o, i)
  BY <1>4 DEF SendItem
<1>5. CASE ArmSoftDeadline(o)
  BY <1>5 DEF ArmSoftDeadline
<1>6. CASE FailSoftDeadline(o)
  BY <1>6 DEF FailSoftDeadline
<1>7. CASE \E error \in BOOLEAN : EndRequest(o, error)
  BY <1>7 DEF EndRequest, Finish, RequestStop, Fail, Responses
<1> QED
  BY <1>1, <1>2, <1>3, <1>4, <1>5, <1>6, <1>7 DEF RequestStep

LEMMA ResultStepType ==
  ASSUME TypeOK, NEW o \in Orders, ResultStep(o)
  PROVE  TypeOK'
<1> USE DEF pipeline, shared
<1>1. ASSUME NEW i \in Items, NEW outcome \in Outcomes, CompleteCall(o, i, outcome)
      PROVE  TypeOK'
  <2>1. MapOrderItemResultToOrderState(OrderItemResult(i, outcome)) \in OrderStates
    BY ItemResultType, OrderStateCarries
  <2> QED
    BY <1>1, <2>1 DEF TypeOK, CompleteCall, PublishOrderProcessed
<1>2. CASE FireSoftDeadline(o)
  <2>1. MapToOrderState \in OrderStates
    BY DEF OrderStates
  <2> QED
    BY <1>2, <2>1 DEF TypeOK, FireSoftDeadline, PublishOrderProcessed
<1>3. CASE DropSoftDeadline(o)
  BY <1>3 DEF TypeOK, DropSoftDeadline
<1>4. CASE \E s \in merged[o] : RouteResult(o, s)
  BY <1>4 DEF TypeOK, RouteResult
<1>5. CASE \E s \in entered[o] : IgnoreLateResult(o, s)
  BY <1>5 DEF TypeOK, IgnoreLateResult, LeaveCallback
<1>6. ASSUME NEW s \in entered[o], CollectResult(o, s)
      PROVE  TypeOK'
  <2>1. Collected(o, s) \in Seq(ItemResults)
    BY <1>6, CollectedType DEF CollectResult
  <2> QED
    BY <1>6, <2>1 DEF TypeOK, CollectResult, LeaveCallback, Insert
<1>7. ASSUME NEW s \in entered[o], AnswerComplete(o, s)
      PROVE  TypeOK'
  <2>1. Collected(o, s) \in Seq(ItemResults)
    BY <1>7, CollectedType DEF AnswerComplete
  <2>2. CompleteStatus(Collected(o, s)) \in {"CONFIRMED", "PARTIALLY_CONFIRMED", "TIMED_OUT"}
    BY DEF CompleteStatus
  <2>3. OrderResponse(o, CompleteStatus(Collected(o, s)), Collected(o, s)) \in Responses
    BY <2>1, <2>2, OrderResponseType DEF TypeOK
  <2> QED
    BY <1>7, <2>1, <2>3 DEF TypeOK, AnswerComplete, LeaveCallback, SendResponse
<1>8. ASSUME NEW s \in entered[o], AnswerTimedOut(o, s)
      PROVE  TypeOK'
  <2>1. OrderResponse(o, "TIMED_OUT", results[o]) \in Responses
    BY OrderResponseType DEF TypeOK
  <2> QED
    BY <1>8, <2>1 DEF TypeOK, AnswerTimedOut, LeaveCallback, SendResponse
<1> QED
  BY <1>1, <1>2, <1>3, <1>4, <1>5, <1>6, <1>7, <1>8 DEF ResultStep

-----------------------------------------------------------------------------
(***************************************************************************)
(* The request thread keeps the invariant.                                 *)
(***************************************************************************)

\* What OrderInv says of an order nothing has happened to.
LEMMA UntouchedInv ==
  ASSUME NEW o \in Orders, Untouched(o)
  PROVE  InFlightIsNew(o) /\ ResultsAreDistinct(o) /\ Len(results[o]) = 0
<1>1. Len(results[o]) = 0 /\ ItemsOf(results[o]) = {} /\ DOMAIN results[o] = {}
  BY EmptyVector DEF Untouched
<1>2. Cardinality({}) = 0
  BY FS_EmptySet
<1>3. merged[o] = {} /\ entered[o] = {}
  BY DEF Untouched, InFlight
<1>4. InFlightIsNew(o)
  BY <1>3 DEF InFlightIsNew, Carried, InFlight
<1>5. ResultsAreDistinct(o)
  BY <1>1, <1>2 DEF ResultsAreDistinct
<1> QED
  BY <1>1, <1>4, <1>5

LEMMA InitInv == Init => IInv
<1> SUFFICES ASSUME Init, NEW o \in Orders
             PROVE  OrderInv(o)
  BY InitType DEF IInv
<1>1. Untouched(o) /\ order[o] = {} /\ request[o] = "idle" /\ response[o] = NoResponse
  BY DEF Init, Untouched, InFlight
<1>2. InFlightIsNew(o) /\ ResultsAreDistinct(o)
  BY <1>1, UntouchedInv
<1>3. FreshIsUntouched(o) /\ CallbackWaits(o) /\ ResultMissing(o) /\ DoneIsKept(o)
  BY <1>1 DEF FreshIsUntouched, Untouched, CallbackWaits, ResultMissing, DoneIsKept
<1>4. AnswerIsOfResults(o) /\ FailureIsLast(o)
  BY <1>1 DEF AnswerIsOfResults, FailureIsLast, Answered, NoResponse, Untouched
<1> QED
  BY <1>2, <1>3, <1>4 DEF OrderInv

LEMMA BeginRequestInv ==
  ASSUME IInv, NEW o \in Orders, NEW lines \in SUBSET Items, BeginRequest(o, lines)
  PROVE  OrderInv(o)'
<1> USE DEF BeginRequest, pipeline
<1>1. TypeOK /\ OrderInv(o)
  BY DEF IInv
<1>2. Untouched(o) /\ Untouched(o)'
  BY <1>1 DEF OrderInv, FreshIsUntouched, Untouched, InFlight
<1>3. request'[o] = "begun" /\ order'[o] = lines
  BY <1>1 DEF TypeOK
<1>4. FreshIsUntouched(o)' /\ CallbackWaits(o)' /\ DoneIsKept(o)'
  BY <1>2, <1>3 DEF FreshIsUntouched, Untouched, CallbackWaits, DoneIsKept
<1>5. InFlightIsNew(o)' /\ ResultsAreDistinct(o)'
  <2>1. InFlightIsNew(o) /\ ResultsAreDistinct(o)
    BY <1>2, UntouchedInv
  <2>2. ItemsOf(results[o]) = {} /\ merged[o] = {} /\ entered[o] = {}
    BY <1>2, EmptyVector DEF Untouched, InFlight
  <2> QED
    BY <2>1, <2>2 DEF InFlightIsNew, Carried, InFlight, ResultsAreDistinct
<1>6. ResultMissing(o)'
  <2>1. Len(results'[o]) = 0
    BY <1>2, UntouchedInv
  <2>2. Cardinality(lines) \in Nat /\ Cardinality(lines) # 0
    BY LinesFinite
  <2> QED
    BY <1>3, <2>1, <2>2 DEF ResultMissing
<1>7. ~Answered(o) /\ ~responseSent[o]
  BY <1>1, <1>2 DEF OrderInv, FailureIsLast, Untouched
<1>8. AnswerIsOfResults(o)' /\ FailureIsLast(o)'
  BY <1>1, <1>7 DEF OrderInv, AnswerIsOfResults, FailureIsLast, Answered
<1> QED
  BY <1>4, <1>5, <1>6, <1>8 DEF OrderInv

LEMMA RejectRequestInv ==
  ASSUME IInv, NEW o \in Orders, RejectRequest(o)
  PROVE  OrderInv(o)'
<1> USE DEF RejectRequest, pipeline, shared
<1>1. TypeOK /\ OrderInv(o)
  BY DEF IInv
<1>2. request'[o] = "failed" /\ response'[o].code = 400
  BY <1>1 DEF TypeOK, ErrorResponse
<1>3. Untouched(o) /\ Untouched(o)' /\ order[o] = {}
  BY <1>1 DEF OrderInv, FreshIsUntouched, Untouched, InFlight
<1>4. FreshIsUntouched(o)' /\ CallbackWaits(o)' /\ DoneIsKept(o)' /\ ResultMissing(o)'
  BY <1>2, <1>3 DEF FreshIsUntouched, Untouched, CallbackWaits, DoneIsKept, ResultMissing
<1>5. InFlightIsNew(o)' /\ ResultsAreDistinct(o)'
  BY <1>1 DEF OrderInv, InFlightIsNew, Carried, InFlight, ResultsAreDistinct
<1>6. AnswerIsOfResults(o)' /\ FailureIsLast(o)'
  BY <1>2, <1>3 DEF AnswerIsOfResults, FailureIsLast, Untouched, InFlight
<1> QED
  BY <1>4, <1>5, <1>6 DEF OrderInv

LEMMA ConsumeMessageInv ==
  ASSUME IInv, NEW o \in Orders, ConsumeMessage(o)
  PROVE  OrderInv(o)'
<1> USE DEF ConsumeMessage, pipeline, shared
<1>1. TypeOK /\ OrderInv(o)
  BY DEF IInv
<1>2. request'[o] = "dispatching" /\ callback'[o] = TRUE
  BY <1>1 DEF TypeOK
<1>3. Untouched(o) /\ order[o] # {}
  BY <1>1 DEF OrderInv, FreshIsUntouched
<1>4. FreshIsUntouched(o)' /\ CallbackWaits(o)'
  BY <1>2, <1>3 DEF FreshIsUntouched, Untouched, CallbackWaits
<1>5. DoneIsKept(o)'
  BY <1>1, <1>3 DEF DoneIsKept, Untouched, TypeOK
<1>6. ~Answered(o) /\ ~responseSent[o]
  BY <1>1, <1>3 DEF OrderInv, FailureIsLast, Untouched
<1>7. AnswerIsOfResults(o)' /\ FailureIsLast(o)' /\ ResultMissing(o)'
  BY <1>1, <1>6 DEF OrderInv, AnswerIsOfResults, FailureIsLast, ResultMissing, Answered
<1>8. InFlightIsNew(o)' /\ ResultsAreDistinct(o)'
  BY <1>1 DEF OrderInv, InFlightIsNew, Carried, InFlight, ResultsAreDistinct
<1> QED
  BY <1>4, <1>5, <1>7, <1>8 DEF OrderInv

LEMMA SendItemInv ==
  ASSUME IInv, NEW o \in Orders, NEW i \in Items, SendItem(o, i)
  PROVE  OrderInv(o)'
<1> USE DEF SendItem, shared
<1>1. TypeOK /\ OrderInv(o)
  BY DEF IInv
<1>2. \A j \in Items : call'[o][j] = IF j = i THEN "pending" ELSE call[o][j]
  BY <1>1 DEF TypeOK
<1>3. order[o] # {} /\ order[o] \subseteq Items
  BY <1>1 DEF OrderInv, FreshIsUntouched, TypeOK
<1>4. FreshIsUntouched(o)' /\ CallbackWaits(o)'
  BY <1>1, <1>2, <1>3 DEF OrderInv, FreshIsUntouched, CallbackWaits
<1>5. InFlightIsNew(o)'
  BY <1>1, <1>2, <1>3 DEF OrderInv, InFlightIsNew, Carried, InFlight
<1>6. ResultsAreDistinct(o)'
  BY <1>1, <1>2, <1>3 DEF OrderInv, ResultsAreDistinct
<1>7. DoneIsKept(o)'
  BY <1>1, <1>2, <1>3 DEF OrderInv, DoneIsKept, Carried, InFlight, Answered
<1>8. AnswerIsOfResults(o)' /\ FailureIsLast(o)' /\ ResultMissing(o)'
  BY <1>1 DEF OrderInv, AnswerIsOfResults, Justified, OrderResponse, TotalAmount, FailureIsLast,
              ResultMissing, Answered
<1> QED
  BY <1>4, <1>5, <1>6, <1>7, <1>8 DEF OrderInv

LEMMA SoftDeadlineInv ==
  ASSUME IInv, NEW o \in Orders, ArmSoftDeadline(o) \/ FailSoftDeadline(o)
  PROVE  OrderInv(o)'
<1> USE DEF ArmSoftDeadline, FailSoftDeadline, pipeline, shared
<1>1. TypeOK /\ OrderInv(o)
  BY DEF IInv
<1>2. request[o] = "dispatching" /\ request'[o] \in {"awaiting", "failed"}
  BY <1>1 DEF TypeOK
<1>3. UNCHANGED <<call, published, merged, order, results, responseSent, callback, entered, response>>
  OBVIOUS
<1>4. order[o] # {} /\ (~responseSent[o] => ~Answered(o))
  BY <1>1, <1>2 DEF OrderInv, FreshIsUntouched, FailureIsLast
<1>5. FreshIsUntouched(o)' /\ CallbackWaits(o)' /\ FailureIsLast(o)' /\ DoneIsKept(o)'
  BY <1>1, <1>2, <1>3, <1>4 DEF OrderInv, FreshIsUntouched, CallbackWaits, FailureIsLast,
     DoneIsKept, Answered, Carried, InFlight
<1>6. InFlightIsNew(o)' /\ ResultsAreDistinct(o)' /\ ResultMissing(o)' /\ AnswerIsOfResults(o)'
  BY <1>1, <1>3 DEF OrderInv, InFlightIsNew, Carried, InFlight, ResultsAreDistinct, ResultMissing,
     AnswerIsOfResults, Justified, OrderResponse, TotalAmount
<1> QED
  BY <1>5, <1>6 DEF OrderInv

\* endRequest only answers an order that has no answer.
LEMMA EndRequestInv ==
  ASSUME IInv, NEW o \in Orders, NEW error \in BOOLEAN, EndRequest(o, error)
  PROVE  OrderInv(o)'
<1> USE DEF EndRequest, Finish, RequestStop, pipeline
<1>1. TypeOK /\ OrderInv(o)
  BY DEF IInv
<1>2. request'[o] = "ended" /\ callback'[o] = FALSE /\ entered'[o] = {}
  BY <1>1 DEF TypeOK
<1>3. response'[o] = response[o] \/ (~Answered(o) /\ response'[o] = [code |-> 500])
  BY <1>1 DEF Fail, ErrorResponse, TypeOK
<1>4. FreshIsUntouched(o)'
  BY <1>1, <1>2 DEF OrderInv, FreshIsUntouched, Untouched, InFlight
<1>5. CallbackWaits(o)' /\ FailureIsLast(o)' /\ DoneIsKept(o)'
  BY <1>2 DEF CallbackWaits, FailureIsLast, DoneIsKept
<1>6. InFlightIsNew(o)' /\ ResultsAreDistinct(o)' /\ ResultMissing(o)'
  BY <1>1 DEF OrderInv, InFlightIsNew, Carried, InFlight, ResultsAreDistinct, ResultMissing
<1>7. AnswerIsOfResults(o)'
  <2>1. CASE response'[o] = response[o]
    BY <1>1, <2>1 DEF OrderInv, AnswerIsOfResults, Justified, OrderResponse, TotalAmount
  <2>2. CASE ~Answered(o) /\ response'[o] = [code |-> 500]
    <3>1. response[o].code = 0 /\ ~responseSent[o]
      BY <1>1, <2>2 DEF Answered, NoResponse, OrderInv, AnswerIsOfResults
    <3> QED
      BY <2>2, <3>1 DEF AnswerIsOfResults
  <2> QED
    BY <1>3, <2>1, <2>2
<1> QED
  BY <1>4, <1>5, <1>6, <1>7 DEF OrderInv

-----------------------------------------------------------------------------
(***************************************************************************)
(* The threads that carry results keep the invariant.                      *)
(***************************************************************************)

\* A call that ends sends a result nobody has sent before.
LEMMA CompleteCallInv ==
  ASSUME IInv, NEW o \in Orders, NEW i \in Items, NEW outcome \in Outcomes,
         CompleteCall(o, i, outcome)
  PROVE  OrderInv(o)'
<1> DEFINE q == OrderItemResult(i, outcome)
           s == MapOrderItemResultToOrderState(q)
<1> USE DEF CompleteCall, shared
<1>1. TypeOK /\ OrderInv(o)
  BY DEF IInv
<1>2. q \in ItemResults /\ q.item = i
  BY ItemResultType DEF OrderItemResult
<1> HIDE DEF q
<1>3. /\ published'[o] = published[o] \cup {s}
      /\ merged'[o] = merged[o] \cup {s}
      /\ entered'[o] = entered[o]
  BY <1>1 DEF TypeOK, PublishOrderProcessed, q
<1>4. call[o][i] = "pending" /\ \A j \in Items : call'[o][j] = IF j = i THEN "done" ELSE call[o][j]
  BY <1>1 DEF TypeOK
<1>5. i \in order[o] /\ order[o] \subseteq Items
  BY <1>1, <1>4 DEF OrderInv, FreshIsUntouched, TypeOK
<1>6. i \notin ItemsOf(results[o]) /\ \A r \in ItemResults : Carried(o, r) => r.item # i
  BY <1>1, <1>4 DEF OrderInv, ResultsAreDistinct, InFlightIsNew
<1>7. ~Carried(o, q)
  BY <1>2, <1>6
<1>8. \A r \in ItemResults : Carried(o, r)' <=> Carried(o, r) \/ r = q
  BY <1>2, <1>3, OrderStateInjective DEF Carried, InFlight
<1>9. FreshIsUntouched(o)' /\ CallbackWaits(o)' /\ FailureIsLast(o)' /\ ResultMissing(o)'
  BY <1>1, <1>4, <1>5 DEF OrderInv, FreshIsUntouched, Untouched, CallbackWaits, FailureIsLast,
     ResultMissing, Answered
<1>10. InFlightIsNew(o)'
  <2>1. InFlight(o)' \subseteq published'[o]
    BY <1>1, <1>3 DEF OrderInv, InFlightIsNew, InFlight
  <2>2. ASSUME NEW r \in ItemResults, Carried(o, r)'
        PROVE  r.item \in order'[o] /\ call'[o][r.item] = "done" /\ r.item \notin ItemsOf(results'[o])
    BY <1>1, <1>2, <1>4, <1>5, <1>6, <1>8, <2>2 DEF OrderInv, InFlightIsNew
  <2>3. ASSUME NEW r \in ItemResults, NEW t \in ItemResults,
               Carried(o, r)', Carried(o, t)', r.item = t.item
        PROVE  r = t
    BY <1>1, <1>2, <1>6, <1>8, <2>3 DEF OrderInv, InFlightIsNew
  <2>4. ASSUME NEW r \in ItemResults
        PROVE  MapOrderItemResultToOrderState(r) \notin merged'[o] \cap entered'[o]
    BY <1>1, <1>2, <1>3, <1>7, OrderStateInjective DEF OrderInv, InFlightIsNew, Carried, InFlight
  <2> QED
    BY <2>1, <2>2, <2>3, <2>4 DEF InFlightIsNew
<1>11. ResultsAreDistinct(o)'
  BY <1>1, <1>3, <1>4, <1>5 DEF OrderInv, ResultsAreDistinct
<1>12. AnswerIsOfResults(o)'
  BY <1>1 DEF OrderInv, AnswerIsOfResults, Justified, OrderResponse, TotalAmount
<1>13. DoneIsKept(o)'
  BY <1>1, <1>2, <1>4, <1>5, <1>8 DEF OrderInv, DoneIsKept, Answered
<1> QED
  BY <1>9, <1>10, <1>11, <1>12, <1>13 DEF OrderInv

LEMMA FireSoftDeadlineInv ==
  ASSUME IInv, NEW o \in Orders, FireSoftDeadline(o) \/ DropSoftDeadline(o)
  PROVE  OrderInv(o)'
<1> USE DEF FireSoftDeadline, DropSoftDeadline, PublishOrderProcessed, shared
<1>1. TypeOK /\ OrderInv(o)
  BY DEF IInv
<1>2. timer[o] = "armed" /\ ~Untouched(o)
  BY DEF Untouched
<1>3. \/ published'[o] = published[o] \cup {MapToOrderState} /\ merged'[o] = merged[o] \cup {MapToOrderState}
      \/ published'[o] = published[o] /\ merged'[o] = merged[o]
  BY <1>1 DEF TypeOK
<1>4. UNCHANGED <<request, call, order, results, responseSent, callback, entered, response>>
  OBVIOUS
<1>5. \A r \in ItemResults : MapOrderItemResultToOrderState(r) # MapToOrderState
  BY OrderStateCarries DEF MapToOrderState
<1>6. \A r \in ItemResults : Carried(o, r)' <=> Carried(o, r)
  BY <1>3, <1>4, <1>5 DEF Carried, InFlight
<1>7. FreshIsUntouched(o)' /\ CallbackWaits(o)' /\ FailureIsLast(o)' /\ ResultMissing(o)'
  BY <1>1, <1>2, <1>4 DEF OrderInv, FreshIsUntouched, CallbackWaits, FailureIsLast, ResultMissing,
     Answered
<1>8. InFlightIsNew(o)'
  <2>1. InFlight(o)' \subseteq published'[o]
    BY <1>1, <1>3, <1>4 DEF OrderInv, InFlightIsNew, InFlight
  <2>2. \A r \in ItemResults : MapOrderItemResultToOrderState(r) \notin merged'[o] \cap entered'[o]
    BY <1>1, <1>3, <1>4, <1>5 DEF OrderInv, InFlightIsNew
  <2> QED
    BY <1>1, <1>4, <1>6, <2>1, <2>2 DEF OrderInv, InFlightIsNew
<1>9. ResultsAreDistinct(o)'
  BY <1>1, <1>3, <1>4 DEF OrderInv, ResultsAreDistinct
<1>10. AnswerIsOfResults(o)'
  BY <1>1, <1>4 DEF OrderInv, AnswerIsOfResults, Justified, OrderResponse, TotalAmount
<1>11. DoneIsKept(o)'
  BY <1>1, <1>4, <1>6 DEF OrderInv, DoneIsKept, Answered
<1> QED
  BY <1>7, <1>8, <1>9, <1>10, <1>11 DEF OrderInv

\* While the order waits its callback is registered, so a result is not lost.
LEMMA RouteResultInv ==
  ASSUME IInv, NEW o \in Orders, NEW s \in merged[o], RouteResult(o, s)
  PROVE  OrderInv(o)'
<1> USE DEF RouteResult, shared
<1>1. TypeOK /\ OrderInv(o)
  BY DEF IInv
<1>2. merged'[o] = merged[o] \ {s} /\ entered'[o] = IF callback[o] THEN entered[o] \cup {s} ELSE entered[o]
  BY <1>1 DEF TypeOK
<1>3. UNCHANGED <<request, call, published, order, results, responseSent, callback, response>>
  OBVIOUS
<1>4. s \in InFlight(o) /\ ~Untouched(o) /\ InFlight(o)' \subseteq InFlight(o)
  BY <1>2 DEF InFlight, Untouched
<1>5. \A r \in ItemResults : Carried(o, r)' => Carried(o, r)
  BY <1>4 DEF Carried
<1>6. FreshIsUntouched(o)' /\ CallbackWaits(o)' /\ ResultMissing(o)'
  BY <1>1, <1>3, <1>4 DEF OrderInv, FreshIsUntouched, CallbackWaits, ResultMissing
<1>7. FailureIsLast(o)'
  BY <1>1, <1>2, <1>3 DEF OrderInv, FailureIsLast, Answered
<1>8. InFlightIsNew(o)'
  <2>1. \A r \in ItemResults : MapOrderItemResultToOrderState(r) \notin merged'[o] \cap entered'[o]
    BY <1>1, <1>2 DEF OrderInv, InFlightIsNew
  <2> QED
    BY <1>1, <1>3, <1>4, <1>5, <2>1 DEF OrderInv, InFlightIsNew
<1>9. ResultsAreDistinct(o)' /\ AnswerIsOfResults(o)'
  BY <1>1, <1>3 DEF OrderInv, ResultsAreDistinct, AnswerIsOfResults, Justified, OrderResponse,
     TotalAmount
<1>10. DoneIsKept(o)'
  <2>1. CASE ~callback[o]
    BY <1>1, <1>3, <2>1 DEF OrderInv, DoneIsKept, CallbackWaits, AnswerIsOfResults, Answered, NoResponse
  <2>2. CASE callback[o]
    <3>1. \A r \in ItemResults : Carried(o, r) => Carried(o, r)'
      BY <1>2, <2>2 DEF Carried, InFlight
    <3> QED
      BY <1>1, <1>3, <3>1 DEF OrderInv, DoneIsKept, Answered
  <2> QED
    BY <2>1, <2>2
<1> QED
  BY <1>6, <1>7, <1>8, <1>9, <1>10 DEF OrderInv

-----------------------------------------------------------------------------
(***************************************************************************)
(* The callback keeps the invariant.                                       *)
(***************************************************************************)

\* The order state at hand leaves; what stays on the way is what was there.
LEMMA LeaveCallbackFacts ==
  ASSUME IInv, NEW o \in Orders, NEW s \in entered[o], LeaveCallback(o, s)
  PROVE  /\ UNCHANGED <<request, order, call, published, merged>>
         /\ entered'[o] = entered[o] \ {s}
         /\ InFlight(o)' \subseteq InFlight(o)
         /\ \A r \in ItemResults : Carried(o, r)' => Carried(o, r)
         /\ \A r \in ItemResults :
              Carried(o, r)' <=> Carried(o, r) /\ MapOrderItemResultToOrderState(r) # s
         /\ \A r \in ItemResults : MapOrderItemResultToOrderState(r) \notin (merged[o] \cap entered[o])'
         /\ order[o] # {} /\ ~Untouched(o) /\ (~responseSent[o] => ~Answered(o))
<1> USE DEF LeaveCallback, pipeline
<1>1. TypeOK /\ OrderInv(o)
  BY DEF IInv
<1>2. UNCHANGED <<request, order, call, published, merged>> /\ entered'[o] = entered[o] \ {s}
  BY <1>1 DEF TypeOK
<1>3. InFlight(o)' \subseteq InFlight(o)
  BY <1>2 DEF InFlight
<1>4. ~Untouched(o) /\ order[o] # {} /\ (~responseSent[o] => ~Answered(o))
  BY <1>1 DEF OrderInv, FreshIsUntouched, Untouched, InFlight, FailureIsLast
<1>5. \A r \in ItemResults : MapOrderItemResultToOrderState(r) \notin merged[o] \cap entered[o]
  BY <1>1 DEF OrderInv, InFlightIsNew
<1>6. \A r \in ItemResults :
        Carried(o, r)' <=> Carried(o, r) /\ MapOrderItemResultToOrderState(r) # s
  BY <1>2, <1>5 DEF Carried, InFlight
<1> QED
  BY <1>2, <1>3, <1>4, <1>5, <1>6

LEMMA IgnoreLateResultInv ==
  ASSUME IInv, NEW o \in Orders, NEW s \in entered[o], IgnoreLateResult(o, s)
  PROVE  OrderInv(o)'
<1> USE DEF IgnoreLateResult
<1>1. TypeOK /\ OrderInv(o)
  BY DEF IInv
<1>2. /\ UNCHANGED <<request, order, call, published, merged>>
      /\ entered'[o] = entered[o] \ {s}
      /\ InFlight(o)' \subseteq InFlight(o)
      /\ \A r \in ItemResults : Carried(o, r)' => Carried(o, r)
      /\ \A r \in ItemResults : MapOrderItemResultToOrderState(r) \notin (merged[o] \cap entered[o])'
      /\ order[o] # {} /\ ~Untouched(o)
  BY LeaveCallbackFacts
<1>3. responseSent[o] /\ UNCHANGED <<results, responseSent, response>>
  OBVIOUS
<1>4. FreshIsUntouched(o)' /\ CallbackWaits(o)' /\ FailureIsLast(o)' /\ ResultMissing(o)'
  BY <1>1, <1>2, <1>3 DEF OrderInv, FreshIsUntouched, CallbackWaits, FailureIsLast, ResultMissing
<1>5. InFlightIsNew(o)'
  BY <1>1, <1>2, <1>3 DEF OrderInv, InFlightIsNew
<1>6. ResultsAreDistinct(o)' /\ AnswerIsOfResults(o)'
  BY <1>1, <1>2, <1>3 DEF OrderInv, ResultsAreDistinct, AnswerIsOfResults, Justified, OrderResponse,
     TotalAmount
<1>7. DoneIsKept(o)'
  BY <1>1, <1>3 DEF OrderInv, AnswerIsOfResults, DoneIsKept, Answered, NoResponse
<1> QED
  BY <1>4, <1>5, <1>6, <1>7 DEF OrderInv

\* The result at hand is of a line not in the vector: one more line is counted.
LEMMA CollectedFacts ==
  ASSUME IInv, NEW o \in Orders, NEW s \in entered[o], s.status # "TIMED_OUT"
  PROVE  \E r \in ItemResults :
           LET rs == Collected(o, s) IN
           /\ s = MapOrderItemResultToOrderState(r)
           /\ s \in published[o]
           /\ rs \in Seq(ItemResults)
           /\ ItemsOf(rs) = ItemsOf(results[o]) \cup {r.item}
           /\ \A i \in ItemsOf(rs) : i \in order[o] /\ call[o][i] = "done"
           /\ Len(rs) = Cardinality(ItemsOf(rs))
           /\ \A k \in DOMAIN rs : MapOrderItemResultToOrderState(rs[k]) \in published[o]
           /\ \A q \in ItemResults : Carried(o, q) /\ q # r => q.item \notin ItemsOf(rs)
<1>1. TypeOK /\ OrderInv(o)
  BY DEF IInv
<1>2. PICK r \in ItemResults : s = MapOrderItemResultToOrderState(r)
                               /\ Collected(o, s) = results[o] \o <<r>>
                               /\ Collected(o, s) \in Seq(ItemResults)
  BY <1>1, CollectedType
<1> DEFINE rs == Collected(o, s)
<1>3. results[o] \in Seq(ItemResults) /\ order[o] \in SUBSET Items
  BY <1>1 DEF TypeOK
<1>4. /\ Len(rs) = Len(results[o]) + 1
      /\ ItemsOf(rs) = ItemsOf(results[o]) \cup {r.item}
      /\ \A k \in DOMAIN rs : rs[k] = r \/ (k \in DOMAIN results[o] /\ rs[k] = results[o][k])
  BY <1>2, <1>3, ResultAdded
<1> HIDE DEF rs
<1>5. Carried(o, r) /\ s \in published[o]
  BY <1>1, <1>2 DEF Carried, InFlight, OrderInv, InFlightIsNew
<1>6. r.item \in order[o] /\ call[o][r.item] = "done" /\ r.item \notin ItemsOf(results[o])
  BY <1>1, <1>5 DEF OrderInv, InFlightIsNew
<1>7. \A i \in ItemsOf(rs) : i \in order[o] /\ call[o][i] = "done"
  BY <1>1, <1>4, <1>6 DEF OrderInv, ResultsAreDistinct
<1>8. Len(rs) = Cardinality(ItemsOf(rs))
  <2>1. ItemsOf(results[o]) \in SUBSET Items
    BY <1>1, <1>3 DEF OrderInv, ResultsAreDistinct
  <2>2. IsFiniteSet(ItemsOf(results[o]))
    BY <2>1, LinesFinite
  <2>3. Cardinality(ItemsOf(results[o]) \cup {r.item}) = Cardinality(ItemsOf(results[o])) + 1
    BY <1>6, <2>2, FS_AddElement
  <2> QED
    BY <1>1, <1>4, <2>3 DEF OrderInv, ResultsAreDistinct
<1>9. \A k \in DOMAIN rs : MapOrderItemResultToOrderState(rs[k]) \in published[o]
  BY <1>1, <1>2, <1>4, <1>5 DEF OrderInv, ResultsAreDistinct
<1>10. \A q \in ItemResults : Carried(o, q) /\ q # r => q.item \notin ItemsOf(rs)
  BY <1>1, <1>4, <1>5 DEF OrderInv, InFlightIsNew
<1> QED
  BY <1>2, <1>4, <1>5, <1>7, <1>8, <1>9, <1>10 DEF rs

LEMMA CollectInv ==
  ASSUME IInv, NEW o \in Orders, NEW s \in entered[o],
         CollectResult(o, s) \/ AnswerComplete(o, s)
  PROVE  OrderInv(o)'
<1> DEFINE rs == Collected(o, s)
<1> USE DEF CollectResult, AnswerComplete
<1>1. TypeOK /\ OrderInv(o)
  BY DEF IInv
<1>2. LeaveCallback(o, s) /\ ~responseSent[o] /\ s.status # "TIMED_OUT"
  OBVIOUS
<1>3. PICK r \in ItemResults :
        /\ s = MapOrderItemResultToOrderState(r)
        /\ s \in published[o]
        /\ rs \in Seq(ItemResults)
        /\ ItemsOf(rs) = ItemsOf(results[o]) \cup {r.item}
        /\ \A i \in ItemsOf(rs) : i \in order[o] /\ call[o][i] = "done"
        /\ Len(rs) = Cardinality(ItemsOf(rs))
        /\ \A k \in DOMAIN rs : MapOrderItemResultToOrderState(rs[k]) \in published[o]
        /\ \A q \in ItemResults : Carried(o, q) /\ q # r => q.item \notin ItemsOf(rs)
  BY <1>2, CollectedFacts
<1>4. /\ UNCHANGED <<request, order, call, published, merged>>
      /\ entered'[o] = entered[o] \ {s}
      /\ InFlight(o)' \subseteq InFlight(o)
      /\ \A q \in ItemResults : Carried(o, q)' <=> Carried(o, q) /\ MapOrderItemResultToOrderState(q) # s
      /\ \A q \in ItemResults : MapOrderItemResultToOrderState(q) \notin (merged[o] \cap entered[o])'
      /\ order[o] # {} /\ ~Untouched(o) /\ ~Answered(o)
  BY <1>2, LeaveCallbackFacts
<1>5. results'[o] = rs
  BY <1>1 DEF Insert, SendResponse, TypeOK
<1> HIDE DEF rs
<1>6. \A q \in ItemResults : Carried(o, q)' <=> Carried(o, q) /\ q # r
  BY <1>3, <1>4, OrderStateInjective
<1>7. FreshIsUntouched(o)'
  BY <1>1, <1>4 DEF OrderInv, FreshIsUntouched
<1>8. InFlightIsNew(o)'
  <2>1. InFlight(o)' \subseteq published'[o]
    BY <1>1, <1>4 DEF OrderInv, InFlightIsNew
  <2>2. ASSUME NEW q \in ItemResults, Carried(o, q)'
        PROVE  q.item \in order'[o] /\ call'[o][q.item] = "done" /\ q.item \notin ItemsOf(results'[o])
    BY <1>1, <1>3, <1>4, <1>5, <1>6, <2>2 DEF OrderInv, InFlightIsNew
  <2>3. ASSUME NEW q \in ItemResults, NEW t \in ItemResults,
               Carried(o, q)', Carried(o, t)', q.item = t.item
        PROVE  q = t
    BY <1>1, <1>6, <2>3 DEF OrderInv, InFlightIsNew
  <2> QED
    BY <1>4, <2>1, <2>2, <2>3 DEF InFlightIsNew
<1>9. ResultsAreDistinct(o)'
  BY <1>3, <1>4, <1>5 DEF ResultsAreDistinct
<1>10. CASE CollectResult(o, s)
  <2>1. UNCHANGED <<callback, responseSent, response>> /\ Len(rs) < Cardinality(order[o])
    BY <1>10 DEF Insert, rs
  <2>2. CallbackWaits(o)' /\ ResultMissing(o)' /\ FailureIsLast(o)'
    BY <1>1, <1>2, <1>4, <1>5, <2>1 DEF OrderInv, CallbackWaits, ResultMissing, FailureIsLast, Answered
  <2>3. AnswerIsOfResults(o)'
    BY <1>1, <1>2, <2>1 DEF OrderInv, AnswerIsOfResults
  <2>4. DoneIsKept(o)'
    BY <1>1, <1>3, <1>4, <1>5, <1>6, <2>1 DEF OrderInv, DoneIsKept, Answered
  <2> QED
    BY <1>7, <1>8, <1>9, <2>2, <2>3, <2>4 DEF OrderInv
<1>11. CASE AnswerComplete(o, s)
  <2>1. /\ responseSent'[o] = TRUE /\ callback'[o] = FALSE
        /\ response'[o] = OrderResponse(o, CompleteStatus(rs), rs)
        /\ Len(rs) >= Cardinality(order[o])
    BY <1>1, <1>11 DEF SendResponse, TypeOK, rs
  <2>2. CompleteStatus(rs) # "TIMED_OUT"
    BY DEF CompleteStatus
  <2>3. response'[o].code = 200 /\ response'[o].status = CompleteStatus(rs)
    BY <2>1 DEF OrderResponse
  <2>4. response'[o] = OrderResponse(o, response[o].status, results[o])'
    BY <1>4, <1>5, <2>1, <2>3 DEF OrderResponse, TotalAmount
  <2>5. AnswerIsOfResults(o)'
    BY <1>4, <1>5, <2>1, <2>2, <2>3, <2>4 DEF AnswerIsOfResults, Justified, CompleteStatus, AllReserved
  <2>6. CallbackWaits(o)' /\ ResultMissing(o)' /\ FailureIsLast(o)' /\ DoneIsKept(o)'
    BY <2>1, <2>3 DEF CallbackWaits, ResultMissing, FailureIsLast, DoneIsKept, Answered, NoResponse
  <2> QED
    BY <1>7, <1>8, <1>9, <2>5, <2>6 DEF OrderInv
<1> QED
  BY <1>10, <1>11

LEMMA AnswerTimedOutInv ==
  ASSUME IInv, NEW o \in Orders, NEW s \in entered[o], AnswerTimedOut(o, s)
  PROVE  OrderInv(o)'
<1> USE DEF AnswerTimedOut
<1>1. TypeOK /\ OrderInv(o)
  BY DEF IInv
<1>2. /\ UNCHANGED <<request, order, call, published, merged>>
      /\ InFlight(o)' \subseteq InFlight(o)
      /\ \A r \in ItemResults : Carried(o, r)' => Carried(o, r)
      /\ \A r \in ItemResults : MapOrderItemResultToOrderState(r) \notin (merged[o] \cap entered[o])'
      /\ order[o] # {} /\ ~Untouched(o) /\ ~Answered(o)
  BY LeaveCallbackFacts
<1>3. /\ results'[o] = results[o]
      /\ responseSent'[o] = TRUE /\ callback'[o] = FALSE
      /\ response'[o] = OrderResponse(o, "TIMED_OUT", results[o])
  BY <1>1 DEF SendResponse, TypeOK
<1>4. Len(results[o]) < Cardinality(order[o])
  BY <1>1, <1>2 DEF OrderInv, ResultMissing
<1>5. response'[o].code = 200 /\ response'[o].status = "TIMED_OUT"
  BY <1>3 DEF OrderResponse
<1>6. response'[o] = OrderResponse(o, response[o].status, results[o])'
  BY <1>2, <1>3, <1>5 DEF OrderResponse, TotalAmount
<1>7. AnswerIsOfResults(o)'
  BY <1>2, <1>3, <1>4, <1>5, <1>6 DEF AnswerIsOfResults, Justified
<1>8. CallbackWaits(o)' /\ ResultMissing(o)' /\ FailureIsLast(o)' /\ DoneIsKept(o)'
  BY <1>3, <1>5 DEF CallbackWaits, ResultMissing, FailureIsLast, DoneIsKept, Answered, NoResponse
<1>9. FreshIsUntouched(o)' /\ InFlightIsNew(o)' /\ ResultsAreDistinct(o)'
  BY <1>1, <1>2, <1>3 DEF OrderInv, FreshIsUntouched, InFlightIsNew, ResultsAreDistinct
<1> QED
  BY <1>7, <1>8, <1>9 DEF OrderInv

-----------------------------------------------------------------------------
(***************************************************************************)
(* The invariant holds, and what follows from it.                          *)
(***************************************************************************)

LEMMA RequestStepInv ==
  ASSUME IInv, NEW o \in Orders, RequestStep(o)
  PROVE  OrderInv(o)'
<1>1. ASSUME NEW lines \in SUBSET Items, BeginRequest(o, lines) PROVE OrderInv(o)'
  BY <1>1, BeginRequestInv
<1>2. CASE RejectRequest(o)
  BY <1>2, RejectRequestInv
<1>3. CASE ConsumeMessage(o)
  BY <1>3, ConsumeMessageInv
<1>4. ASSUME NEW i \in Items, SendItem(o, i) PROVE OrderInv(o)'
  BY <1>4, SendItemInv
<1>5. CASE ArmSoftDeadline(o) \/ FailSoftDeadline(o)
  BY <1>5, SoftDeadlineInv
<1>6. ASSUME NEW error \in BOOLEAN, EndRequest(o, error) PROVE OrderInv(o)'
  BY <1>6, EndRequestInv
<1> QED
  BY <1>1, <1>2, <1>3, <1>4, <1>5, <1>6 DEF RequestStep

LEMMA ResultStepInv ==
  ASSUME IInv, NEW o \in Orders, ResultStep(o)
  PROVE  OrderInv(o)'
<1>1. ASSUME NEW i \in Items, NEW outcome \in Outcomes, CompleteCall(o, i, outcome)
      PROVE  OrderInv(o)'
  BY <1>1, CompleteCallInv
<1>2. CASE FireSoftDeadline(o) \/ DropSoftDeadline(o)
  BY <1>2, FireSoftDeadlineInv
<1>3. ASSUME NEW s \in merged[o], RouteResult(o, s) PROVE OrderInv(o)'
  BY <1>3, RouteResultInv
<1>4. ASSUME NEW s \in entered[o], IgnoreLateResult(o, s) PROVE OrderInv(o)'
  BY <1>4, IgnoreLateResultInv
<1>5. ASSUME NEW s \in entered[o], CollectResult(o, s) \/ AnswerComplete(o, s) PROVE OrderInv(o)'
  BY <1>5, CollectInv
<1>6. ASSUME NEW s \in entered[o], AnswerTimedOut(o, s) PROVE OrderInv(o)'
  BY <1>6, AnswerTimedOutInv
<1> QED
  BY <1>1, <1>2, <1>3, <1>4, <1>5, <1>6 DEF ResultStep

LEMMA StepInv == IInv /\ [Next]_vars => IInv'
<1> SUFFICES ASSUME IInv, [Next]_vars PROVE IInv'
  OBVIOUS
<1>1. ASSUME NEW o \in Orders, RequestStep(o) \/ ResultStep(o)
      PROVE  IInv'
  <2>1. TypeOK'
    BY <1>1, RequestStepType, ResultStepType DEF IInv
  <2>2. OrderInv(o)'
    BY <1>1, RequestStepInv, ResultStepInv
  <2>3. ASSUME NEW p \in Orders, p # o PROVE OrderInv(p)'
    BY <1>1, <2>3, OthersAreSame, SameKeepsInv DEF IInv
  <2> QED
    BY <2>1, <2>2, <2>3 DEF IInv
<1>2. CASE UNCHANGED vars
  <2>1. TypeOK'
    BY <1>2 DEF IInv, TypeOK, vars
  <2>2. \A o \in Orders : Same(o)
    BY <1>2 DEF Same, vars
  <2> QED
    BY <2>1, <2>2, SameKeepsInv DEF IInv
<1> QED
  BY <1>1, <1>2 DEF Next, AllDrained

LEMMA IInvHolds == Spec => []IInv
BY InitInv, StepInv, PTL DEF Spec

\* Every variable of the pipeline stays in the range the code gives it.
THEOREM PipelineTypeCorrect == Spec => []TypeOK
BY IInvHolds, PTL DEF IInv

\* The vector of an answered order, counted.
LEMMA AnswerCounts ==
  ASSUME IInv, NEW o \in Orders, response[o].code = 200
  PROVE  /\ response[o] = OrderResponse(o, response[o].status, results[o])
         /\ response[o].items = results[o]
         /\ Justified(o, response[o].status)
         /\ ItemsOf(results[o]) \subseteq order[o]
         /\ \A i \in ItemsOf(results[o]) : call[o][i] = "done"
         /\ Len(results[o]) = Cardinality(ItemsOf(results[o]))
         /\ \A k \in DOMAIN results[o] : MapOrderItemResultToOrderState(results[o][k]) \in published[o]
         /\ Len(results[o]) >= Cardinality(order[o]) =>
              ItemsOf(results[o]) = order[o] /\ Len(results[o]) = Cardinality(order[o])
         /\ order[o] # {}
<1>1. TypeOK /\ OrderInv(o)
  BY DEF IInv
<1>2. responseSent[o]
  BY <1>1 DEF OrderInv, AnswerIsOfResults
<1>3. response[o] = OrderResponse(o, response[o].status, results[o]) /\ Justified(o, response[o].status)
  BY <1>1, <1>2 DEF OrderInv, AnswerIsOfResults
<1>4. response[o].items = results[o]
  BY <1>3 DEF OrderResponse
<1>5. /\ ItemsOf(results[o]) \subseteq order[o]
      /\ \A i \in ItemsOf(results[o]) : call[o][i] = "done"
      /\ Len(results[o]) = Cardinality(ItemsOf(results[o]))
      /\ \A k \in DOMAIN results[o] : MapOrderItemResultToOrderState(results[o][k]) \in published[o]
  BY <1>1 DEF OrderInv, ResultsAreDistinct
<1>6. IsFiniteSet(order[o]) /\ Cardinality(order[o]) \in Nat
  BY <1>1, LinesFinite DEF TypeOK
<1>7. /\ IsFiniteSet(ItemsOf(results[o]))
      /\ Cardinality(ItemsOf(results[o])) <= Cardinality(order[o])
      /\ Cardinality(ItemsOf(results[o])) = Cardinality(order[o]) => ItemsOf(results[o]) = order[o]
  BY <1>5, <1>6, FS_Subset
<1>8. Len(results[o]) >= Cardinality(order[o]) =>
        ItemsOf(results[o]) = order[o] /\ Len(results[o]) = Cardinality(order[o])
  <2>1. Cardinality(ItemsOf(results[o])) \in Nat
    BY <1>7, FS_CardinalityType
  <2> QED
    BY <1>5, <1>6, <1>7, <2>1
<1>9. order[o] # {}
  BY <1>1, <1>2 DEF OrderInv, FreshIsUntouched, Untouched
<1> QED
  BY <1>3, <1>4, <1>5, <1>8, <1>9

LEMMA InvCompleteAnswer == IInv => CompleteAnswerIsExact
<1> SUFFICES ASSUME IInv, NEW o \in Orders, CompletelyAnswered(o)
             PROVE  /\ ItemsOf(response[o].items) = order[o]
                    /\ Len(response[o].items) = Cardinality(order[o])
                    /\ response[o].total = order[o]
                    /\ AnsweredWith(o, "CONFIRMED") <=> AllReserved(response[o].items)
  BY DEF CompleteAnswerIsExact
<1>1. response[o].code = 200 /\ response[o].status # "TIMED_OUT"
  BY DEF CompletelyAnswered, AnsweredWith
<1>2. /\ response[o] = OrderResponse(o, response[o].status, results[o])
      /\ response[o].items = results[o]
      /\ Len(results[o]) >= Cardinality(order[o]) /\ response[o].status = CompleteStatus(results[o])
      /\ ItemsOf(results[o]) = order[o] /\ Len(results[o]) = Cardinality(order[o])
      /\ order[o] # {}
  BY <1>1, AnswerCounts DEF Justified
<1>3. response[o].total = order[o]
  BY <1>2 DEF OrderResponse, TotalAmount
<1>4. AnsweredWith(o, "CONFIRMED") <=> AllReserved(response[o].items)
  BY <1>1, <1>2 DEF AnsweredWith, CompleteStatus
<1> QED
  BY <1>2, <1>3, <1>4

\* An answer CONFIRMED or PARTIALLY_CONFIRMED is exact, whatever the number of
\* lines and the order in which their results reach the callback.
THEOREM CompleteAnswersExact == Spec => []CompleteAnswerIsExact
BY IInvHolds, InvCompleteAnswer, PTL

LEMMA InvTimedOutAnswer == IInv => TimedOutAnswerIsPartial
<1> SUFFICES ASSUME IInv, NEW o \in Orders, AnsweredWith(o, "TIMED_OUT")
             PROVE  /\ ItemsOf(response[o].items) \subseteq order[o]
                    /\ ItemsOf(response[o].items) # order[o]
                    /\ Len(response[o].items) = Cardinality(ItemsOf(response[o].items))
  BY DEF TimedOutAnswerIsPartial
<1>1. /\ response[o].items = results[o]
      /\ Len(results[o]) < Cardinality(order[o])
      /\ ItemsOf(results[o]) \subseteq order[o]
      /\ Len(results[o]) = Cardinality(ItemsOf(results[o]))
  BY AnswerCounts DEF AnsweredWith, Justified
<1>2. Cardinality(order[o]) \in Nat
  BY LinesFinite DEF IInv, TypeOK
<1>3. ItemsOf(results[o]) # order[o]
  BY <1>1, <1>2
<1> QED
  BY <1>1, <1>3

\* The soft deadline never answers for an order all of whose results are in.
THEOREM TimedOutAnswersPartial == Spec => []TimedOutAnswerIsPartial
BY IInvHolds, InvTimedOutAnswer, PTL

LEMMA InvListsPublished == IInv => AnswerListsOnlyPublished
BY AnswerCounts DEF AnswerListsOnlyPublished

\* What an answer lists has been published.
THEOREM AnswersListPublished == Spec => []AnswerListsOnlyPublished
BY IInvHolds, InvListsPublished, PTL

LEMMA InvNoResultLost == IInv => NoResultLost
<1> SUFFICES ASSUME IInv, NEW o \in Orders, request[o] \in {"dispatching", "awaiting"}, ~Answered(o),
                    NEW i \in order[o], call[o][i] = "done", i \notin ItemsOf(results[o])
             PROVE  \E s \in merged[o] \cup entered[o] :
                      s.status # "TIMED_OUT" /\ i \in ItemsOf(s.confirmed_items)
  BY DEF NoResultLost
<1>1. PICK r \in ItemResults : r.item = i /\ Carried(o, r)
  BY DEF IInv, OrderInv, DoneIsKept
<1> DEFINE s == MapOrderItemResultToOrderState(r)
<1>2. s \in merged[o] \cup entered[o] /\ s.status # "TIMED_OUT" /\ s.confirmed_items = <<r>>
  BY <1>1, OrderStateCarries DEF Carried, InFlight
<1>3. ItemsOf(<<r>>) = {r.item}
  BY DEF ItemsOf
<1> QED
  BY <1>1, <1>2, <1>3

\* No result is dropped between its call and the vector while its order waits.
THEOREM ResultsAreKept == Spec => []NoResultLost
BY IInvHolds, InvNoResultLost, PTL

LEMMA InvCancelSpares == IInv => CancelSparesCompleteAnswers
<1> SUFFICES ASSUME IInv, NEW o \in Orders, CompletelyAnswered(o), NEW i \in order[o], call[o][i] = "pending"
             PROVE  FALSE
  BY DEF CancelSparesCompleteAnswers
<1>1. ItemsOf(results[o]) = order[o] /\ \A j \in ItemsOf(results[o]) : call[o][j] = "done"
  BY AnswerCounts DEF CompletelyAnswered, AnsweredWith, Justified
<1> QED
  BY <1>1

\* A stop request never reaches a call of a completely answered order.
THEOREM CompleteAnswersSpared == Spec => []CancelSparesCompleteAnswers
BY IInvHolds, InvCancelSpares, PTL

\* One case per action that assigns the response.
LEMMA StepKeepsAnswers ==
  IInv /\ [Next]_vars => [\A o \in Orders : Answered(o) => response'[o] = response[o]]_vars
<1> SUFFICES ASSUME IInv, Next, NEW p \in Orders, Answered(p)
             PROVE  response'[p] = response[p]
  OBVIOUS
<1>1. ASSUME NEW o \in Orders, RequestStep(o) \/ ResultStep(o), p # o
      PROVE  response'[p] = response[p]
  BY <1>1, OthersAreSame DEF IInv, Same
<1>2. OrderInv(p) /\ (~responseSent[p] => entered[p] = {}) /\ request[p] # "idle"
  BY DEF IInv, OrderInv, FailureIsLast, FreshIsUntouched, Untouched
<1>3. CASE RequestStep(p)
  BY <1>2, <1>3 DEF RequestStep, BeginRequest, RejectRequest, ConsumeMessage, SendItem,
     ArmSoftDeadline, FailSoftDeadline, EndRequest
<1>4. CASE ResultStep(p)
  BY <1>2, <1>4 DEF ResultStep, CompleteCall, FireSoftDeadline, DropSoftDeadline, RouteResult,
     IgnoreLateResult, CollectResult, Insert, AnswerComplete, AnswerTimedOut, LeaveCallback
<1> QED
  BY <1>1, <1>3, <1>4 DEF Next, AllDrained, vars

\* A request is answered at most once.
THEOREM AnswersAreFinal == Spec => OneAnswer
BY IInvHolds, StepKeepsAnswers, PTL DEF Spec, OneAnswer

-----------------------------------------------------------------------------
(***************************************************************************)
(* The pipeline implements the promise of OrderAnswer.                     *)
(***************************************************************************)

(***************************************************************************)
(* What the mapping needs beyond IInv: inventory settles a line once, and  *)
(* a request without an order is one that beginRequest has answered.       *)
(***************************************************************************)
Settled(o, r) == MapOrderItemResultToOrderState(r) \in published[o]

SettledOnce(o) ==
  /\ \A r \in ItemResults : Settled(o, r) => r.item \in order[o] /\ call[o][r.item] = "done"
  /\ \A r, q \in ItemResults : Settled(o, r) /\ Settled(o, q) /\ r.item = q.item => r = q

RejectedIsAnswered(o) == request[o] = "failed" /\ order[o] = {} => Answered(o)

RInv == IInv /\ \A o \in Orders : SettledOnce(o) /\ RejectedIsAnswered(o)

LEMMA InitRInv == Init => RInv
<1> SUFFICES ASSUME Init, NEW o \in Orders
             PROVE  SettledOnce(o) /\ RejectedIsAnswered(o)
  BY InitInv DEF RInv
<1> QED
  BY DEF Init, SettledOnce, Settled, RejectedIsAnswered

\* A step that neither starts an order nor ends a call.
LEMMA SettledKept ==
  ASSUME NEW o \in Orders, SettledOnce(o), order'[o] = order[o],
         \A r \in ItemResults : Settled(o, r)' <=> Settled(o, r),
         \A i \in Items : call[o][i] = "done" => call'[o][i] = "done"
  PROVE  SettledOnce(o)'
BY DEF SettledOnce, ItemResults

LEMMA RequestStepSettled ==
  ASSUME RInv, NEW o \in Orders, RequestStep(o)
  PROVE  SettledOnce(o)' /\ RejectedIsAnswered(o)'
<1>0. TypeOK /\ OrderInv(o) /\ SettledOnce(o) /\ RejectedIsAnswered(o)
  BY DEF RInv, IInv
<1>1. published' = published
  BY DEF RequestStep, BeginRequest, RejectRequest, ConsumeMessage, SendItem, ArmSoftDeadline,
         FailSoftDeadline, EndRequest, Finish, pipeline
<1>2. \A r \in ItemResults : Settled(o, r)' <=> Settled(o, r)
  BY <1>1 DEF Settled
<1>3. CASE \E lines \in SUBSET Items : BeginRequest(o, lines)
  <2>1. \A i \in Items : call[o][i] # "done"
    BY <1>0, <1>3 DEF OrderInv, FreshIsUntouched, Untouched, BeginRequest
  <2>2. \A r \in ItemResults : ~Settled(o, r)
    BY <1>0, <2>1 DEF SettledOnce, ItemResults
  <2> QED
    BY <1>0, <1>2, <1>3, <2>2 DEF SettledOnce, RejectedIsAnswered, BeginRequest, TypeOK
<1>4. CASE RejectRequest(o)
  BY <1>0, <1>2, <1>4, SettledKept
  DEF RejectRequest, pipeline, shared, RejectedIsAnswered, Answered, ErrorResponse, NoResponse, TypeOK
<1>5. CASE ConsumeMessage(o)
  BY <1>0, <1>2, <1>5, SettledKept DEF ConsumeMessage, pipeline, shared, RejectedIsAnswered, Answered, TypeOK
<1>6. CASE \E i \in Items : SendItem(o, i)
  <2>1. PICK i \in Items : SendItem(o, i)
    BY <1>6
  <2>2. order' = order /\ request' = request /\ response' = response
    BY <2>1 DEF SendItem, shared
  <2>3. \A j \in Items : call[o][j] = "done" => call'[o][j] = "done"
    BY <1>0, <2>1 DEF SendItem, TypeOK
  <2> QED
    BY <1>0, <1>2, <2>2, <2>3, SettledKept DEF RejectedIsAnswered, Answered
<1>7. CASE ArmSoftDeadline(o) \/ FailSoftDeadline(o)
  <2>1. order[o] # {}
    BY <1>0, <1>7 DEF OrderInv, FreshIsUntouched, ArmSoftDeadline, FailSoftDeadline
  <2>2. order' = order /\ call' = call
    BY <1>7 DEF ArmSoftDeadline, FailSoftDeadline, pipeline, shared
  <2> QED
    BY <1>0, <1>2, <2>1, <2>2, SettledKept DEF RejectedIsAnswered
<1>8. CASE \E error \in BOOLEAN : EndRequest(o, error)
  <2>1. order' = order /\ call' = call /\ request'[o] = "ended"
    BY <1>0, <1>8 DEF EndRequest, Finish, pipeline, TypeOK
  <2> QED
    BY <1>0, <1>2, <2>1, SettledKept DEF RejectedIsAnswered
<1> QED
  BY <1>3, <1>4, <1>5, <1>6, <1>7, <1>8 DEF RequestStep

\* The end of a call settles its line.
LEMMA CallSettles ==
  ASSUME RInv, NEW o \in Orders, NEW i \in Items, NEW outcome \in Outcomes, CompleteCall(o, i, outcome)
  PROVE  /\ i \in order[o]
         /\ \A r \in ItemResults : Settled(o, r) => r.item # i
         /\ \A r \in ItemResults : Settled(o, r)' <=> Settled(o, r) \/ r = OrderItemResult(i, outcome)
         /\ \A j \in Items : call'[o][j] = IF j = i THEN "done" ELSE call[o][j]
<1>1. TypeOK /\ OrderInv(o) /\ SettledOnce(o)
  BY DEF RInv, IInv
<1> DEFINE q == OrderItemResult(i, outcome)
<1>2. q \in ItemResults
  BY ItemResultType
<1>3. call[o][i] = "pending" /\ \A j \in Items : call'[o][j] = IF j = i THEN "done" ELSE call[o][j]
  BY <1>1 DEF CompleteCall, TypeOK
<1>4. published'[o] = published[o] \cup {MapOrderItemResultToOrderState(q)}
  BY <1>1 DEF CompleteCall, PublishOrderProcessed, TypeOK
<1> HIDE DEF q
<1>5. \A r \in ItemResults : Settled(o, r)' <=> Settled(o, r) \/ r = q
  BY <1>2, <1>4, OrderStateInjective DEF Settled
<1>6. i \in order[o] /\ \A r \in ItemResults : Settled(o, r) => r.item # i
  BY <1>1, <1>3 DEF OrderInv, FreshIsUntouched, SettledOnce
<1> QED
  BY <1>3, <1>5, <1>6 DEF q

\* Nothing else that happens to a result settles one.
LEMMA ResultStepSettles ==
  ASSUME TypeOK, NEW o \in Orders, ResultStep(o),
         ~(\E i \in Items, outcome \in Outcomes : CompleteCall(o, i, outcome))
  PROVE  /\ UNCHANGED <<request, order, call>>
         /\ \A p \in Orders : published'[p] = published[p] \/ published'[p] = published[p] \cup {MapToOrderState}
<1> USE DEF TypeOK, pipeline, shared
<1>1. CASE FireSoftDeadline(o)
  BY <1>1 DEF FireSoftDeadline, PublishOrderProcessed
<1>2. CASE DropSoftDeadline(o) \/ \E s \in merged[o] : RouteResult(o, s)
  BY <1>2 DEF DropSoftDeadline, RouteResult
<1>3. CASE \E s \in entered[o] :
             IgnoreLateResult(o, s) \/ CollectResult(o, s) \/ AnswerComplete(o, s) \/ AnswerTimedOut(o, s)
  BY <1>3 DEF IgnoreLateResult, CollectResult, AnswerComplete, AnswerTimedOut, LeaveCallback
<1> QED
  BY <1>1, <1>2, <1>3 DEF ResultStep

\* A state made of a result is not the one the deadline sends.
LEMMA NotTheDeadline ==
  ASSUME NEW r \in ItemResults
  PROVE  MapOrderItemResultToOrderState(r) # MapToOrderState
BY OrderStateCarries DEF MapToOrderState

LEMMA ResultStepSettled ==
  ASSUME RInv, NEW o \in Orders, ResultStep(o)
  PROVE  SettledOnce(o)' /\ RejectedIsAnswered(o)'
<1>0. TypeOK /\ OrderInv(o) /\ SettledOnce(o) /\ RejectedIsAnswered(o)
  BY DEF RInv, IInv
<1>1. ASSUME NEW i \in Items, NEW outcome \in Outcomes, CompleteCall(o, i, outcome)
      PROVE  SettledOnce(o)' /\ RejectedIsAnswered(o)'
  <2>1. UNCHANGED <<request, order, response>>
    BY <1>1 DEF CompleteCall, shared
  <2>2. OrderItemResult(i, outcome).item = i
    BY DEF OrderItemResult
  <2>3. /\ i \in order[o]
        /\ \A r \in ItemResults : Settled(o, r) => r.item # i
        /\ \A r \in ItemResults : Settled(o, r)' <=> Settled(o, r) \/ r = OrderItemResult(i, outcome)
        /\ \A j \in Items : call'[o][j] = IF j = i THEN "done" ELSE call[o][j]
    BY <1>1, CallSettles
  <2>4. SettledOnce(o)'
    <3>1. ASSUME NEW r \in ItemResults, Settled(o, r)'
          PROVE  r.item \in order'[o] /\ call'[o][r.item] = "done"
      <4>1. r.item \in Items
        BY DEF ItemResults
      <4> QED
        BY <1>0, <2>1, <2>2, <2>3, <3>1, <4>1 DEF SettledOnce
    <3>2. ASSUME NEW r \in ItemResults, NEW t \in ItemResults, Settled(o, r)', Settled(o, t)', r.item = t.item
          PROVE  r = t
      BY <1>0, <2>2, <2>3, <3>2 DEF SettledOnce
    <3> QED
      BY <3>1, <3>2 DEF SettledOnce
  <2> QED
    BY <1>0, <2>1, <2>4 DEF RejectedIsAnswered, Answered
<1>2. CASE ~(\E i \in Items, outcome \in Outcomes : CompleteCall(o, i, outcome))
  <2>1. /\ UNCHANGED <<request, order, call>>
        /\ published'[o] = published[o] \/ published'[o] = published[o] \cup {MapToOrderState}
    BY <1>0, <1>2, ResultStepSettles
  <2>2. \A r \in ItemResults : Settled(o, r)' <=> Settled(o, r)
    BY <2>1, NotTheDeadline DEF Settled
  <2>3. RejectedIsAnswered(o)'
    <3>1. CASE FireSoftDeadline(o) \/ DropSoftDeadline(o) \/ \E s \in merged[o] : RouteResult(o, s)
      <4>1. response' = response
        BY <3>1 DEF FireSoftDeadline, DropSoftDeadline, RouteResult
      <4> QED
        BY <1>0, <2>1, <4>1 DEF RejectedIsAnswered, Answered
    <3>2. CASE entered[o] # {}
      <4>1. order[o] # {}
        BY <1>0, <3>2 DEF OrderInv, FreshIsUntouched, Untouched, InFlight
      <4> QED
        BY <2>1, <4>1 DEF RejectedIsAnswered
    <3> QED
      BY <1>2, <3>1, <3>2 DEF ResultStep
  <2> QED
    BY <1>0, <2>1, <2>2, <2>3, SettledKept
<1> QED
  BY <1>1, <1>2

LEMMA StepRInv == RInv /\ [Next]_vars => RInv'
<1> SUFFICES ASSUME RInv, [Next]_vars PROVE RInv'
  OBVIOUS
<1>1. IInv /\ IInv'
  BY StepInv DEF RInv
<1>2. ASSUME NEW o \in Orders, RequestStep(o) \/ ResultStep(o), NEW p \in Orders
      PROVE  SettledOnce(p)' /\ RejectedIsAnswered(p)'
  <2>1. CASE p = o
    BY <1>2, <2>1, RequestStepSettled, ResultStepSettled
  <2>2. CASE p # o
    <3>1. Same(p)
      BY <1>1, <1>2, <2>2, OthersAreSame DEF IInv
    <3> QED
      BY <3>1 DEF RInv, Same, SettledOnce, Settled, RejectedIsAnswered, Answered
  <2> QED
    BY <2>1, <2>2
<1>3. CASE UNCHANGED vars
  <2> SUFFICES ASSUME NEW p \in Orders PROVE SettledOnce(p)' /\ RejectedIsAnswered(p)'
    BY <1>1 DEF RInv
  <2>1. Same(p)
    BY <1>3 DEF Same, vars
  <2> QED
    BY <2>1 DEF RInv, Same, SettledOnce, Settled, RejectedIsAnswered, Answered
<1> QED
  BY <1>1, <1>2, <1>3 DEF RInv, Next, AllDrained, vars

LEMMA RInvHolds == Spec => []RInv
BY InitRInv, StepRInv, PTL DEF Spec

-----------------------------------------------------------------------------
(***************************************************************************)
(* The mapping.                                                            *)
(***************************************************************************)

\* A line is settled as its result says.
LEMMA SettledAsResult ==
  ASSUME TypeOK, NEW o \in Orders, NEW i \in Items, NEW status \in {"CONFIRMED", "PARTIALLY_CONFIRMED"}
  PROVE  SettledAs(o, i, status) <=>
           \E r \in ItemResults : Settled(o, r) /\ r.item = i /\ (r.reserved <=> status = "CONFIRMED")
<1>1. ASSUME NEW s \in published[o], s.status = status, i \in ItemsOf(s.confirmed_items)
      PROVE  \E r \in ItemResults : Settled(o, r) /\ r.item = i /\ (r.reserved <=> status = "CONFIRMED")
  <2>1. s \in OrderStates /\ s.status # "TIMED_OUT"
    BY <1>1 DEF TypeOK
  <2>2. PICK r \in ItemResults : s = MapOrderItemResultToOrderState(r)
    BY <2>1, OrderStateCases
  <2>3. s.confirmed_items = <<r>> /\ s.status = IF r.reserved THEN "CONFIRMED" ELSE "PARTIALLY_CONFIRMED"
    BY <2>2, OrderStateCarries
  <2>4. r.item = i
    BY <1>1, <2>3 DEF ItemsOf
  <2> QED
    BY <1>1, <2>2, <2>3, <2>4 DEF Settled
<1>2. ASSUME NEW r \in ItemResults, Settled(o, r), r.item = i, r.reserved <=> status = "CONFIRMED"
      PROVE  SettledAs(o, i, status)
  <2> DEFINE s == MapOrderItemResultToOrderState(r)
  <2>1. s.confirmed_items = <<r>> /\ s.status = status
    BY <1>2, OrderStateCarries
  <2>2. i \in ItemsOf(<<r>>)
    BY <1>2 DEF ItemsOf
  <2> QED
    BY <1>2, <2>1, <2>2 DEF Settled, SettledAs
<1> QED
  BY <1>1, <1>2 DEF SettledAs

LEMMA OutcomeOfResult ==
  ASSUME TypeOK, NEW o \in Orders, SettledOnce(o), NEW r \in ItemResults, Settled(o, r)
  PROVE  OutcomeOf(o, r.item) = IF r.reserved THEN "reserved" ELSE "refused"
<1>1. r.item \in Items
  BY DEF ItemResults
<1>2. \A q \in ItemResults : Settled(o, q) /\ q.item = r.item => q = r
  BY DEF SettledOnce
<1>3. SettledAs(o, r.item, "CONFIRMED") <=> r.reserved
  BY <1>1, <1>2, SettledAsResult DEF ItemResults
<1>4. SettledAs(o, r.item, "PARTIALLY_CONFIRMED") <=> ~r.reserved
  BY <1>1, <1>2, SettledAsResult DEF ItemResults
<1> QED
  BY <1>3, <1>4 DEF OutcomeOf

LEMMA OutcomeOfNone ==
  ASSUME TypeOK, NEW o \in Orders, NEW i \in Items, \A r \in ItemResults : Settled(o, r) => r.item # i
  PROVE  OutcomeOf(o, i) = "none"
BY SettledAsResult DEF OutcomeOf

Outcome == [o \in Orders |-> [i \in Items |-> OutcomeOf(o, i)]]

Answer == [o \in Orders |-> AnswerOf(o)]

\* The events of the soft deadline settle nothing.
LEMMA OutcomeKept ==
  ASSUME \A p \in Orders : published'[p] = published[p] \/ published'[p] = published[p] \cup {MapToOrderState}
  PROVE  Outcome' = Outcome
<1>1. ASSUME NEW p \in Orders, NEW i \in Items, NEW status \in {"CONFIRMED", "PARTIALLY_CONFIRMED"}
      PROVE  SettledAs(p, i, status)' <=> SettledAs(p, i, status)
  BY DEF SettledAs, MapToOrderState
<1>2. \A p \in Orders, i \in Items : OutcomeOf(p, i)' = OutcomeOf(p, i)
  BY <1>1 DEF OutcomeOf
<1> QED
  BY <1>2 DEF Outcome

\* An answer is named by its code, or by its status.
AnswersNamed ==
  \A o \in Orders :
    /\ AnswerOf(o) = "none" <=> ~Answered(o)
    /\ response[o] = ErrorResponse(400) => AnswerOf(o) = "REJECTED"
    /\ response[o] = ErrorResponse(500) => AnswerOf(o) = "FAILED"
    /\ response[o].code = 200 => AnswerOf(o) = response[o].status

LEMMA AnswerOfResponse == TypeOK => AnswersNamed
<1> SUFFICES ASSUME TypeOK, NEW o \in Orders
             PROVE  /\ AnswerOf(o) = "none" <=> ~Answered(o)
                    /\ response[o] = ErrorResponse(400) => AnswerOf(o) = "REJECTED"
                    /\ response[o] = ErrorResponse(500) => AnswerOf(o) = "FAILED"
                    /\ response[o].code = 200 => AnswerOf(o) = response[o].status
  BY DEF AnswersNamed
<1>1. response[o] \in Responses
  BY DEF TypeOK
<1>2. CASE response[o] = NoResponse
  BY <1>2 DEF AnswerOf, Answered, NoResponse, ErrorResponse
<1>3. CASE response[o] = ErrorResponse(400)
  BY <1>3 DEF AnswerOf, Answered, NoResponse, ErrorResponse
<1>4. CASE response[o] = ErrorResponse(500)
  BY <1>4 DEF AnswerOf, Answered, NoResponse, ErrorResponse
<1>5. CASE response[o].code = 200 /\ response[o].status \in {"CONFIRMED", "PARTIALLY_CONFIRMED", "TIMED_OUT"}
  BY <1>5 DEF AnswerOf, Answered, NoResponse, ErrorResponse
<1> QED
  BY <1>1, <1>2, <1>3, <1>4, <1>5 DEF Responses

LEMMA AnswerOfResponseNext == TypeOK' => AnswersNamed'
BY AnswerOfResponse, PTL

LEMMA ExactNext == IInv' => CompleteAnswerIsExact' /\ AnswerListsOnlyPublished'
BY InvCompleteAnswer, InvListsPublished, PTL

\* An answer given to one order is given to no other.
LEMMA AnswerGiven ==
  ASSUME TypeOK, NEW o \in Orders, NEW a, response' = [response EXCEPT ![o] = a]
  PROVE  Answer' = [Answer EXCEPT ![o] = AnswerOf(o)']
<1>1. \A p \in Orders : p # o => response'[p] = response[p]
  BY DEF TypeOK
<1>2. \A p \in Orders : p # o => AnswerOf(p)' = AnswerOf(p)
  BY <1>1 DEF AnswerOf
<1> QED
  BY <1>2 DEF Answer

LEMMA AnswersKept == response' = response => Answer' = Answer
BY DEF Answer, AnswerOf

LEMMA PromiseInit == Init => Promise!Init
<1> SUFFICES ASSUME Init PROVE Promise!Init
  OBVIOUS
<1>1. \A o \in Orders, i \in Items : OutcomeOf(o, i) = "none"
  BY DEF Init, OutcomeOf, SettledAs
<1>2. \A o \in Orders : AnswerOf(o) = "none"
  BY InitType, AnswerOfResponse DEF Init, Answered, AnswersNamed
<1> QED
  BY <1>1, <1>2 DEF Init, Promise!Init

\* The request thread accepts, rejects or fails an order, or is not seen.
LEMMA RequestStepPromised ==
  ASSUME RInv, RInv', NEW o \in Orders, RequestStep(o)
  PROVE  [Promise!Next]_(Promise!vars)
<1>0. TypeOK /\ TypeOK' /\ OrderInv(o) /\ RejectedIsAnswered(o)
  BY DEF RInv, IInv
<1>1. Outcome' = Outcome
  <2>1. published' = published
    BY DEF RequestStep, BeginRequest, RejectRequest, ConsumeMessage, SendItem, ArmSoftDeadline,
           FailSoftDeadline, EndRequest, Finish, pipeline
  <2> QED
    BY <2>1, OutcomeKept
<1>2. CASE \E lines \in SUBSET Items : BeginRequest(o, lines)
  <2>1. PICK lines \in SUBSET Items : BeginRequest(o, lines)
    BY <1>2
  <2>2. order[o] = {} /\ AnswerOf(o) = "none"
    BY <1>0, <2>1, AnswerOfResponse
    DEF OrderInv, FreshIsUntouched, Untouched, FailureIsLast, BeginRequest, AnswersNamed
  <2>3. Answer' = Answer
    BY <2>1, AnswersKept DEF BeginRequest
  <2> QED
    BY <1>1, <2>1, <2>2, <2>3 DEF BeginRequest, Promise!Next, Promise!Submit, Outcome, Answer
<1>3. CASE RejectRequest(o)
  <2>1. order[o] = {} /\ AnswerOf(o) = "none"
    BY <1>0, <1>3, AnswerOfResponse
    DEF OrderInv, FreshIsUntouched, Untouched, FailureIsLast, RejectRequest, AnswersNamed
  <2>2. response' = [response EXCEPT ![o] = ErrorResponse(400)] /\ order' = order
    BY <1>3 DEF RejectRequest, shared
  <2>3. AnswerOf(o)' = "REJECTED"
    BY <1>0, <2>2, AnswerOfResponseNext DEF TypeOK, AnswersNamed
  <2>4. Answer' = [Answer EXCEPT ![o] = "REJECTED"]
    BY <1>0, <2>2, <2>3, AnswerGiven
  <2> QED
    BY <1>1, <2>1, <2>2, <2>4 DEF Promise!Next, Promise!Reject, Promise!Give, Outcome, Answer
<1>4. CASE ConsumeMessage(o) \/ (\E i \in Items : SendItem(o, i)) \/ ArmSoftDeadline(o) \/ FailSoftDeadline(o)
  <2>1. order' = order /\ response' = response
    BY <1>4 DEF ConsumeMessage, SendItem, ArmSoftDeadline, FailSoftDeadline, shared
  <2> QED
    BY <1>1, <2>1, AnswersKept DEF Promise!vars, Outcome, Answer
<1>5. ASSUME NEW error \in BOOLEAN, EndRequest(o, error)
      PROVE  [Promise!Next]_(Promise!vars)
  <2>1. order' = order
    BY <1>5 DEF EndRequest, Finish
  <2>2. CASE response' = response
    BY <1>1, <2>1, <2>2, AnswersKept DEF Promise!vars, Outcome, Answer
  <2>3. CASE ~Answered(o) /\ response' = [response EXCEPT ![o] = ErrorResponse(500)]
    <3>1. order[o] # {} /\ AnswerOf(o) = "none"
      BY <1>0, <1>5, <2>3, AnswerOfResponse
      DEF EndRequest, Finish, OrderInv, FreshIsUntouched, RejectedIsAnswered, AnswersNamed
    <3>2. AnswerOf(o)' = "FAILED"
      BY <1>0, <2>3, AnswerOfResponseNext DEF TypeOK, AnswersNamed
    <3>3. Answer' = [Answer EXCEPT ![o] = "FAILED"]
      BY <1>0, <2>3, <3>2, AnswerGiven
    <3> QED
      BY <1>1, <2>1, <3>1, <3>3
      DEF Promise!Next, Promise!Answer, Promise!Fail, Promise!Give, Outcome, Answer
  <2> QED
    BY <1>5, <2>2, <2>3 DEF EndRequest, Fail
<1> QED
  BY <1>2, <1>3, <1>4, <1>5 DEF RequestStep

\* The end of a call settles a line of the promise.
LEMMA CompleteCallPromised ==
  ASSUME RInv, NEW o \in Orders, NEW i \in Items, NEW outcome \in Outcomes, CompleteCall(o, i, outcome)
  PROVE  Promise!Next
<1>0. TypeOK
  BY DEF RInv, IInv
<1> DEFINE q == OrderItemResult(i, outcome)
           word == IF q.reserved THEN "reserved" ELSE "refused"
<1>1. i \in order[o] /\ OutcomeOf(o, i) = "none"
  BY <1>0, CallSettles, OutcomeOfNone
<1>2. order' = order /\ Answer' = Answer
  BY AnswersKept DEF CompleteCall, shared
<1>3. q \in ItemResults /\ q.item = i
  BY ItemResultType DEF OrderItemResult
<1>4. published' = [published EXCEPT ![o] = @ \cup {MapOrderItemResultToOrderState(q)}]
  BY DEF CompleteCall, PublishOrderProcessed
<1> HIDE DEF q
<1>5. ItemsOf(<<q>>) = {i}
  BY <1>3 DEF ItemsOf
<1>6. ASSUME NEW p \in Orders, NEW j \in Items, NEW status \in {"CONFIRMED", "PARTIALLY_CONFIRMED"}
      PROVE  SettledAs(p, j, status)' <=>
               \/ SettledAs(p, j, status)
               \/ p = o /\ j = i /\ status = IF q.reserved THEN "CONFIRMED" ELSE "PARTIALLY_CONFIRMED"
  BY <1>0, <1>3, <1>4, <1>5, OrderStateCarries DEF SettledAs, TypeOK
<1>7. \A p \in Orders, j \in Items :
        OutcomeOf(p, j)' = IF p = o /\ j = i THEN word ELSE OutcomeOf(p, j)
  BY <1>1, <1>6 DEF OutcomeOf
<1>8. Outcome' = [Outcome EXCEPT ![o][i] = word]
  BY <1>7 DEF Outcome
<1> QED
  BY <1>1, <1>2, <1>8 DEF Promise!Next, Promise!Settle, Outcome, Answer

\* A complete answer is justified by what has been settled.
LEMMA AnswerCompletePromised ==
  ASSUME RInv, RInv', NEW o \in Orders, NEW s \in entered[o], AnswerComplete(o, s)
  PROVE  Promise!Next
<1>0. TypeOK /\ TypeOK' /\ IInv' /\ IInv /\ SettledOnce(o)
  BY DEF RInv, IInv
<1> DEFINE rs == Collected(o, s)
<1>1. order' = order /\ published' = published
  BY DEF AnswerComplete, LeaveCallback, pipeline
<1>2. order[o] # {} /\ ~Answered(o)
  BY <1>0, LeaveCallbackFacts DEF AnswerComplete
<1>3. /\ rs \in Seq(ItemResults)
      /\ response' = [response EXCEPT ![o] = OrderResponse(o, CompleteStatus(rs), rs)]
  BY <1>0, CollectedType DEF AnswerComplete, SendResponse
<1> HIDE DEF rs
<1>4. /\ response'[o].code = 200 /\ response'[o].status = CompleteStatus(rs)
      /\ response'[o].items = rs
  BY <1>0, <1>3 DEF OrderResponse, TypeOK
<1>5. ItemsOf(rs) = order[o] /\ \A k \in DOMAIN rs : Settled(o, rs[k])
  BY <1>0, <1>1, <1>4, ExactNext
  DEF CompleteAnswerIsExact, CompletelyAnswered, AnsweredWith, AnswerListsOnlyPublished, Settled, CompleteStatus
<1>6. \A k \in DOMAIN rs : rs[k] \in ItemResults /\ rs[k].item \in order[o]
        /\ OutcomeOf(o, rs[k].item) = IF rs[k].reserved THEN "reserved" ELSE "refused"
  BY <1>0, <1>3, <1>5, OutcomeOfResult DEF ItemsOf
<1>7. \A i \in order[o] : \E k \in DOMAIN rs : rs[k].item = i
  BY <1>5 DEF ItemsOf
<1>8. AnswerOf(o) = "none" /\ Answer' = [Answer EXCEPT ![o] = CompleteStatus(rs)] /\ Outcome' = Outcome
  <2>1. AnswerOf(o) = "none" /\ AnswerOf(o)' = CompleteStatus(rs)
    BY <1>0, <1>2, <1>4, AnswerOfResponse, AnswerOfResponseNext DEF AnswersNamed
  <2>2. Answer' = [Answer EXCEPT ![o] = AnswerOf(o)']
    BY <1>0, <1>3, AnswerGiven
  <2> QED
    BY <1>1, <2>1, <2>2, OutcomeKept
<1>9. order[o] \subseteq Items
  BY <1>0 DEF TypeOK
<1>10. CASE AllReserved(rs)
  <2>1. \A i \in order[o] : OutcomeOf(o, i) = "reserved"
    BY <1>6, <1>7, <1>10 DEF AllReserved
  <2>2. CompleteStatus(rs) = "CONFIRMED"
    BY <1>10 DEF CompleteStatus
  <2> QED
    BY <1>1, <1>2, <1>8, <1>9, <2>1, <2>2
    DEF Promise!Next, Promise!Answer, Promise!Confirm, Promise!Give, Outcome, Answer
<1>11. CASE ~AllReserved(rs)
  <2>1. \A i \in order[o] : OutcomeOf(o, i) # "none"
    BY <1>6, <1>7
  <2>2. \E i \in order[o] : OutcomeOf(o, i) = "refused"
    BY <1>6, <1>11 DEF AllReserved
  <2>3. CompleteStatus(rs) = "PARTIALLY_CONFIRMED"
    BY <1>11 DEF CompleteStatus
  <2> QED
    BY <1>1, <1>2, <1>8, <1>9, <2>1, <2>2, <2>3
    DEF Promise!Next, Promise!Answer, Promise!ConfirmPartially, Promise!Give, Outcome, Answer
<1> QED
  BY <1>10, <1>11

LEMMA AnswerTimedOutPromised ==
  ASSUME RInv, RInv', NEW o \in Orders, NEW s \in entered[o], AnswerTimedOut(o, s)
  PROVE  Promise!Next
<1>0. TypeOK /\ TypeOK' /\ IInv
  BY DEF RInv, IInv
<1>1. order' = order /\ published' = published
  BY DEF AnswerTimedOut, LeaveCallback, pipeline
<1>2. order[o] # {} /\ ~Answered(o)
  BY <1>0, LeaveCallbackFacts DEF AnswerTimedOut
<1>3. response' = [response EXCEPT ![o] = OrderResponse(o, "TIMED_OUT", results[o])]
  BY DEF AnswerTimedOut, SendResponse
<1>4. response'[o].code = 200 /\ response'[o].status = "TIMED_OUT"
  BY <1>0, <1>3 DEF OrderResponse, TypeOK
<1>5. AnswerOf(o) = "none" /\ Answer' = [Answer EXCEPT ![o] = "TIMED_OUT"] /\ Outcome' = Outcome
  <2>1. AnswerOf(o) = "none" /\ AnswerOf(o)' = "TIMED_OUT"
    BY <1>0, <1>2, <1>4, AnswerOfResponse, AnswerOfResponseNext DEF AnswersNamed
  <2>2. Answer' = [Answer EXCEPT ![o] = AnswerOf(o)']
    BY <1>0, <1>3, AnswerGiven
  <2> QED
    BY <1>1, <2>1, <2>2, OutcomeKept
<1> QED
  BY <1>1, <1>2, <1>5 DEF Promise!Next, Promise!Answer, Promise!TimeOut, Promise!Give, Outcome, Answer

LEMMA ResultStepPromised ==
  ASSUME RInv, RInv', NEW o \in Orders, ResultStep(o)
  PROVE  [Promise!Next]_(Promise!vars)
<1>0. TypeOK
  BY DEF RInv, IInv
<1>1. ASSUME NEW i \in Items, NEW outcome \in Outcomes, CompleteCall(o, i, outcome) PROVE Promise!Next
  BY <1>1, CompleteCallPromised
<1>2. ASSUME NEW s \in entered[o], AnswerComplete(o, s) PROVE Promise!Next
  BY <1>2, AnswerCompletePromised
<1>3. ASSUME NEW s \in entered[o], AnswerTimedOut(o, s) PROVE Promise!Next
  BY <1>3, AnswerTimedOutPromised
<1>4. CASE \/ FireSoftDeadline(o) \/ DropSoftDeadline(o) \/ \E s \in merged[o] : RouteResult(o, s)
           \/ \E s \in entered[o] : IgnoreLateResult(o, s) \/ CollectResult(o, s)
  <2>1. order' = order /\ response' = response
    BY <1>4 DEF FireSoftDeadline, DropSoftDeadline, RouteResult, IgnoreLateResult, CollectResult,
       LeaveCallback, Insert, shared
  <2>2. \A p \in Orders : published'[p] = published[p] \/ published'[p] = published[p] \cup {MapToOrderState}
    BY <1>0, <1>4 DEF FireSoftDeadline, DropSoftDeadline, RouteResult, IgnoreLateResult, CollectResult,
       LeaveCallback, PublishOrderProcessed, pipeline, TypeOK
  <2> QED
    BY <2>1, <2>2, OutcomeKept, AnswersKept DEF Promise!vars, Outcome, Answer
<1> QED
  BY <1>1, <1>2, <1>3, <1>4 DEF ResultStep

\* Every behaviour of the pipeline, whatever the order of results, deadlines and
\* failures, is one the promise allows: no answer is made up, none is replaced,
\* and each is justified by the reservations made before it.
THEOREM PipelineImplementsPromise == Spec => Promise!Spec
<1>1. RInv /\ RInv' /\ [Next]_vars => [Promise!Next]_(Promise!vars)
  <2> SUFFICES ASSUME RInv, RInv', [Next]_vars PROVE [Promise!Next]_(Promise!vars)
    OBVIOUS
  <2>1. CASE UNCHANGED vars
    BY <2>1, AnswersKept, OutcomeKept DEF vars, Promise!vars, Outcome, Answer
  <2> QED
    BY <2>1, RequestStepPromised, ResultStepPromised DEF Next, AllDrained
<1> QED
  BY <1>1, PromiseInit, RInvHolds, PTL DEF Spec, Promise!Spec
=============================================================================
