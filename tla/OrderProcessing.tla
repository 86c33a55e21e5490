-------------------------- MODULE OrderProcessing --------------------------
(***************************************************************************)
(* The order pipeline of orderservice: the HTTP endpoint ProcessOrder, the *)
(* stream graph behind it and the handlers of its sinks.                   *)
(*                                                                         *)
(*   processOrder -> splitPipeline                                         *)
(*      branch 0: processOrderItems -> processOrderItem (gRPC)             *)
(*                   -> mapOrderItemResultToOrderState -> mergeResults     *)
(*      branch 1: softDeadline (delay) -> mapToOrderState -> mergeResults  *)
(*   mergeResults -> splitOrderResult                                      *)
(*      branch 0: mapToOrderProcessed -> publishOrderProcessed (Kafka)     *)
(*      branch 1: the result callback of the request                       *)
(*                                                                         *)
(* Every link is a function call: a request dispatches its items and then  *)
(* arms the delay in one thread, and the thread that completes an          *)
(* inventory call (or fires the delay) publishes the event and then enters *)
(* the callback.  Those threads interleave freely; the callback itself     *)
(* runs under SharedState.mutex, so it is one step here.                   *)
(*                                                                         *)
(* servicelib, which drives the handlers, is outside the repository.  What *)
(* is assumed of it: it calls beginRequest, consumeMessage and endRequest  *)
(* of a request in this order; a unary gRPC call completes exactly once,   *)
(* with a response or an error; a callback that returned true or whose     *)
(* request ended is no longer looked up; endRequest does not overlap a     *)
(* callback already entered for the same request.                          *)
(***************************************************************************)
EXTENDS Naturals, Sequences, FiniteSets

CONSTANTS
  Orders,   \* the requests that may arrive, one order each
  Items     \* positions of the lines of an order

ASSUME ItemsFinite == IsFiniteSet(Items)

VARIABLES
  request,       \* progress of the calls the framework makes for a request
  order,         \* SharedState.order: the lines submitted, {} if there is no SharedState
  call,          \* the inventory call of each line
  timer,         \* the softDeadline delay
  published,     \* order states whose event was sent to Kafka
  merged,        \* order states past publication, not yet at the callback
  callback,      \* is the result callback registered
  entered,       \* order states whose callback waits for SharedState.mutex
  results,       \* SharedState.results
  responseSent,  \* SharedState.responseSent
  cancel,        \* SharedState.cancel: has a stop been requested
  response       \* data.response and data.responseBody

pipeline == <<call, timer, published, merged>>
shared   == <<order, results, responseSent, cancel>>
vars     == <<request, order, call, timer, published, merged, callback,
              entered, results, responseSent, cancel, response>>

-----------------------------------------------------------------------------
(* The data that flows: an item result, the order states made of it, the   *)
(* event made of an order state, the response made of the results.  An     *)
(* amount is represented by the set of lines it is the sum of.             *)

Outcomes == {"CONFIRMED", "OUT_OF_STOCK", "PROCESSING_ERROR"}

\* handleResponse takes reserved and status from the reply; the inventory
\* service answers CONFIRMED exactly when it reserved.
OrderItemResult(i, outcome) ==
  [item |-> i, reserved |-> outcome = "CONFIRMED", status |-> outcome]

ItemResults ==
  [item : Items, reserved : BOOLEAN, status : Outcomes]

MapOrderItemResultToOrderState(r) ==
  [status |-> IF r.reserved THEN "CONFIRMED" ELSE "PARTIALLY_CONFIRMED",
   confirmed_items |-> <<r>>]

MapToOrderState ==
  [status |-> "TIMED_OUT", confirmed_items |-> << >>]

OrderStates ==
  { MapOrderItemResultToOrderState(r) : r \in ItemResults } \cup {MapToOrderState}

MapToOrderProcessed(s) ==
  [status          |-> s.status,
   total_items     |-> Len(s.confirmed_items),
   confirmed_items |-> Cardinality({k \in DOMAIN s.confirmed_items :
                                      s.confirmed_items[k].reserved})]

AllReserved(rs) == \A k \in DOMAIN rs : rs[k].reserved

ItemsOf(rs) == { rs[k].item : k \in DOMAIN rs }

NoResponse == [code |-> 0]

ErrorResponse(code) == [code |-> code]

\* The lines whose price is in total_amount: those with a result, or the
\* submitted total when no result arrived.
TotalAmount(o, rs) == IF rs = << >> THEN order[o] ELSE ItemsOf(rs)

OrderResponse(o, status, rs) ==
  [code |-> 200, status |-> status, items |-> rs, total |-> TotalAmount(o, rs)]

Answered(o) == response[o] # NoResponse

-----------------------------------------------------------------------------
Init ==
  /\ request      = [o \in Orders |-> "idle"]
  /\ order        = [o \in Orders |-> {}]
  /\ call         = [o \in Orders |-> [i \in Items |-> "unsent"]]
  /\ timer        = [o \in Orders |-> "unarmed"]
  /\ published    = [o \in Orders |-> {}]
  /\ merged       = [o \in Orders |-> {}]
  /\ callback     = [o \in Orders |-> FALSE]
  /\ entered      = [o \in Orders |-> {}]
  /\ results      = [o \in Orders |-> << >>]
  /\ responseSent = [o \in Orders |-> FALSE]
  /\ cancel       = [o \in Orders |-> FALSE]
  /\ response     = [o \in Orders |-> NoResponse]

(***************************************************************************)
(* The request thread.                                                     *)
(***************************************************************************)

\* beginRequest, successful: SharedState is built around the submitted lines
\* and the request gets its deadline and its cancellation token.
BeginRequest(o, lines) ==
  /\ request[o] = "idle"
  /\ lines # {}
  /\ request' = [request EXCEPT ![o] = "begun"]
  /\ order'   = [order EXCEPT ![o] = lines]
  /\ UNCHANGED <<pipeline, callback, entered, results, responseSent, cancel, response>>

\* beginRequest, failing: no items, a quantity that is not positive, a missing
\* field.  The error is answered and rethrown; the state handed on is empty.
RejectRequest(o) ==
  /\ request[o] = "idle"
  /\ request'  = [request EXCEPT ![o] = "failed"]
  /\ response' = [response EXCEPT ![o] = ErrorResponse(400)]
  /\ UNCHANGED <<pipeline, shared, callback, entered>>

\* (defect) the order is collected before the callback is registered
ConsumeMessageLateCallback(o) ==
  /\ request[o] = "begun"
  /\ request' = [request EXCEPT ![o] = "dispatching"]
  /\ UNCHANGED <<pipeline, shared, callback, entered, response>>

\* consumeMessage registers the result callback before it collects the order.
ConsumeMessage(o) ==
  /\ request[o] = "begun"
  /\ request'  = [request EXCEPT ![o] = "dispatching"]
  /\ callback' = [callback EXCEPT ![o] = TRUE]
  /\ UNCHANGED <<pipeline, shared, entered, response>>

\* One turn of the loop of ProcessOrderItems down to sender.send of the sink.
SendItem(o, i) ==
  /\ request[o] = "dispatching"
  /\ i \in order[o]
  /\ call[o][i] = "unsent"
  /\ call' = [call EXCEPT ![o][i] = "pending"]
  /\ UNCHANGED <<request, timer, published, merged, shared, callback, entered, response>>

AllSent(o) == \A i \in order[o] : call[o][i] # "unsent"

\* Second branch of splitPipeline: the delay is armed once every item is sent,
\* and collect returns.
ArmSoftDeadline(o) ==
  /\ request[o] = "dispatching"
  /\ AllSent(o)
  /\ timer'   = [timer EXCEPT ![o] = "armed"]
  /\ request' = [request EXCEPT ![o] = "awaiting"]
  /\ UNCHANGED <<call, published, merged, shared, callback, entered, response>>

\* SoftDeadline throws when the environment or the delay's configuration is
\* missing: the items are already sent, the exception fails the request.
FailSoftDeadline(o) ==
  /\ request[o] = "dispatching"
  /\ AllSent(o)
  /\ request' = [request EXCEPT ![o] = "failed"]
  /\ UNCHANGED <<pipeline, shared, callback, entered, response>>

(***************************************************************************)
(* The threads that complete inventory calls and fire the delay.           *)
(***************************************************************************)

\* (defect) the event goes out after the callback has seen the order state, when
\* the next one comes
PublishOrderProcessedLast(o, s) ==
  /\ published' = [published EXCEPT ![o] = @ \cup entered[o]]
  /\ merged'    = [merged EXCEPT ![o] = @ \cup {s}]

\* mergeResults -> splitOrderResult branch 0 -> publishOrderProcessed
PublishOrderProcessed(o, s) ==
  /\ published' = [published EXCEPT ![o] = @ \cup {s}]
  /\ merged'    = [merged EXCEPT ![o] = @ \cup {s}]

\* The call of a line ends: handleResponse collects the reply, or endRequest
\* collects a PROCESSING_ERROR result for the error.
CompleteCall(o, i, outcome) ==
  /\ call[o][i] = "pending"
  /\ call' = [call EXCEPT ![o][i] = "done"]
  /\ PublishOrderProcessed(o, MapOrderItemResultToOrderState(OrderItemResult(i, outcome)))
  /\ UNCHANGED <<request, timer, shared, callback, entered, response>>

FireSoftDeadline(o) ==
  /\ timer[o] = "armed"
  /\ timer' = [timer EXCEPT ![o] = "fired"]
  /\ PublishOrderProcessed(o, MapToOrderState)
  /\ UNCHANGED <<request, call, shared, callback, entered, response>>

\* Whether the delay of a cancelled context still fires is the framework's choice.
DropSoftDeadline(o) ==
  /\ timer[o] = "armed"
  /\ cancel[o]
  /\ timer' = [timer EXCEPT ![o] = "dropped"]
  /\ UNCHANGED <<request, call, published, merged, shared, callback, entered, response>>

\* splitOrderResult branch 1: the callback is looked up by getMessageId.
RouteResult(o, s) ==
  /\ s \in merged[o]
  /\ merged'  = [merged EXCEPT ![o] = @ \ {s}]
  /\ entered' = IF callback[o] THEN [entered EXCEPT ![o] = @ \cup {s}] ELSE entered
  /\ UNCHANGED <<request, call, timer, published, shared, callback, response>>

(***************************************************************************)
(* The result callback, under SharedState.mutex: one action per exit.      *)
(***************************************************************************)

Collected(o, s) == results[o] \o s.confirmed_items

LeaveCallback(o, s) ==
  /\ s \in entered[o]
  /\ entered' = [entered EXCEPT ![o] = @ \ {s}]
  /\ UNCHANGED <<request, order, pipeline, cancel>>

Insert(o, rs) ==
  /\ results' = [results EXCEPT ![o] = rs]
  /\ UNCHANGED <<callback, responseSent, response>>

SendResponse(o, status, rs) ==
  /\ results'      = [results EXCEPT ![o] = rs]
  /\ response'     = [response EXCEPT ![o] = OrderResponse(o, status, rs)]
  /\ responseSent' = [responseSent EXCEPT ![o] = TRUE]
  /\ callback'     = [callback EXCEPT ![o] = FALSE]

IgnoreLateResult(o, s) ==
  /\ LeaveCallback(o, s)
  /\ responseSent[o]
  /\ callback' = [callback EXCEPT ![o] = FALSE]
  /\ UNCHANGED <<results, responseSent, response>>

\* (defect) off by one: the last result is collected without answering
CollectResultOffByOne(o, s) ==
  /\ LeaveCallback(o, s)
  /\ ~responseSent[o] /\ s.status # "TIMED_OUT"
  /\ Len(Collected(o, s)) <= Cardinality(order[o])
  /\ Insert(o, Collected(o, s))

CollectResult(o, s) ==
  /\ LeaveCallback(o, s)
  /\ ~responseSent[o] /\ s.status # "TIMED_OUT"
  /\ Len(Collected(o, s)) < Cardinality(order[o])
  /\ Insert(o, Collected(o, s))

CompleteStatus(rs) == IF AllReserved(rs) THEN "CONFIRMED" ELSE "PARTIALLY_CONFIRMED"

\* (defect) off by one: answered while one result is missing
AnswerCompleteTooEarly(o, s) ==
  /\ LeaveCallback(o, s)
  /\ ~responseSent[o] /\ s.status # "TIMED_OUT"
  /\ Len(Collected(o, s)) + 1 >= Cardinality(order[o])
  /\ SendResponse(o, CompleteStatus(Collected(o, s)), Collected(o, s))

\* (defect) the status is computed before the last result is inserted
AnswerCompleteStaleStatus(o, s) ==
  /\ LeaveCallback(o, s)
  /\ ~responseSent[o] /\ s.status # "TIMED_OUT"
  /\ Len(Collected(o, s)) >= Cardinality(order[o])
  /\ SendResponse(o, CompleteStatus(results[o]), Collected(o, s))

AnswerComplete(o, s) ==
  /\ LeaveCallback(o, s)
  /\ ~responseSent[o] /\ s.status # "TIMED_OUT"
  /\ Len(Collected(o, s)) >= Cardinality(order[o])
  /\ SendResponse(o, CompleteStatus(Collected(o, s)), Collected(o, s))

\* (defect) the timeout only answers an order that has some result
AnswerTimedOutWithResults(o, s) ==
  /\ LeaveCallback(o, s)
  /\ ~responseSent[o] /\ s.status = "TIMED_OUT" /\ results[o] # << >>
  /\ SendResponse(o, "TIMED_OUT", results[o])

\* (defect) the timeout answers with the status of the results there are
AnswerTimedOutAsComplete(o, s) ==
  /\ LeaveCallback(o, s)
  /\ ~responseSent[o] /\ s.status = "TIMED_OUT"
  /\ SendResponse(o, CompleteStatus(results[o]), results[o])

AnswerTimedOut(o, s) ==
  /\ LeaveCallback(o, s)
  /\ ~responseSent[o] /\ s.status = "TIMED_OUT"
  /\ SendResponse(o, "TIMED_OUT", results[o])

-----------------------------------------------------------------------------
(***************************************************************************)
(* endRequest.  Without an error only after resultContext.done(); with an  *)
(* error when an earlier call threw, when the deadline passes or when the  *)
(* client is gone, answered or not.                                        *)
(***************************************************************************)
Finish(o, error) ==
  /\ request[o] \in {"awaiting", "failed"}
  /\ entered[o] = {}
  /\ request[o] = "failed" => error
  /\ ~error => responseSent[o]
  /\ request'  = [request EXCEPT ![o] = "ended"]
  /\ callback' = [callback EXCEPT ![o] = FALSE]
  /\ UNCHANGED <<order, pipeline, entered, results, responseSent>>

\* request_stop, if beginRequest handed a SharedState on
RequestStop(o) == cancel' = [cancel EXCEPT ![o] = order[o] # {}]

Fail(o) == response' = [response EXCEPT ![o] = ErrorResponse(500)]

\* (defect) an error replaces the response already made
EndRequestOverwrites(o, error) ==
  /\ Finish(o, error)
  /\ RequestStop(o)
  /\ IF error THEN Fail(o) ELSE UNCHANGED response

\* (defect) the calls still pending are not cancelled
EndRequestWithoutStop(o, error) ==
  /\ Finish(o, error)
  /\ UNCHANGED cancel
  /\ IF error /\ ~Answered(o) THEN Fail(o) ELSE UNCHANGED response

EndRequest(o, error) ==
  /\ Finish(o, error)
  /\ RequestStop(o)
  /\ IF error /\ ~Answered(o) THEN Fail(o) ELSE UNCHANGED response

RequestStep(o) ==
  \/ \E lines \in SUBSET Items : BeginRequest(o, lines)
  \/ RejectRequest(o)
  \/ ConsumeMessage(o)
  \/ \E i \in Items : SendItem(o, i)
  \/ ArmSoftDeadline(o)
  \/ FailSoftDeadline(o)
  \/ \E error \in BOOLEAN : EndRequest(o, error)

ResultStep(o) ==
  \/ \E i \in Items, outcome \in Outcomes : CompleteCall(o, i, outcome)
  \/ FireSoftDeadline(o)
  \/ DropSoftDeadline(o)
  \/ \E s \in merged[o] : RouteResult(o, s)
  \/ \E s \in entered[o] : IgnoreLateResult(o, s)
  \/ \E s \in entered[o] : CollectResult(o, s)
  \/ \E s \in entered[o] : AnswerComplete(o, s)
  \/ \E s \in entered[o] : AnswerTimedOut(o, s)

\* A request is over: ended, and nothing of it is left in the pipeline.
Drained(o) ==
  /\ request[o] = "ended"
  /\ \A i \in Items : call[o][i] # "pending"
  /\ timer[o] # "armed"
  /\ merged[o] = {}
  /\ entered[o] = {}

AllDrained == (\A o \in Orders : Drained(o)) /\ UNCHANGED vars

Next ==
  \/ \E o \in Orders : RequestStep(o) \/ ResultStep(o)
  \/ AllDrained

Spec == Init /\ [][Next]_vars

(***************************************************************************)
(* Fairness.  Handlers and executors run what they were given.  The        *)
(* inventory service owes no reply: a call is only sure to end once its    *)
(* context is cancelled.  Nor does anything here rely on the hard          *)
(* deadline: endRequest is only sure to come after done() or a failure.    *)
(***************************************************************************)
Dispatch(o) ==
  ConsumeMessage(o) \/ (\E i \in Items : SendItem(o, i)) \/ ArmSoftDeadline(o)

RunCallback(o) ==
  \E s \in entered[o] :
    IgnoreLateResult(o, s) \/ CollectResult(o, s) \/ AnswerComplete(o, s) \/ AnswerTimedOut(o, s)

CancelledCallEnds(o) ==
  \E i \in Items : cancel[o] /\ CompleteCall(o, i, "PROCESSING_ERROR")

FinishRequest(o) ==
  /\ Answered(o) \/ request[o] = "failed"
  /\ \E error \in BOOLEAN : EndRequest(o, error)

Fairness ==
  \A o \in Orders :
    /\ WF_vars(Dispatch(o))
    /\ WF_vars(FireSoftDeadline(o) \/ DropSoftDeadline(o))
    /\ WF_vars(\E s \in merged[o] : RouteResult(o, s))
    /\ WF_vars(RunCallback(o))
    /\ WF_vars(CancelledCallEnds(o))
    /\ WF_vars(FinishRequest(o))

FairSpec == Spec /\ Fairness

-----------------------------------------------------------------------------
(* Properties *)

Responses ==
  { NoResponse, ErrorResponse(400), ErrorResponse(500) } \cup
  [code : {200}, status : {"CONFIRMED", "PARTIALLY_CONFIRMED", "TIMED_OUT"},
   items : Seq(ItemResults), total : SUBSET Items]

\* Every variable stays in the range the code gives it.
TypeOK ==
  /\ request      \in [Orders -> {"idle", "begun", "dispatching", "awaiting", "failed", "ended"}]
  /\ order        \in [Orders -> SUBSET Items]
  /\ call         \in [Orders -> [Items -> {"unsent", "pending", "done"}]]
  /\ timer        \in [Orders -> {"unarmed", "armed", "fired", "dropped"}]
  /\ published    \in [Orders -> SUBSET OrderStates]
  /\ merged       \in [Orders -> SUBSET OrderStates]
  /\ callback     \in [Orders -> BOOLEAN]
  /\ entered      \in [Orders -> SUBSET OrderStates]
  /\ results      \in [Orders -> Seq(ItemResults)]
  /\ responseSent \in [Orders -> BOOLEAN]
  /\ cancel       \in [Orders -> BOOLEAN]
  /\ response     \in [Orders -> Responses]

\* A response with the status st has been given to order o.
AnsweredWith(o, st) == response[o].code = 200 /\ response[o].status = st

CompletelyAnswered(o) ==
  AnsweredWith(o, "CONFIRMED") \/ AnsweredWith(o, "PARTIALLY_CONFIRMED")

\* Whatever the order in which result threads enter the callback
\* (process_order_source.hpp:138-158), an answer CONFIRMED or
\* PARTIALLY_CONFIRMED holds the result of every submitted line exactly once,
\* says CONFIRMED only if all of them were reserved, and totals the whole order.
CompleteAnswerIsExact ==
  \A o \in Orders : CompletelyAnswered(o) =>
    /\ ItemsOf(response[o].items) = order[o]
    /\ Len(response[o].items) = Cardinality(order[o])
    /\ response[o].total = order[o]
    /\ AnsweredWith(o, "CONFIRMED") <=> AllReserved(response[o].items)

\* The soft deadline never wins against a full set of results: an answer
\* TIMED_OUT misses at least one submitted line, and lists no line twice.
TimedOutAnswerIsPartial ==
  \A o \in Orders : AnsweredWith(o, "TIMED_OUT") =>
    /\ ItemsOf(response[o].items) \subseteq order[o]
    /\ ItemsOf(response[o].items) # order[o]
    /\ Len(response[o].items) = Cardinality(ItemsOf(response[o].items))

\* Split branch 0 runs before branch 1 (streams.generated.cpp:32): every
\* result an answer lists has been published before, with the same outcome.
AnswerListsOnlyPublished ==
  \A o \in Orders : response[o].code = 200 =>
    \A k \in DOMAIN response[o].items :
      MapOrderItemResultToOrderState(response[o].items[k]) \in published[o]

\* While an order waits for its answer no result is dropped on the way: each
\* ended call is in the vector, at the mutex, or on its way to the callback,
\* which consumeMessage registers before it sends anything (129-171).
NoResultLost ==
  \A o \in Orders : request[o] \in {"dispatching", "awaiting"} /\ ~Answered(o) =>
    \A i \in order[o] : call[o][i] = "done" =>
      \/ i \in ItemsOf(results[o])
      \/ \E s \in merged[o] \cup entered[o] :
           s.status # "TIMED_OUT" /\ i \in ItemsOf(s.confirmed_items)

\* request_stop in endRequest (process_order_source.hpp:183) cancels the calls
\* still pending, never one of an order answered with all its results.
CancelSparesCompleteAnswers ==
  \A o \in Orders :
    cancel[o] /\ (\E i \in order[o] : call[o][i] = "pending") => ~CompletelyAnswered(o)

\* A request is answered once: neither a late result, nor the soft deadline,
\* nor an endRequest with an error replaces a response.
OneAnswer ==
  [][\A o \in Orders : Answered(o) => response'[o] = response[o]]_vars

\* Every accepted order gets a response, even if inventory never replies.
EveryOrderAnswered ==
  \A o \in Orders : request[o] = "begun" ~> Answered(o)

\* After the request is over its calls, delay and results drain away.
EveryOrderDrains ==
  \A o \in Orders : request[o] = "begun" ~> Drained(o)

(***************************************************************************)
(* The pipeline implements the promise of OrderAnswer.                     *)
(***************************************************************************)
SettledAs(o, i, status) ==
  \E s \in published[o] : s.status = status /\ i \in ItemsOf(s.confirmed_items)

OutcomeOf(o, i) ==
  IF SettledAs(o, i, "CONFIRMED") THEN "reserved"
  ELSE IF SettledAs(o, i, "PARTIALLY_CONFIRMED") THEN "refused" ELSE "none"

AnswerOf(o) ==
  CASE response[o].code = 0   -> "none"
    [] response[o].code = 400 -> "REJECTED"
    [] response[o].code = 500 -> "FAILED"
    [] response[o].code = 200 -> response[o].status

Promise == INSTANCE OrderAnswer
  WITH submitted <- order,
       outcome   <- [o \in Orders |-> [i \in Items |-> OutcomeOf(o, i)]],
       answer    <- [o \in Orders |-> AnswerOf(o)]

\* Every behaviour of the pipeline (process_order_source.hpp:58-192 with the
\* graph behind it) is one of the promise: the answer given is justified by
\* what inventory settled, and every accepted order is answered.
ImplementsPromise == Promise!FairSpec

\* spec/orderservice/task2.md:16: "Create an OrderProcessed event from the
\* final order state".  An event for an answered order has the status of the
\* answer and counts its items.
EventsReportFinalState ==
  \A o \in Orders : response[o].code = 200 =>
    \A s \in published[o] :
      /\ MapToOrderProcessed(s).status = response[o].status
      /\ MapToOrderProcessed(s).total_items = Len(response[o].items)

=============================================================================
