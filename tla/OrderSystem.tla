---------------------------- MODULE OrderSystem ----------------------------
(***************************************************************************)
(* orderservice and inventoryservice together: the pipeline of             *)
(* OrderProcessing with the reservation of InventoryReservation behind its *)
(* gRPC calls.                                                             *)
(*                                                                         *)
(* They share no state, only messages.  A request of a unary call may      *)
(* reach inventoryservice late or never and its reply may be lost: then    *)
(* orderservice sees an error, whatever inventoryservice did.  Nothing     *)
(* gives a reservation back.  The stock lives in memory, so a restart of   *)
(* inventoryservice begins again with the initial table.                   *)
(***************************************************************************)
EXTENDS Integers, FiniteSets, Functions

CONSTANTS
  Orders, Items,     \* requests and lines, as in OrderProcessing
  OneSku,            \* the SKU every line asks for
  InitialStock,      \* its stock in the table of GetInventoryItemData
  Quantities,        \* quantities a client may write in a line
  MaxRestarts        \* bound: restarts of inventoryservice

ASSUME SystemAssumption ==
  /\ IsFiniteSet(Orders) /\ IsFiniteSet(Items)
  /\ InitialStock \in Nat
  /\ Quantities \subseteq Int

VARIABLES
  request, order, call, timer, published, merged, callback, entered, results,
  responseSent, cancel, response,                           \* orderservice
  quantity,                                                 \* the lines' quantities
  stock, past, pc, item, available, reply,                  \* inventoryservice
  restarts                                                  \* its restarts

Order == INSTANCE OrderProcessing

Inventory == INSTANCE InventoryReservation
  WITH Calls <- Orders \X Items, Skus <- {OneSku}, Unknown <- << >>,
       Stock <- [sku \in {OneSku} |-> InitialStock], Quantities <- Quantities \cap (Nat \ {0})

orderVars     == <<request, order, call, timer, published, merged, callback,
                   entered, results, responseSent, cancel, response>>
inventoryVars == <<stock, past, pc, item, available, reply, restarts>>
requestVars   == <<quantity, inventoryVars>>
vars          == <<orderVars, requestVars>>

Init ==
  /\ Order!Init
  /\ quantity = [o \in Orders |-> [i \in Items |-> 0]]
  /\ Inventory!Init
  /\ restarts = 0

-----------------------------------------------------------------------------
(* orderservice *)

\* (defect) a line whose quantity is not positive is let through
AcceptAnyQuantity(o, lines, q) ==
  /\ Order!BeginRequest(o, lines)
  /\ quantity' = [quantity EXCEPT ![o] = q]
  /\ UNCHANGED inventoryVars

\* beginRequest accepts an order whose quantities are all positive ...
AcceptOrder(o, lines, q) ==
  /\ \A i \in lines : q[i] > 0
  /\ Order!BeginRequest(o, lines)
  /\ quantity' = [quantity EXCEPT ![o] = q]
  /\ UNCHANGED inventoryVars

\* ... and answers any other with an error.
RejectOrder(o) ==
  /\ Order!RejectRequest(o)
  /\ UNCHANGED requestVars

\* What orderservice does without meeting the others.
OrderStep(o) ==
  /\ \/ Order!ConsumeMessage(o)
     \/ \E i \in Items : Order!SendItem(o, i)
     \/ Order!ArmSoftDeadline(o)
     \/ Order!FailSoftDeadline(o)
     \/ Order!FireSoftDeadline(o)
     \/ Order!DropSoftDeadline(o)
     \/ \E s \in merged[o] : Order!RouteResult(o, s)
     \/ \E s \in entered[o] :
          \/ Order!IgnoreLateResult(o, s)
          \/ Order!CollectResult(o, s)
          \/ Order!AnswerComplete(o, s)
          \/ Order!AnswerTimedOut(o, s)
     \/ \E error \in BOOLEAN : Order!EndRequest(o, error)
  /\ UNCHANGED requestVars

CompleteCall(o, i, outcome) ==
  /\ Order!CompleteCall(o, i, outcome)
  /\ UNCHANGED requestVars

\* (defect) every reply is taken for a reservation
HandleAnyResponse(o, i) ==
  /\ reply[<<o, i>>] # Inventory!NoReply
  /\ CompleteCall(o, i, "CONFIRMED")

\* handleResponse takes the status of the reply.
HandleResponse(o, i) ==
  /\ reply[<<o, i>>] # Inventory!NoReply
  /\ CompleteCall(o, i, reply[<<o, i>>].status)

\* (defect) a call that failed is reported as a refusal
HandleErrorAsRefusal(o, i) == CompleteCall(o, i, "OUT_OF_STOCK")

\* endRequest of the gRPC sink with an error: the request or the reply is lost,
\* the deadline of the call has passed, or its context was cancelled.
HandleError(o, i) == CompleteCall(o, i, "PROCESSING_ERROR")

-----------------------------------------------------------------------------
(* inventoryservice *)

\* The request of a line arrives, perhaps after orderservice gave up on it.
ReceiveCall(o, i) ==
  /\ call[o][i] # "unsent"
  /\ Inventory!ConsumeMessage(<<o, i>>, OneSku, quantity[o][i])
  /\ UNCHANGED <<orderVars, quantity, restarts>>

InventoryStep(c) ==
  /\ Inventory!Load(c) \/ Inventory!Reserve(c) \/ Inventory!Retry(c) \/ Inventory!Refuse(c)
  /\ UNCHANGED <<orderVars, quantity, restarts>>

\* (defect) the calls being handled go on in the next incarnation
RestartKeepingCalls ==
  /\ restarts < MaxRestarts
  /\ restarts' = restarts + 1
  /\ stock' = [stock EXCEPT ![OneSku] = InitialStock]
  /\ past'  = [past EXCEPT ![OneSku] = {InitialStock}]
  /\ UNCHANGED <<orderVars, quantity, pc, item, available, reply>>

\* A restart: MakeGetInventoryItemData builds a new State, and the calls that
\* were being handled end without a reply.
RestartInventory ==
  /\ restarts < MaxRestarts
  /\ restarts' = restarts + 1
  /\ stock' = [stock EXCEPT ![OneSku] = InitialStock]
  /\ past'  = [past EXCEPT ![OneSku] = {InitialStock}]
  /\ pc'    = [c \in Orders \X Items |-> IF pc[c] = "idle" THEN "idle" ELSE "replied"]
  /\ UNCHANGED <<orderVars, quantity, item, available, reply>>

Finished ==
  /\ \A o \in Orders : Order!Drained(o)
  /\ UNCHANGED vars

Next ==
  \/ \E o \in Orders :
       \/ \E lines \in SUBSET Items, q \in [Items -> Quantities] : AcceptOrder(o, lines, q)
       \/ RejectOrder(o)
       \/ OrderStep(o)
       \/ \E i \in Items :
            HandleResponse(o, i) \/ HandleError(o, i) \/ ReceiveCall(o, i)
  \/ \E c \in Orders \X Items : InventoryStep(c)
  \/ RestartInventory
  \/ Finished

Spec == Init /\ [][Next]_vars

-----------------------------------------------------------------------------
(* Properties *)

ReservedFor(o, i) == reply[<<o, i>>].status = "CONFIRMED"

\* An order is answered CONFIRMED only if inventoryservice has taken every one
\* of its lines out of a stock, and a line is reported OUT_OF_STOCK, in time,
\* late or in a TIMED_OUT answer, only if it took nothing for it.
AnswerAgreesWithStock ==
  \A o \in Orders :
    /\ Order!AnsweredWith(o, "CONFIRMED") => \A i \in order[o] : ReservedFor(o, i)
    /\ response[o].code = 200 =>
         \A k \in DOMAIN response[o].items :
           response[o].items[k].status = "OUT_OF_STOCK" =>
             ~ReservedFor(o, response[o].items[k].item)

\* Stock that is gone although no result says so belongs to a line whose call
\* is pending or was reported as PROCESSING_ERROR: those are the reservations
\* that nobody knows of and nobody gives back.
LostReservationsAreErrors ==
  \A o \in Orders, i \in Items :
    ReservedFor(o, i) /\ call[o][i] = "done" =>
      \E status \in {"CONFIRMED", "PROCESSING_ERROR"} :
        Order!MapOrderItemResultToOrderState(
          [item |-> i, reserved |-> status = "CONFIRMED", status |-> status]) \in published[o]

\* What leaves the stock is what a validated order asked for: no request raises
\* it, and what all incarnations sold fits in their initial stocks.
StockBacksReservations ==
  LET sold == SumFunctionOnSet([c \in Orders \X Items |-> item[c].quantity],
                               { c \in Orders \X Items : reply[c].status = "CONFIRMED" })
  IN  /\ stock[OneSku] \in 0..InitialStock
      /\ sold <= (restarts + 1) * InitialStock
      /\ InitialStock - stock[OneSku] <= sold

Ledger == INSTANCE VolatileLedger
  WITH Calls <- Orders \X Items, Skus <- {OneSku}, Unknown <- << >>,
       Stock <- [sku \in {OneSku} |-> InitialStock], Quantities <- Quantities \cap (Nat \ {0}),
       left    <- stock,
       demand  <- item,
       verdict <- [c \in Orders \X Items |->
                     IF pc[c] = "replied" /\ reply[c].status = "none" THEN "lost"
                     ELSE reply[c].status]

\* Whatever order the requests come in, with orderservice gone or waiting and
\* restarts in between, each is decided by one atomic reservation against the
\* table of the incarnation that received it, or lost with it; a loop never goes
\* on with a quantity it read before the restart.
ImplementsVolatileLedger == Ledger!VolatileSpec
=============================================================================
