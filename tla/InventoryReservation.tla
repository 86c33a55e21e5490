----------------------- MODULE InventoryReservation -----------------------
(***************************************************************************)
(* The reservation of stock in inventoryservice: the gRPC endpoint         *)
(* ProcessOrderItem, the function GetInventoryItemData with its            *)
(* compare-and-swap loop, and the stream that turns its error output into  *)
(* an OUT_OF_STOCK result.  The calls run in parallel threads.  Stock is   *)
(* one relaxed atomic per SKU: a compare-exchange acts on the latest       *)
(* value, but a load, and the reload of a failed compare-exchange, may     *)
(* return any value the thread has not seen overwritten.                   *)
(***************************************************************************)
EXTENDS Integers, FiniteSets

CONSTANTS
  Calls,       \* the gRPC calls that may arrive
  Skus,        \* the SKUs in the table
  Unknown,     \* a SKU that is not
  Stock,       \* the initial stock of each SKU
  Quantities   \* the quantities orderservice asks for

\* beginRequest of orderservice lets only positive quantities through.
ASSUME StockAssumption ==
  /\ Stock \in [Skus -> Nat]
  /\ Quantities \subseteq Nat \ {0}
  /\ Unknown \notin Skus

VARIABLES
  stock,      \* the atomics of State.stock
  past,       \* every value each atomic has had
  pc,         \* where the thread of each call is
  item,       \* the OrderItem of each call
  available,  \* the local variable of operator()
  reply       \* the ProcessOrderItemResponse

vars == <<stock, past, pc, item, available, reply>>

NoReply == [status |-> "none", reserved |-> FALSE, available_qty |-> 0]

NoItem == [sku |-> Unknown, quantity |-> 0]

Init ==
  /\ stock     = Stock
  /\ past      = [sku \in Skus |-> {Stock[sku]}]
  /\ pc        = [c \in Calls |-> "idle"]
  /\ item      = [c \in Calls |-> NoItem]
  /\ available = [c \in Calls |-> 0]
  /\ reply     = [c \in Calls |-> NoReply]

Quantity(c) == item[c].quantity
Sku(c) == item[c].sku

\* consumeMessage registers the callback of the call and collects the item;
\* operator() looks the SKU up.  An unknown one leaves available at 0.
ConsumeMessage(c, sku, q) ==
  /\ pc[c] = "idle"
  /\ item' = [item EXCEPT ![c] = [sku |-> sku, quantity |-> q]]
  /\ pc'   = [pc EXCEPT ![c] = IF sku \in Skus THEN "load" ELSE "loop"]
  /\ UNCHANGED <<stock, past, available, reply>>

Load(c) ==
  /\ pc[c] = "load"
  /\ \E v \in past[Sku(c)] : available' = [available EXCEPT ![c] = v]
  /\ pc' = [pc EXCEPT ![c] = "loop"]
  /\ UNCHANGED <<stock, past, item, reply>>

Reply(c, status, qty) ==
  /\ reply' = [reply EXCEPT ![c] = [status        |-> status,
                                    reserved      |-> status = "CONFIRMED",
                                    available_qty |-> qty]]
  /\ pc' = [pc EXCEPT ![c] = "replied"]

Covered(c) == pc[c] = "loop" /\ Sku(c) \in Skus /\ available[c] >= Quantity(c)

\* (defect) the difference is stored without comparing
ReserveStore(c) ==
  /\ Covered(c)
  /\ stock' = [stock EXCEPT ![Sku(c)] = available[c] - Quantity(c)]
  /\ past'  = [past EXCEPT ![Sku(c)] = @ \cup {stock'[Sku(c)]}]
  /\ Reply(c, "CONFIRMED", Quantity(c))
  /\ UNCHANGED <<item, available>>

\* compare_exchange_weak succeeds; the result goes to out, mergeInventoryResult
\* and the callback, which sends it.
Reserve(c) ==
  /\ Covered(c)
  /\ stock[Sku(c)] = available[c]
  /\ stock' = [stock EXCEPT ![Sku(c)] = @ - Quantity(c)]
  /\ past'  = [past EXCEPT ![Sku(c)] = @ \cup {stock'[Sku(c)]}]
  /\ Reply(c, "CONFIRMED", Quantity(c))
  /\ UNCHANGED <<item, available>>

\* (defect) the expected value is not reloaded
RetryWithoutReload(c) ==
  /\ Covered(c)
  /\ UNCHANGED vars

\* compare_exchange_weak fails, because the stock moved or spuriously, and
\* reloads available with a value at least as recent.
Retry(c) ==
  /\ Covered(c)
  /\ \E v \in past[Sku(c)] : v <= available[c] /\ available' = [available EXCEPT ![c] = v]
  /\ UNCHANGED <<stock, past, pc, item, reply>>

\* The failure goes to the error output, where GetInventoryItemError makes it
\* an OUT_OF_STOCK result that keeps the available quantity.
Refuse(c) ==
  /\ pc[c] = "loop"
  /\ ~Covered(c)
  /\ Reply(c, "OUT_OF_STOCK", available[c])
  /\ UNCHANGED <<stock, past, item, available>>

AllReplied == (\A c \in Calls : pc[c] = "replied") /\ UNCHANGED vars

Next ==
  \/ \E c \in Calls :
       \/ \E sku \in Skus \cup {Unknown}, q \in Quantities : ConsumeMessage(c, sku, q)
       \/ Load(c)
       \/ Reserve(c)
       \/ Retry(c)
       \/ Refuse(c)
  \/ AllReplied

Spec == Init /\ [][Next]_vars

(***************************************************************************)
(* Fairness.  A thread keeps running.  A store becomes visible to later    *)
(* loads in finite time, and compare_exchange_weak does not fail           *)
(* spuriously for ever: a reload that may see the latest value, and an     *)
(* exchange that may succeed, happen if they can again and again.          *)
(***************************************************************************)
ReloadLatest(c) == Retry(c) /\ available'[c] = stock[Sku(c)]

Fairness ==
  \A c \in Calls :
    /\ WF_vars(Load(c))
    /\ WF_vars(Refuse(c))
    /\ SF_vars(Reserve(c))
    /\ SF_vars(ReloadLatest(c) /\ available' # available)

FairSpec == Spec /\ Fairness

-----------------------------------------------------------------------------
(* Properties *)

TypeOK ==
  /\ stock     \in [Skus -> Int]
  /\ past      \in [Skus -> SUBSET Int]
  /\ pc        \in [Calls -> {"idle", "load", "loop", "replied"}]
  /\ item      \in [Calls -> [sku : Skus \cup {Unknown}, quantity : Nat]]
  /\ available \in [Calls -> Int]
  /\ reply     \in [Calls -> [status : {"none", "CONFIRMED", "OUT_OF_STOCK"},
                              reserved : BOOLEAN, available_qty : Int]]

\* spec/inventoryservice/task1.md:16: concurrent orders do not overdraw stock,
\* whatever stale values the loop of get_inventory_item_data.hpp:47-55 starts from.
NoOverdraw == \A sku \in Skus : stock[sku] >= 0

\* A refusal from a stale value is still right: the stock did not cover the
\* request when it was refused, and never will again.
RefusalJustified ==
  \A c \in Calls : reply[c].status = "OUT_OF_STOCK" /\ Sku(c) \in Skus =>
    stock[Sku(c)] < Quantity(c)

\* The quantity reported with a refusal is one the stock really had, and no
\* less than what is left (task1.md:17).
RefusalReportsStock ==
  \A c \in Calls : reply[c].status = "OUT_OF_STOCK" =>
    IF Sku(c) \in Skus
    THEN reply[c].available_qty \in past[Sku(c)] /\ reply[c].available_qty >= stock[Sku(c)]
    ELSE reply[c].available_qty = 0

\* The loop ends: every call is answered under contention and spurious failures.
EveryCallReplied == \A c \in Calls : pc[c] = "load" ~> pc[c] = "replied"

Ledger == INSTANCE InventoryLedger
  WITH left    <- stock,
       demand  <- item,
       verdict <- [c \in Calls |-> reply[c].status]

\* The compare-and-swap loop is linearizable: each call takes effect in the one
\* step of the atomic reservation.
ImplementsLedger == Ledger!FairSpec

\* spec/inventoryservice/task2.md:16: "When inventory processing fails, return
\* an OUT_OF_STOCK result with no available quantity."
RefusalReportsNothing ==
  \A c \in Calls : reply[c].status = "OUT_OF_STOCK" => reply[c].available_qty = 0
=============================================================================
