-------------------------- MODULE InventoryLedger --------------------------
(***************************************************************************)
(* What inventoryservice promises (spec/inventoryservice/task1.md:16-17):  *)
(* a reservation takes the requested quantity in one step if the stock     *)
(* covers it, and is refused in one step if it does not.                   *)
(***************************************************************************)
EXTENDS Integers

CONSTANTS Calls, Skus, Unknown, Stock, Quantities

VARIABLES
  left,     \* what is left of each SKU
  demand,   \* the request of each call, NoDemand before it arrives
  verdict   \* the outcome of each call

vars == <<left, demand, verdict>>

NoDemand == [sku |-> Unknown, quantity |-> 0]

Init ==
  /\ left    = Stock
  /\ demand  = [c \in Calls |-> NoDemand]
  /\ verdict = [c \in Calls |-> "none"]

Ask(c, sku, q) ==
  /\ demand[c] = NoDemand
  /\ demand' = [demand EXCEPT ![c] = [sku |-> sku, quantity |-> q]]
  /\ UNCHANGED <<left, verdict>>

Undecided(c) == demand[c] # NoDemand /\ verdict[c] = "none"

Grant(c) ==
  LET sku == demand[c].sku  q == demand[c].quantity IN
  /\ Undecided(c)
  /\ sku \in Skus
  /\ left[sku] >= q
  /\ left'    = [left EXCEPT ![sku] = @ - q]
  /\ verdict' = [verdict EXCEPT ![c] = "CONFIRMED"]
  /\ UNCHANGED demand

Refuse(c) ==
  /\ Undecided(c)
  /\ demand[c].sku \in Skus => left[demand[c].sku] < demand[c].quantity
  /\ verdict' = [verdict EXCEPT ![c] = "OUT_OF_STOCK"]
  /\ UNCHANGED <<left, demand>>

Next ==
  \E c \in Calls :
    \/ \E sku \in Skus \cup {Unknown}, q \in Quantities : Ask(c, sku, q)
    \/ Grant(c)
    \/ Refuse(c)

Spec == Init /\ [][Next]_vars

\* Every reservation asked for is decided.
FairSpec == Spec /\ \A c \in Calls : WF_vars(Grant(c) \/ Refuse(c))
=============================================================================
