-------------------- MODULE InventoryReservation_proofs --------------------
(***************************************************************************)
(* Proofs about the compare-and-swap loop of inventoryservice, for any     *)
(* number of calls and SKUs, any initial stock and any positive            *)
(* quantities.                                                             *)
(***************************************************************************)
EXTENDS InventoryReservation, TLAPS

(***************************************************************************)
(* The inductive invariant.  The stock only decreases, so every value it   *)
(* has had is an upper bound of what is left; a thread past its load holds *)
(* one of those values, hence a thread that sees too little is right.      *)
(***************************************************************************)
PastBoundsStock ==
  \A sku \in Skus : stock[sku] \in past[sku] /\ \A v \in past[sku] : stock[sku] <= v

ThreadSawStock ==
  \A c \in Calls :
    /\ pc[c] = "loop" /\ Sku(c) \in Skus => available[c] \in past[Sku(c)]
    /\ Sku(c) \notin Skus => available[c] = 0
    /\ pc[c] = "load" => Sku(c) \in Skus
    /\ pc[c] = "idle" => Sku(c) \notin Skus

RepliedWhenDone == \A c \in Calls : pc[c] # "replied" <=> reply[c].status = "none"

ArrivedHasQuantity ==
  \A c \in Calls : item[c].quantity = 0 <=> pc[c] = "idle"

IInv ==
  /\ TypeOK
  /\ PastBoundsStock
  /\ ThreadSawStock
  /\ RepliedWhenDone
  /\ ArrivedHasQuantity
  /\ NoOverdraw
  /\ RefusalJustified
  /\ RefusalReportsStock

LEMMA InitInv == Init => IInv
BY StockAssumption DEF Init, IInv, TypeOK, PastBoundsStock, ThreadSawStock, RepliedWhenDone,
   ArrivedHasQuantity, NoOverdraw, RefusalJustified, RefusalReportsStock, NoItem, NoReply,
   Sku, Quantity

\* A call that arrives touches neither the stock nor the other calls.
LEMMA ConsumeMessageInv ==
  ASSUME IInv, NEW c \in Calls, NEW sku \in Skus \cup {Unknown}, NEW q \in Quantities,
         ConsumeMessage(c, sku, q)
  PROVE  IInv'
<1> USE StockAssumption DEF ConsumeMessage, Sku, Quantity
<1>1. TypeOK'
  BY DEF IInv, TypeOK
<1>2. PastBoundsStock' /\ NoOverdraw'
  BY DEF IInv, PastBoundsStock, NoOverdraw
<1>3. ThreadSawStock' /\ ArrivedHasQuantity' /\ RepliedWhenDone'
  <2>1. available[c] = 0
    BY DEF IInv, ThreadSawStock
  <2>2. \A d \in Calls : d # c => item'[d] = item[d] /\ pc'[d] = pc[d]
    BY DEF IInv, TypeOK
  <2>3. item'[c] = [sku |-> sku, quantity |-> q] /\ pc'[c] = IF sku \in Skus THEN "load" ELSE "loop"
    BY DEF IInv, TypeOK
  <2> QED
    BY <2>1, <2>2, <2>3 DEF IInv, TypeOK, ThreadSawStock, ArrivedHasQuantity, RepliedWhenDone
<1>4. RefusalJustified' /\ RefusalReportsStock'
  <2>1. reply[c].status = "none"
    BY DEF IInv, RepliedWhenDone
  <2> QED
    BY <2>1 DEF IInv, TypeOK, RefusalJustified, RefusalReportsStock
<1> QED
  BY <1>1, <1>2, <1>3, <1>4 DEF IInv

\* A load returns a value the stock has had.
LEMMA LoadInv ==
  ASSUME IInv, NEW c \in Calls, Load(c)
  PROVE  IInv'
<1> USE StockAssumption DEF Load, Sku, Quantity
<1>1. Sku(c) \in Skus
  BY DEF IInv, ThreadSawStock
<1>2. PICK v \in past[Sku(c)] : available' = [available EXCEPT ![c] = v]
  BY DEF IInv
<1>3. v \in Int
  BY <1>1, <1>2 DEF IInv, TypeOK
<1>4. TypeOK'
  BY <1>2, <1>3 DEF IInv, TypeOK
<1>5. \A d \in Calls : available'[d] = IF d = c THEN v ELSE available[d]
  BY <1>2 DEF IInv, TypeOK
<1>6. \A d \in Calls : pc'[d] = IF d = c THEN "loop" ELSE pc[d]
  BY DEF IInv, TypeOK
<1>7. ThreadSawStock'
  BY <1>1, <1>2, <1>5, <1>6 DEF IInv, ThreadSawStock
<1>8. RepliedWhenDone' /\ ArrivedHasQuantity'
  BY <1>6 DEF IInv, RepliedWhenDone, ArrivedHasQuantity
<1>9. PastBoundsStock' /\ NoOverdraw' /\ RefusalJustified' /\ RefusalReportsStock'
  BY DEF IInv, PastBoundsStock, NoOverdraw, RefusalJustified, RefusalReportsStock
<1> QED
  BY <1>4, <1>7, <1>8, <1>9 DEF IInv

\* A successful exchange lowers the stock, to no less than zero: refusals
\* stay justified, and the values already read stay upper bounds.
LEMMA ReserveInv ==
  ASSUME IInv, NEW c \in Calls, Reserve(c)
  PROVE  IInv'
<1> DEFINE sku == item[c].sku  q == item[c].quantity
<1> USE StockAssumption DEF Reserve, Covered, Reply, Sku, Quantity
<1>1. sku \in Skus /\ q \in Nat /\ q > 0 /\ stock[sku] \in Int /\ stock[sku] >= q
  BY DEF IInv, TypeOK, ArrivedHasQuantity
<1>2. \A s \in Skus : stock'[s] = IF s = sku THEN stock[sku] - q ELSE stock[s]
  BY <1>1 DEF IInv, TypeOK
<1>3. \A s \in Skus : past'[s] = IF s = sku THEN past[sku] \cup {stock[sku] - q} ELSE past[s]
  BY <1>1, <1>2 DEF IInv, TypeOK
<1>4. \A d \in Calls : pc'[d] = IF d = c THEN "replied" ELSE pc[d]
  BY DEF IInv, TypeOK
<1>5. \A d \in Calls : reply'[d] = IF d = c
        THEN [status |-> "CONFIRMED", reserved |-> TRUE, available_qty |-> q] ELSE reply[d]
  BY DEF IInv, TypeOK
<1>6. TypeOK'
  <2>1. stock' \in [Skus -> Int]
    BY <1>1 DEF IInv, TypeOK
  <2>2. past' \in [Skus -> SUBSET Int]
    BY <1>1, <1>2, <2>1 DEF IInv, TypeOK
  <2>3. reply' \in [Calls -> [status : {"none", "CONFIRMED", "OUT_OF_STOCK"},
                              reserved : BOOLEAN, available_qty : Int]]
    BY <1>1 DEF IInv, TypeOK
  <2> QED
    BY <2>1, <2>2, <2>3 DEF IInv, TypeOK
<1>7. PastBoundsStock'
  <2> SUFFICES ASSUME NEW s \in Skus
               PROVE  stock'[s] \in past'[s] /\ \A v \in past'[s] : stock'[s] <= v
    BY DEF PastBoundsStock
  <2>1. past[s] \subseteq Int /\ stock[s] \in Int
    BY DEF IInv, TypeOK
  <2>2. stock[s] \in past[s] /\ \A v \in past[s] : stock[s] <= v
    BY DEF IInv, PastBoundsStock
  <2>3. CASE s = sku
    BY <1>1, <1>2, <1>3, <2>1, <2>2, <2>3
  <2>4. CASE s # sku
    BY <1>2, <1>3, <2>2, <2>4
  <2> QED
    BY <2>3, <2>4
<1>8. NoOverdraw'
  BY <1>1, <1>2 DEF IInv, NoOverdraw
<1>9. ThreadSawStock' /\ RepliedWhenDone' /\ ArrivedHasQuantity'
  <2>1. ThreadSawStock'
    BY <1>1, <1>3, <1>4 DEF IInv, ThreadSawStock
  <2>2. RepliedWhenDone'
    BY <1>4, <1>5 DEF IInv, RepliedWhenDone
  <2>3. ArrivedHasQuantity'
    BY <1>4 DEF IInv, ArrivedHasQuantity
  <2> QED
    BY <2>1, <2>2, <2>3
<1>10. RefusalJustified' /\ RefusalReportsStock'
  <2> SUFFICES ASSUME NEW d \in Calls, reply'[d].status = "OUT_OF_STOCK"
               PROVE  /\ item[d].sku \in Skus => stock'[item[d].sku] < item[d].quantity
                      /\ IF item[d].sku \in Skus
                         THEN reply'[d].available_qty \in past'[item[d].sku]
                              /\ reply'[d].available_qty >= stock'[item[d].sku]
                         ELSE reply'[d].available_qty = 0
    BY DEF RefusalJustified, RefusalReportsStock
  <2>1. d # c /\ reply'[d] = reply[d]
    BY <1>5
  <2>2. item[d].sku \in Skus => stock[item[d].sku] < item[d].quantity
    BY <2>1 DEF IInv, RefusalJustified
  <2>3. IF item[d].sku \in Skus
        THEN reply[d].available_qty \in past[item[d].sku]
             /\ reply[d].available_qty >= stock[item[d].sku]
        ELSE reply[d].available_qty = 0
    BY <2>1 DEF IInv, RefusalReportsStock
  <2>4. item[d].quantity \in Nat /\ reply[d].available_qty \in Int
        /\ (item[d].sku \in Skus => stock[item[d].sku] \in Int)
    BY DEF IInv, TypeOK
  <2>5. item[d].sku \in Skus => stock'[item[d].sku] <= stock[item[d].sku]
                                /\ stock'[item[d].sku] \in Int
                                /\ past[item[d].sku] \subseteq past'[item[d].sku]
    BY <1>1, <1>2, <1>3, <2>4
  <2> QED
    BY <2>1, <2>2, <2>3, <2>4, <2>5
<1> QED
  BY <1>6, <1>7, <1>8, <1>9, <1>10 DEF IInv

\* A failed exchange reloads a value the stock has had.
LEMMA RetryInv ==
  ASSUME IInv, NEW c \in Calls, Retry(c)
  PROVE  IInv'
<1> USE DEF Retry, Covered, Sku, Quantity
<1>1. PICK v \in past[Sku(c)] : v <= available[c] /\ available' = [available EXCEPT ![c] = v]
  OBVIOUS
<1>2. Sku(c) \in Skus /\ v \in Int
  BY <1>1 DEF IInv, TypeOK
<1>3. TypeOK'
  BY <1>1, <1>2 DEF IInv, TypeOK
<1>4. ThreadSawStock'
  BY <1>1, <1>2 DEF IInv, TypeOK, ThreadSawStock
<1>5. PastBoundsStock' /\ RepliedWhenDone' /\ ArrivedHasQuantity' /\ NoOverdraw'
      /\ RefusalJustified' /\ RefusalReportsStock'
  BY DEF IInv, PastBoundsStock, RepliedWhenDone, ArrivedHasQuantity, NoOverdraw,
         RefusalJustified, RefusalReportsStock
<1> QED
  BY <1>3, <1>4, <1>5 DEF IInv

\* A thread refuses on a value that bounds the stock from above.
LEMMA RefuseInv ==
  ASSUME IInv, NEW c \in Calls, Refuse(c)
  PROVE  IInv'
<1> USE StockAssumption DEF Refuse, Covered, Reply, Sku, Quantity
<1>1. available[c] \in Int
  BY DEF IInv, TypeOK
<1>2. \A d \in Calls : pc'[d] = IF d = c THEN "replied" ELSE pc[d]
  BY DEF IInv, TypeOK
<1>3. \A d \in Calls : reply'[d] = IF d = c
        THEN [status |-> "OUT_OF_STOCK", reserved |-> FALSE, available_qty |-> available[c]]
        ELSE reply[d]
  BY DEF IInv, TypeOK
<1>4. TypeOK'
  BY <1>1 DEF IInv, TypeOK
<1>5. PastBoundsStock' /\ NoOverdraw'
  BY DEF IInv, PastBoundsStock, NoOverdraw
<1>6. ThreadSawStock'
  BY <1>2 DEF IInv, ThreadSawStock
<1>7. RepliedWhenDone'
  BY <1>2, <1>3 DEF IInv, RepliedWhenDone
<1>8. ArrivedHasQuantity'
  BY <1>2 DEF IInv, ArrivedHasQuantity
<1>9. RefusalJustified'
  <2>1. item[c].sku \in Skus =>
          stock[item[c].sku] \in Int /\ available[c] < item[c].quantity
          /\ stock[item[c].sku] <= available[c] /\ item[c].quantity \in Nat
    BY <1>1 DEF IInv, TypeOK, ThreadSawStock, PastBoundsStock
  <2> QED
    BY <1>1, <1>3, <2>1 DEF IInv, RefusalJustified
<1>10. RefusalReportsStock'
  <2>1. item[c].sku \in Skus => available[c] \in past[item[c].sku]
                               /\ stock[item[c].sku] <= available[c]
                               /\ stock[item[c].sku] \in Int
    BY DEF IInv, TypeOK, ThreadSawStock, PastBoundsStock
  <2>2. item[c].sku \notin Skus => available[c] = 0
    BY DEF IInv, ThreadSawStock
  <2> QED
    BY <1>1, <1>3, <2>1, <2>2 DEF IInv, RefusalReportsStock
<1> QED
  BY <1>4, <1>5, <1>6, <1>7, <1>8, <1>9, <1>10 DEF IInv

LEMMA StepInv == IInv /\ [Next]_vars => IInv'
<1> SUFFICES ASSUME IInv, [Next]_vars PROVE IInv'
  OBVIOUS
<1>1. ASSUME NEW c \in Calls, NEW sku \in Skus \cup {Unknown}, NEW q \in Quantities,
             ConsumeMessage(c, sku, q)
      PROVE  IInv'
  BY <1>1, ConsumeMessageInv
<1>2. ASSUME NEW c \in Calls, Load(c) PROVE IInv'
  BY <1>2, LoadInv
<1>3. ASSUME NEW c \in Calls, Reserve(c) PROVE IInv'
  BY <1>3, ReserveInv
<1>4. ASSUME NEW c \in Calls, Retry(c) PROVE IInv'
  BY <1>4, RetryInv
<1>5. ASSUME NEW c \in Calls, Refuse(c) PROVE IInv'
  BY <1>5, RefuseInv
<1>6. CASE UNCHANGED vars
  BY <1>6 DEF vars, IInv, TypeOK, PastBoundsStock, ThreadSawStock, RepliedWhenDone,
     ArrivedHasQuantity, NoOverdraw, RefusalJustified, RefusalReportsStock, Sku, Quantity
<1> QED
  BY <1>1, <1>2, <1>3, <1>4, <1>5, <1>6 DEF Next, AllReplied

LEMMA IInvHolds == Spec => []IInv
BY InitInv, StepInv, PTL DEF Spec

\* Type correctness of the reservation.
THEOREM ReservationTypeCorrect == Spec => []TypeOK
BY IInvHolds, PTL DEF IInv

\* Concurrent orders never overdraw the stock of a SKU, however many of them
\* run and whatever stale value each starts its loop from.
THEOREM StockNeverOverdrawn == Spec => []NoOverdraw
BY IInvHolds, PTL DEF IInv

\* A refusal is justified from the moment it is given and remains so.
THEOREM RefusalsJustified == Spec => []RefusalJustified
BY IInvHolds, PTL DEF IInv

\* The quantity reported with a refusal is one the stock has had and bounds
\* what is left.
THEOREM RefusalsReportStock == Spec => []RefusalReportsStock
BY IInvHolds, PTL DEF IInv

-----------------------------------------------------------------------------
(***************************************************************************)
(* The loop implements the ledger: an exchange that succeeds is the grant, *)
(* leaving the loop is the refusal, and what comes before is invisible.    *)
(***************************************************************************)

\* The verdict of the ledger changes where the reply does.
LEMMA VerdictAfterReply ==
  ASSUME TypeOK, NEW c \in Calls, NEW status, NEW qty, Reply(c, status, qty)
  PROVE  [d \in Calls |-> reply'[d].status] = [[d \in Calls |-> reply[d].status] EXCEPT ![c] = status]
BY DEF Reply, TypeOK

LEMMA LedgerInit == Init => Ledger!Init
BY DEF Init, Ledger!Init, Ledger!NoDemand, NoItem, NoReply

LEMMA LedgerStep ==
  ASSUME IInv, NEW c \in Calls,
         \/ \E sku \in Skus \cup {Unknown}, q \in Quantities : ConsumeMessage(c, sku, q)
         \/ Load(c) \/ Reserve(c) \/ Retry(c) \/ Refuse(c)
  PROVE  [Ledger!Next]_(Ledger!vars)
<1>0. TypeOK
  BY DEF IInv
<1>1. ASSUME NEW sku \in Skus \cup {Unknown}, NEW q \in Quantities, ConsumeMessage(c, sku, q)
      PROVE  Ledger!Ask(c, sku, q)
  <2>1. item[c].quantity = 0 /\ item[c].sku \notin Skus
    BY <1>1 DEF IInv, ArrivedHasQuantity, ThreadSawStock, ConsumeMessage, Sku
  <2>2. item[c] \in [sku : Skus \cup {Unknown}, quantity : Nat]
    BY <1>0 DEF TypeOK
  <2>3. item[c] = [sku |-> Unknown, quantity |-> 0]
    BY <2>1, <2>2
  <2> QED
    BY <1>1, <2>3 DEF Ledger!Ask, Ledger!NoDemand, ConsumeMessage
<1>2. CASE Load(c) \/ Retry(c)
  BY <1>2 DEF Load, Retry, Ledger!vars
<1>3. ASSUME pc[c] = "loop"
      PROVE  Ledger!Undecided(c)
  <2>1. item[c].quantity # 0 /\ reply[c].status = "none"
    BY <1>3 DEF IInv, ArrivedHasQuantity, RepliedWhenDone
  <2> QED
    BY <2>1 DEF Ledger!Undecided, Ledger!NoDemand
<1>4. ASSUME Reserve(c)
      PROVE  Ledger!Grant(c)
  <2>1. Reply(c, "CONFIRMED", Quantity(c)) /\ pc[c] = "loop"
    BY <1>4 DEF Reserve, Covered
  <2>2. [d \in Calls |-> reply'[d].status] = [[d \in Calls |-> reply[d].status] EXCEPT ![c] = "CONFIRMED"]
    BY <1>0, <2>1, VerdictAfterReply
  <2> QED
    BY <1>3, <1>4, <2>1, <2>2 DEF Reserve, Covered, Sku, Quantity, Ledger!Grant
<1>5. ASSUME Refuse(c)
      PROVE  Ledger!Refuse(c)
  <2>1. Reply(c, "OUT_OF_STOCK", available[c]) /\ pc[c] = "loop"
    BY <1>5 DEF Refuse
  <2>2. [d \in Calls |-> reply'[d].status] = [[d \in Calls |-> reply[d].status] EXCEPT ![c] = "OUT_OF_STOCK"]
    BY <1>0, <2>1, VerdictAfterReply
  <2>3. item[c].sku \in Skus => stock[item[c].sku] < item[c].quantity
    <3>1. item[c].sku \in Skus =>
            /\ available[c] < item[c].quantity /\ stock[item[c].sku] <= available[c]
            /\ stock[item[c].sku] \in Int /\ available[c] \in Int /\ item[c].quantity \in Int
      BY <1>0, <1>5 DEF IInv, TypeOK, ThreadSawStock, PastBoundsStock, Refuse, Covered, Sku, Quantity
    <3> QED
      BY <3>1
  <2> QED
    BY <1>3, <1>5, <2>1, <2>2, <2>3 DEF Refuse, Ledger!Refuse
<1> QED
  BY <1>1, <1>2, <1>4, <1>5 DEF Ledger!Next

\* The reservation is linearizable: every behaviour of the loop, with whatever
\* stale loads, is one of atomic reservations.
THEOREM ReservationImplementsLedger == Spec => Ledger!Spec
<1>1. IInv /\ [Next]_vars => [Ledger!Next]_(Ledger!vars)
  <2> SUFFICES ASSUME IInv, [Next]_vars PROVE [Ledger!Next]_(Ledger!vars)
    OBVIOUS
  <2>1. CASE UNCHANGED vars
    BY <2>1 DEF vars, Ledger!vars
  <2> QED
    BY <2>1, LedgerStep DEF Next, AllReplied
<1> QED
  BY <1>1, LedgerInit, IInvHolds, PTL DEF Spec, Ledger!Spec
=============================================================================
