--------------------------- MODULE VolatileLedger ---------------------------
(***************************************************************************)
(* What inventoryservice promises when it may restart.  The table of       *)
(* State.stock is memory: a restart fills it again, decides nothing that   *)
(* was undecided, and takes back nothing that was decided.  Within one     *)
(* incarnation the reservations are those of InventoryLedger.              *)
(***************************************************************************)
EXTENDS InventoryLedger

Restart ==
  /\ left'    = Stock
  /\ verdict' = [c \in Calls |-> IF Undecided(c) THEN "lost" ELSE verdict[c]]
  /\ UNCHANGED demand

VolatileSpec == Init /\ [][Next \/ Restart]_vars
=============================================================================
