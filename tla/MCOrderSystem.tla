--------------------------- MODULE MCOrderSystem ---------------------------
(* An instance of OrderSystem for TLC. *)
EXTENDS OrderSystem

\* A quantity beginRequest has to reject, and two that compete for the stock.
LineQuantities == {-1, 1, 2}
=============================================================================
