------------------------- MODULE MCOrderProcessing -------------------------
(* An instance of OrderProcessing for TLC. *)
EXTENDS OrderProcessing
=============================================================================
