----------------------- MODULE MCInventoryReservation -----------------------
(* Instances of InventoryReservation for TLC. *)
EXTENDS InventoryReservation, TLC

CONSTANTS sku1, sku2

\* Two SKUs whose stock runs out under two or three calls.
SmallStock == sku1 :> 3 @@ sku2 :> 2

\* One contended SKU.
OneStock == sku1 :> 4
=============================================================================
