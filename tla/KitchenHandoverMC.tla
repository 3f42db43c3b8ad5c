------------------------- MODULE KitchenHandoverMC -------------------------
(* A small instance of KitchenHandover for TLC. *)
EXTENDS KitchenHandover

CONSTANTS o1

OneOrder == {o1}
=============================================================================
