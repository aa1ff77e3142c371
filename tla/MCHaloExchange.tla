--------------------------- MODULE MCHaloExchange ---------------------------
(* HaloExchange on the plans of MCPlans. *)
EXTENDS HaloExchange, MCPlans
=============================================================================
