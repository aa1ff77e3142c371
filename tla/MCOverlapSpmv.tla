--------------------------- MODULE MCOverlapSpmv ----------------------------
(* OverlapSpmv on the plans of MCPlans. *)
EXTENDS OverlapSpmv, MCPlans

OverlapPlans == {OneWayTriangle, Path, WrongLength, RefusedPlan, RefusedOutput}
=============================================================================
