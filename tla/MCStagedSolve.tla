---------------------------- MODULE MCStagedSolve ---------------------------
(* Options around every boundary: a single iteration, a probe as long as   *)
(* the solve, one or two stages, a stage longer than what is left, budgets *)
(* for none, some or all regions.                                          *)
EXTENDS StagedSolve, Integers

Opt(max, probe, stage, esc, bytes, coarsened) ==
    [max_iterations |-> max, probe_iterations |-> probe, stage_iterations |-> stage,
     max_escalations |-> esc, max_factor_bytes |-> bytes, enabled |-> TRUE,
     coarse |-> coarsened]

(* A budget smaller than the multiplicity array.                           *)
TightOptions == {Opt(6, 2, 2, 2, 1, FALSE)}

MCOptions ==
    {Opt(m, p, s, e, b, c) :
        m \in {1, 2, 6}, p \in {1, 7}, s \in {2, 4}, e \in {1, 2}, b \in {6, 9},
        c \in BOOLEAN}
    \cup {Opt(6, 1, 1, 3, 20, FALSE)}
    \cup TightOptions
    \cup {[Opt(6, 2, 2, 2, 9, TRUE) EXCEPT !.enabled = FALSE]}

MCRegions == {"a", "b", "c"}
MCBytes == [r \in MCRegions |-> CASE r = "a" -> 2 [] r = "b" -> 3 [] r = "c" -> 5]

=============================================================================
