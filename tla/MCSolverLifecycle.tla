------------------------- MODULE MCSolverLifecycle --------------------------
(* Three matrices, all policies, and options of which each makes another   *)
(* restart policy go through all its branches.                             *)
EXTENDS SolverLifecycle

MCMatrices ==
    {[name |-> "stiffness", n |-> 3, square |-> TRUE, diagonal |-> "positive", large |-> TRUE],
     [name |-> "transport", n |-> 2, square |-> TRUE, diagonal |-> "nonzero", large |-> FALSE],
     [name |-> "saddle", n |-> 3, square |-> TRUE, diagonal |-> "missing", large |-> FALSE],
     [name |-> "tall", n |-> 2, square |-> FALSE, diagonal |-> "missing", large |-> FALSE]}

General(policy, first, greatest, stage, iterations) ==
    [policy |-> policy, restart |-> first, max_restart |-> greatest,
     stage_iterations |-> stage, max_iterations |-> iterations]

MCGeneral ==
    {General("Fixed", 2, 3, 0, 3),
     General("Escalating", 1, 3, 2, 5), General("Escalating", 3, 2, 2, 4),
     General("BudgetAware", 1, 2, 0, 10), General("BudgetAware", 0, 2, 0, 3)}

Structural(aggregation, policy) ==
    [aggregation |-> aggregation, spmv |-> policy, preconditioner |-> policy, vectors |-> policy]

MCChoices ==
    [class |-> {"Spd", "SymmetricIndefinite", "GeneralSquare"},
     execution |-> {"Auto", "Cpu", "Gpu"} \cup Resident,
     backend |-> {"Csr32", "Abtm"},
     hybrid |-> BOOLEAN,
     factor |-> {"Jacobi", "Ilu0", "Ilu0Abtm", "Ilu0Fallback"},
     general |-> MCGeneral,
     structural |-> {Structural("Graph", "Parallel"), Structural("Contiguous", "Serial"),
                     Structural("Auto", "Auto")}]

Solver(class, hybrid, factor, general) ==
    [class |-> class, execution |-> "Auto", backend |-> "Csr32", hybrid |-> hybrid,
     factor |-> factor, general |-> general, structural |-> Structural("Auto", "Auto")]

MCDefaults ==
    {Solver("Spd", hybrid, "Jacobi", General("Fixed", 2, 3, 0, 3)) : hybrid \in BOOLEAN}
    \cup {Solver("GeneralSquare", FALSE, "Ilu0Fallback", general) :
             general \in {General("BudgetAware", 1, 2, 0, 10), General("Escalating", 1, 3, 2, 5)}}
=============================================================================
