--------------------------- MODULE SolverLifecycle --------------------------
(* HybitSolver and the contexts it prepares (hybit-auto): settings that    *)
(* may change at any time, analyses and prepared systems that are          *)
(* snapshots of them, and solves on matrices that may have changed too. A  *)
(* call that returns an error changes nothing unless an action says so. A  *)
(* solve of the general square class is the machine of GeneralSquareSolve; *)
(* the staged solve of the SPD class is a module of its own and only its   *)
(* cached factors are seen here.                                           *)
EXTENDS GeneralSquareSolve

CONSTANTS
    Matrices,       \* [square, diagonal, large, name], as analyze_csr32 sees them
    Choices,        \* values each setting may take
    Defaults,       \* settings a solver starts with
    MaxChanges      \* setters called and matrices changed in a behaviour

VARIABLES
    settings,       \* the HybitSolver
    matrix,         \* the matrix the caller holds
    analysis,       \* the last HybitAnalysis, or None
    prepared,       \* the last context prepared, of either kind, or None
    changes         \* setters and changes so far

contextVars == <<settings, matrix, analysis, prepared, changes>>
vars == <<contextVars, solveVars>>

None == [class |-> "none"]
Systems == {"Spd", "GeneralSquare"}
Resident == {"CpuResident", "CpuResidentRayon", "CpuResidentRayonJacobi"}
Rayon == Resident \ {"CpuResident"}
HostOnly == {"Auto", "Cpu"}
Idle == phase = "idle"

Policies == {"Fixed", "Escalating", "BudgetAware"}
GeneralOptions == [policy : Policies, restart : Nat, max_restart : Nat, stage_iterations : Nat,
                   max_iterations : Nat]
Kernels == {"Auto", "Serial", "Parallel"}
StructuralOptions == [aggregation : {"Auto", "Graph", "Contiguous"}, spmv : Kernels,
                      preconditioner : Kernels, vectors : Kernels]

(* The fields of a HybitSolver and what each may hold. *)
SettingTypes ==
    [class |-> {"Spd", "SymmetricIndefinite", "GeneralSquare"},
     execution |-> HostOnly \cup Resident \cup {"Gpu"},
     backend |-> {"Csr32", "Abtm"}, hybrid |-> BOOLEAN,
     factor |-> {"Jacobi", "Ilu0", "Ilu0Abtm", "Ilu0Fallback"},
     general |-> GeneralOptions, structural |-> StructuralOptions]

(* GeneralSquareOptions::validate, and SolverOptions::validate of the      *)
(* iteration limit kept with them.                                         *)
OptionsValid(o) ==
    /\ o.restart > 0 /\ o.max_iterations > 0
    /\ o.policy # "Fixed" => o.max_restart >= o.restart
    /\ o.policy = "Escalating" => o.stage_iterations > 0
Capacity(o) == IF o.policy = "Fixed" THEN o.restart ELSE o.max_restart

(* A solver is created with valid options. A matrix has rows: the first    *)
(* residual of a system without any is 0 and no cycle begins.              *)
ASSUME MatricesAssumption == \A m \in Matrices : m.n \in Nat \ {0}
ASSUME ChoicesAssumption ==
    \A name \in DOMAIN Choices :
        name \in DOMAIN SettingTypes /\ Choices[name] \subseteq SettingTypes[name]
ASSUME DefaultsAssumption ==
    \A s \in Defaults :
        /\ DOMAIN s = DOMAIN SettingTypes
        /\ \A name \in DOMAIN SettingTypes : s[name] \in SettingTypes[name]
        /\ OptionsValid(s.general)

Init ==
    /\ settings \in Defaults /\ matrix \in Matrices
    /\ analysis = None /\ prepared = None /\ changes = 0
    /\ SolveInit

Set ==
    /\ Idle /\ changes < MaxChanges
    /\ \E name \in DOMAIN Choices : \E value \in Choices[name] \ {settings[name]} :
          /\ name = "general" => OptionsValid(value)
          /\ settings' = [settings EXCEPT ![name] = value]
    /\ changes' = changes + 1
    /\ UNCHANGED <<matrix, analysis, prepared, solveVars>>

MatrixChanges ==
    /\ Idle /\ changes < MaxChanges
    /\ matrix' \in Matrices \ {matrix}
    /\ changes' = changes + 1
    /\ UNCHANGED <<settings, analysis, prepared, solveVars>>
-----------------------------------------------------------------------------
Nonzero == {"positive", "nonzero"}

(* validate_problem_class and the checks of the general square class.      *)
ClassAccepted ==
    /\ matrix.square
    /\ settings.class = "Spd" => matrix.diagonal = "positive"
    /\ settings.class # "SymmetricIndefinite"
    /\ settings.class = "GeneralSquare" =>
          /\ settings.factor = "Jacobi" => matrix.diagonal \in Nonzero
          /\ settings.factor \in {"Ilu0", "Ilu0Abtm"} => matrix.diagonal # "missing"
          /\ settings.execution \in HostOnly

Analyze ==
    /\ Idle /\ ClassAccepted
    /\ settings.execution \in Resident => ~settings.hybrid
    /\ settings.execution # "Gpu"
    /\ settings.execution \in Rayon => settings.backend = "Csr32"
    /\ analysis' = [class |-> settings.class, execution |-> settings.execution,
                    backend |-> settings.backend, matrix |-> matrix]
    /\ UNCHANGED <<settings, matrix, prepared, changes, solveVars>>

(* A mistake: it is enough that both policies run on the same target.      *)
SameTarget(analyzed, current) == "Gpu" \notin {analyzed, current}

Compatible(analyzed, current) == analyzed = current \/ {analyzed, current} \subseteq HostOnly

(* The factors of the general square class, or "none" for an error.        *)
GeneralFactor ==
    CASE settings.factor = "Jacobi" -> IF matrix.diagonal \in Nonzero THEN "Jacobi" ELSE "none"
      [] settings.factor \in {"Ilu0", "Ilu0Abtm"} ->
            IF matrix.diagonal # "missing" THEN "Ilu0" ELSE "none"
      [] settings.factor = "Ilu0Fallback" ->
            IF matrix.diagonal # "missing" THEN "Ilu0" ELSE "Identity"

Prepare ==
    /\ Idle /\ analysis # None
    /\ settings.class = analysis.class /\ Compatible(analysis.execution, settings.execution)
    /\ settings.execution # "Gpu" /\ matrix = analysis.matrix
    /\ LET general == analysis.class = "GeneralSquare"
           factor == IF general THEN GeneralFactor
                     ELSE IF matrix.diagonal = "positive" THEN "Jacobi" ELSE "none"
       IN  /\ factor # "none"
           /\ prepared' =
                [class |-> analysis.class, execution |-> settings.execution,
                 backend |-> analysis.backend, matrix |-> matrix, hybrid |-> settings.hybrid,
                 factor |-> factor, general |-> settings.general,
                 abtm |-> analysis.backend = "Abtm",
                 capacity |-> IF general THEN Capacity(settings.general) ELSE 0,
                 resident |-> settings.execution \in Resident, learned |-> FALSE]
    /\ UNCHANGED <<settings, matrix, analysis, changes, solveVars>>

(* What a context hands to run_general_square_fgmres. *)
Call(o, capacity, n) ==
    [policy |-> o.policy, restart |-> o.restart, max_restart |-> o.max_restart,
     stage_iterations |-> o.stage_iterations, max_iterations |-> o.max_iterations,
     capacity |-> capacity, n |-> n]

(* HybitPreparedSystem::solve. A resident context learns nothing.          *)
Solve ==
    /\ Idle /\ prepared.class \in Systems /\ matrix = prepared.matrix
    /\ IF prepared.class = "GeneralSquare"
       THEN /\ Begin(Call(prepared.general, prepared.capacity, matrix.n))
            /\ UNCHANGED prepared
       ELSE /\ \E learned \in BOOLEAN :
                  /\ learned => prepared.hybrid /\ prepared.execution \notin Resident
                  /\ prepared' = [prepared EXCEPT !.learned = @ \/ learned]
            /\ UNCHANGED solveVars
    /\ UNCHANGED <<settings, matrix, analysis, changes>>
-----------------------------------------------------------------------------
(* prepare_structural_csr32: the class and the execution policy of the     *)
(* analysis are not looked at. Auto retries with contiguous aggregates if  *)
(* the graph gives none. The three policies are resolved here: "Auto" is   *)
(* parallel for large systems, for vectors only with enough workers.       *)
Resolve(policy, large) == IF policy # "Auto" THEN policy ELSE IF large THEN "Parallel" ELSE "Serial"

PrepareStructural ==
    /\ Idle /\ analysis # None /\ matrix = analysis.matrix
    /\ settings.structural.spmv = "Parallel" => analysis.backend = "Csr32"
    /\ \E graph_fails, workers \in BOOLEAN :
          /\ settings.structural.aggregation = "Graph" => ~graph_fails
          /\ prepared' =
                [class |-> "Structural", backend |-> analysis.backend, matrix |-> matrix,
                 aggregation |-> IF settings.structural.aggregation = "Contiguous" \/ graph_fails
                                 THEN "Contiguous" ELSE "Graph",
                 spmv |-> Resolve(settings.structural.spmv,
                                  matrix.large /\ analysis.backend = "Csr32"),
                 preconditioner |-> Resolve(settings.structural.preconditioner, matrix.large),
                 vectors |-> Resolve(settings.structural.vectors, matrix.large /\ workers),
                 abtm |-> analysis.backend = "Abtm", resident |-> FALSE]
    /\ UNCHANGED <<settings, matrix, analysis, changes, solveVars>>

(* solve_resident_rayon; solve itself leaves the context as it is. *)
StructuralResident ==
    /\ Idle /\ prepared.class = "Structural" /\ matrix = prepared.matrix
    /\ prepared.backend = "Csr32"
    /\ {prepared.spmv, prepared.preconditioner, prepared.vectors} = {"Parallel"}
    /\ prepared' = [prepared EXCEPT !.resident = TRUE]
    /\ UNCHANGED <<settings, matrix, analysis, changes, solveVars>>

Running == SolveStep /\ UNCHANGED contextVars

Next ==
    \/ Set \/ MatrixChanges
    \/ Analyze \/ Prepare \/ Solve
    \/ PrepareStructural \/ StructuralResident
    \/ Running

Spec == Init /\ [][Next]_vars /\ WF_vars(Running)
-----------------------------------------------------------------------------
(* Whatever was set, changed, analyzed and prepared in whatever order, a   *)
(* prepared system is one its solve can serve: the combinations solve      *)
(* asserts or unwraps, and factors that exist for the matrix prepared for. *)
(* So is a structural one.                                                 *)
ContextComplete ==
    /\ prepared.class = "GeneralSquare" =>
          /\ prepared.execution \in HostOnly
          /\ prepared.factor = "Jacobi" => prepared.matrix.diagonal \in Nonzero
          /\ (prepared.factor = "Identity") <=> (prepared.matrix.diagonal = "missing")
    /\ prepared.class = "Spd" =>
          /\ prepared.execution \in HostOnly \cup Resident
          /\ prepared.execution \in Rayon => prepared.backend = "Csr32"
          /\ prepared.matrix.diagonal = "positive"
    /\ prepared.class = "Structural" =>
          /\ prepared.spmv = "Parallel" => prepared.backend = "Csr32"
          /\ prepared.matrix.square

(* "debug_assert!(!self.hybrid_options.enabled)" of solve_resident_jacobi: *)
(* a context that solves on the resident path has the adaptive controller  *)
(* disabled.                                                               *)
ResidentWithoutHybrid ==
    prepared.class = "Spd" /\ prepared.execution \in Resident => ~prepared.hybrid
=============================================================================
