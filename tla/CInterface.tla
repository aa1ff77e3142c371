----------------------------- MODULE CInterface -----------------------------
(* The C interface (hybit-ffi): what a host of several threads is told by  *)
(* calls on its handles while it configures the thread pool. A call on a   *)
(* handle is exclusive, and one step. Of an argument only the error it     *)
(* leads to is kept. The host has one pointer of each kind and, as the C++ *)
(* wrapper does, creates only what it does not hold.                       *)
EXTENDS ThreadPool, Integers

CONSTANTS
    Matrices,       \* [rows, cols, structure, values, spd]: what a CSR matrix may hold
    LayoutSizes,    \* dofs of a layout
    Tolerances,     \* <<relative, absolute>>
    Faults,         \* errors of the code behind a valid call, or "panic"
    MaxUses         \* calls on handles, of all threads together

Errors == {"InvalidArgument", "DimensionMismatch", "InvalidMatrix", "MissingDiagonal",
           "ZeroDiagonal", "SizeOverflow", "NumericalBreakdown", "NotConverged", "panic"}
ASSUME FaultsAssumption == Faults \subseteq Errors \ {"NotConverged"}
ASSUME TolerancesAssumption == Tolerances \subseteq Int \X Int
ASSUME SignaturesAssumption ==     \* no two matrices have the same signatures
    \A m, n \in Matrices : m.structure = n.structure /\ m.values = n.values => m = n

VARIABLES
    solver,         \* settings of the solver handle that have bounds, or Null
    matrix,         \* content of the matrix handle, or Null
    layout,         \* [dofs] of the layout handle, or Null
    prepared,       \* content a prepared handle was made for (its signatures), or Null
    creating,       \* the thread is in hybit_solver_create
    message,        \* LAST_ERROR of each thread: the error it tells, or "no error"
    answer,         \* code of each thread's last call, the report, and whether
                    \* it used factors of another matrix (not in the code)
    uses

handles == <<solver, matrix, layout, prepared>>
cvars == <<vars, handles, creating, message, answer, uses>>

Null == [null |-> TRUE]
Untouched == "untouched"                \* a report that was not written
Statuses == {"Converged", "MaxIterations", "Breakdown"}

(* map_error, and the code of a panic that ffi_guard caught.               *)
Code(error) ==
    IF error = "no error" THEN "OK"
    ELSE IF error \in {"InvalidArgument", "DimensionMismatch"} THEN "INVALID_ARGUMENT"
    ELSE IF error \in {"InvalidMatrix", "MissingDiagonal", "ZeroDiagonal", "SizeOverflow"}
    THEN "INVALID_MATRIX"
    ELSE IF error = "NumericalBreakdown" THEN "NUMERICAL_FAILURE"
    ELSE IF error = "NotConverged" THEN "NOT_CONVERGED" ELSE "PANIC"
Codes == {"OK", "INVALID_ARGUMENT", "INVALID_MATRIX", "NUMERICAL_FAILURE", "NOT_CONVERGED", "PANIC"}

(* HybitSolver::new, and what SolverOptions::validate accepts.             *)
NewSolver == [relative |-> 1, absolute |-> 0, limit |-> 1]
ValidOptions(s) == s.relative >= 0 /\ s.absolute >= 0 /\ s.relative + s.absolute > 0 /\ s.limit > 0

CInit ==
    /\ Init
    /\ solver = Null /\ matrix = Null /\ layout = Null /\ prepared = Null
    /\ creating = [c \in Callers |-> FALSE]
    /\ message = [c \in Callers |-> "no error"]
    /\ answer = [c \in Callers |-> [code |-> "OK", output |-> Untouched, stale |-> FALSE]]
    /\ uses = 0
-----------------------------------------------------------------------------
(* set_last_error: the message of the calling thread.                      *)
SetLastError(error, c) == message' = [message EXCEPT ![c] = error]

(* ffi_guard and the checks before it: a success leaves the message of an  *)
(* earlier call.                                                           *)
Answer(c, error, output, factors) ==
    /\ answer' = [answer EXCEPT ![c] =
          [code |-> Code(error), output |-> output, stale |-> factors # matrix]]
    /\ IF error = "no error" THEN UNCHANGED message ELSE SetLastError(error, c)

(* A call on a handle, whole; the factors of all but one are of its matrix.*)
UseFactors(c, error, output, factors) ==
    /\ pc[c] = "outside" /\ uses < MaxUses /\ uses' = uses + 1
    /\ Answer(c, error, output, factors)
    /\ UNCHANGED <<vars, creating>>
Use(c, error, output) == UseFactors(c, error, output, matrix)
Ask(c, error) == Use(c, error, Untouched) /\ UNCHANGED handles

(* hybit_set_num_threads, hybit_num_threads (whose 0 stands for the code)  *)
(* and hybit_solver_create enter configure_rayon_threads.                  *)
EnterPool(c) ==
    /\ Call(c)
    /\ \E create \in BOOLEAN :
          /\ create => request'[c] = None /\ solver = Null /\ \A d \in Callers : ~creating[d]
          /\ creating' = [creating EXCEPT ![c] = create]
    /\ UNCHANGED <<handles, message, answer, uses>>
InPool(c) ==
    /\ Look(c) \/ Build(c) \/ Query(c) \/ Publish(c)
    /\ IF pc'[c] # "outside"
       THEN UNCHANGED <<handles, creating, message, answer>>
       ELSE /\ Answer(c, IF result'[c] = None THEN "InvalidArgument" ELSE "no error", Untouched, matrix)
            /\ creating' = [creating EXCEPT ![c] = FALSE]
            /\ solver' = IF creating[c] /\ result'[c] # None THEN NewSolver ELSE solver
            /\ UNCHANGED <<matrix, layout, prepared>>
    /\ UNCHANGED uses
ForeignPool == Foreign /\ UNCHANGED <<handles, creating, message, answer, uses>>
ZeroThreads(c) == Ask(c, "InvalidArgument")

SolverDestroy(c) == Use(c, "no error", Untouched) /\ solver' = Null /\ UNCHANGED <<matrix, layout, prepared>>

(* set_options and set_hybrid_options validate the changed copy first.     *)
Set(c, changed) ==
    LET error == IF ValidOptions(changed) THEN "no error" ELSE "InvalidArgument"
    IN  /\ solver # Null
        /\ Use(c, error, Untouched)
        /\ solver' = IF error = "no error" THEN changed ELSE solver
        /\ UNCHANGED <<matrix, layout, prepared>>
SetTolerances(c) ==
    \E t \in Tolerances : Set(c, [solver EXCEPT !.relative = t[1], !.absolute = t[2]])
SetMaxIterations(c) == \E n \in {0, 1} : Set(c, [solver EXCEPT !.limit = n])
(* Every backend, switch and number of layers that is one is accepted.     *)
SetOther(c, valid) == solver # Null /\ Ask(c, IF valid THEN "no error" ELSE "InvalidArgument")
SetBackend(c) == \E code \in {2, 3} : SetOther(c, code \in {0, 1, 2})
SetHybridEnabled(c) == \E code \in {1, 2} : SetOther(c, code \in {0, 1})
SetOverlapLayers(c) == SetOther(c, TRUE)

(* A solver that was not created is refused by every call that takes one.  *)
WithoutSolver(c) == solver = Null /\ Ask(c, "InvalidArgument")

(* Null pointers and a wrong base are arguments, all else is the matrix.   *)
MatrixCreate(c) ==
    /\ matrix = Null
    /\ \/ \E m \in Matrices : Use(c, "no error", Untouched) /\ matrix' = m
       \/ \E error \in {"InvalidArgument", "InvalidMatrix"} :
             Use(c, error, Untouched) /\ UNCHANGED matrix
    /\ UNCHANGED <<solver, layout, prepared>>
MatrixDestroy(c) ==
    Use(c, "no error", Untouched) /\ matrix' = Null /\ UNCHANGED <<solver, layout, prepared>>

LayoutCreate(c) ==
    /\ layout = Null
    /\ \/ \E n \in LayoutSizes : Use(c, "no error", Untouched) /\ layout' = [dofs |-> n]
       \/ Use(c, "InvalidArgument", Untouched) /\ layout' = Null
    /\ UNCHANGED <<solver, matrix, prepared>>
LayoutDestroy(c) ==
    Use(c, "no error", Untouched) /\ layout' = Null /\ UNCHANGED <<solver, matrix, prepared>>

NumDofs(c) == Ask(c, IF layout = Null THEN "InvalidArgument" ELSE "no error")
LayoutBlock(c) == \E inside \in BOOLEAN :
    Ask(c, IF layout = Null \/ ~inside THEN "InvalidArgument" ELSE "no error")
Locate(c) == \E dof \in LayoutSizes :
    Ask(c, IF layout = Null \/ ~ dof < layout.dofs THEN "InvalidArgument" ELSE "no error")
(* The words must be those of the layout, the seeds its dofs.              *)
ExpandBlocks(c) == \E fitting \in BOOLEAN :
    Ask(c, IF layout = Null \/ ~fitting THEN "InvalidArgument" ELSE "no error")
GrowRegion(c) == \E fitting \in BOOLEAN :
    Ask(c, IF layout = Null \/ matrix = Null THEN "InvalidArgument"
           ELSE IF <<matrix.rows, matrix.cols>> # <<layout.dofs, layout.dofs>> THEN "InvalidMatrix"
           ELSE IF ~fitting THEN "InvalidArgument" ELSE "no error")
-----------------------------------------------------------------------------
(* analyze_csr32 and prepare_csr32 refuse a matrix that is not square with *)
(* a positive diagonal; the preparation may fail behind them.              *)
Prepares(m, error) ==
    IF m.rows # m.cols \/ ~m.spd THEN error = "InvalidMatrix" ELSE error \in Faults \cup {"no error"}

Prepare(c) ==
    /\ prepared = Null
    /\ IF solver = Null \/ matrix = Null
       THEN Ask(c, "InvalidArgument")
       ELSE \E error \in Faults \cup {"no error", "InvalidMatrix"} :
               /\ Prepares(matrix, error)
               /\ Use(c, error, Untouched)
               /\ prepared' = IF error = "no error" THEN matrix ELSE Null
               /\ UNCHANGED <<solver, matrix, layout>>
PreparedDestroy(c) ==
    Use(c, "no error", Untouched) /\ prepared' = Null /\ UNCHANGED <<solver, matrix, layout>>

(* The report is written whatever the status; what has not converged is    *)
(* an error with a report.                                                 *)
Solved(c, factors) ==
    /\ \/ \E status \in Statuses :
             UseFactors(c, IF status = "Converged" THEN "no error" ELSE "NotConverged", status, factors)
       \/ \E error \in Faults : Use(c, error, Untouched)
    /\ UNCHANGED handles

ValidStructure(p, m) == p.structure = m.structure   \* a mistake: the values are not compared

(* validate_matrix of the prepared system: both signatures.                *)
ValidMatrix(p, m) == p.structure = m.structure /\ p.values = m.values

SolvePrepared(c) ==
    IF prepared = Null \/ matrix = Null THEN Ask(c, "InvalidArgument")
    ELSE IF ~ValidMatrix(prepared, matrix) THEN Ask(c, "InvalidArgument")
    ELSE Solved(c, prepared)

(* hybit_solve analyzes, prepares and solves.                              *)
Solve(c) ==
    IF solver = Null \/ matrix = Null THEN Ask(c, "InvalidArgument")
    ELSE \/ \E error \in Faults \cup {"InvalidMatrix"} : Prepares(matrix, error) /\ Ask(c, error)
         \/ Prepares(matrix, "no error") /\ Solved(c, matrix)

CNext ==
    \/ \E c \in Callers :
          \/ EnterPool(c) \/ InPool(c) \/ ZeroThreads(c)
          \/ WithoutSolver(c) \/ SolverDestroy(c) \/ SetTolerances(c) \/ SetMaxIterations(c)
          \/ SetBackend(c) \/ SetHybridEnabled(c) \/ SetOverlapLayers(c)
          \/ MatrixCreate(c) \/ MatrixDestroy(c)
          \/ LayoutCreate(c) \/ LayoutDestroy(c) \/ NumDofs(c) \/ LayoutBlock(c) \/ Locate(c)
          \/ ExpandBlocks(c) \/ GrowRegion(c)
          \/ Prepare(c) \/ PreparedDestroy(c) \/ SolvePrepared(c) \/ Solve(c)
    \/ ForeignPool

CSpec == CInit /\ [][CNext]_cvars
-----------------------------------------------------------------------------
(* What a call tells its thread stays true until its next call, whatever   *)
(* the others do: the message of a failure is the one its code stands for; *)
(* a report is there exactly when the iteration ended, "not converged" is  *)
(* the code of every end but one, and the factors were those of the matrix *)
(* the call named, also where another matrix was created in the place of   *)
(* the prepared one. A setter that fails leaves valid settings.            *)
CallsAnswered ==
    /\ \A c \in Callers :
          /\ answer[c].code # "OK" => answer[c].code = Code(message[c])
          /\ answer[c].output \in Statuses =>
                answer[c].code = IF answer[c].output = "Converged" THEN "OK" ELSE "NOT_CONVERGED"
          /\ answer[c].code = "NOT_CONVERGED" => answer[c].output \in Statuses
          /\ ~answer[c].stale
    /\ solver = Null \/ ValidOptions(solver)

=============================================================================
