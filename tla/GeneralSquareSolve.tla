------------------------- MODULE GeneralSquareSolve -------------------------
(* The general square path: run_general_square_fgmres of hybit-auto with   *)
(* its restart policies, and restarted FGMRES of hybit-krylov. One step is *)
(* an Arnoldi column or a piece of a cycle. A residual is low (within the  *)
(* tolerance) or high; the estimate from the Hessenberg matrix and the     *)
(* residual of x are chosen independently. All choices are the numerics'.  *)
EXTENDS Integers

VARIABLES
    call,         \* the call being served: options, size n, workspace capacity
    phase,        \* "idle", a place in the code, or "done"
    restart,      \* Arnoldi dimension of this stage or cycle
    before,       \* iterations of the stages before this one
    budget,       \* iterations granted to this FGMRES invocation
    total,        \* and those it has counted
    columns,      \* columns of this cycle
    limit,        \* cycle_limit
    happy,        \* whether the last column was a happy breakdown
    controller,   \* of the BudgetAware policy
    residual,     \* of the x at hand
    measured,     \* final_residual: what it was and of which x
    updates,      \* how often x was changed
    applied,      \* columns that are part of x
    held,         \* cycles finished with this restart
    outcome       \* what the call returned, or FGMRES to the policy

solveVars == <<call, phase, restart, before, budget, total, columns, limit, happy, controller,
               residual, measured, updates, applied, held, outcome>>

Smaller(a, b) == IF a < b THEN a ELSE b
WindowCycles == 4
DecideAtOnce == 1   \* a mistake: one window under pressure is enough
DecisionHits == 2
NewController == [cycles |-> 0, previous |-> "none", hits |-> 0]
NoOutcome == [status |-> "none", iterations |-> 0]
NoCall == [policy |-> "none", restart |-> 0]

SolveInit ==
    /\ call = NoCall /\ phase = "idle" /\ restart = 0
    /\ before = 0 /\ budget = 0 /\ total = 0 /\ columns = 0 /\ limit = 0
    /\ happy = FALSE /\ controller = NewController
    /\ residual = "unknown" /\ measured = [of |-> 0, is |-> "unknown"]
    /\ updates = 0 /\ applied = 0 /\ held = 0 /\ outcome = NoOutcome

Fresh(c, start) ==
    /\ call' = c /\ phase' = start /\ restart' = c.restart
    /\ before' = 0 /\ budget' = 0 /\ total' = 0 /\ columns' = 0 /\ limit' = 0
    /\ happy' = FALSE /\ controller' = NewController
    /\ residual' = "unknown" /\ measured' = [of |-> 0, is |-> "unknown"]
    /\ updates' = 0 /\ applied' = 0 /\ held' = 0 /\ outcome' = NoOutcome

Begin(c) == phase = "idle" /\ Fresh(c, "stage")

(* The caller has the outcome; nothing of the solve is kept. *)
TakeOutcome == phase = "done" /\ Fresh(NoCall, "idle")

(* FGMRES returns to the policy; an error goes through it.                 *)
Return(status) == phase' = "returned" /\ outcome' = [status |-> status, iterations |-> total']
Abort(why) == phase' = "done" /\ outcome' = [status |-> why, iterations |-> 0]

(* The head of the Escalating loop (remaining is never 0 there) or the one *)
(* invocation of the other policies, up to the first cycle.                *)

(* A mistake: what earlier stages used is not subtracted. *)
StageBudgetWhole ==
    IF call.policy = "Escalating" /\ restart # call.max_restart
    THEN Smaller(call.stage_iterations, call.max_iterations) ELSE call.max_iterations

StageBudget ==
    LET remaining == call.max_iterations - before
    IN  IF call.policy = "Escalating" /\ restart # call.max_restart
        THEN Smaller(call.stage_iterations, remaining) ELSE remaining

StartStage ==
    /\ phase = "stage"
    /\ budget' = StageBudget /\ total' = 0
    /\ IF restart > call.capacity
       THEN Abort("capacity") /\ UNCHANGED <<residual, measured>>
       ELSE \E r \in IF residual = "unknown" THEN {"low", "high", "nonfinite"} ELSE {residual} :
            /\ residual' = r
            /\ measured' = [of |-> updates, is |-> r]
            /\ IF r = "nonfinite" THEN Abort("failed")
               ELSE IF r = "low" THEN Return("Converged")
               ELSE phase' = "cycle" /\ UNCHANGED outcome
    /\ UNCHANGED <<call, restart, before, columns, limit, happy, controller, updates, applied, held>>

(* The residual vector is still that of the last exact_residual, which was *)
(* above the target; its test at the top of a cycle never succeeds.        *)
BeginCycle ==
    /\ phase = "cycle"
    /\ phase' = "arnoldi"
    /\ columns' = 0 /\ happy' = FALSE
    /\ limit' = Smaller(Smaller(restart, budget - total), call.n)
    /\ UNCHANGED <<call, restart, before, budget, total, controller, residual, measured, updates,
                   applied, held, outcome>>

(* A column: the estimate is low, the basis is complete, or it goes on.    *)
Column ==
    /\ phase = "arnoldi"
    /\ \E estimate \in {"low", "high"}, complete \in BOOLEAN :
          /\ happy' = complete
          /\ phase' = IF estimate = "low" \/ complete \/ columns + 1 = limit THEN "update"
                      ELSE phase
    /\ columns' = columns + 1 /\ total' = total + 1
    /\ UNCHANGED <<call, restart, before, budget, limit, controller, residual, measured, updates,
                   applied, held, outcome>>

(* A mistake: the cycle is tried again. *)
RotationRestarts ==
    /\ phase = "arnoldi"
    /\ phase' = "cycle" /\ total' = total - columns
    /\ UNCHANGED <<call, restart, before, budget, columns, limit, happy, controller, residual,
                   measured, updates, applied, held, outcome>>

(* A zero or infinite rotation: the columns of this cycle are given up.    *)
RotationBreaksDown ==
    /\ phase = "arnoldi"
    /\ total' = total /\ Return("Breakdown")
    /\ UNCHANGED <<call, restart, before, budget, columns, limit, happy, controller, residual,
                   measured, updates, applied, held>>

(* The preconditioner, the operator or a norm fails.                       *)
ColumnFails ==
    /\ phase = "arnoldi"
    /\ Abort("failed")
    /\ UNCHANGED <<call, restart, before, budget, total, columns, limit, happy, controller, residual,
                   measured, updates, applied, held>>
-----------------------------------------------------------------------------
(* backsolve_and_update and exact_residual.                                *)
Update ==
    /\ phase = "update"
    /\ updates' = updates + 1 /\ applied' = applied + columns
    /\ total' = total
    /\ \E r \in {"low", "high"} :
          /\ residual' = r /\ measured' = [of |-> updates', is |-> r]
          /\ IF r = "low" THEN Return("Converged")
             ELSE IF happy THEN Return("Breakdown")
             ELSE phase' = "boundary" /\ UNCHANGED outcome
    /\ UNCHANGED <<call, restart, before, budget, columns, limit, happy, controller, held>>

(* A singular factor, a coefficient that is not finite after the first     *)
(* k columns were added, or a residual that is not finite.                 *)
UpdateFails ==
    /\ phase = "update"
    /\ \E k \in 0 .. columns : applied' = applied + k
    /\ updates' = updates + 1 /\ residual' = "unknown"
    /\ Abort("failed")
    /\ UNCHANGED <<call, restart, before, budget, total, columns, limit, happy, controller,
                   measured, held>>

(* BudgetAwareFgmresRestartController::next_restart. Windows of four       *)
(* cycles; the restart grows after two windows under pressure in a row. If *)
(* the window brought nothing, the pressure is infinite.                   *)
Keep(c) == controller' = c /\ restart' = restart
Controlled ==
    IF call.policy # "BudgetAware" \/ restart >= call.max_restart THEN Keep(controller)
    ELSE IF controller.cycles + 1 < WindowCycles
         THEN Keep([controller EXCEPT !.cycles = @ + 1])
    ELSE \E rate \in {"zero", "positive"}, pressure \in {"low", "ordinary", "emergency"},
            slower \in BOOLEAN :
         LET hit == \/ pressure = "emergency"
                    \/ pressure = "ordinary" /\ controller.previous = "positive" /\ slower
             hits == IF hit THEN controller.hits + 1 ELSE 0
         IN  /\ rate = "zero" => pressure = "emergency"
             /\ IF hits >= DecisionHits
                THEN controller' = NewController /\ restart' = Smaller(2 * restart, call.max_restart)
                ELSE Keep([cycles |-> 0, previous |-> rate, hits |-> hits])

(* The end of a cycle that has not converged.                              *)
Boundary ==
    /\ phase = "boundary" /\ total < budget
    /\ Controlled
    /\ held' = IF restart' = restart THEN held + 1 ELSE 0
    /\ IF restart' > call.capacity THEN Abort("capacity")
       ELSE phase' = "cycle" /\ UNCHANGED outcome
    /\ UNCHANGED <<call, before, budget, total, columns, limit, happy, residual, measured, updates,
                   applied>>

Exhausted ==
    /\ phase = "boundary" /\ total = budget
    /\ total' = total /\ Return("MaxIterations")
    /\ UNCHANGED <<call, restart, before, budget, columns, limit, happy, controller, residual,
                   measured, updates, applied, held>>

(* The policy takes the outcome: only Escalating may go on.                *)
Escalates ==
    /\ call.policy = "Escalating" /\ outcome.status = "MaxIterations"
    /\ before + total < call.max_iterations

NextStage ==
    /\ phase = "returned" /\ Escalates
    /\ restart' = Smaller(2 * restart, call.max_restart)
    /\ IF restart' = restart THEN Abort("stalled")
       ELSE phase' = "stage" /\ UNCHANGED outcome
    /\ before' = before + total /\ held' = 0
    /\ UNCHANGED <<call, budget, total, columns, limit, happy, controller, residual, measured,
                   updates, applied>>

Report ==
    /\ phase = "returned" /\ ~Escalates
    /\ phase' = "done"
    /\ outcome' = [outcome EXCEPT !.iterations = before + total]
    /\ UNCHANGED <<call, restart, before, budget, total, columns, limit, happy, controller,
                   residual, measured, updates, applied, held>>

SolveStep ==
    \/ StartStage \/ BeginCycle
    \/ Column \/ RotationBreaksDown \/ ColumnFails
    \/ Update \/ UpdateFails
    \/ Boundary \/ Exhausted
    \/ NextStage \/ Report \/ TakeOutcome
-----------------------------------------------------------------------------
Statuses == {"Converged", "Breakdown", "MaxIterations"}

(* What the report says is so: its residual is that of the x returned, it  *)
(* is converged exactly if that x is, and the iterations it counts are the *)
(* columns that x is made of. Only a rotation that breaks down gives       *)
(* counted columns up, those of one cycle. All stages together never take  *)
(* more than max_iterations, and take all of them before giving up.        *)
OutcomeHonest ==
    phase = "done" /\ outcome.status \in Statuses =>
        /\ measured = [of |-> updates, is |-> residual]
        /\ outcome.status = "Converged" <=> residual = "low"
        /\ outcome.iterations <= call.max_iterations
        /\ outcome.status = "MaxIterations" => outcome.iterations = call.max_iterations
        /\ IF outcome.status = "Breakdown" /\ ~happy
           THEN applied = outcome.iterations - columns ELSE applied = outcome.iterations

(* The workspace prepared for the options serves every restart the         *)
(* policies choose, and Escalating never stands still: the errors the code *)
(* keeps for both cases are not returned, and no cycle leaves the basis.   *)
RestartsServed ==
    /\ outcome.status \notin {"capacity", "stalled"}
    /\ phase \in {"arnoldi", "update"} => limit \in 1 .. call.capacity /\ columns <= limit
    /\ phase = "stage" => before < call.max_iterations

(* What a solve promises from its first cycle to its report.               *)
SolveSound == OutcomeHonest /\ RestartsServed

(* "Restart grows only under sustained budget pressure": a restart changes *)
(* only after two whole windows with the old one, or, when stages          *)
(* escalate, after a stage that used all it was granted. It never shrinks. *)
GrowthSustained ==
    [][call' = call /\ restart' # restart =>
          /\ restart < restart' /\ restart' <= call.max_restart
          /\ call.policy = "BudgetAware" => held + 1 >= 2 * WindowCycles
          /\ call.policy = "Escalating" => total = budget /\ call.stage_iterations <= total]_solveVars

(* Every call returns.                                                     *)
SolveReturns == (phase = "stage") ~> (phase = "done")
=============================================================================
