----------------------- MODULE SolverLifecycleProofs -----------------------
(***************************************************************************)
(* Theorems about SolverLifecycle and the general square solve inside it,  *)
(* for all matrices, all valid options and any order of settings, analyses *)
(* and preparations.                                                       *)
(*                                                                         *)
(* The solve: what its counters say about x holds from cycle to cycle      *)
(* because every column counted is part of x, but for those of the cycle   *)
(* at hand; the contexts: an analysis is only of what its solve provides   *)
(* for, and a preparation keeps to the analysis it was made from.          *)
(***************************************************************************)
EXTENDS SolverLifecycle, TLAPS

(* What a context hands to a solve. *)
CallOK(c) ==
    /\ c.policy \in Policies
    /\ c.restart \in Nat \ {0} /\ c.max_restart \in Nat /\ c.stage_iterations \in Nat
    /\ c.max_iterations \in Nat \ {0} /\ c.n \in Nat \ {0}
    /\ c.capacity = Capacity(c)
    /\ c.policy # "Fixed" => c.max_restart >= c.restart
    /\ c.policy = "Escalating" => c.stage_iterations > 0

Phases == {"idle", "stage", "cycle", "arnoldi", "update", "boundary", "returned", "done"}

Counters ==
    /\ before \in Nat /\ budget \in Nat /\ total \in Nat /\ columns \in Nat /\ limit \in Nat
    /\ updates \in Nat /\ applied \in Nat /\ held \in Nat

Outcomes == [status : Statuses \cup {"none", "failed"}, iterations : Nat]
SolveTypes ==
    /\ phase \in Phases /\ happy \in BOOLEAN
    /\ residual \in {"unknown", "low", "high", "nonfinite"}
    /\ outcome \in Outcomes

(* The restart of the stage fits the workspace. *)
RestartInv ==
    /\ CallOK(call)
    /\ restart \in Nat \ {0} /\ restart <= call.capacity
    /\ call.policy = "Fixed" => restart = call.restart

(* The controller has not forgotten a cycle since the restart changed.     *)
Controllers == [cycles : 0 .. WindowCycles - 1, previous : {"none", "zero", "positive"},
                hits : 0 .. DecisionHits - 1]
ControllerInv ==
    /\ controller \in Controllers
    /\ call.policy = "BudgetAware" => held >= controller.cycles + WindowCycles * controller.hits

(* The report is of the x at hand. *)
Measured == measured = [of |-> updates, is |-> residual]

(* Within an FGMRES invocation of this budget. *)
InStage == phase \in {"cycle", "arnoldi", "update", "boundary", "returned"}
BudgetInv == before < call.max_iterations /\ budget = StageBudget /\ total <= budget

StageInv ==
    phase = "stage" =>
        /\ before < call.max_iterations /\ applied = before
        /\ residual # "unknown" => Measured /\ residual = "high"

CycleInv ==
    /\ phase = "cycle" => total < budget /\ applied = before + total
    /\ phase \in {"arnoldi", "update"} =>
          /\ limit <= restart /\ columns <= total /\ total - columns + limit <= budget
          /\ applied = before + total - columns
    /\ phase = "arnoldi" => columns < limit /\ ~happy
    /\ phase = "update" => columns \in 1 .. limit
    /\ phase = "boundary" => applied = before + total
    /\ phase \in {"cycle", "arnoldi", "update", "boundary"} => Measured /\ residual = "high"

ReturnInv ==
    phase = "returned" =>
        /\ outcome.status \in Statuses /\ Measured
        /\ outcome.status = "Converged" <=> residual = "low"
        /\ outcome.status = "MaxIterations" => total = budget /\ residual = "high"
        /\ IF outcome.status = "Breakdown" /\ ~happy
           THEN applied = before + total - columns ELSE applied = before + total

SolveInv ==
    /\ SolveTypes /\ Counters
    /\ phase = "idle" => call = NoCall
    /\ phase # "idle" => RestartInv /\ ControllerInv
    /\ InStage => BudgetInv
    /\ StageInv /\ CycleInv /\ ReturnInv /\ OutcomeHonest
-----------------------------------------------------------------------------
(* Settings are of their types, and the options of the general square path *)
(* are valid.                                                              *)
SettingsInv ==
    /\ DOMAIN settings = DOMAIN SettingTypes
    /\ \A name \in DOMAIN SettingTypes : settings[name] \in SettingTypes[name]
    /\ OptionsValid(settings.general)

(* An analysis is of a class and an execution its solve provides for.      *)
AnalysisInv ==
    analysis = None \/
        /\ analysis.class \in Systems
        /\ analysis.matrix \in Matrices /\ analysis.matrix.square
        /\ analysis.class = "Spd" =>
              analysis.execution \in HostOnly \cup Resident /\ analysis.matrix.diagonal = "positive"
        /\ analysis.class = "GeneralSquare" => analysis.execution \in HostOnly
        /\ analysis.execution \in Rayon => analysis.backend = "Csr32"

(* A context keeps what it was made of, the options of its solves too.     *)
PreparedInv ==
    \/ prepared = None
    \/ prepared.class = "Structural" /\ {"class", "backend", "matrix", "spmv"} \subseteq DOMAIN prepared
    \/ prepared.class = "Spd" /\ {"class", "backend", "matrix", "execution"} \subseteq DOMAIN prepared
    \/ /\ prepared.class = "GeneralSquare"
       /\ prepared.general \in GeneralOptions /\ OptionsValid(prepared.general)
       /\ prepared.capacity = Capacity(prepared.general)
       /\ prepared.matrix \in Matrices

ContextInv ==
    SettingsInv /\ AnalysisInv /\ PreparedInv /\ ContextComplete /\ matrix \in Matrices

(* The inductive invariant. *)
IInv == SolveInv /\ ContextInv
-----------------------------------------------------------------------------
(* A stage is granted something, and no more than there is left.           *)
LEMMA Granted ==
  ASSUME Counters, RestartInv, before < call.max_iterations
  PROVE  /\ StageBudget \in Nat /\ StageBudget >= 1
         /\ StageBudget <= call.max_iterations - before
         /\ call.policy # "Escalating" \/ restart = call.max_restart =>
               StageBudget = call.max_iterations - before
  BY DEF Counters, RestartInv, CallOK, StageBudget, Smaller

(* No restart leaves the workspace prepared for the options. *)
LEMMA RestartFits ==
  ASSUME RestartInv
  PROVE  /\ call.capacity \in Nat /\ call.n \in Nat \ {0}
         /\ call.policy # "Fixed" => call.capacity = call.max_restart
  BY DEF RestartInv, CallOK, Capacity

(* An outcome is one of the statuses and a count. *)
LEMMA ReturnTypes ==
  ASSUME NEW status \in Statuses \cup {"none", "failed"}, NEW iterations \in Nat
  PROVE  /\ [status |-> status, iterations |-> iterations] \in Outcomes
         /\ [status |-> status, iterations |-> iterations].status = status
  BY DEF Outcomes

LEMMA StartStageInv == ASSUME SolveInv, StartStage PROVE SolveInv'
<1>0. /\ phase = "stage" /\ SolveTypes /\ Counters /\ RestartInv /\ ControllerInv
      /\ before < call.max_iterations /\ applied = before
      /\ residual # "unknown" => residual = "high"
  BY DEF SolveInv, StartStage, StageInv
<1>1. /\ budget' = StageBudget /\ total' = 0
      /\ UNCHANGED <<call, restart, before, columns, limit, happy, controller, updates, applied, held>>
  BY DEF StartStage
<1>2. total' = 0 /\ budget' \in Nat /\ budget' >= 1
  BY <1>0, <1>1, Granted
<1>3. PICK r \in {"low", "high", "nonfinite"} :
         /\ residual' = r /\ measured' = [of |-> updates, is |-> r]
         /\ IF r = "nonfinite" THEN Abort("failed")
            ELSE IF r = "low" THEN Return("Converged")
            ELSE phase' = "cycle" /\ UNCHANGED outcome
  <2>1. ~(restart > call.capacity)
    BY <1>0, RestartFits DEF RestartInv
  <2>2. PICK r \in IF residual = "unknown" THEN {"low", "high", "nonfinite"} ELSE {residual} :
           /\ residual' = r /\ measured' = [of |-> updates, is |-> r]
           /\ IF r = "nonfinite" THEN Abort("failed")
              ELSE IF r = "low" THEN Return("Converged")
              ELSE phase' = "cycle" /\ UNCHANGED outcome
    BY <2>1 DEF StartStage
  <2>3. r \in {"low", "high", "nonfinite"}
    BY <1>0
  <2> QED
    BY <2>2, <2>3
<1>4. Counters' /\ RestartInv' /\ ControllerInv' /\ Measured'
  BY <1>0, <1>1, <1>2, <1>3 DEF Counters, RestartInv, ControllerInv, Measured
<1>9. applied' = before' + total'
  <2>1. before \in Nat /\ before' = before /\ applied' = before
    BY <1>0, <1>1 DEF Counters
  <2> QED
    BY <1>2, <2>1
<1>5. BudgetInv'
  <2>1. StageBudget' = StageBudget
    BY <1>1 DEF StageBudget
  <2> QED
    BY <1>0, <1>1, <1>2, <2>1 DEF BudgetInv
<1>6. CASE r = "nonfinite"
  <2>1. phase' = "done" /\ outcome' = [status |-> "failed", iterations |-> 0]
    BY <1>3, <1>6 DEF Abort
  <2>2. outcome'.status = "failed" /\ outcome' \in Outcomes
    BY <2>1, ReturnTypes DEF Statuses
  <2> QED
    BY <1>0, <1>1, <1>3, <1>4, <2>1, <2>2
    DEF SolveInv, SolveTypes, Phases, InStage, StageInv, CycleInv, ReturnInv, OutcomeHonest, Statuses
<1>7. CASE r = "low"
  <2>1. phase' = "returned" /\ outcome' = [status |-> "Converged", iterations |-> total']
    BY <1>3, <1>7 DEF Return
  <2>2. outcome'.status = "Converged" /\ outcome' \in Outcomes
    BY <1>2, <2>1, ReturnTypes DEF Statuses
  <2> QED
    BY <1>0, <1>1, <1>3, <1>4, <1>5, <1>7, <1>9, <2>1, <2>2
    DEF SolveInv, SolveTypes, Phases, StageInv, CycleInv, ReturnInv, OutcomeHonest, Statuses
<1>8. CASE r = "high"
  <2>1. phase' = "cycle" /\ outcome' = outcome
    BY <1>3, <1>8
  <2>2. total' < budget'
    BY <1>2
  <2> QED
    BY <1>0, <1>1, <1>3, <1>4, <1>5, <1>8, <1>9, <2>1, <2>2
    DEF SolveInv, SolveTypes, Phases, StageInv, CycleInv, ReturnInv, OutcomeHonest
<1> QED
  BY <1>3, <1>6, <1>7, <1>8

LEMMA BeginCycleInv == ASSUME SolveInv, BeginCycle PROVE SolveInv'
<1> USE DEF SolveInv
<1>1. /\ phase = "cycle" /\ phase' = "arnoldi" /\ columns' = 0 /\ happy' = FALSE
      /\ limit' = Smaller(Smaller(restart, budget - total), call.n)
      /\ UNCHANGED <<call, restart, before, budget, total, controller, residual, measured, updates,
                     applied, held, outcome>>
  BY DEF BeginCycle
<1>2. /\ limit' \in Nat /\ limit' >= 1 /\ limit' <= restart /\ limit' <= budget - total
  BY <1>1, RestartFits DEF Counters, Smaller, RestartInv, CycleInv
<1>3. SolveTypes' /\ RestartInv' /\ ControllerInv' /\ BudgetInv'
  BY <1>1, <1>2 DEF SolveTypes, Phases, RestartInv, ControllerInv, BudgetInv, StageBudget, InStage
<1>4. CycleInv'
  BY <1>1, <1>2 DEF CycleInv, Counters, Measured
<1>5. Counters'
  BY <1>1, <1>2 DEF Counters
<1> QED
  BY <1>1, <1>3, <1>4, <1>5 DEF StageInv, ReturnInv, OutcomeHonest

LEMMA ColumnInv == ASSUME SolveInv, Column PROVE SolveInv'
<1> USE DEF SolveInv
<1>1. PICK estimate \in {"low", "high"}, complete \in BOOLEAN :
         /\ happy' = complete
         /\ phase' = IF estimate = "low" \/ complete \/ columns + 1 = limit THEN "update" ELSE phase
  BY DEF Column
<1>2. /\ phase = "arnoldi" /\ columns' = columns + 1 /\ total' = total + 1
      /\ UNCHANGED <<call, restart, before, budget, limit, controller, residual, measured, updates,
                     applied, held, outcome>>
  BY DEF Column
<1>3. SolveTypes' /\ RestartInv' /\ ControllerInv'
  BY <1>1, <1>2 DEF SolveTypes, Phases, RestartInv, ControllerInv
<1>4. CycleInv'
  BY <1>1, <1>2 DEF CycleInv, Counters, Measured
<1>5. BudgetInv'
  BY <1>1, <1>2 DEF BudgetInv, StageBudget, InStage, CycleInv, Counters
<1>6. Counters'
  BY <1>2 DEF Counters
<1>7. phase' \in {"arnoldi", "update"}
  BY <1>1, <1>2
<1> QED
  BY <1>3, <1>4, <1>5, <1>6, <1>7 DEF StageInv, ReturnInv, OutcomeHonest

LEMMA RotationBreaksDownInv == ASSUME SolveInv, RotationBreaksDown PROVE SolveInv'
<1> USE DEF SolveInv
<1>1. /\ phase = "arnoldi" /\ total' = total
      /\ phase' = "returned" /\ outcome' = [status |-> "Breakdown", iterations |-> total']
      /\ UNCHANGED <<call, restart, before, budget, columns, limit, happy, controller, residual,
                     measured, updates, applied, held>>
  BY DEF RotationBreaksDown, Return
<1>4. outcome'.status = "Breakdown" /\ outcome' \in Outcomes
  BY <1>1, ReturnTypes DEF Counters, Statuses
<1>2. SolveTypes' /\ Counters' /\ RestartInv' /\ ControllerInv' /\ BudgetInv'
  BY <1>1, <1>4 DEF Counters, SolveTypes, Phases, Statuses, RestartInv, ControllerInv, BudgetInv, StageBudget, InStage
<1>3. ReturnInv'
  BY <1>1, <1>4 DEF ReturnInv, CycleInv, Statuses, Measured
<1> QED
  BY <1>1, <1>2, <1>3 DEF StageInv, CycleInv, OutcomeHonest

(* An error leaves no report. *)
LEMMA FailsInv == ASSUME SolveInv, ColumnFails \/ UpdateFails PROVE SolveInv'
<1>0. SolveTypes /\ Counters /\ phase \in {"arnoldi", "update"} /\ RestartInv /\ ControllerInv
  BY DEF SolveInv, ColumnFails, UpdateFails
<1>1. /\ phase' = "done" /\ outcome' = [status |-> "failed", iterations |-> 0]
      /\ UNCHANGED <<call, restart, before, budget, total, columns, limit, happy, controller, held>>
  BY DEF ColumnFails, UpdateFails, Abort
<1>2. outcome'.status = "failed" /\ outcome' \in Outcomes
  BY <1>1, ReturnTypes DEF Statuses
<1>3. updates' \in Nat /\ applied' \in Nat /\ residual' \in {residual, "unknown"}
  <2>1. CASE ColumnFails
    BY <1>0, <2>1 DEF ColumnFails, Counters
  <2>2. CASE UpdateFails
    <3>1. PICK k \in 0 .. columns : applied' = applied + k
      BY <2>2 DEF UpdateFails
    <3>2. updates' = updates + 1 /\ residual' = "unknown"
      BY <2>2 DEF UpdateFails
    <3>3. columns \in Nat /\ applied \in Nat /\ updates \in Nat
      BY <1>0 DEF Counters
    <3> QED
      BY <3>1, <3>2, <3>3
  <2> QED
    BY <2>1, <2>2
<1>4. Counters' /\ RestartInv' /\ ControllerInv'
  BY <1>0, <1>1, <1>3 DEF Counters, RestartInv, ControllerInv
<1> QED
  BY <1>0, <1>1, <1>2, <1>3, <1>4
  DEF SolveInv, SolveTypes, Phases, InStage, StageInv, CycleInv, ReturnInv, OutcomeHonest, Statuses

LEMMA UpdateInv == ASSUME SolveInv, Update PROVE SolveInv'
<1>0. /\ phase = "update" /\ SolveTypes /\ Counters /\ RestartInv /\ ControllerInv /\ BudgetInv
      /\ applied = before + total - columns
  BY DEF SolveInv, Update, InStage, CycleInv
<1>1. /\ updates' = updates + 1 /\ applied' = applied + columns /\ total' = total
      /\ UNCHANGED <<call, restart, before, budget, columns, limit, happy, controller, held>>
  BY DEF Update
<1>2. PICK r \in {"low", "high"} :
         /\ residual' = r /\ measured' = [of |-> updates', is |-> r]
         /\ IF r = "low" THEN Return("Converged")
            ELSE IF happy THEN Return("Breakdown")
            ELSE phase' = "boundary" /\ UNCHANGED outcome
  BY DEF Update
<1>3. Counters' /\ RestartInv' /\ ControllerInv' /\ BudgetInv' /\ Measured'
  BY <1>0, <1>1, <1>2
  DEF Counters, RestartInv, ControllerInv, BudgetInv, StageBudget, Measured
<1>4. applied' = before' + total'
  BY <1>0, <1>1 DEF Counters
<1>5. CASE r = "low"
  <2>1. phase' = "returned" /\ outcome' = [status |-> "Converged", iterations |-> total']
    BY <1>2, <1>5 DEF Return
  <2>2. outcome'.status = "Converged" /\ outcome' \in Outcomes
    BY <1>3, <2>1, ReturnTypes DEF Counters, Statuses
  <2> QED
    BY <1>0, <1>1, <1>2, <1>3, <1>4, <1>5, <2>1, <2>2
    DEF SolveInv, SolveTypes, Phases, StageInv, CycleInv, ReturnInv, OutcomeHonest, Statuses
<1>6. CASE r = "high" /\ happy
  <2>1. phase' = "returned" /\ outcome' = [status |-> "Breakdown", iterations |-> total']
    BY <1>2, <1>6 DEF Return
  <2>2. outcome'.status = "Breakdown" /\ outcome' \in Outcomes
    BY <1>3, <2>1, ReturnTypes DEF Counters, Statuses
  <2> QED
    BY <1>0, <1>1, <1>2, <1>3, <1>4, <1>6, <2>1, <2>2
    DEF SolveInv, SolveTypes, Phases, StageInv, CycleInv, ReturnInv, OutcomeHonest, Statuses
<1>7. CASE r = "high" /\ ~happy
  <2>1. phase' = "boundary" /\ outcome' = outcome
    BY <1>2, <1>7
  <2> QED
    BY <1>0, <1>1, <1>2, <1>3, <1>4, <1>7, <2>1
    DEF SolveInv, SolveTypes, Phases, StageInv, CycleInv, ReturnInv, OutcomeHonest
<1> QED
  BY <1>2, <1>5, <1>6, <1>7

(* Growing needs two windows in a row, each of four cycles. *)
LEMMA GrowthStep ==
  ASSUME SolveInv, Boundary
  PROVE  /\ restart' \in Nat \ {0} /\ restart' <= call.capacity
         /\ restart' # restart => /\ restart < restart' /\ restart' <= call.max_restart
                                  /\ call.policy = "BudgetAware" /\ held + 1 >= 2 * WindowCycles
         /\ ControllerInv'
<1>0. phase = "boundary" /\ Counters /\ RestartInv /\ ControllerInv
  BY DEF SolveInv, Boundary
<1>1. Controlled /\ held' = IF restart' = restart THEN held + 1 ELSE 0
  BY DEF Boundary
<1>2. /\ restart \in Nat /\ restart >= 1 /\ restart <= call.capacity
      /\ held \in Nat /\ controller.cycles \in Nat /\ controller.hits \in {0, 1}
      /\ call.policy = "BudgetAware" => held >= controller.cycles + 4 * controller.hits
      /\ controller \in Controllers
  BY <1>0 DEF RestartInv, Counters, ControllerInv, Controllers, WindowCycles, DecisionHits
<1>3. ASSUME NEW c \in Controllers, restart' = restart, controller' = c,
             call.policy = "BudgetAware" => held + 1 >= c.cycles + 4 * c.hits
      PROVE  ControllerInv'
  <2>1. held' = held + 1 /\ call' = call
    BY <1>1, <1>3 DEF Boundary
  <2> QED
    BY <1>3, <2>1 DEF ControllerInv, WindowCycles
<1>4. CASE call.policy # "BudgetAware" \/ restart >= call.max_restart
  <2>1. restart' = restart /\ controller' = controller
    BY <1>1, <1>4 DEF Controlled, Keep
  <2>2. ControllerInv'
    BY <1>2, <1>3, <2>1
  <2> QED
    BY <1>2, <2>1, <2>2
<1>5. CASE ~(call.policy # "BudgetAware" \/ restart >= call.max_restart)
  <2>0. call.max_restart \in Nat /\ call.capacity = call.max_restart /\ restart < call.max_restart
        /\ call.policy = "BudgetAware"
    BY <1>0, <1>2, <1>5, RestartFits DEF RestartInv, CallOK
  <2>1. CASE controller.cycles + 1 < WindowCycles
    <3>1. restart' = restart /\ controller' = [controller EXCEPT !.cycles = @ + 1]
      BY <1>1, <1>5, <2>1 DEF Controlled, Keep
    <3> QED
      <4> DEFINE c == [controller EXCEPT !.cycles = @ + 1]
      <4>0. controller' = c /\ restart' = restart
        BY <3>1
      <4>1. c.cycles = controller.cycles + 1 /\ c.hits = controller.hits
        BY <1>2 DEF Controllers
      <4>2. c \in Controllers /\ held + 1 >= c.cycles + 4 * c.hits
        <5>1. controller.cycles + 1 \in 0 .. WindowCycles - 1
          BY <1>2, <2>1 DEF WindowCycles
        <5>2. c \in Controllers
          BY <1>2, <5>1 DEF Controllers
        <5>3. held + 1 >= (controller.cycles + 1) + 4 * controller.hits
          BY <1>2, <2>0
        <5> HIDE DEF c
        <5> QED
          BY <4>1, <5>2, <5>3
      <4> HIDE DEF c
      <4>3. ControllerInv'
        BY <1>2, <1>3, <4>0, <4>1, <4>2
      <4> QED
        BY <1>2, <4>0, <4>3
  <2>2. CASE ~(controller.cycles + 1 < WindowCycles)
    <3>0. controller.cycles >= 3
      BY <1>2, <2>2 DEF WindowCycles
    <3>1. PICK hit \in BOOLEAN, rate \in {"zero", "positive"} :
             LET hits == IF hit THEN controller.hits + 1 ELSE 0
             IN  IF hits >= DecisionHits
                 THEN controller' = NewController /\ restart' = Smaller(2 * restart, call.max_restart)
                 ELSE Keep([cycles |-> 0, previous |-> rate, hits |-> hits])
      BY <1>1, <1>5, <2>2 DEF Controlled
    <3> DEFINE hits == IF hit THEN controller.hits + 1 ELSE 0
    <3>2. CASE hits >= DecisionHits
      <4>1. controller' = NewController /\ restart' = Smaller(2 * restart, call.max_restart)
        BY <3>1, <3>2
      <4>2. restart' \in Nat /\ restart < restart' /\ restart' <= call.max_restart
        BY <1>2, <2>0, <4>1 DEF Smaller
      <4>3. held' = 0
        BY <1>1, <1>2, <4>2
      <4>4. /\ NewController \in Controllers
            /\ NewController.cycles = 0 /\ NewController.hits = 0
        BY DEF NewController, Controllers, WindowCycles, DecisionHits
      <4>5. ControllerInv'
        <5>1. controller'.cycles = 0 /\ controller'.hits = 0 /\ controller' \in Controllers
          BY <4>1, <4>4
        <5> QED
          BY <4>3, <5>1 DEF ControllerInv, WindowCycles
      <4>6. held + 1 >= 2 * WindowCycles
        BY <1>2, <2>0, <3>0, <3>2 DEF WindowCycles, DecisionHits
      <4> QED
        BY <1>2, <2>0, <4>2, <4>5, <4>6
    <3>3. CASE ~(hits >= DecisionHits)
      <4> DEFINE c == [cycles |-> 0, previous |-> rate, hits |-> hits]
      <4>1. controller' = c /\ restart' = restart
        BY <3>1, <3>3 DEF Keep
      <4>3. hits \in {0, 1} /\ held + 1 >= 4 * hits
        BY <1>2, <2>0, <3>0, <3>3 DEF DecisionHits
      <4>2. c \in Controllers /\ c.cycles = 0 /\ c.hits = hits
        BY <4>3 DEF Controllers, WindowCycles, DecisionHits
      <4> QED
        BY <1>2, <1>3, <4>1, <4>2, <4>3
    <3> QED
      BY <3>2, <3>3
  <2> QED
    BY <2>1, <2>2
<1> QED
  BY <1>4, <1>5

LEMMA BoundaryInv == ASSUME SolveInv, Boundary PROVE SolveInv'
<1>0. /\ phase = "boundary" /\ SolveTypes /\ Counters /\ RestartInv /\ BudgetInv
      /\ applied = before + total /\ Measured /\ residual = "high" /\ total < budget
  BY DEF SolveInv, InStage, CycleInv, Boundary
<1>1. /\ restart' \in Nat \ {0} /\ restart' <= call.capacity /\ ControllerInv'
      /\ restart' # restart => call.policy = "BudgetAware"
  BY GrowthStep
<1>2. /\ UNCHANGED <<call, before, budget, total, columns, limit, happy, residual, measured,
                     updates, applied>>
      /\ held' \in {held + 1, 0}
  BY DEF Boundary
<1>3. phase' = "cycle" /\ outcome' = outcome
  <2>1. ~(restart' > call.capacity)
    BY <1>0, <1>1, RestartFits
  <2> QED
    BY <2>1 DEF Boundary
<1>4. Counters' /\ RestartInv' /\ Measured'
  BY <1>0, <1>1, <1>2 DEF Counters, RestartInv, Measured
<1>5. BudgetInv'
  <2>1. StageBudget' = StageBudget
    BY <1>1, <1>2 DEF StageBudget
  <2> QED
    BY <1>0, <1>2, <2>1 DEF BudgetInv
<1> QED
  BY <1>0, <1>1, <1>2, <1>3, <1>4, <1>5
  DEF SolveInv, SolveTypes, Phases, StageInv, CycleInv, ReturnInv, OutcomeHonest

LEMMA ExhaustedInv == ASSUME SolveInv, Exhausted PROVE SolveInv'
<1>0. /\ SolveTypes /\ Counters /\ RestartInv /\ ControllerInv /\ BudgetInv
      /\ applied = before + total /\ Measured /\ residual = "high" /\ total = budget
  BY DEF SolveInv, InStage, CycleInv, Exhausted
<1>1. /\ phase' = "returned" /\ outcome' = [status |-> "MaxIterations", iterations |-> total']
      /\ UNCHANGED <<call, restart, before, budget, total, columns, limit, happy, controller,
                     residual, measured, updates, applied, held>>
  BY DEF Exhausted, Return
<1>2. outcome'.status = "MaxIterations" /\ outcome' \in Outcomes
  BY <1>0, <1>1, ReturnTypes DEF Counters, Statuses
<1>3. Counters' /\ RestartInv' /\ ControllerInv' /\ BudgetInv' /\ Measured'
  BY <1>0, <1>1 DEF Counters, RestartInv, ControllerInv, BudgetInv, StageBudget, Measured
<1> QED
  BY <1>0, <1>1, <1>2, <1>3
  DEF SolveInv, SolveTypes, Phases, StageInv, CycleInv, ReturnInv, OutcomeHonest, Statuses

(* A stage that used what it was granted is followed by one with a greater *)
(* restart: at the greatest restart it was granted all there was left.     *)
LEMMA Escalation ==
  ASSUME SolveInv, NextStage
  PROVE  /\ call.policy = "Escalating" /\ total = budget /\ call.stage_iterations <= total
         /\ restart' \in Nat /\ restart < restart' /\ restart' <= call.max_restart
         /\ call.capacity = call.max_restart
<1>0. /\ phase = "returned" /\ Counters /\ RestartInv /\ BudgetInv
      /\ call.policy = "Escalating" /\ outcome.status = "MaxIterations" /\ total = budget
      /\ before + total < call.max_iterations
      /\ restart' = Smaller(2 * restart, call.max_restart)
  BY DEF SolveInv, InStage, ReturnInv, NextStage, Escalates
<1>1. /\ restart \in Nat /\ restart >= 1 /\ restart <= call.max_restart
      /\ call.max_restart \in Nat /\ call.max_iterations \in Nat /\ call.stage_iterations \in Nat
      /\ before \in Nat /\ total \in Nat /\ call.capacity = call.max_restart
  BY <1>0, RestartFits DEF RestartInv, CallOK, Counters
<1>2. restart # call.max_restart
  <2>1. restart = call.max_restart => total = call.max_iterations - before
    BY <1>0, Granted DEF BudgetInv
  <2> QED
    BY <1>0, <1>1, <2>1
<1>3. call.stage_iterations <= total
  <2>1. total = Smaller(call.stage_iterations, call.max_iterations - before)
    BY <1>0, <1>2 DEF BudgetInv, StageBudget
  <2> QED
    BY <1>0, <1>1, <2>1 DEF Smaller
<1> QED
  BY <1>0, <1>1, <1>2, <1>3 DEF Smaller

LEMMA NextStageInv == ASSUME SolveInv, NextStage PROVE SolveInv'
<1>0. /\ SolveTypes /\ Counters /\ RestartInv /\ ControllerInv
      /\ applied = before + total /\ Measured /\ residual = "high"
      /\ before + total < call.max_iterations
  BY DEF SolveInv, InStage, ReturnInv, NextStage, Escalates
<1>1. /\ call.policy = "Escalating" /\ restart' # restart /\ restart' \in Nat \ {0}
      /\ restart' <= call.capacity
  BY <1>0, Escalation DEF RestartInv
<1>2. /\ phase' = "stage" /\ outcome' = outcome /\ before' = before + total /\ held' = 0
      /\ UNCHANGED <<call, budget, total, columns, limit, happy, controller, residual, measured,
                     updates, applied>>
  BY <1>1 DEF NextStage
<1>3. Counters' /\ RestartInv' /\ ControllerInv' /\ Measured'
  BY <1>0, <1>1, <1>2 DEF Counters, RestartInv, ControllerInv, Measured
<1> QED
  BY <1>0, <1>2, <1>3
  DEF SolveInv, SolveTypes, Phases, InStage, StageInv, CycleInv, ReturnInv, OutcomeHonest

LEMMA ReportInv == ASSUME SolveInv, Report PROVE SolveInv'
<1>0. /\ phase = "returned" /\ SolveTypes /\ Counters /\ RestartInv /\ ControllerInv /\ BudgetInv
      /\ ReturnInv /\ Measured
  BY DEF SolveInv, InStage, ReturnInv, Report
<1>1. /\ phase' = "done" /\ outcome' = [outcome EXCEPT !.iterations = before + total]
      /\ UNCHANGED <<call, restart, before, budget, total, columns, limit, happy, controller,
                     residual, measured, updates, applied, held>>
  BY DEF Report
<1>2. /\ outcome'.status = outcome.status /\ outcome'.iterations = before + total
      /\ outcome' \in Outcomes
  <2>1. before + total \in Nat
    BY <1>0 DEF Counters
  <2> QED
    BY <1>0, <1>1, <2>1 DEF SolveTypes, Outcomes
<1>3. /\ call.max_iterations \in Nat /\ before \in Nat /\ total \in Nat
      /\ before + total <= call.max_iterations
      /\ outcome.status = "MaxIterations" => before + total = call.max_iterations
  <2>1. call.max_iterations \in Nat /\ before \in Nat /\ total \in Nat /\ total <= budget
    BY <1>0 DEF RestartInv, CallOK, Counters, BudgetInv
  <2>2. /\ budget \in Nat /\ budget <= call.max_iterations - before
        /\ call.policy # "Escalating" => budget = call.max_iterations - before
    BY <1>0, Granted DEF BudgetInv
  <2>3. outcome.status = "MaxIterations" =>
           /\ total = budget
           /\ call.policy # "Escalating" \/ ~(before + total < call.max_iterations)
    BY <1>0 DEF Report, Escalates, ReturnInv
  <2> QED
    BY <2>1, <2>2, <2>3
<1>4. OutcomeHonest'
  <2>1. /\ measured' = [of |-> updates', is |-> residual']
        /\ outcome'.status = "Converged" <=> residual' = "low"
    BY <1>0, <1>1, <1>2 DEF ReturnInv, Measured
  <2>2. /\ outcome'.iterations <= call'.max_iterations
        /\ outcome'.status = "MaxIterations" => outcome'.iterations = call'.max_iterations
    BY <1>1, <1>2, <1>3
  <2>3. IF outcome'.status = "Breakdown" /\ ~happy'
        THEN applied' = outcome'.iterations - columns' ELSE applied' = outcome'.iterations
    <3>1. IF outcome.status = "Breakdown" /\ ~happy
          THEN applied = before + total - columns ELSE applied = before + total
      BY <1>0 DEF ReturnInv
    <3>2. happy' = happy /\ applied' = applied /\ columns' = columns
      BY <1>1
    <3>3. outcome'.status = outcome.status /\ outcome'.iterations = before + total
      BY <1>2
    <3>4. CASE outcome.status = "Breakdown" /\ ~happy
      <4>1. applied = before + total - columns
        BY <3>1, <3>4
      <4>2. applied' = outcome'.iterations - columns'
        BY <1>0, <3>2, <3>3, <4>1 DEF Counters
      <4> QED
        BY <3>2, <3>3, <3>4, <4>2
    <3>5. CASE ~(outcome.status = "Breakdown" /\ ~happy)
      <4>1. applied' = outcome'.iterations
        BY <3>1, <3>2, <3>3, <3>5
      <4> QED
        BY <3>2, <3>3, <3>5, <4>1
    <3> QED
      BY <3>4, <3>5
  <2> QED
    BY <2>1, <2>2, <2>3 DEF OutcomeHonest
<1>5. Counters' /\ RestartInv' /\ ControllerInv'
  BY <1>0, <1>1 DEF Counters, RestartInv, ControllerInv
<1> QED
  BY <1>0, <1>1, <1>2, <1>4, <1>5
  DEF SolveInv, SolveTypes, Phases, InStage, StageInv, CycleInv, ReturnInv

(* The state a call begins in, and the one it leaves behind. *)
LEMMA FreshInv ==
  ASSUME NEW c, NEW start, Fresh(c, start),
         \/ start = "stage" /\ CallOK(c)
         \/ start = "idle" /\ c = NoCall
  PROVE  SolveInv'
<1>1. /\ call' = c /\ phase' = start /\ restart' = c.restart
      /\ before' = 0 /\ budget' = 0 /\ total' = 0 /\ columns' = 0 /\ limit' = 0
      /\ happy' = FALSE /\ controller' = NewController /\ residual' = "unknown"
      /\ updates' = 0 /\ applied' = 0 /\ held' = 0 /\ outcome' = NoOutcome
  BY DEF Fresh
<1>2. outcome' \in Outcomes
  BY <1>1, ReturnTypes DEF NoOutcome
<1>3. Counters'
  BY <1>1 DEF Counters
<1>4. SolveTypes'
  BY <1>1, <1>2 DEF SolveTypes, Phases
<1>5. start = "stage" => RestartInv' /\ ControllerInv' /\ before' < call'.max_iterations
  <2>1. /\ NewController \in Controllers
        /\ NewController.cycles = 0 /\ NewController.hits = 0
    BY DEF NewController, Controllers, WindowCycles, DecisionHits
  <2>2. /\ controller' \in Controllers
        /\ controller'.cycles = 0 /\ controller'.hits = 0 /\ held' = 0
    BY <1>1, <2>1
  <2>3. ControllerInv'
    BY <2>2 DEF ControllerInv, WindowCycles
  <2>4. CASE start = "stage"
    BY <1>1, <2>3, <2>4 DEF RestartInv, CallOK, Capacity, NoCall
  <2> QED
    BY <2>4
<1> QED
  BY <1>1, <1>3, <1>4, <1>5
  DEF SolveInv, InStage, StageInv, CycleInv, ReturnInv, OutcomeHonest

LEMMA SolveStepInv == ASSUME SolveInv, SolveStep PROVE SolveInv'
<1>1. CASE TakeOutcome
  BY <1>1, FreshInv DEF TakeOutcome
<1> QED
  BY <1>1, StartStageInv, BeginCycleInv, ColumnInv, RotationBreaksDownInv, FailsInv, UpdateInv,
     BoundaryInv, ExhaustedInv, NextStageInv, ReportInv DEF SolveStep

LEMMA SolveStutter == ASSUME SolveInv, UNCHANGED solveVars PROVE SolveInv'
<1>1. UNCHANGED <<call, phase, restart, before, budget, total, columns, limit, happy, controller,
                  residual, measured, updates, applied, held, outcome>>
  BY DEF solveVars
<1> QED
  BY <1>1
  DEF SolveInv, SolveTypes, Counters, RestartInv, ControllerInv, InStage, BudgetInv, StageBudget,
      StageInv, CycleInv, ReturnInv, Measured, OutcomeHonest

(* The options a context was prepared with are those of a call. *)
LEMMA CallBegins ==
  ASSUME NEW m \in Matrices, NEW o \in GeneralOptions, OptionsValid(o)
  PROVE  CallOK(Call(o, Capacity(o), m.n))
<1> DEFINE c == Call(o, Capacity(o), m.n)
<1>1. /\ c.capacity = Capacity(o) /\ c.n = m.n /\ c.policy = o.policy /\ c.restart = o.restart
      /\ c.max_restart = o.max_restart /\ c.stage_iterations = o.stage_iterations
      /\ c.max_iterations = o.max_iterations
  BY DEF Call
<1>2. m.n \in Nat \ {0}
  BY MatricesAssumption
<1>3. /\ o.policy \in Policies /\ o.restart \in Nat /\ o.max_restart \in Nat
      /\ o.stage_iterations \in Nat /\ o.max_iterations \in Nat
  BY DEF GeneralOptions
<1> HIDE DEF c
<1>4. CallOK(c)
  BY <1>1, <1>2, <1>3 DEF CallOK, Capacity, OptionsValid
<1> QED
  BY <1>4 DEF c
-----------------------------------------------------------------------------
(* The fields a step does not set keep what they hold.                     *)
LEMMA FieldTypes ==
  ASSUME SettingsInv
  PROVE  /\ settings.class \in {"Spd", "SymmetricIndefinite", "GeneralSquare"}
         /\ settings.execution \in HostOnly \cup Resident \cup {"Gpu"}
         /\ settings.backend \in {"Csr32", "Abtm"}
         /\ settings.factor \in {"Jacobi", "Ilu0", "Ilu0Abtm", "Ilu0Fallback"}
         /\ settings.general \in GeneralOptions
BY DEF SettingsInv, SettingTypes

LEMMA SetInv == ASSUME ContextInv, Set PROVE ContextInv'
<1>0. PICK name \in DOMAIN Choices : \E value \in Choices[name] \ {settings[name]} :
         /\ name = "general" => OptionsValid(value)
         /\ settings' = [settings EXCEPT ![name] = value]
  BY DEF Set
<1>1. PICK value \in Choices[name] :
         /\ name = "general" => OptionsValid(value)
         /\ settings' = [settings EXCEPT ![name] = value]
  BY <1>0
<1>2. UNCHANGED <<matrix, analysis, prepared>>
  BY DEF Set
<1>3. name \in DOMAIN SettingTypes /\ value \in SettingTypes[name]
  BY <1>1, ChoicesAssumption
<1>4. DOMAIN settings = DOMAIN SettingTypes
  BY DEF ContextInv, SettingsInv
<1>5. /\ DOMAIN settings' = DOMAIN SettingTypes
      /\ \A other \in DOMAIN SettingTypes :
            settings'[other] = IF other = name THEN value ELSE settings[other]
  BY <1>1, <1>3, <1>4
<1>6. \A other \in DOMAIN SettingTypes : settings'[other] \in SettingTypes[other]
  BY <1>3, <1>5 DEF ContextInv, SettingsInv
<1>7. "general" \in DOMAIN SettingTypes
  BY DEF SettingTypes
<1>8. settings'["general"] = IF "general" = name THEN value ELSE settings["general"]
  BY <1>5, <1>7
<1>9. OptionsValid(settings'["general"])
  BY <1>1, <1>8 DEF ContextInv, SettingsInv
<1> QED
  BY <1>2, <1>5, <1>6, <1>9
  DEF ContextInv, SettingsInv, AnalysisInv, PreparedInv, ContextComplete

LEMMA MatrixChangesInv == ASSUME ContextInv, MatrixChanges PROVE ContextInv'
BY DEF MatrixChanges, ContextInv, SettingsInv, AnalysisInv, PreparedInv, ContextComplete

LEMMA AnalyzeInv == ASSUME ContextInv, Analyze PROVE ContextInv'
<1>0. /\ SettingsInv /\ matrix \in Matrices
      /\ settings.class \in {"Spd", "SymmetricIndefinite", "GeneralSquare"}
      /\ settings.execution \in HostOnly \cup Resident \cup {"Gpu"}
  BY FieldTypes DEF ContextInv
<1>1. /\ ClassAccepted
      /\ settings.execution # "Gpu"
      /\ settings.execution \in Rayon => settings.backend = "Csr32"
      /\ UNCHANGED <<settings, matrix, prepared>>
  BY DEF Analyze
<1>2. analysis' = [class |-> settings.class, execution |-> settings.execution,
                   backend |-> settings.backend, matrix |-> matrix]
  BY DEF Analyze
<1>3. /\ analysis'.class = settings.class /\ analysis'.execution = settings.execution
      /\ analysis'.backend = settings.backend /\ analysis'.matrix = matrix
  BY <1>2
<1>4. AnalysisInv'
  BY <1>0, <1>1, <1>3 DEF AnalysisInv, ClassAccepted, Systems
<1> QED
  BY <1>0, <1>1, <1>4 DEF ContextInv, SettingsInv, PreparedInv, ContextComplete

(* The combinations a preparation lets through. *)
LEMMA PrepareInv == ASSUME ContextInv, Prepare PROVE ContextInv'
<1> DEFINE general == analysis.class = "GeneralSquare"
           factor == IF general THEN GeneralFactor
                     ELSE IF matrix.diagonal = "positive" THEN "Jacobi" ELSE "none"
<1>0. /\ SettingsInv /\ AnalysisInv /\ matrix \in Matrices /\ analysis # None
      /\ settings.execution \in HostOnly \cup Resident \cup {"Gpu"}
      /\ settings.factor \in {"Jacobi", "Ilu0", "Ilu0Abtm", "Ilu0Fallback"}
      /\ settings.general \in GeneralOptions /\ OptionsValid(settings.general)
  BY FieldTypes DEF ContextInv, SettingsInv, Prepare
<1>1. /\ Compatible(analysis.execution, settings.execution) /\ settings.execution # "Gpu"
      /\ matrix = analysis.matrix /\ factor # "none"
      /\ UNCHANGED <<settings, matrix, analysis>>
  BY DEF Prepare
<1>2. prepared' =
         [class |-> analysis.class, execution |-> settings.execution,
          backend |-> analysis.backend, matrix |-> matrix, hybrid |-> settings.hybrid,
          factor |-> factor, general |-> settings.general,
          abtm |-> analysis.backend = "Abtm",
          capacity |-> IF general THEN Capacity(settings.general) ELSE 0,
          resident |-> settings.execution \in Resident, learned |-> FALSE]
  BY DEF Prepare
<1>3. /\ prepared'.class = analysis.class /\ prepared'.execution = settings.execution
      /\ prepared'.backend = analysis.backend /\ prepared'.matrix = matrix
      /\ prepared'.factor = factor /\ prepared'.general = settings.general
      /\ prepared'.capacity = IF general THEN Capacity(settings.general) ELSE 0
      /\ {"class", "backend", "matrix", "execution"} \subseteq DOMAIN prepared'
  BY <1>2
<1>4. PreparedInv'
  BY <1>0, <1>1, <1>3 DEF PreparedInv, AnalysisInv, Systems
<1>5. general => /\ factor = "Jacobi" => matrix.diagonal \in Nonzero
                 /\ (factor = "Identity") <=> (matrix.diagonal = "missing")
  BY <1>0, <1>1 DEF GeneralFactor, Nonzero
<1>6. ContextComplete'
  <2>1. CASE analysis.class = "GeneralSquare"
    <3>1. settings.execution \in HostOnly
      BY <1>0, <1>1, <2>1 DEF AnalysisInv, Compatible, Systems
    <3> HIDE DEF factor
    <3> QED
      BY <1>3, <1>5, <2>1, <3>1 DEF ContextComplete
  <2>2. CASE analysis.class = "Spd"
    <3>1. settings.execution \in Rayon => analysis.backend = "Csr32"
      BY <1>0, <1>1 DEF AnalysisInv, Compatible, HostOnly, Rayon, Resident
    <3>2. matrix.diagonal = "positive"
      BY <1>0, <1>1, <2>2 DEF AnalysisInv
    <3>3. settings.execution \in HostOnly \cup Resident
      BY <1>0, <1>1
    <3> HIDE DEF factor
    <3> QED
      BY <1>3, <2>2, <3>1, <3>2, <3>3 DEF ContextComplete
  <2> QED
    BY <1>0, <2>1, <2>2 DEF AnalysisInv, Systems
<1> HIDE DEF factor
<1> QED
  BY <1>0, <1>1, <1>4, <1>6 DEF ContextInv, SettingsInv, AnalysisInv

(* A solve changes nothing that a context promises. *)
LEMMA SolveContextInv == ASSUME ContextInv, Solve PROVE ContextInv'
<1>0. /\ SettingsInv /\ AnalysisInv /\ PreparedInv /\ ContextComplete /\ matrix \in Matrices
      /\ UNCHANGED <<settings, matrix, analysis>> /\ prepared.class \in Systems
  BY DEF ContextInv, Solve
<1>1. CASE prepared.class = "GeneralSquare"
  <2>1. prepared' = prepared
    BY <1>1 DEF Solve
  <2> QED
    BY <1>0, <2>1 DEF ContextInv, SettingsInv, AnalysisInv, PreparedInv, ContextComplete
<1>2. CASE prepared.class = "Spd"
  <2>1. PICK learned \in BOOLEAN : prepared' = [prepared EXCEPT !.learned = @ \/ learned]
    BY <1>2 DEF Solve
  <2>2. {"class", "backend", "matrix", "execution"} \subseteq DOMAIN prepared
    BY <1>0, <1>2 DEF PreparedInv, None
  <2>3. /\ DOMAIN prepared' = DOMAIN prepared /\ prepared'.class = prepared.class
        /\ prepared'.backend = prepared.backend /\ prepared'.matrix = prepared.matrix
        /\ prepared'.execution = prepared.execution
    BY <2>1, <2>2
  <2>4. PreparedInv'
    BY <1>2, <2>2, <2>3 DEF PreparedInv
  <2>5. /\ prepared.execution \in HostOnly \cup Resident
        /\ prepared.execution \in Rayon => prepared.backend = "Csr32"
        /\ prepared.matrix.diagonal = "positive"
    BY <1>0, <1>2 DEF ContextComplete
  <2>6. ContextComplete'
    BY <1>2, <2>3, <2>5 DEF ContextComplete
  <2> QED
    BY <1>0, <2>4, <2>6 DEF ContextInv, SettingsInv, AnalysisInv
<1> QED
  BY <1>0, <1>1, <1>2 DEF Systems

LEMMA PrepareStructuralInv == ASSUME ContextInv, PrepareStructural PROVE ContextInv'
<1>0. /\ SettingsInv /\ AnalysisInv /\ matrix \in Matrices /\ analysis # None
      /\ matrix = analysis.matrix
      /\ settings.structural.spmv = "Parallel" => analysis.backend = "Csr32"
      /\ UNCHANGED <<settings, matrix, analysis>>
  BY DEF ContextInv, PrepareStructural
<1> DEFINE spmv == Resolve(settings.structural.spmv, matrix.large /\ analysis.backend = "Csr32")
<1>1. PICK graph_fails \in BOOLEAN, workers \in BOOLEAN :
         prepared' =
            [class |-> "Structural", backend |-> analysis.backend, matrix |-> matrix,
             aggregation |-> IF settings.structural.aggregation = "Contiguous" \/ graph_fails
                             THEN "Contiguous" ELSE "Graph",
             spmv |-> spmv,
             preconditioner |-> Resolve(settings.structural.preconditioner, matrix.large),
             vectors |-> Resolve(settings.structural.vectors, matrix.large /\ workers),
             abtm |-> analysis.backend = "Abtm", resident |-> FALSE]
  BY DEF PrepareStructural
<1>2. spmv = "Parallel" => analysis.backend = "Csr32"
  BY <1>0 DEF Resolve
<1> HIDE DEF spmv
<1>3. /\ prepared'.class = "Structural" /\ prepared'.backend = analysis.backend
      /\ prepared'.matrix = matrix /\ prepared'.spmv = spmv
      /\ {"class", "backend", "matrix", "spmv"} \subseteq DOMAIN prepared'
  BY <1>1
<1>4. matrix.square
  BY <1>0 DEF AnalysisInv
<1>5. PreparedInv' /\ ContextComplete'
  BY <1>2, <1>3, <1>4 DEF PreparedInv, ContextComplete
<1> QED
  BY <1>0, <1>5 DEF ContextInv, SettingsInv, AnalysisInv

LEMMA StructuralResidentInv == ASSUME ContextInv, StructuralResident PROVE ContextInv'
<1>0. /\ SettingsInv /\ AnalysisInv /\ PreparedInv /\ ContextComplete /\ matrix \in Matrices
      /\ UNCHANGED <<settings, matrix, analysis>> /\ prepared.class = "Structural"
      /\ prepared' = [prepared EXCEPT !.resident = TRUE]
  BY DEF ContextInv, StructuralResident
<1>1. {"class", "backend", "matrix", "spmv"} \subseteq DOMAIN prepared
  BY <1>0 DEF PreparedInv, None
<1>2. /\ DOMAIN prepared' = DOMAIN prepared /\ prepared'.class = prepared.class
      /\ prepared'.backend = prepared.backend /\ prepared'.matrix = prepared.matrix
      /\ prepared'.spmv = prepared.spmv
  BY <1>0, <1>1
<1>3. PreparedInv'
  BY <1>0, <1>1, <1>2 DEF PreparedInv
<1>4. /\ prepared.spmv = "Parallel" => prepared.backend = "Csr32"
      /\ prepared.matrix.square
  BY <1>0 DEF ContextComplete
<1>5. ContextComplete'
  BY <1>0, <1>2, <1>4 DEF ContextComplete
<1> QED
  BY <1>0, <1>3, <1>5 DEF ContextInv, SettingsInv, AnalysisInv
-----------------------------------------------------------------------------
(* The steps of the contexts, and what they leave of a solve. *)
ContextStep ==
    \/ Set \/ MatrixChanges \/ Analyze \/ Prepare \/ Solve
    \/ PrepareStructural \/ StructuralResident

LEMMA ContextStepInv == ASSUME ContextInv, ContextStep PROVE ContextInv'
BY SetInv, MatrixChangesInv, AnalyzeInv, PrepareInv, SolveContextInv, PrepareStructuralInv,
   StructuralResidentInv DEF ContextStep

LEMMA ContextStutter == ASSUME ContextInv, UNCHANGED contextVars PROVE ContextInv'
BY DEF contextVars, ContextInv, SettingsInv, AnalysisInv, PreparedInv, ContextComplete

(* A call that begins has a workspace and options that fit.                *)
LEMMA ContextStepSolve ==
  ASSUME IInv, ContextStep
  PROVE  /\ phase = "idle"
         /\ UNCHANGED solveVars \/ \E c : CallOK(c) /\ Fresh(c, "stage")
<1>1. phase = "idle"
  BY DEF ContextStep, Set, MatrixChanges, Analyze, Prepare, Solve, PrepareStructural,
         StructuralResident, Idle
<1>2. CASE Solve /\ prepared.class = "GeneralSquare"
  <2>1. /\ prepared.general \in GeneralOptions /\ OptionsValid(prepared.general)
        /\ prepared.capacity = Capacity(prepared.general) /\ matrix \in Matrices
    BY <1>2 DEF IInv, ContextInv, PreparedInv, None
  <2>2. Fresh(Call(prepared.general, prepared.capacity, matrix.n), "stage")
    BY <1>2 DEF Solve, Begin
  <2>3. CallOK(Call(prepared.general, prepared.capacity, matrix.n))
    BY <2>1, CallBegins
  <2> QED
    BY <1>1, <2>2, <2>3
<1>3. CASE ~(Solve /\ prepared.class = "GeneralSquare")
  <2>1. UNCHANGED solveVars
    BY <1>3 DEF ContextStep, Set, MatrixChanges, Analyze, Prepare, Solve, PrepareStructural,
                StructuralResident
  <2> QED
    BY <1>1, <2>1
<1> QED
  BY <1>2, <1>3

LEMMA Starts == ASSUME Init PROVE IInv
<1>1. SolveInit /\ settings \in Defaults /\ matrix \in Matrices /\ analysis = None /\ prepared = None
  BY DEF Init
<1>2. ContextInv
  <2>1. SettingsInv
    BY <1>1, DefaultsAssumption DEF SettingsInv
  <2>2. AnalysisInv /\ PreparedInv
    BY <1>1 DEF AnalysisInv, PreparedInv
  <2>3. ContextComplete
    BY <1>1 DEF ContextComplete, None
  <2> QED
    BY <1>1, <2>1, <2>2, <2>3 DEF ContextInv
<1>3. SolveInv
  <2>1. /\ call = NoCall /\ phase = "idle" /\ restart = 0
        /\ before = 0 /\ budget = 0 /\ total = 0 /\ columns = 0 /\ limit = 0
        /\ happy = FALSE /\ residual = "unknown"
        /\ updates = 0 /\ applied = 0 /\ held = 0 /\ outcome = NoOutcome
    BY <1>1 DEF SolveInit
  <2>2. outcome \in Outcomes
    BY <2>1, ReturnTypes DEF NoOutcome
  <2>3. SolveTypes
    BY <2>1, <2>2 DEF SolveTypes, Phases
  <2>4. Counters
    BY <2>1 DEF Counters
  <2> QED
    BY <2>1, <2>3, <2>4 DEF SolveInv, InStage, StageInv, CycleInv, ReturnInv, OutcomeHonest
<1> QED
  BY <1>2, <1>3 DEF IInv

LEMMA Kept == ASSUME IInv, [Next]_vars PROVE IInv'
<1>1. CASE ContextStep
  <2>1. ContextInv'
    BY <1>1, ContextStepInv DEF IInv
  <2>2. CASE UNCHANGED solveVars
    BY <2>1, <2>2, SolveStutter DEF IInv
  <2>3. CASE \E c : CallOK(c) /\ Fresh(c, "stage")
    <3>1. PICK c : CallOK(c) /\ Fresh(c, "stage")
      BY <2>3
    <3>2. SolveInv'
      BY <3>1, FreshInv
    <3> QED
      BY <2>1, <3>2 DEF IInv
  <2> QED
    BY <1>1, <2>2, <2>3, ContextStepSolve
<1>2. CASE Running
  BY <1>2, SolveStepInv, ContextStutter DEF IInv, Running
<1>3. CASE UNCHANGED vars
  BY <1>3, SolveStutter, ContextStutter DEF IInv, vars
<1> QED
  BY <1>1, <1>2, <1>3 DEF Next, ContextStep

(* The counters of a solve and the fields of a context keep their types    *)
(* and their relations.                                                    *)
THEOREM Inductive == Spec => []IInv
<1>1. Init => IInv
  BY Starts
<1>2. IInv /\ [Next]_vars => IInv'
  BY Kept
<1> QED
  BY <1>1, <1>2, PTL DEF Spec

(* Whatever the order of settings, changes of the matrix, analyses and     *)
(* preparations, a prepared system is one its solve can serve.             *)
THEOREM ContextServed == Spec => []ContextComplete
<1>1. IInv => ContextComplete
  BY DEF IInv, ContextInv
<1> QED
  BY <1>1, Inductive, PTL

(* A report is of the x returned and counts the columns it is made of,     *)
(* within max_iterations; no restart leaves the workspace and no stage is  *)
(* started without budget.                                                 *)
THEOREM ReportHonest == Spec => []SolveSound
<1>1. IInv => SolveSound
  <2> SUFFICES ASSUME IInv PROVE RestartsServed
    BY DEF SolveSound, IInv, SolveInv
  <2>1. outcome.status \notin {"capacity", "stalled"}
    BY DEF IInv, SolveInv, SolveTypes, Outcomes, Statuses
  <2>2. ASSUME phase \in {"arnoldi", "update"}
        PROVE  limit \in 1 .. call.capacity /\ columns <= limit
    <3>1. /\ Counters /\ RestartInv /\ limit <= restart /\ call.capacity \in Nat
          /\ phase = "arnoldi" => columns < limit
          /\ phase = "update" => columns \in 1 .. limit
      BY <2>2, RestartFits DEF IInv, SolveInv, CycleInv
    <3> QED
      BY <2>2, <3>1 DEF Counters, RestartInv
  <2>3. phase = "stage" => before < call.max_iterations
    BY DEF IInv, SolveInv, StageInv
  <2> QED
    BY <2>1, <2>2, <2>3 DEF RestartsServed
<1> QED
  BY <1>1, Inductive, PTL

(* A restart grows only under sustained pressure on the budget: after two  *)
(* windows of four cycles in a row, or a stage that used all its grant.    *)
THEOREM RestartGrowth == Spec => GrowthSustained
<1> DEFINE Growth == call' = call /\ restart' # restart =>
          /\ restart < restart' /\ restart' <= call.max_restart
          /\ call.policy = "BudgetAware" => held + 1 >= 2 * WindowCycles
          /\ call.policy = "Escalating" => total = budget /\ call.stage_iterations <= total
<1>1. ASSUME IInv, [Next]_vars PROVE [Growth]_solveVars
  <2>1. CASE Boundary
    <3>1. restart' # restart =>
             /\ restart < restart' /\ restart' <= call.max_restart
             /\ call.policy = "BudgetAware" /\ held + 1 >= 2 * WindowCycles
      BY <1>1, <2>1, GrowthStep DEF IInv
    <3> QED
      BY <3>1
  <2>2. CASE NextStage
    <3>1. /\ call.policy = "Escalating" /\ total = budget /\ call.stage_iterations <= total
          /\ restart < restart' /\ restart' <= call.max_restart
      BY <1>1, <2>2, Escalation DEF IInv
    <3> QED
      BY <3>1
  <2>3. CASE TakeOutcome
    <3>1. call' = NoCall /\ call.policy \in Policies
      BY <1>1, <2>3 DEF TakeOutcome, Fresh, IInv, SolveInv, RestartInv, CallOK
    <3>2. call' # call
      BY <3>1 DEF NoCall, Policies
    <3> QED
      BY <3>2
  <2>4. CASE \E c : CallOK(c) /\ Fresh(c, "stage") /\ phase = "idle"
    <3>1. call = NoCall /\ call'.policy \in Policies
      BY <1>1, <2>4 DEF IInv, SolveInv, Fresh, CallOK
    <3>2. call' # call
      BY <3>1 DEF NoCall, Policies
    <3> QED
      BY <3>2
  <2>5. CASE \/ StartStage \/ BeginCycle \/ Column \/ RotationBreaksDown \/ ColumnFails
             \/ Update \/ UpdateFails \/ Exhausted \/ Report
    <3>1. restart' = restart
      BY <2>5 DEF StartStage, BeginCycle, Column, RotationBreaksDown, ColumnFails, Update,
                  UpdateFails, Exhausted, Report
    <3> QED
      BY <3>1
  <2>6. CASE UNCHANGED solveVars
    BY <2>6
  <2>7. SolveStep \/ ContextStep \/ UNCHANGED solveVars
    BY <1>1 DEF Next, ContextStep, Running, vars
  <2>8. ContextStep =>
           UNCHANGED solveVars \/ \E c : CallOK(c) /\ Fresh(c, "stage") /\ phase = "idle"
    BY <1>1, ContextStepSolve
  <2> QED
    BY <2>1, <2>2, <2>3, <2>4, <2>5, <2>6, <2>7, <2>8 DEF SolveStep
<1> QED
  BY <1>1, Inductive, PTL DEF Spec, GrowthSustained
=============================================================================
