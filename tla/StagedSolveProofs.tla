--------------------------- MODULE StagedSolveProofs --------------------------
(***************************************************************************)
(* StagedSolve, then the discovery and selection of its regions, for all   *)
(* values of their constants.                                              *)
(*                                                                         *)
(* StagedSolve for every set of options, regions and factor sizes: the     *)
(* invariants and action properties of the runs, from an inductive         *)
(* invariant that says, for every point of control, which session the      *)
(* workspace holds, how the iterations divide into those reported, those   *)
(* of the running call and those left, and what has been learned.          *)
(*                                                                         *)
(* RegionDiscovery for every system and option: balls and components,      *)
(* orders by residual and by peak, chunks, overlap, bytes and benefit as   *)
(* lemmas about its operators, and the invariant DiscoveryInv with a lemma *)
(* per action.                                                             *)
(***************************************************************************)
EXTENDS StagedSolve, RegionDiscovery, FiniteSetTheorems, SequenceTheorems, WellFoundedInduction, TLAPS

(* The session that is run, or will be continued, is the one whose vectors *)
(* the workspace holds, and was started with the preconditioner in use.    *)
Sessions ==
    /\ pc \in {"run", "return"} => Pcg.prec = Using /\ Pcg.id = workspace
    /\ pc \in {"escalate", "finish"} =>
           current_pcg.prec = current /\ current_pcg.id = workspace

(* Every update is in the iterations of a call that returned or in those   *)
(* of the running call; what is left completes them to the maximum.        *)
Counting ==
    /\ pc # "idle" => result = "none" /\ iterations + remaining = opt.max_iterations
    /\ pc \in {"start", "run"} => updates = iterations + done /\ done + left <= remaining
    /\ pc \in {"return", "escalate", "finish"} => updates = iterations
    /\ pc \in {"start", "run"} /\ call \in {"cached", "final"} => done + left = remaining
    /\ pc = "return" /\ call \in {"cached", "final"} /\ status = "MaxIterations" =>
           remaining = 0

(* The last stage was given everything, so it converges, breaks down or    *)
(* leaves nothing.                                                         *)
LastStage ==
    /\ pc \in {"start", "run", "return"} /\ call = "probe" => escalations = 0
    /\ pc \in {"start", "run"} /\ call = "stage" /\ escalations >= opt.max_escalations =>
           done + left = remaining
    /\ pc \in {"return", "finish"} /\ (pc = "return" => call = "stage")
           /\ escalations >= opt.max_escalations /\ status = "MaxIterations" =>
           remaining = 0
    /\ pc = "escalate" => escalations < opt.max_escalations
    /\ pc \in {"start", "run"} /\ call = "final" => escalations < opt.max_escalations

(* A solve that learns has no cached factors; the factors in use are those *)
(* of all active regions, except while a stage tries more of them.         *)
Learned ==
    pc # "idle" =>
        /\ current \subseteq active
        /\ ~(pc \in {"start", "run", "return"} /\ call = "stage") => current = active
        /\ pc \in {"start", "run", "return"} /\ call = "cached" => current = {}
        /\ ~(pc \in {"start", "run", "return"} /\ call = "cached") => hybrid = {}

IInv == /\ TypeOK /\ Sessions /\ Counting /\ LastStage /\ FactorsFit
        /\ Learned /\ IterationsAccounted

(* The options are of their type.                                          *)
LEMMA OptTyped ==
    ASSUME TypeOK
    PROVE  /\ opt.max_iterations \in Nat \ {0} /\ opt.probe_iterations \in Nat \ {0}
           /\ opt.stage_iterations \in Nat \ {0} /\ opt.max_escalations \in Nat \ {0}
           /\ opt.max_factor_bytes \in Nat \ {0}
           /\ opt.enabled \in BOOLEAN /\ opt.coarse \in BOOLEAN
BY OptionsAssumption DEF TypeOK, OptionType

(* The counters are natural numbers.                                       *)
LEMMA CountersTyped ==
    ASSUME TypeOK
    PROVE  /\ workspace \in Nat /\ workspace + 1 \in Nat /\ left \in Nat /\ done \in Nat
           /\ remaining \in Nat /\ iterations \in Nat /\ updates \in Nat
BY DEF TypeOK

(* The probe gets at least one and at most all iterations.                 *)
LEMMA ProbeBudgetTyped ==
    ASSUME TypeOK
    PROVE  ProbeBudget \in Nat /\ ProbeBudget <= opt.max_iterations
BY OptTyped DEF ProbeBudget

(* What Solve does to control and result, apart from the coarse space.     *)
LEMMA SolveControl ==
    ASSUME Solve
    PROVE  \/ /\ pc' = "start" /\ call' = "cached" /\ left' = opt.max_iterations
              /\ done' = 0 /\ result' = "none"
           \/ /\ pc' = "start" /\ call' = "probe" /\ left' = ProbeBudget
              /\ done' = 0 /\ result' = "none"
           \/ /\ pc' = "idle" /\ result' = "coarse error"
              /\ call' = call /\ left' = left /\ done' = done
BY Zenon DEF Solve, Call, Raise

(* ... and to the other variables.                                         *)
LEMMA SolveReset ==
    ASSUME Solve
    PROVE  /\ solves < MaxSolves /\ solves' = solves + 1 /\ opt' = opt /\ hybrid' = hybrid
           /\ active' = {} /\ current' = {} /\ escalations' = 0
           /\ status' = "MaxIterations" /\ iterations' = 0
           /\ remaining' = opt.max_iterations /\ updates' = 0
           /\ current_pcg' = NoSession /\ stage_pcg' = NoSession /\ workspace' = 0
BY DEF Solve

(* Every step keeps the sessions in order: one that changes the            *)
(* preconditioner in use starts a session, which overwrites the workspace. *)
LEMMA SessionsStep ==
    ASSUME TypeOK, Sessions, Learned, [Next]_vars
    PROVE  Sessions'
<1> USE DEF control, pcgs, learned, outcome
<1>1. CASE Solve
    BY <1>1 DEF Solve, Call, Raise, Sessions
<1>2. CASE Start
    <2> USE <1>2 DEF Start, Raise, SetPcg
    <2>1. CASE pc' = "run" /\ call = "stage"
        BY <2>1 DEF Sessions, Pcg, Using
    <2>2. CASE pc' = "run" /\ call # "stage"
        BY <2>2 DEF Sessions, Pcg, Using
    <2>3. CASE pc' = "idle"
        BY <2>3 DEF Sessions
    <2> QED  BY <2>1, <2>2, <2>3
<1>3. CASE Iterate
    BY <1>3 DEF Iterate, SetPcg, Pcg, TypeOK, Sessions, Using, SessionType
<1>4. CASE Return
    BY <1>4 DEF Return, Pcg, Sessions, Using
<1>5. CASE AfterCached
    BY <1>5 DEF AfterCached, Report, Sessions
<1>6. CASE AfterProbe
    BY <1>6 DEF AfterProbe, Report, Goto, Continue, Call, Sessions, Using, Pcg
<1>7. CASE AfterStage
    BY <1>7 DEF AfterStage, Sessions, Using, Pcg
<1>8. CASE AfterFinal
    BY <1>8 DEF AfterFinal, Report, Sessions
<1>9. CASE OverBudget
    BY <1>9 DEF OverBudget, Raise, Sessions
<1>10. CASE LeaveLoop
    BY <1>10 DEF LeaveLoop, Goto, Sessions
<1>11. CASE Escalate
    BY <1>11 DEF Escalate, Call, Sessions
<1>12. CASE Finish
    BY <1>12 DEF Finish, Continue, Call, Report, Sessions, Using, Pcg
<1>13. CASE UNCHANGED vars
    BY <1>13 DEF vars, Sessions, Using, Pcg
<1>14. QED
    BY <1>1, <1>2, <1>3, <1>4, <1>5, <1>6, <1>7, <1>8, <1>9, <1>10, <1>11, <1>12,
       <1>13 DEF Next, Step

(* Every step keeps the accounts; no call makes more iterations than were  *)
(* left.                                                                   *)
LEMMA CountingStep ==
    ASSUME TypeOK, Counting, [Next]_vars
    PROVE  Counting'
<1> USE DEF control, pcgs, learned, outcome
<1>1. CASE Solve
    <2>1. CASE pc' = "start"
        BY <1>1, <2>1, OptTyped, ProbeBudgetTyped, SolveControl, SolveReset DEF
           Counting
    <2>2. CASE pc' = "idle"
        BY <2>2 DEF Counting
    <2> QED  BY <1>1, <2>1, <2>2, SolveControl
<1>2. CASE Start
    BY <1>2 DEF Start, Raise, Counting
<1>3. CASE Iterate
    BY <1>3 DEF Iterate, TypeOK, Counting
<1>4. CASE Return
    BY <1>4 DEF Return, Pcg, TypeOK, Counting, SessionType
<1>5. CASE AfterCached
    BY <1>5 DEF AfterCached, Report, Counting
<1>6. CASE AfterProbe
    BY <1>6 DEF AfterProbe, Report, Goto, Continue, Call, TypeOK, Counting
<1>7. CASE AfterStage
    BY <1>7 DEF AfterStage, Counting
<1>8. CASE AfterFinal
    BY <1>8 DEF AfterFinal, Report, Counting
<1>9. CASE OverBudget
    BY <1>9 DEF OverBudget, Raise, Counting
<1>10. CASE LeaveLoop
    BY <1>10 DEF LeaveLoop, Goto, Counting
<1>11. CASE Escalate
    BY <1>11 DEF Escalate, Call, StageBudget, TypeOK, Counting
<1>12. CASE Finish
    BY <1>12 DEF Finish, Continue, Call, Report, TypeOK, Counting
<1>13. CASE UNCHANGED vars
    BY <1>13 DEF vars, Counting
<1>14. QED
    BY <1>1, <1>2, <1>3, <1>4, <1>5, <1>6, <1>7, <1>8, <1>9, <1>10, <1>11, <1>12,
       <1>13 DEF Next, Step

(* Every step keeps the last stage the last: it has all iterations that    *)
(* were left, so nothing is left to continue with.                         *)
LEMMA LastStageStep ==
    ASSUME TypeOK, Counting, LastStage, [Next]_vars
    PROVE  LastStage'
<1> USE DEF control, pcgs, learned, outcome
<1>1. CASE Solve
    BY <1>1 DEF Solve, Call, Raise, LastStage
<1>2. CASE Start
    BY <1>2 DEF Start, Raise, LastStage
<1>3. CASE Iterate
    BY <1>3 DEF Iterate, TypeOK, LastStage
<1>4. CASE Return
    BY <1>4 DEF Return, Pcg, TypeOK, LastStage, SessionType
<1>5. CASE AfterCached
    BY <1>5 DEF AfterCached, Report, LastStage
<1>6. CASE AfterProbe
    BY <1>6, OptTyped DEF AfterProbe, Report, Goto, Continue, LastStage
<1>7. CASE AfterStage
    BY <1>7, OptTyped DEF AfterStage, TypeOK, LastStage
<1>8. CASE AfterFinal
    BY <1>8 DEF AfterFinal, Report, LastStage
<1>9. CASE OverBudget
    BY <1>9 DEF OverBudget, Raise, LastStage
<1>10. CASE LeaveLoop
    BY <1>10, OptTyped DEF LeaveLoop, Goto, TypeOK, LastStage
<1>11. CASE Escalate
    BY <1>11 DEF Escalate, Call, StageBudget, TypeOK, LastStage
<1>12. CASE Finish
    BY <1>12, OptTyped DEF Finish, Continue, Call, Report, TypeOK, LastStage
<1>13. CASE UNCHANGED vars
    BY <1>13 DEF vars, LastStage
<1>14. QED
    BY <1>1, <1>2, <1>3, <1>4, <1>5, <1>6, <1>7, <1>8, <1>9, <1>10, <1>11, <1>12,
       <1>13 DEF Next, Step

(* Every step keeps what is cached, in use and tried in order.             *)
LEMMA LearnedStep ==
    ASSUME TypeOK, Learned, [Next]_vars
    PROVE  Learned'
<1> USE DEF control, pcgs, learned, outcome
<1>1. CASE Solve
    BY <1>1 DEF Solve, Call, Learned
<1>2. CASE Start
    BY <1>2 DEF Start, Raise, Learned
<1>3. CASE Iterate
    BY <1>3 DEF Iterate, Learned
<1>4. CASE Return
    BY <1>4 DEF Return, Learned
<1>5. CASE AfterCached
    BY <1>5 DEF AfterCached, Report, Learned
<1>6. CASE AfterProbe
    BY <1>6 DEF AfterProbe, Report, Goto, Continue, Call, Learned
<1>7. CASE AfterStage
    BY <1>7 DEF AfterStage, Learned
<1>8. CASE AfterFinal
    BY <1>8 DEF AfterFinal, Report, Learned
<1>9. CASE OverBudget
    BY <1>9 DEF OverBudget, Raise, Learned
<1>10. CASE LeaveLoop
    BY <1>10 DEF LeaveLoop, Goto, Learned
<1>11. CASE Escalate
    BY <1>11 DEF Escalate, Call, Selections, Learned
<1>12. CASE Finish
    BY <1>12 DEF Finish, Continue, Call, Report, Learned
<1>13. CASE UNCHANGED vars
    BY <1>13 DEF vars, Learned
<1>14. QED
    BY <1>1, <1>2, <1>3, <1>4, <1>5, <1>6, <1>7, <1>8, <1>9, <1>10, <1>11, <1>12,
       <1>13 DEF Next, Step

(* A selection starts from factors that fit and adds only what fits.       *)
LEMMA FactorsFitStep ==
    ASSUME TypeOK, FactorsFit, [Next]_vars
    PROVE  FactorsFit'
<1> USE DEF control, pcgs, learned, outcome
<1>1. CASE Solve
    BY <1>1 DEF Solve, FactorsFit
<1>2. CASE Start
    BY <1>2 DEF Start, FactorsFit
<1>3. CASE Iterate
    BY <1>3 DEF Iterate, FactorsFit
<1>4. CASE Return
    BY <1>4 DEF Return, FactorsFit
<1>5. CASE AfterCached
    BY <1>5 DEF AfterCached, Report, FactorsFit
<1>6. CASE AfterProbe
    BY <1>6 DEF AfterProbe, Report, Goto, Continue, FactorsFit
<1>7. CASE AfterStage
    BY <1>7 DEF AfterStage, FactorsFit
<1>8. CASE AfterFinal
    BY <1>8 DEF AfterFinal, Report, FactorsFit
<1>9. CASE OverBudget
    BY <1>9 DEF OverBudget, FactorsFit
<1>10. CASE LeaveLoop
    BY <1>10 DEF LeaveLoop, Goto, FactorsFit
<1>11. CASE Escalate
    BY <1>11 DEF Escalate, Selections, FactorsFit
<1>12. CASE Finish
    BY <1>12 DEF Finish, Continue, Report, FactorsFit
<1>13. CASE UNCHANGED vars
    BY <1>13 DEF vars, FactorsFit
<1>14. QED
    BY <1>1, <1>2, <1>3, <1>4, <1>5, <1>6, <1>7, <1>8, <1>9, <1>10, <1>11, <1>12,
       <1>13 DEF Next, Step

(* A report is made from accounts that are complete.                       *)
LEMMA AccountedStep ==
    ASSUME TypeOK, Counting, IterationsAccounted, [Next]_vars
    PROVE  IterationsAccounted'
<1> USE DEF control, pcgs, learned, outcome
<1>1. CASE Solve
    <2>1. result' \notin Statuses
        BY <1>1, SolveControl DEF Statuses
    <2>2. updates' = 0 /\ opt' = opt /\ opt.max_iterations \in Nat
        BY <1>1, SolveReset, OptTyped
    <2> QED  BY <2>1, <2>2 DEF IterationsAccounted
<1>2. CASE Start
    BY <1>2 DEF Start, Raise, IterationsAccounted, Statuses
<1>3. CASE Iterate
    BY <1>3 DEF Iterate, TypeOK, Counting, IterationsAccounted, Statuses
<1>4. CASE Return
    BY <1>4 DEF Return, Counting, IterationsAccounted
<1>5. CASE AfterCached
    BY <1>5 DEF AfterCached, Report, TypeOK, Counting, IterationsAccounted
<1>6. CASE AfterProbe
    BY <1>6 DEF AfterProbe, Report, Goto, Continue, TypeOK, Counting,
       IterationsAccounted
<1>7. CASE AfterStage
    BY <1>7 DEF AfterStage, IterationsAccounted
<1>8. CASE AfterFinal
    BY <1>8 DEF AfterFinal, Report, TypeOK, Counting, IterationsAccounted
<1>9. CASE OverBudget
    BY <1>9 DEF OverBudget, Raise, Counting, IterationsAccounted
<1>10. CASE LeaveLoop
    BY <1>10 DEF LeaveLoop, Goto, IterationsAccounted
<1>11. CASE Escalate
    BY <1>11 DEF Escalate, IterationsAccounted
<1>12. CASE Finish
    BY <1>12 DEF Finish, Continue, Report, TypeOK, Counting, IterationsAccounted
<1>13. CASE UNCHANGED vars
    BY <1>13 DEF vars, IterationsAccounted
<1>14. QED
    BY <1>1, <1>2, <1>3, <1>4, <1>5, <1>6, <1>7, <1>8, <1>9, <1>10, <1>11, <1>12,
       <1>13 DEF Next, Step

(* Every step preserves the types; the accounts bound the subtraction.     *)
LEMMA TypeStep ==
    ASSUME TypeOK, Counting, [Next]_vars
    PROVE  TypeOK'
<1> USE DEF control, pcgs, learned, outcome
<1>1. CASE Solve
    <2>1. left' \in Nat /\ done' \in Nat
        <3>1. left' \in {left, ProbeBudget, opt.max_iterations} /\ done' \in {done, 0}
            BY <1>1, SolveControl
        <3> QED  BY <3>1, OptTyped, ProbeBudgetTyped, CountersTyped
    <2>2. solves' \in 0 .. MaxSolves /\ remaining' \in Nat
        BY <1>1, OptTyped, SolveReset, SolvesAssumption DEF TypeOK
    <2>3. current_pcg' \in SessionType /\ stage_pcg' \in SessionType
        BY <1>1, SolveReset DEF NoSession, SessionType
    <2>4. coarse' \in BOOLEAN
        BY <1>1 DEF Solve, TypeOK
    <2>5. /\ pc' \in {"start", "idle"} /\ call' \in {"probe", "stage", "final", "cached"}
          /\ result' \in Errors \cup {"none"}
        BY <1>1, SolveControl DEF TypeOK, Errors
    <2> QED  BY <1>1, <2>1, <2>2, <2>3, <2>4, <2>5, SolveReset DEF TypeOK, Statuses
<1>2. CASE Start
    <2>1. \A f \in {"none", "Converged"} :
              [id |-> workspace + 1, prec |-> Using, finished |-> f] \in SessionType
        <3>1. Using \in SUBSET Regions
            BY DEF Using, TypeOK
        <3> QED  BY <3>1, CountersTyped DEF SessionType
    <2>2. current_pcg' \in SessionType /\ stage_pcg' \in SessionType
        BY <1>2, <2>1 DEF Start, SetPcg, TypeOK
    <2>3. workspace' \in Nat
        BY <1>2, CountersTyped DEF Start
    <2>4. /\ pc' \in {"run", "idle"} /\ result' \in {result, "breakdown error"}
          /\ call' = call /\ left' = left /\ done' = done
        BY <1>2, Zenon DEF Start, Raise
    <2> QED  BY <1>2, <2>2, <2>3, <2>4 DEF Start, TypeOK, Errors
<1>3. CASE Iterate
    BY <1>3 DEF Iterate, SetPcg, Pcg, TypeOK, SessionType
<1>4. CASE Return
    BY <1>4 DEF Return, Pcg, TypeOK, Counting, SessionType, Statuses
<1>5. CASE AfterCached
    BY <1>5 DEF AfterCached, Report, TypeOK
<1>6. CASE AfterProbe
    <2>1. /\ UNCHANGED <<opt, coarse, solves, current_pcg, stage_pcg, workspace, active,
                        current, escalations, status, iterations, remaining, updates>>
          /\ hybrid' \in {hybrid, current} /\ result' \in {result, status}
        BY <1>6 DEF AfterProbe, Report, Goto, Continue
    <2>2. /\ pc' \in {"idle", "escalate", "run"} /\ call' \in {call, "final"}
          /\ left' \in {left, remaining} /\ done' \in {done, 0}
        BY <1>6 DEF AfterProbe, Report, Goto, Continue, Call
    <2> QED  BY <2>1, <2>2 DEF TypeOK
<1>7. CASE AfterStage
    BY <1>7 DEF AfterStage, TypeOK
<1>8. CASE AfterFinal
    BY <1>8 DEF AfterFinal, Report, TypeOK
<1>9. CASE OverBudget
    BY <1>9 DEF OverBudget, Raise, TypeOK, Errors
<1>10. CASE LeaveLoop
    BY <1>10 DEF LeaveLoop, Goto, TypeOK
<1>11. CASE Escalate
    BY <1>11, OptTyped DEF Escalate, Call, StageBudget, Selections, TypeOK
<1>12. CASE Finish
    <2>1. /\ UNCHANGED <<opt, coarse, solves, current_pcg, stage_pcg, workspace, active,
                        current, escalations, status, iterations, remaining, updates>>
          /\ hybrid' \in {hybrid, current} /\ result' \in {result, status}
        BY <1>12 DEF Finish, Report, Continue
    <2>2. /\ pc' \in {"idle", "run"} /\ call' \in {call, "final"}
          /\ left' \in {left, remaining} /\ done' \in {done, 0}
        BY <1>12 DEF Finish, Report, Continue, Call
    <2> QED  BY <2>1, <2>2 DEF TypeOK
<1>13. CASE UNCHANGED vars
    BY <1>13 DEF vars, TypeOK
<1>14. QED
    BY <1>1, <1>2, <1>3, <1>4, <1>5, <1>6, <1>7, <1>8, <1>9, <1>10, <1>11, <1>12,
       <1>13 DEF Next, Step

(* The inductive invariant.                                                *)
THEOREM Inductive == Spec => []IInv
<1>1. Init => IInv
    <2> SUFFICES ASSUME Init PROVE IInv
        OBVIOUS
    <2>1. TypeOK
        <3>1. NoSession \in SessionType
            BY DEF NoSession, SessionType
        <3>2. 0 \in 0 .. MaxSolves
            BY SolvesAssumption
        <3> QED  BY <3>1, <3>2 DEF Init, TypeOK, Statuses
    <2>2. FactorsFit
        BY DEF Init, FactorsFit
    <2>3. IterationsAccounted
        BY <2>1, OptTyped DEF Init, IterationsAccounted
    <2>4. Sessions /\ Counting /\ LastStage /\ Learned
        BY DEF Init, Sessions, Counting, LastStage, Learned
    <2> QED  BY <2>1, <2>2, <2>3, <2>4 DEF IInv
<1>2. IInv /\ [Next]_vars => IInv'
    BY SessionsStep, CountingStep, LastStageStep, LearnedStep, FactorsFitStep,
       AccountedStep, TypeStep DEF IInv
<1> QED  BY <1>1, <1>2, PTL DEF Spec

(* Every state of every sequence of solves is typed; in particular the     *)
(* remaining iterations never fall below zero, where the code saturates.   *)
THEOREM TypeCorrect == Spec => []TypeOK
BY Inductive, PTL DEF IInv

(* pcg_continue_with_workspace is never called with a preconditioner other *)
(* than that of the session, nor with the vectors of another session.      *)
THEOREM SessionsValid == Spec => []SessionValid
<1>1. IInv => SessionValid
    BY DEF IInv, Sessions, SessionValid
<1> QED  BY <1>1, Inductive, PTL

(* Whatever the division of the iterations into probe, stages and          *)
(* continuation, the report counts exactly the updates of x.               *)
THEOREM Accounting == Spec => []IterationsAccounted
BY Inductive, PTL DEF IInv

(* The factors of every prepared system fit the configured memory budget.  *)
THEOREM Fits == Spec => []FactorsFit
BY Inductive, PTL DEF IInv

(* No continuation runs after the last allowed stage.                      *)
THEOREM LastStageIsFinal == Spec => []LastStageTakesAll
<1>1. IInv => LastStageTakesAll
    BY DEF IInv, LastStage, LastStageTakesAll
<1> QED  BY <1>1, Inductive, PTL

(* The cached factors are all that were learned, and stay.                 *)
THEOREM Cache == Spec => CacheLearned
<1>1. IInv /\ [Next]_vars =>
          [hybrid' # hybrid => /\ hybrid = {} /\ hybrid' = active
                               /\ result' \in {"Converged", "MaxIterations"}]_vars
    <2> SUFFICES ASSUME IInv, Next, hybrid' # hybrid
                 PROVE  /\ hybrid = {} /\ hybrid' = active
                        /\ result' \in {"Converged", "MaxIterations"}
        OBVIOUS
    <2>1. /\ Report
          /\ \/ pc = "return" /\ call # "stage"
             \/ pc = "finish"
        BY DEF Next, Step, Solve, Start, Iterate, Return, AfterCached, AfterProbe,
           AfterStage, AfterFinal, OverBudget, LeaveLoop, Escalate, Finish, Goto,
           Continue
    <2>2. current # {} /\ status # "Breakdown" /\ hybrid' = current /\ result' = status
        BY <2>1 DEF Report
    <2>3. hybrid = {} /\ current = active
        BY <2>1, <2>2 DEF IInv, Learned
    <2> QED  BY <2>2, <2>3 DEF IInv, TypeOK, Statuses
<1> QED  BY <1>1, Inductive, PTL DEF Spec, CacheLearned

(* Factors that were paid for stay in use until the solve returns.         *)
THEOREM Kept == Spec => NothingEvicted
<1>1. IInv /\ [Next]_vars =>
          [pc # "idle" => active \subseteq active' /\ current \subseteq current']_vars
    <2> SUFFICES ASSUME IInv, Next, pc # "idle"
                 PROVE  active \subseteq active' /\ current \subseteq current'
        OBVIOUS
    <2>1. CASE AfterStage
        BY <2>1 DEF AfterStage, IInv, Learned
    <2>2. CASE Escalate
        BY <2>2 DEF Escalate, Selections
    <2>3. CASE ~AfterStage /\ ~Escalate
        BY <2>3 DEF Next, Step, Solve, Start, Iterate, Return, AfterCached,
           AfterProbe, AfterFinal, OverBudget, LeaveLoop, Finish, Goto, Continue,
           Report, learned
    <2> QED  BY <2>1, <2>2, <2>3
<1> QED  BY <1>1, Inductive, PTL DEF Spec, NothingEvicted

-----------------------------------------------------------------------------
(* The regions. First the facts about folds, sums and orders that their    *)
(* proofs rest on. (PartitionProofs proves the same ones; no module can    *)
(* extend both, because their specifications share names.)                 *)

(* Folds over finite sets and sequences. The recursive functions that they *)
(* are defined by exist, by a least counterexample in the cardinality.     *)
LEMMA LeastNat ==
  ASSUME NEW T \in SUBSET Nat, T # {}
  PROVE  \E m \in T : \A n \in T : m <= n
<1>1. PICK m \in T : \A n \in T : ~ (<<n, m>> \in OpToRel(<, Nat))
  BY NatLessThanWellFounded, WFMin, Zenon
<1>2. \A n \in T : ~ (n < m)
  BY <1>1 DEF OpToRel
<1> QED
  BY <1>2

LEMMA MaxFacts ==
  ASSUME NEW S \in SUBSET Int, S # {}, NEW top \in Int, \A x \in S : x <= top
  PROVE  Max(S) \in S /\ \A x \in S : x <= Max(S)
<1> DEFINE T == {top - x : x \in S}
<1>1. T \in SUBSET Nat /\ T # {}
  <2>1. PICK x \in S : TRUE
    OBVIOUS
  <2>2. top - x \in T
    BY <2>1
  <2>3. \A e \in T : e \in Nat
    OBVIOUS
  <2> QED
    BY <2>2, <2>3
<1>2. PICK d \in T : \A e \in T : d <= e
  <2> HIDE DEF T
  <2> QED
    BY <1>1, LeastNat
<1>3. PICK x \in S : d = top - x
  BY <1>2
<1>4. \A y \in S : x >= y
  <2> TAKE y \in S
  <2>1. top - y \in T
    OBVIOUS
  <2>2. d <= top - y
    BY <1>2, <2>1
  <2> QED
    BY <1>3, <2>2
<1>5. Max(S) \in S /\ \A y \in S : Max(S) >= y
  BY <1>3, <1>4 DEF Max
<1> QED
  BY <1>5

(* h folds the subsets of S with at most n elements.                       *)
Small(S, n) == {s \in SUBSET S : Cardinality(s) <= n}

Folding(A, base, step, pick, sets, h) ==
    /\ h \in [sets -> A]
    /\ \A s \in sets : h[s] = IF s = {} THEN base ELSE step[<<pick[s], h[s \ {pick[s]}]>>]

IsPick(pick, S) == \A s \in SUBSET S : s # {} => pick[s] \in s

LEMMA WithoutOne ==
  ASSUME NEW S, IsFiniteSet(S), NEW pick, IsPick(pick, S), NEW s \in SUBSET S, s # {}
  PROVE  /\ pick[s] \in s /\ pick[s] \in S /\ s \ {pick[s]} \in SUBSET S
         /\ Cardinality(s) \in Nat /\ Cardinality(s) >= 1
         /\ Cardinality(s \ {pick[s]}) = Cardinality(s) - 1
<1>1. pick[s] \in s
  BY DEF IsPick
<1>2. IsFiniteSet(s)
  BY FS_Subset
<1>3. Cardinality(s \ {pick[s]}) = Cardinality(s) - 1
  BY <1>1, <1>2, FS_RemoveElement
<1>4. Cardinality(s) \in Nat /\ Cardinality(s) # 0
  BY <1>2, FS_CardinalityType, FS_EmptySet
<1> QED
  BY <1>1, <1>3, <1>4

LEMMA FoldsExist ==
  ASSUME NEW S, IsFiniteSet(S), NEW A, NEW base \in A, NEW step \in [S \X A -> A],
         NEW pick, IsPick(pick, S), NEW n \in Nat
  PROVE  \E h : Folding(A, base, step, pick, Small(S, n), h)
<1> DEFINE T == {m \in Nat : ~ \E h : Folding(A, base, step, pick, Small(S, m), h)}
<1>1. SUFFICES ASSUME T # {} PROVE FALSE
  OBVIOUS
<1>2. PICK m \in T : \A k \in T : m <= k
  <2>1. T \in SUBSET Nat
    OBVIOUS
  <2> HIDE DEF T
  <2> QED
    BY <1>1, <2>1, LeastNat
<1>3. m # 0
  <2> DEFINE h == [s \in Small(S, 0) |-> base]
  <2>1. ASSUME NEW s \in Small(S, 0), s # {} PROVE FALSE
    <3>1. s \in SUBSET S /\ Cardinality(s) <= 0
      BY DEF Small
    <3>2. Cardinality(s) \in Nat /\ Cardinality(s) >= 1
      BY <2>1, <3>1, WithoutOne
    <3> QED
      BY <3>1, <3>2
  <2>2. Folding(A, base, step, pick, Small(S, 0), h)
    BY <2>1 DEF Folding
  <2> QED
    BY <2>2
<1>4. m - 1 \in Nat /\ m - 1 \notin T
  BY <1>2, <1>3
<1>5. PICK g : Folding(A, base, step, pick, Small(S, m - 1), g)
  BY <1>4
<1> DEFINE h == [s \in Small(S, m) |->
                    IF s = {} THEN base ELSE step[<<pick[s], g[s \ {pick[s]}]>>]]
<1>6. ASSUME NEW s \in Small(S, m), s # {}
      PROVE  /\ s \ {pick[s]} \in Small(S, m - 1) /\ s \ {pick[s]} \in Small(S, m)
             /\ pick[s] \in S
  BY <1>4, <1>6, WithoutOne DEF Small
<1>7. h \in [Small(S, m) -> A]
  <2>1. \A s \in Small(S, m) : s # {} => g[s \ {pick[s]}] \in A
    BY <1>5, <1>6 DEF Folding
  <2>2. \A s \in Small(S, m) : s # {} => step[<<pick[s], g[s \ {pick[s]}]>>] \in A
    BY <1>6, <2>1
  <2> QED
    BY <2>2
<1>8. ASSUME NEW s \in Small(S, m - 1)
      PROVE  h[s] = g[s]
  <2>1. s \in Small(S, m)
    <3>1. Cardinality(s) \in Nat
      BY FS_Subset, FS_CardinalityType DEF Small
    <3> QED
      BY <1>4, <3>1 DEF Small
  <2> QED
    BY <1>5, <2>1 DEF Folding
<1>9. \A s \in Small(S, m) : h[s] = IF s = {} THEN base ELSE step[<<pick[s], h[s \ {pick[s]}]>>]
  BY <1>6, <1>8
<1>10. Folding(A, base, step, pick, Small(S, m), h)
  BY <1>7, <1>9 DEF Folding
<1> QED
  BY <1>2, <1>10

LEMMA FoldExists ==
  ASSUME NEW S, IsFiniteSet(S), NEW A, NEW base \in A, NEW step \in [S \X A -> A],
         NEW pick, IsPick(pick, S)
  PROVE  \E h : Folding(A, base, step, pick, SUBSET S, h)
<1>1. Cardinality(S) \in Nat
  BY FS_CardinalityType
<1>2. \E h : Folding(A, base, step, pick, Small(S, Cardinality(S)), h)
  BY <1>1, FoldsExist
<1>3. Small(S, Cardinality(S)) = SUBSET S
  BY FS_Subset DEF Small
<1> QED
  BY <1>2, <1>3

(* Two folds that take the same steps agree. *)
LEMMA FoldsAgree ==
  ASSUME NEW S, IsFiniteSet(S), NEW pick, IsPick(pick, S), NEW g, NEW h, g[{}] = h[{}],
         \A s \in SUBSET S : s # {} /\ g[s \ {pick[s]}] = h[s \ {pick[s]}] => g[s] = h[s]
  PROVE  \A s \in SUBSET S : g[s] = h[s]
<1> DEFINE T == {m \in Nat : \E s \in SUBSET S : Cardinality(s) = m /\ g[s] # h[s]}
<1>1. SUFFICES ASSUME NEW s \in SUBSET S, g[s] # h[s] PROVE FALSE
  OBVIOUS
<1>2. PICK m \in T : \A k \in T : m <= k
  <2>1. T \in SUBSET Nat /\ Cardinality(s) \in T
    BY <1>1, FS_Subset, FS_CardinalityType
  <2> HIDE DEF T
  <2> QED
    BY <2>1, LeastNat
<1>3. PICK r \in SUBSET S : Cardinality(r) = m /\ g[r] # h[r]
  BY <1>2
<1>4. r # {}
  BY <1>3
<1>5. /\ r \ {pick[r]} \in SUBSET S /\ m \in Nat /\ m >= 1
      /\ Cardinality(r \ {pick[r]}) = m - 1
  BY <1>3, <1>4, WithoutOne
<1>6. g[r \ {pick[r]}] = h[r \ {pick[r]}]
  <2>1. m - 1 \in Nat /\ ~(m <= m - 1)
    BY <1>5
  <2>2. m - 1 \notin T
    <3> HIDE DEF T
    <3> QED
      BY <1>2, <2>1
  <2> QED
    BY <1>5, <2>1, <2>2
<1> QED
  BY <1>3, <1>4, <1>6

(* A sum over a set takes its elements one by one.                         *)
First(s) == CHOOSE x \in s : TRUE

Summing(f, S, g) == [s \in SUBSET S |-> IF s = {} THEN 0 ELSE f[First(s)] + g[s \ {First(s)}]]

SumFold(f, S) == CHOOSE g : g = Summing(f, S, g)

LEMMA SumUnfolded == ASSUME NEW f, NEW S PROVE SumFunctionOnSet(f, S) = SumFold(f, S)[S]
  BY Zenon DEF SumFunctionOnSet, FoldFunctionOnSet, MapThenFoldSet, SumFold, Summing, First

LEMMA SumFacts ==
  ASSUME NEW S, IsFiniteSet(S), NEW f, \A x \in S : f[x] \in Nat
  PROVE  /\ \A s \in SUBSET S : SumFold(f, S)[s] \in Nat
         /\ SumFold(f, S)[{}] = 0
         /\ \A s \in SUBSET S : s # {} =>
               /\ First(s) \in s
               /\ SumFold(f, S)[s] = f[First(s)] + SumFold(f, S)[s \ {First(s)}]
<1> DEFINE pick == [s \in SUBSET S |-> First(s)]
           step == [c \in S \X Nat |-> f[c[1]] + c[2]]
           F == SumFold(f, S)
<1>0. IsFiniteSet(S)
  OBVIOUS
<1>1. \A s \in SUBSET S : s # {} => First(s) \in s
  BY DEF First
<1>2. IsPick(pick, S)
  BY <1>1 DEF IsPick
<1>3. step \in [S \X Nat -> Nat]
  OBVIOUS
<1>4. PICK h : Folding(Nat, 0, step, pick, SUBSET S, h)
  <2> HIDE DEF step, pick
  <2> QED
    BY <1>2, <1>3, FoldExists
<1>5. ASSUME NEW s \in SUBSET S
      PROVE  h[s] \in Nat /\ h[s] = IF s = {} THEN 0 ELSE f[First(s)] + h[s \ {First(s)}]
  <2>1. h[s] \in Nat /\ h[s] = IF s = {} THEN 0 ELSE step[<<pick[s], h[s \ {pick[s]}]>>]
    <3> HIDE DEF step, pick
    <3> QED
      BY <1>4 DEF Folding
  <2>2. pick[s] = First(s)
    OBVIOUS
  <2>3. s # {} => First(s) \in S /\ h[s \ {First(s)}] \in Nat
    <3>1. s \ {First(s)} \in SUBSET S
      OBVIOUS
    <3>2. h[s \ {First(s)}] \in Nat
      <4> HIDE DEF step, pick
      <4> QED
        BY <1>4, <3>1 DEF Folding
    <3> QED
      BY <1>1, <3>2
  <2> HIDE DEF pick
  <2> QED
    BY <2>1, <2>2, <2>3
<1>6. h = Summing(f, S, h)
  <2>1. h = [s \in SUBSET S |-> h[s]]
    <3> HIDE DEF step, pick
    <3> QED
      BY <1>4 DEF Folding
  <2> QED
    BY <1>5, <2>1 DEF Summing
<1>7. F = Summing(f, S, F)
  BY <1>6 DEF SumFold
<1> HIDE DEF F
<1>8. \A s \in SUBSET S : F[s] = IF s = {} THEN 0 ELSE f[First(s)] + F[s \ {First(s)}]
  BY <1>7 DEF Summing
<1>9. \A s \in SUBSET S : s # {} /\ F[s \ {pick[s]}] = h[s \ {pick[s]}] => F[s] = h[s]
  BY <1>5, <1>8
<1>10. F[{}] = h[{}]
  BY <1>5, <1>8
<1>11. \A s \in SUBSET S : F[s] = h[s]
  <2> HIDE DEF pick
  <2> QED
    BY ONLY <1>0, <1>2, <1>9, <1>10, FoldsAgree
<1> QED
  BY <1>1, <1>5, <1>8, <1>11 DEF F

(* Greater terms make a greater sum.                                       *)
LEMMA SumGrows ==
  ASSUME NEW S, IsFiniteSet(S), NEW f, NEW g,
         \A x \in S : f[x] \in Nat /\ g[x] \in Nat /\ f[x] <= g[x]
  PROVE  SumFunctionOnSet(f, S) <= SumFunctionOnSet(g, S)
<1> DEFINE F == SumFold(f, S)
           G == SumFold(g, S)
           T == {m \in Nat : \E s \in SUBSET S : Cardinality(s) = m /\ ~(F[s] <= G[s])}
           pick == [s \in SUBSET S |-> First(s)]
<1>1. /\ \A s \in SUBSET S : F[s] \in Nat /\ G[s] \in Nat
      /\ F[{}] = 0 /\ G[{}] = 0
      /\ \A s \in SUBSET S : s # {} =>
            /\ First(s) \in s
            /\ F[s] = f[First(s)] + F[s \ {First(s)}]
            /\ G[s] = g[First(s)] + G[s \ {First(s)}]
  BY SumFacts
<1> HIDE DEF F, G
<1>2. SUFFICES F[S] <= G[S]
  BY SumUnfolded DEF F, G
<1>3. T = {}
  <2>1. SUFFICES ASSUME T # {} PROVE FALSE
    OBVIOUS
  <2>2. PICK m \in T : \A k \in T : m <= k
    <3>1. T \in SUBSET Nat
      OBVIOUS
    <3> HIDE DEF T
    <3> QED
      BY <2>1, <3>1, LeastNat
  <2>3. PICK s \in SUBSET S : Cardinality(s) = m /\ ~(F[s] <= G[s])
    BY <2>2
  <2> HIDE DEF T
  <2>4. s # {}
    <3>1. s = {} => F[s] = 0 /\ G[s] = 0
      BY <1>1
    <3> QED
      BY <2>3, <3>1
  <2> DEFINE rest == s \ {First(s)}
  <2>5. First(s) \in S /\ rest \in SUBSET S
    BY <1>1, <2>4
  <2>6. Cardinality(rest) = m - 1 /\ m \in Nat /\ m >= 1
    <3>1. IsPick(pick, S) /\ pick[s] = First(s)
      BY <1>1 DEF IsPick
    <3>2. m \in Nat
      BY <2>2 DEF T
    <3> HIDE DEF pick
    <3>3. Cardinality(s) >= 1 /\ Cardinality(s \ {pick[s]}) = Cardinality(s) - 1
      BY <2>4, <3>1, WithoutOne
    <3> QED
      BY <2>3, <3>1, <3>2, <3>3
  <2> HIDE DEF rest
  <2>7. m - 1 \in Nat /\ ~(m <= m - 1)
    BY <2>6
  <2>8. m - 1 \notin T
    <3> HIDE DEF T
    <3> QED
      BY <2>2, <2>7
  <2>9. F[rest] <= G[rest]
    BY <2>5, <2>6, <2>7, <2>8 DEF T
  <2>10. F[s] = f[First(s)] + F[rest] /\ G[s] = g[First(s)] + G[rest]
    BY <1>1, <2>4 DEF rest
  <2>11. /\ f[First(s)] \in Nat /\ g[First(s)] \in Nat /\ f[First(s)] <= g[First(s)]
         /\ F[rest] \in Nat /\ G[rest] \in Nat
    BY <1>1, <2>5
  <2> QED
    BY <2>3, <2>9, <2>10, <2>11
<1>4. IsFiniteSet(S) /\ S \in SUBSET S
  OBVIOUS
<1> QED
  BY <1>3, <1>4, FS_CardinalityType

(* The steps of a fold over a sequence, of which s were taken. *)
Latest(s) == Max(s)

Sweep(ranks) == [i \in 1 .. ranks - 1 |-> i]

(* The last of a nonempty set of steps. *)
LEMMA LatestFacts ==
  ASSUME NEW m \in Nat, NEW s \in SUBSET (1 .. m), s # {}
  PROVE  Latest(s) \in s /\ \A x \in s : x <= Latest(s)
<1>1. s \in SUBSET Int /\ m \in Int /\ \A x \in s : x <= m
  OBVIOUS
<1> QED
  BY <1>1, MaxFacts DEF Latest

(* A fold over 1 .. m goes through its prefixes. *)
LEMMA LatestOfPrefix ==
  ASSUME NEW m \in Nat, NEW k \in 1 .. m
  PROVE  /\ 1 .. k \in SUBSET (1 .. m) /\ 1 .. k # {}
         /\ Latest(1 .. k) = k /\ (1 .. k) \ {k} = 1 .. k - 1
<1>0. 1 .. k \in SUBSET (1 .. m) /\ k \in 1 .. k
  OBVIOUS
<1>1. (1 .. k) \ {k} = 1 .. k - 1
  <2>1. \A x : x \in (1 .. k) \ {k} <=> x \in 1 .. k - 1
    OBVIOUS
  <2> QED
    BY <2>1
<1>2. Latest(1 .. k) \in 1 .. k /\ k <= Latest(1 .. k)
  BY <1>0, LatestFacts
<1> QED
  BY <1>0, <1>1, <1>2

LEMMA LatestIsPick ==
  ASSUME NEW m \in Nat
  PROVE  IsPick([s \in SUBSET (1 .. m) |-> Latest(s)], 1 .. m)
  BY LatestFacts DEF IsPick

(* A finite set in the order of R.                                         *)
IsOrder(R, S) ==
  /\ \A x \in S : <<x, x>> \notin R
  /\ \A x, y \in S : x # y => <<x, y>> \in R \/ <<y, x>> \in R
  /\ \A x, y, z \in S : <<x, y>> \in R /\ <<y, z>> \in R => <<x, z>> \in R

Below(R, S, x) == {y \in S : <<y, x>> \in R}

LEMMA HasGreatest ==
  ASSUME NEW S, IsFiniteSet(S), S # {}, NEW R, IsOrder(R, S)
  PROVE  \E x \in S : \A y \in S \ {x} : <<y, x>> \in R
<1> DEFINE HasTop(s) == \E x \in s : \A y \in s \ {x} : <<y, x>> \in R
           T == {m \in Nat : \E s \in SUBSET S : Cardinality(s) = m /\ s # {} /\ ~HasTop(s)}
<1>1. T = {}
  <2>1. SUFFICES ASSUME T # {} PROVE FALSE
    OBVIOUS
  <2>2. PICK m \in T : \A k \in T : m <= k
    <3>1. T \in SUBSET Nat
      OBVIOUS
    <3> HIDE DEF T
    <3> QED
      BY <2>1, <3>1, LeastNat
  <2>3. PICK s \in SUBSET S : Cardinality(s) = m /\ s # {} /\ ~HasTop(s)
    BY <2>2
  <2>4. PICK x \in s : TRUE
    BY <2>3
  <2>5. IsFiniteSet(s) /\ m \in Nat
    BY <2>2, FS_Subset
  <2>6. Cardinality(s \ {x}) = m - 1 /\ Cardinality(s \ {x}) \in Nat /\ s \ {x} \in SUBSET S
    BY <2>3, <2>5, FS_RemoveElement, FS_CardinalityType
  <2>7. m - 1 \notin T
    <3> HIDE DEF T
    <3> QED
      BY <2>2, <2>5, <2>6
  <2>8. s \ {x} # {} /\ HasTop(s \ {x})
    <3>1. CASE s \ {x} = {}
      <4>1. HasTop(s)
        BY <2>4, <3>1
      <4> QED
        BY <2>3, <4>1
    <3>2. CASE s \ {x} # {}
      <4> HIDE DEF HasTop
      <4> QED
        BY <2>6, <2>7, <3>2
    <3> QED
      BY <3>1, <3>2
  <2>9. PICK z \in s \ {x} : \A y \in (s \ {x}) \ {z} : <<y, z>> \in R
    BY <2>8
  <2>10. <<x, z>> \in R \/ <<z, x>> \in R
    BY <2>4, <2>9 DEF IsOrder
  <2>11. CASE <<x, z>> \in R
    <3>1. \A y \in s \ {z} : <<y, z>> \in R
      BY <2>9, <2>11
    <3> QED
      BY <2>3, <2>9, <3>1
  <2>12. CASE <<z, x>> \in R
    <3>1. \A y \in s \ {x} : <<y, x>> \in R
      <4> TAKE y \in s \ {x}
      <4>1. y = z \/ <<y, z>> \in R
        BY <2>9
      <4>2. y \in S /\ z \in S /\ x \in S
        BY <2>4, <2>9
      <4> QED
        BY <2>12, <4>1, <4>2 DEF IsOrder
    <3> QED
      BY <2>3, <2>4, <3>1
  <2> QED
    BY <2>10, <2>11, <2>12
<1>2. Cardinality(S) \in Nat /\ S \in SUBSET S
  BY FS_CardinalityType
<1>3. HasTop(S)
  <2> HIDE DEF HasTop
  <2> QED
    BY <1>1, <1>2
<1> QED
  BY <1>3

(* One element is of each rank. *)
LEMMA HasRank ==
  ASSUME NEW S, IsFiniteSet(S), NEW R, IsOrder(R, S), NEW k \in 1 .. Cardinality(S)
  PROVE  \E x \in S : Cardinality(Below(R, S, x)) = k - 1
<1> DEFINE Has(s, j) == \E x \in s : Cardinality(Below(R, s, x)) = j - 1
           T == {m \in Nat : \E s \in SUBSET S : Cardinality(s) = m /\ \E j \in 1 .. m : ~Has(s, j)}
<1>1. T = {}
  <2>1. SUFFICES ASSUME T # {} PROVE FALSE
    OBVIOUS
  <2>2. PICK m \in T : \A i \in T : m <= i
    <3>1. T \in SUBSET Nat
      OBVIOUS
    <3> HIDE DEF T
    <3> QED
      BY <2>1, <3>1, LeastNat
  <2>3. PICK s \in SUBSET S : Cardinality(s) = m /\ \E j \in 1 .. m : ~Has(s, j)
    BY <2>2
  <2>4. PICK j \in 1 .. m : ~Has(s, j)
    BY <2>3
  <2>5. IsFiniteSet(s) /\ m \in Nat /\ s # {}
    BY <2>2, <2>3, <2>4, FS_Subset, FS_EmptySet
  <2>6. IsOrder(R, s)
    BY DEF IsOrder
  <2>7. PICK x \in s : \A y \in s \ {x} : <<y, x>> \in R
    BY <2>5, <2>6, HasGreatest
  <2> DEFINE rest == s \ {x}
  <2>8. Cardinality(rest) = m - 1 /\ Cardinality(rest) \in Nat /\ rest \in SUBSET S
    BY <2>3, <2>5, FS_RemoveElement, FS_CardinalityType
  <2>9. m - 1 \notin T
    <3> HIDE DEF T
    <3> QED
      BY <2>2, <2>5, <2>8
  <2>10. CASE j = m
    <3>1. Below(R, s, x) = rest
      BY <2>6, <2>7 DEF Below, IsOrder
    <3> QED
      BY <2>4, <2>8, <2>10, <3>1
  <2>11. CASE j # m
    <3>1. j \in 1 .. m - 1
      BY <2>5, <2>11
    <3>2. Has(rest, j)
      <4> HIDE DEF Has, rest
      <4> QED
        BY <2>8, <2>9, <3>1
    <3>3. PICK z \in rest : Cardinality(Below(R, rest, z)) = j - 1
      BY <3>2
    <3>4. <<x, z>> \notin R
      <4>1. <<z, x>> \in R /\ x \in s /\ z \in s
        BY <2>7, <3>3
      <4> QED
        BY <2>6, <4>1 DEF IsOrder
    <3>5. Below(R, s, z) = Below(R, rest, z)
      BY <3>4 DEF Below
    <3> QED
      BY <2>4, <3>3, <3>5
  <2> QED
    BY <2>10, <2>11
<1>2. Cardinality(S) \in Nat /\ S \in SUBSET S
  BY FS_CardinalityType
<1>3. Has(S, k)
  <2> HIDE DEF Has
  <2> QED
    BY <1>1, <1>2
<1> QED
  BY <1>3

LEMMA RankFacts ==
  ASSUME NEW S, IsFiniteSet(S), NEW R, IsOrder(R, S), NEW x \in S
  PROVE  /\ Cardinality(Below(R, S, x)) \in 0 .. Cardinality(S) - 1
         /\ \A y \in S : <<y, x>> \in R => Cardinality(Below(R, S, y)) < Cardinality(Below(R, S, x))
<1>1. \A y \in S : /\ Below(R, S, y) \in SUBSET S /\ IsFiniteSet(Below(R, S, y))
                   /\ Cardinality(Below(R, S, y)) \in Nat
  <2> TAKE y \in S
  <2>1. Below(R, S, y) \in SUBSET S
    BY DEF Below
  <2> QED
    BY <2>1, FS_Subset, FS_CardinalityType
<1>2. Cardinality(S) \in Nat
  BY FS_CardinalityType
<1>3. x \notin Below(R, S, x)
  BY DEF Below, IsOrder
<1>4. Cardinality(Below(R, S, x)) <= Cardinality(S) /\ Cardinality(Below(R, S, x)) # Cardinality(S)
  BY <1>1, <1>3, FS_Subset
<1>5. ASSUME NEW y \in S, <<y, x>> \in R
      PROVE  Cardinality(Below(R, S, y)) < Cardinality(Below(R, S, x))
  <2>1. Below(R, S, y) \in SUBSET Below(R, S, x)
    BY <1>5 DEF Below, IsOrder
  <2>2. y \in Below(R, S, x) /\ y \notin Below(R, S, y)
    BY <1>5 DEF Below, IsOrder
  <2>3. /\ Cardinality(Below(R, S, y)) <= Cardinality(Below(R, S, x))
        /\ Cardinality(Below(R, S, y)) # Cardinality(Below(R, S, x))
    BY <1>1, <2>1, <2>2, FS_Subset
  <2> QED
    BY <1>1, <2>3
<1> QED
  BY <1>1, <1>2, <1>4, <1>5

(* A sequence of the elements by rank. *)
InOrder(R, S) == [k \in 1 .. Cardinality(S) |-> CHOOSE x \in S : Cardinality(Below(R, S, x)) = k - 1]

Lists(seq, S) ==
  /\ seq \in Seq(S) /\ Len(seq) = Cardinality(S)
  /\ \A x \in S : \E k \in 1 .. Len(seq) : seq[k] = x
  /\ \A j, k \in 1 .. Len(seq) : j # k => seq[j] # seq[k]

LEMMA InOrderFacts ==
  ASSUME NEW S, IsFiniteSet(S), NEW R, IsOrder(R, S)
  PROVE  /\ Lists(InOrder(R, S), S)
         /\ \A j, k \in 1 .. Cardinality(S) : j < k => <<InOrder(R, S)[j], InOrder(R, S)[k]>> \in R
<1> DEFINE seq == InOrder(R, S)
           n == Cardinality(S)
<1>1. n \in Nat
  BY FS_CardinalityType
<1>2. \A k \in 1 .. n : seq[k] \in S /\ Cardinality(Below(R, S, seq[k])) = k - 1
  <2> TAKE k \in 1 .. n
  <2>1. seq[k] = CHOOSE x \in S : Cardinality(Below(R, S, x)) = k - 1
    BY DEF InOrder
  <2> HIDE DEF seq
  <2> QED
    BY <2>1, HasRank
<1>3. seq = [k \in 1 .. n |-> seq[k]]
  BY DEF InOrder
<1> HIDE DEF seq, n
<1>4. seq \in Seq(S) /\ Len(seq) = n
  <2>1. seq \in [1 .. n -> S]
    BY <1>2, <1>3
  <2> QED
    BY <1>1, <2>1, SeqDef
<1>5. ASSUME NEW j \in 1 .. n, NEW k \in 1 .. n, j # k PROVE seq[j] # seq[k]
  BY <1>1, <1>2, <1>5
<1>6. ASSUME NEW x \in S PROVE \E k \in 1 .. n : seq[k] = x
  <2> DEFINE k == Cardinality(Below(R, S, x)) + 1
  <2>1. k \in 1 .. n /\ k - 1 = Cardinality(Below(R, S, x))
    BY <1>1, RankFacts DEF n
  <2> HIDE DEF k
  <2>2. seq[k] \in S /\ Cardinality(Below(R, S, seq[k])) = Cardinality(Below(R, S, x))
    BY <1>2, <2>1
  <2>3. seq[k] = x
    <3> SUFFICES ASSUME seq[k] # x PROVE FALSE
      OBVIOUS
    <3>1. <<seq[k], x>> \in R \/ <<x, seq[k]>> \in R
      BY <2>2 DEF IsOrder
    <3>2. /\ Cardinality(Below(R, S, seq[k])) \in Int
          /\ Cardinality(Below(R, S, x)) \in Int
      BY <2>2, RankFacts
    <3> QED
      BY <2>2, <3>1, <3>2, RankFacts
  <2> QED
    BY <2>1, <2>3
<1>7. ASSUME NEW j \in 1 .. n, NEW k \in 1 .. n, j < k PROVE <<seq[j], seq[k]>> \in R
  <2>1. /\ seq[j] \in S /\ seq[k] \in S
        /\ Cardinality(Below(R, S, seq[j])) = j - 1 /\ Cardinality(Below(R, S, seq[k])) = k - 1
    BY <1>2
  <2>2. seq[j] # seq[k]
    BY <1>1, <1>5, <1>7
  <2>3. <<seq[k], seq[j]>> \notin R
    <3>1. <<seq[k], seq[j]>> \in R => k - 1 < j - 1
      BY <2>1, RankFacts
    <3> QED
      BY <1>7, <3>1
  <2> QED
    BY <2>1, <2>2, <2>3 DEF IsOrder
<1> QED
  BY <1>4, <1>5, <1>6, <1>7 DEF Lists, seq, n

LEMMA AscendingFacts ==
  ASSUME NEW S \in SUBSET Int, IsFiniteSet(S)
  PROVE  Lists(Ascending(S), S)
<1> DEFINE R == {p \in S \X S : p[1] < p[2]}
<1>1. IsOrder(R, S)
  BY DEF IsOrder
<1>2. \A x \in S : Below(R, S, x) = {y \in S : y < x}
  BY DEF Below
<1>3. Ascending(S) = InOrder(R, S)
  <2>1. Ascending(S) = [k \in 1 .. Cardinality(S) |->
                           CHOOSE x \in S : Cardinality({y \in S : y < x}) = k - 1]
    BY DEF Ascending, Sorted
  <2> HIDE DEF R
  <2>2. ASSUME NEW k \in 1 .. Cardinality(S)
        PROVE  (CHOOSE x \in S : Cardinality({y \in S : y < x}) = k - 1)
                 = CHOOSE x \in S : Cardinality(Below(R, S, x)) = k - 1
    BY <1>2
  <2> QED
    BY <2>1, <2>2 DEF InOrder
<1> HIDE DEF R
<1> QED
  BY <1>1, <1>3, InOrderFacts

(* Lists of sets, and lists of lists. *)
LEMMA Joined ==
  ASSUME NEW A, NEW B, IsFiniteSet(A), IsFiniteSet(B), A \cap B = {},
         NEW a, NEW b, Lists(a, A), Lists(b, B)
  PROVE  IsFiniteSet(A \cup B) /\ Lists(a \o b, A \cup B)
<1> DEFINE ab == a \o b
           C == A \cup B
<1>1. /\ a \in Seq(A) /\ b \in Seq(B) /\ Len(a) \in Nat /\ Len(b) \in Nat
      /\ Len(a) = Cardinality(A) /\ Len(b) = Cardinality(B)
  BY DEF Lists
<1>2. a \in Seq(C) /\ b \in Seq(C)
  BY <1>1, SeqMonotonic
<1>3. /\ ab \in Seq(C) /\ Len(ab) = Len(a) + Len(b)
      /\ \A k \in 1 .. Len(a) : ab[k] = a[k]
      /\ \A k \in 1 .. Len(b) : ab[Len(a) + k] = b[k]
  <2> HIDE DEF C
  <2> QED
    BY <1>1, <1>2
<1>4. IsFiniteSet(C) /\ Cardinality(C) = Cardinality(A) + Cardinality(B)
  <2>1. Cardinality(A \cap B) = 0
    BY FS_EmptySet
  <2>2. Cardinality(A) \in Nat /\ Cardinality(B) \in Nat
    BY FS_CardinalityType
  <2>3. /\ IsFiniteSet(A \cup B)
        /\ Cardinality(A \cup B) = Cardinality(A) + Cardinality(B) - Cardinality(A \cap B)
    BY FS_Union, Zenon
  <2> QED
    BY <2>1, <2>2, <2>3
<1>5. \A k \in 1 .. Len(ab) : k \in 1 .. Len(a) \/ (k - Len(a) \in 1 .. Len(b) /\ Len(a) + (k - Len(a)) = k)
  BY <1>1, <1>3
<1>6. ASSUME NEW x \in C PROVE \E k \in 1 .. Len(ab) : ab[k] = x
  <2>1. CASE x \in A
    <3>1. PICK k \in 1 .. Len(a) : a[k] = x
      BY <2>1 DEF Lists
    <3> HIDE DEF ab
    <3> QED
      BY <1>1, <1>3, <3>1
  <2>2. CASE x \in B
    <3>1. PICK k \in 1 .. Len(b) : b[k] = x
      BY <2>2 DEF Lists
    <3>2. Len(a) + k \in 1 .. Len(ab) /\ ab[Len(a) + k] = x
      BY <1>1, <1>3, <3>1
    <3> HIDE DEF ab
    <3> QED
      BY <3>2
  <2> QED
    BY <2>1, <2>2
<1>7. ASSUME NEW j \in 1 .. Len(ab), NEW k \in 1 .. Len(ab), j # k PROVE ab[j] # ab[k]
  <2>1. \A i \in 1 .. Len(a) : a[i] \in A
    BY <1>1
  <2>2. \A i \in 1 .. Len(b) : b[i] \in B
    BY <1>1
  <2>3. \A x \in A, y \in B : x # y
    OBVIOUS
  <2>4. \A i \in 1 .. Len(ab) : \/ i \in 1 .. Len(a) /\ ab[i] = a[i]
                                \/ i - Len(a) \in 1 .. Len(b) /\ ab[i] = b[i - Len(a)]
    <3> HIDE DEF ab
    <3> TAKE i \in 1 .. Len(ab)
    <3>1. CASE i \in 1 .. Len(a)
      BY <1>3, <3>1
    <3>2. CASE i - Len(a) \in 1 .. Len(b)
      <4>1. Len(a) + (i - Len(a)) = i
        BY <1>1
      <4> QED
        BY <1>3, <3>2, <4>1
    <3> QED
      BY <1>5, <3>1, <3>2
  <2>5. \A p, q \in 1 .. Len(a) : p # q => a[p] # a[q]
    BY DEF Lists
  <2>6. \A p, q \in 1 .. Len(b) : p # q => b[p] # b[q]
    BY DEF Lists
  <2>7. j \in Int /\ k \in Int /\ (j - Len(a) # k - Len(a))
    BY <1>1, <1>7
  <2> HIDE DEF ab
  <2> QED
    BY <2>1, <2>2, <2>3, <2>4, <2>5, <2>6, <2>7
<1> HIDE DEF ab, C
<1>8. Lists(ab, C)
  BY <1>1, <1>3, <1>4, <1>6, <1>7 DEF Lists
<1> QED
  BY <1>4, <1>8 DEF ab, C

(* Likewise for the numbers up to n. *)
LEMMA ByNumbers ==
  ASSUME NEW n \in Nat, NEW G, 0 \in G, \A k \in 0 .. n - 1 : k \in G => k + 1 \in G
  PROVE  \A k \in 0 .. n : k \in G
<1> DEFINE T == {k \in Nat : k <= n /\ k \notin G}
<1>1. SUFFICES ASSUME T # {} PROVE FALSE
  OBVIOUS
<1>2. PICK m \in T : \A k \in T : m <= k
  <2>1. T \in SUBSET Nat
    OBVIOUS
  <2> HIDE DEF T
  <2> QED
    BY <1>1, <2>1, LeastNat
<1>3. m # 0 /\ m \in Nat /\ m <= n /\ m \notin G
  BY <1>2
<1>4. m - 1 \in 0 .. n - 1 /\ ~(m <= m - 1) /\ (m - 1) + 1 = m /\ m - 1 \in Nat /\ m - 1 <= n
  BY <1>3
<1>5. m - 1 \notin G
  BY <1>3, <1>4
<1>6. m - 1 \in T
  BY <1>4, <1>5
<1> HIDE DEF T
<1> QED
  BY <1>2, <1>4, <1>6

(* A sum takes any of its terms first. *)
LEMMA SumOfPart ==
  ASSUME NEW S, IsFiniteSet(S), NEW f, \A x \in S : f[x] \in Nat, NEW s \in SUBSET S
  PROVE  SumFunctionOnSet(f, s) = SumFold(f, S)[s]
<1> DEFINE F == SumFold(f, S)
           H == SumFold(f, s)
           pick == [r \in SUBSET s |-> First(r)]
<1>1. IsFiniteSet(s) /\ \A x \in s : f[x] \in Nat
  BY FS_Subset
<1>2. /\ F[{}] = 0
      /\ \A r \in SUBSET S : r # {} => First(r) \in r /\ F[r] = f[First(r)] + F[r \ {First(r)}]
  BY SumFacts
<1>3. /\ H[{}] = 0
      /\ \A r \in SUBSET s : r # {} => First(r) \in r /\ H[r] = f[First(r)] + H[r \ {First(r)}]
  BY <1>1, SumFacts
<1> HIDE DEF F, H
<1>4. IsPick(pick, s)
  BY <1>3 DEF IsPick
<1>5. ASSUME NEW r \in SUBSET s, r # {}, F[r \ {pick[r]}] = H[r \ {pick[r]}]
      PROVE  F[r] = H[r]
  <2>1. pick[r] = First(r) /\ r \in SUBSET S
    OBVIOUS
  <2> HIDE DEF pick
  <2> QED
    BY <1>2, <1>3, <1>5, <2>1
<1>6. F[{}] = H[{}]
  BY <1>2, <1>3
<1>7. \A r \in SUBSET s : F[r] = H[r]
  <2> HIDE DEF pick
  <2>1. \A r \in SUBSET s : r # {} /\ F[r \ {pick[r]}] = H[r \ {pick[r]}] => F[r] = H[r]
    BY ONLY <1>5
  <2>2. IsFiniteSet(s)
    BY <1>1
  <2> HIDE DEF F, H
  <2> QED
    BY ONLY <2>1, <2>2, <1>4, <1>6, FoldsAgree
<1> QED
  BY <1>7, SumUnfolded DEF F, H

LEMMA SumType ==
  ASSUME NEW S, IsFiniteSet(S), NEW f, \A x \in S : f[x] \in Nat
  PROVE  SumFunctionOnSet(f, S) \in Nat
  BY SumFacts, SumUnfolded

LEMMA SumWithout ==
  ASSUME NEW S, IsFiniteSet(S), NEW f, \A x \in S : f[x] \in Nat, NEW x \in S
  PROVE  SumFunctionOnSet(f, S) = f[x] + SumFunctionOnSet(f, S \ {x})
<1> DEFINE F == SumFold(f, S)
           AnyOf(s) == \A y \in s : F[s] = f[y] + F[s \ {y}]
           T == {m \in Nat : \E s \in SUBSET S : Cardinality(s) = m /\ ~ AnyOf(s)}
<1>1. /\ \A s \in SUBSET S : F[s] \in Nat
      /\ \A s \in SUBSET S : s # {} => First(s) \in s /\ F[s] = f[First(s)] + F[s \ {First(s)}]
  BY SumFacts
<1>2. SUFFICES F[S] = f[x] + F[S \ {x}]
  <2>1. S \in SUBSET S /\ S \ {x} \in SUBSET S
    OBVIOUS
  <2> QED
    BY <1>2, <2>1, SumOfPart
<1> HIDE DEF F
<1>3. T = {}
  <2>1. SUFFICES ASSUME T # {} PROVE FALSE
    OBVIOUS
  <2>2. PICK m \in T : \A k \in T : m <= k
    <3>1. T \in SUBSET Nat
      OBVIOUS
    <3> HIDE DEF T
    <3> QED
      BY <2>1, <3>1, LeastNat
  <2>3. PICK s \in SUBSET S : Cardinality(s) = m /\ ~ AnyOf(s)
    BY <2>2
  <2>4. PICK y \in s : F[s] # f[y] + F[s \ {y}]
    BY <2>3
  <2> DEFINE z == First(s)
  <2>5. z \in s /\ z \in S /\ y \in S /\ F[s] = f[z] + F[s \ {z}] /\ z # y
    BY <1>1, <2>4
  <2>6. m \in Nat /\ IsFiniteSet(s)
    BY <2>2, FS_Subset
  <2> HIDE DEF z
  <2>7. ASSUME NEW u \in s PROVE AnyOf(s \ {u})
    <3>1. Cardinality(s \ {u}) = m - 1 /\ Cardinality(s \ {u}) \in Nat
      BY <2>3, <2>6, FS_RemoveElement, FS_CardinalityType
    <3>2. ~(m <= m - 1)
      BY <2>6
    <3>3. m - 1 \notin T
      <4> HIDE DEF T
      <4> QED
        BY <2>2, <3>2
    <3>4. s \ {u} \in SUBSET S
      OBVIOUS
    <3> HIDE DEF AnyOf
    <3> QED
      BY <3>1, <3>3, <3>4
  <2>8. F[s \ {z}] = f[y] + F[(s \ {z}) \ {y}] /\ F[s \ {y}] = f[z] + F[(s \ {y}) \ {z}]
    <3>1. AnyOf(s \ {z}) /\ AnyOf(s \ {y})
      BY <2>5, <2>7
    <3>2. y \in s \ {z} /\ z \in s \ {y}
      BY <2>5
    <3> QED
      BY <3>1, <3>2
  <2>9. (s \ {z}) \ {y} = (s \ {y}) \ {z}
    OBVIOUS
  <2>10. f[y] \in Nat /\ f[z] \in Nat /\ F[(s \ {y}) \ {z}] \in Nat
    <3>1. (s \ {y}) \ {z} \in SUBSET S
      OBVIOUS
    <3> QED
      BY <1>1, <2>5, <3>1
  <2> QED
    BY <2>4, <2>5, <2>8, <2>9, <2>10
<1>4. AnyOf(S)
  <2>1. S \in SUBSET S /\ Cardinality(S) \in Nat
    BY FS_CardinalityType
  <2> HIDE DEF AnyOf
  <2> QED
    BY <1>3, <2>1
<1> QED
  BY <1>4

(* A sum depends on nothing but the terms, *)
LEMMA SumEq ==
  ASSUME NEW S, IsFiniteSet(S), NEW f, NEW g, \A x \in S : f[x] \in Nat /\ g[x] = f[x]
  PROVE  SumFunctionOnSet(f, S) = SumFunctionOnSet(g, S)
<1>1. SumFunctionOnSet(f, S) \in Nat /\ SumFunctionOnSet(g, S) \in Nat
  BY SumType
<1>2. SumFunctionOnSet(f, S) <= SumFunctionOnSet(g, S) /\ SumFunctionOnSet(g, S) <= SumFunctionOnSet(f, S)
  BY SumGrows
<1> QED
  BY <1>1, <1>2

(* Comparing tuples: the first difference decides, and with keys that all  *)
(* differ there is a best element and an order.                            *)
Earlier(key, S) == {p \in S \X S : Exceeds(key[p[1]], key[p[2]])}

IsKey(key, S, m) ==
  /\ \A x \in S : key[x] \in [1 .. m -> Int]
  /\ \A x, y \in S : x # y => key[x] # key[y]

LEMMA FirstOfTwo ==
  ASSUME NEW m \in Nat, NEW a \in [1 .. m -> Int], NEW b \in [1 .. m -> Int], a # b
  PROVE  Exceeds(a, b) \/ Exceeds(b, a)
<1> DEFINE T == {k \in Nat : k \in 1 .. m /\ a[k] # b[k]}
<1>1. PICK k \in T : \A j \in T : k <= j
  <2>1. T \in SUBSET Nat /\ T # {}
    OBVIOUS
  <2> HIDE DEF T
  <2> QED
    BY <2>1, LeastNat
<1>2. k \in 1 .. m /\ a[k] # b[k] /\ a[k] \in Int /\ b[k] \in Int
  BY <1>1
<1>3. \A j \in 1 .. k - 1 : a[j] = b[j]
  <2> TAKE j \in 1 .. k - 1
  <2>1. j \in Nat /\ j \in 1 .. m /\ ~(k <= j)
    BY <1>2
  <2>2. j \notin T
    <3> HIDE DEF T
    <3> QED
      BY <1>1, <2>1
  <2> QED
    BY <2>1, <2>2
<1> QED
  BY <1>2, <1>3 DEF Exceeds

LEMMA ExceedsAll ==
  ASSUME NEW m \in Nat, NEW a \in [1 .. m -> Int], NEW b \in [1 .. m -> Int],
         NEW c \in [1 .. m -> Int], Exceeds(a, b), Exceeds(b, c)
  PROVE  Exceeds(a, c)
<1>1. PICK k \in 1 .. m : a[k] > b[k] /\ \A j \in 1 .. k - 1 : a[j] = b[j]
  BY DEF Exceeds
<1>2. PICK l \in 1 .. m : b[l] > c[l] /\ \A j \in 1 .. l - 1 : b[j] = c[j]
  BY DEF Exceeds
<1>3. CASE k <= l
  <2>1. a[k] > c[k]
    <3>1. a[k] \in Int /\ b[k] \in Int /\ c[k] \in Int
      BY <1>1
    <3>2. CASE k = l
      BY <1>1, <1>2, <3>1, <3>2
    <3>3. CASE k < l
      <4>1. k \in 1 .. l - 1
        BY <1>1, <1>2, <3>3
      <4> QED
        BY <1>1, <1>2, <3>1, <4>1
    <3> QED
      BY <1>1, <1>2, <1>3, <3>2, <3>3
  <2>2. \A j \in 1 .. k - 1 : a[j] = c[j]
    BY <1>1, <1>2, <1>3
  <2> QED
    BY <2>1, <2>2 DEF Exceeds
<1>4. CASE l < k
  <2>1. l \in 1 .. k - 1 /\ a[l] = b[l]
    BY <1>1, <1>2, <1>4
  <2>2. \A j \in 1 .. l - 1 : a[j] = c[j]
    BY <1>1, <1>2, <1>4
  <2> QED
    BY <1>2, <2>1, <2>2 DEF Exceeds
<1> QED
  BY <1>1, <1>2, <1>3, <1>4

LEMMA EarlierOrders ==
  ASSUME NEW m \in Nat, NEW S, NEW key, IsKey(key, S, m)
  PROVE  IsOrder(Earlier(key, S), S)
<1>1. \A x, y \in S : <<x, y>> \in Earlier(key, S) <=> Exceeds(key[x], key[y])
  BY DEF Earlier
<1>2. \A x \in S : ~ Exceeds(key[x], key[x])
  BY DEF Exceeds, IsKey
<1>3. \A x, y \in S : x # y => Exceeds(key[x], key[y]) \/ Exceeds(key[y], key[x])
  BY FirstOfTwo DEF IsKey
<1>4. \A x, y, z \in S : Exceeds(key[x], key[y]) /\ Exceeds(key[y], key[z]) => Exceeds(key[x], key[z])
  BY ExceedsAll DEF IsKey
<1> QED
  BY <1>1, <1>2, <1>3, <1>4 DEF IsOrder

Ahead(key, S, x) == {y \in S : Exceeds(key[y], key[x])}

SortedBy(key, S) ==
  [k \in 1 .. Cardinality(S) |-> CHOOSE x \in S : Cardinality(Ahead(key, S, x)) = k - 1]

LEMMA SortedLists ==
  ASSUME NEW m \in Nat, NEW S, IsFiniteSet(S), NEW key, IsKey(key, S, m)
  PROVE  /\ Lists(SortedBy(key, S), S)
         /\ \A j, k \in 1 .. Cardinality(S) :
               j < k => Exceeds(key[SortedBy(key, S)[j]], key[SortedBy(key, S)[k]])
<1> DEFINE R == Earlier(key, S)
<1>1. IsOrder(R, S)
  BY EarlierOrders
<1>2. SortedBy(key, S) = InOrder(R, S)
  <2>1. \A x \in S : Below(R, S, x) = Ahead(key, S, x)
    BY DEF Below, Earlier, Ahead
  <2> HIDE DEF R
  <2>2. ASSUME NEW k \in 1 .. Cardinality(S)
        PROVE  SortedBy(key, S)[k] = InOrder(R, S)[k]
    <3>1. SortedBy(key, S)[k] = CHOOSE x \in S : Cardinality(Ahead(key, S, x)) = k - 1
      BY DEF SortedBy
    <3>2. InOrder(R, S)[k] = CHOOSE x \in S : Cardinality(Below(R, S, x)) = k - 1
      BY DEF InOrder
    <3>3. (CHOOSE x \in S : Cardinality(Ahead(key, S, x)) = k - 1)
            = CHOOSE x \in S : Cardinality(Below(R, S, x)) = k - 1
      BY <2>1
    <3> QED
      BY <3>1, <3>2, <3>3
  <2>3. SortedBy(key, S) = [k \in 1 .. Cardinality(S) |-> SortedBy(key, S)[k]]
    BY DEF SortedBy
  <2>4. InOrder(R, S) = [k \in 1 .. Cardinality(S) |-> InOrder(R, S)[k]]
    BY DEF InOrder
  <2> QED
    BY <2>2, <2>3, <2>4
<1>3. /\ Lists(InOrder(R, S), S)
      /\ \A j, k \in 1 .. Cardinality(S) : j < k => <<InOrder(R, S)[j], InOrder(R, S)[k]>> \in R
  <2> HIDE DEF R
  <2> QED
    BY <1>1, InOrderFacts
<1>4. \A x, y : <<x, y>> \in R => Exceeds(key[x], key[y])
  BY DEF Earlier
<1> HIDE DEF R
<1> QED
  BY <1>2, <1>3, <1>4

(* A fold over a sequence of length m, taken step by step. *)
StepsIn(m, A, step) == \A k \in 1 .. m : \A b \in A : step[<<k, b>>] \in A

Folds(m, A, base, step, F) ==
  /\ F[{}] = base
  /\ \A s \in SUBSET (1 .. m) :
        s # {} /\ F[s \ {Latest(s)}] \in A => F[s] = step[<<Latest(s), F[s \ {Latest(s)}]>>]

Unfolds(m, A, base, step, F) ==
  /\ F[1 .. 0] = base
  /\ \A k \in 0 .. m : F[1 .. k] \in A
  /\ \A k \in 1 .. m : F[1 .. k] = step[<<k, F[1 .. k - 1]>>]

Made(m, A, base, step, h) ==
  /\ h = [s \in SUBSET (1 .. m) |-> h[s]]
  /\ h[{}] = base
  /\ \A s \in SUBSET (1 .. m) : s # {} =>
        /\ h[s \ {Latest(s)}] \in A /\ Latest(s) \in 1 .. m
        /\ h[s] = step[<<Latest(s), h[s \ {Latest(s)}]>>]

LEMMA FoldIs ==
  ASSUME NEW m \in Nat, NEW A, NEW base \in A, NEW step, StepsIn(m, A, step),
         NEW F, Folds(m, A, base, step, F)
  PROVE  Unfolds(m, A, base, step, F)
<1> USE DEF StepsIn, Folds
<1> DEFINE G == {k \in 0 .. m : F[1 .. k] \in A}
<1>1. 1 .. 0 = {} /\ 0 \in G
  OBVIOUS
<1>2. ASSUME NEW k \in 1 .. m, F[1 .. k - 1] \in A
      PROVE  F[1 .. k] = step[<<k, F[1 .. k - 1]>>] /\ F[1 .. k] \in A
  <2>1. /\ 1 .. k \in SUBSET (1 .. m) /\ 1 .. k # {}
        /\ Latest(1 .. k) = k /\ (1 .. k) \ {k} = 1 .. k - 1
    BY LatestOfPrefix
  <2>2. F[1 .. k] = step[<<k, F[1 .. k - 1]>>]
    BY <1>2, <2>1
  <2> QED
    BY <1>2, <2>2
<1>3. \A k \in 0 .. m - 1 : k \in G => k + 1 \in G
  <2> SUFFICES ASSUME NEW k \in 0 .. m - 1, k \in G PROVE k + 1 \in G
    OBVIOUS
  <2>1. k + 1 \in 1 .. m /\ (k + 1) - 1 = k /\ k + 1 \in 0 .. m
    OBVIOUS
  <2> QED
    BY <1>2, <2>1
<1>4. \A k \in 0 .. m : k \in G
  <2> HIDE DEF G
  <2> QED
    BY <1>1, <1>3, ByNumbers
<1>5. \A k \in 1 .. m : F[1 .. k - 1] \in A
  <2> TAKE k \in 1 .. m
  <2>1. k - 1 \in 0 .. m
    OBVIOUS
  <2>2. k - 1 \in G
    BY <1>4, <2>1
  <2> QED
    BY <2>2
<1> QED
  BY <1>1, <1>2, <1>4, <1>5 DEF Unfolds

(* The function that CHOOSE takes for a fold is a fold. *)
LEMMA FoldMade ==
  ASSUME NEW m \in Nat, NEW A, NEW base \in A, NEW step, StepsIn(m, A, step)
  PROVE  \E h : Made(m, A, base, step, h)
<1> USE DEF StepsIn
<1> DEFINE S == 1 .. m
           pick == [s \in SUBSET S |-> Latest(s)]
           act == [c \in S \X A |-> step[c]]
<1>1. act \in [S \X A -> A]
  <2>1. \A c \in S \X A : step[c] \in A
    <3> TAKE c \in S \X A
    <3>1. c[1] \in S /\ c[2] \in A /\ c = <<c[1], c[2]>>
      OBVIOUS
    <3> QED
      BY <3>1
  <2> QED
    BY <2>1
<1>2. IsPick(pick, S) /\ IsFiniteSet(S)
  <2>1. IsFiniteSet(S)
    <3>1. 1 \in Int /\ m \in Int
      OBVIOUS
    <3> QED
      BY ONLY <3>1, FS_Interval
  <2> QED
    BY <2>1, LatestIsPick
<1>3. PICK h : Folding(A, base, act, pick, SUBSET S, h)
  <2> HIDE DEF S, act, pick
  <2> QED
    BY <1>1, <1>2, FoldExists
<1>4. h \in [SUBSET S -> A] /\ h[{}] = base
  <2> HIDE DEF S, act, pick
  <2>1. {} \in SUBSET S
    OBVIOUS
  <2> QED
    BY <1>3, <2>1 DEF Folding
<1>5. ASSUME NEW s \in SUBSET S, s # {}
      PROVE  /\ h[s \ {Latest(s)}] \in A /\ Latest(s) \in S
             /\ h[s] = step[<<Latest(s), h[s \ {Latest(s)}]>>]
  <2>1. pick[s] = Latest(s) /\ Latest(s) \in S /\ s \ {Latest(s)} \in SUBSET S
    BY <1>5, LatestFacts
  <2>2. h[s] = act[<<pick[s], h[s \ {pick[s]}]>>]
    <3> HIDE DEF S, act, pick
    <3> QED
      BY <1>3, <1>5 DEF Folding
  <2> HIDE DEF S, pick
  <2>3. h[s \ {Latest(s)}] \in A
    <3> HIDE DEF act
    <3> QED
      BY <1>4, <2>1
  <2>4. act[<<Latest(s), h[s \ {Latest(s)}]>>] = step[<<Latest(s), h[s \ {Latest(s)}]>>]
    BY <2>1, <2>3
  <2> QED
    BY <2>1, <2>2, <2>3, <2>4
<1> HIDE DEF act, pick
<1> QED
  BY <1>4, <1>5 DEF Made

Outside(within, n, i) == {k \in 1 .. n : i \notin within[k]}

Counted(a, within) == [i \in DOMAIN a |-> Cardinality(Outside(within, Cardinality(DOMAIN a), i))]

LEMMA IntervalFinite ==
  ASSUME NEW n \in Nat
  PROVE  /\ IsFiniteSet(0 .. n - 1) /\ Cardinality(0 .. n - 1) = n
         /\ IsFiniteSet(1 .. n) /\ Cardinality(1 .. n) = n
<1>1. 0 \in Int /\ n - 1 \in Int /\ 1 \in Int /\ n \in Int
  OBVIOUS
<1>2. IsFiniteSet(0 .. n - 1) /\ Cardinality(0 .. n - 1) = IF 0 > n - 1 THEN 0 ELSE (n - 1) - 0 + 1
  BY ONLY <1>1, FS_Interval
<1>3. IsFiniteSet(1 .. n) /\ Cardinality(1 .. n) = IF 1 > n THEN 0 ELSE n - 1 + 1
  BY ONLY <1>1, FS_Interval
<1> QED
  BY <1>2, <1>3

LEMMA SetOf ==
  ASSUME NEW S, NEW seq \in Seq(S)
  PROVE  /\ \A x \in ToSet(seq) : x \in S /\ \E k \in 1 .. Len(seq) : seq[k] = x
         /\ \A k \in 1 .. Len(seq) : seq[k] \in ToSet(seq)
         /\ ToSet(seq) \subseteq S /\ Len(seq) \in Nat
<1>1. DOMAIN seq = 1 .. Len(seq) /\ Len(seq) \in Nat /\ \A k \in 1 .. Len(seq) : seq[k] \in S
  OBVIOUS
<1> QED
  BY ONLY <1>1 DEF ToSet

Distinct(seq) == \A j, k \in 1 .. Len(seq) : j # k => seq[j] # seq[k]

(* A list without repetitions has as many elements as places. *)
LEMMA DistinctCount ==
  ASSUME NEW S, NEW seq \in Seq(S), Distinct(seq)
  PROVE  IsFiniteSet(ToSet(seq)) /\ Cardinality(ToSet(seq)) = Len(seq)
<1> DEFINE D == 1 .. Len(seq)
<1>1. Len(seq) \in Nat /\ DOMAIN seq = D /\ seq = [k \in D |-> seq[k]]
  OBVIOUS
<1>2. /\ \A x \in ToSet(seq) : \E k \in D : seq[k] = x
      /\ \A k \in D : seq[k] \in ToSet(seq)
  BY SetOf
<1>3. \A j, k \in D : seq[j] = seq[k] => j = k
  BY DEF Distinct
<1>4. IsFiniteSet(D) /\ Cardinality(D) = Len(seq)
  BY <1>1, IntervalFinite
<1>5. seq \in [D -> ToSet(seq)]
  BY <1>1, <1>2
<1> HIDE DEF D
<1>6. seq \in Bijection(D, ToSet(seq))
  BY <1>2, <1>3, <1>5 DEF Bijection, Injection, Surjection, IsInjective
<1> QED
  BY <1>4, <1>6, FS_Bijection DEF ExistsBijection

LEMMA PrefixOf ==
  ASSUME NEW S, NEW seq \in Seq(S), Distinct(seq), NEW m \in 0 .. Len(seq)
  PROVE  /\ SubSeq(seq, 1, m) \in Seq(S) /\ Len(SubSeq(seq, 1, m)) = m
         /\ Distinct(SubSeq(seq, 1, m))
<1>1. Len(seq) \in Nat /\ m \in Nat /\ m <= Len(seq) /\ \A k \in 1 .. Len(seq) : seq[k] \in S
  OBVIOUS
<1>2. SubSeq(seq, 1, m) = [k \in 1 .. m |-> seq[k]]
  BY <1>1
<1>3. [k \in 1 .. m |-> seq[k]] \in [1 .. m -> S]
  BY <1>1
<1>4. [k \in 1 .. m |-> seq[k]] \in Seq(S) /\ Len([k \in 1 .. m |-> seq[k]]) = m
  BY <1>1, <1>3, SeqDef, LenProperties
<1>5. \A j, k \in 1 .. m : j # k => seq[j] # seq[k]
  BY <1>1 DEF Distinct
<1> QED
  BY <1>2, <1>4, <1>5 DEF Distinct

-----------------------------------------------------------------------------
(* Balls. Breadth-first balls grow from their seeds, the n-th is closed, *)
(* and the distance of a node tells the first ball that holds it.          *)
Widened(a, set) == set \cup UNION {a[i] : i \in set}
WidenStep(a, balls) == Append(balls, Last(balls) \cup UNION {a[i] : i \in Last(balls)})
WidenSteps(a, seeds, h) ==
  [s \in SUBSET (DOMAIN Sweep(Cardinality(DOMAIN a))) |->
      IF s = {} THEN <<seeds>> ELSE WidenStep(a, h[s \ {Latest(s)}])]
WidenFold(a, seeds) == CHOOSE h : h = WidenSteps(a, seeds, h)
Balls(a, seeds) == WidenFold(a, seeds)[DOMAIN Sweep(Cardinality(DOMAIN a))]

LEMMA DistancesCounted ==
  ASSUME NEW a, NEW s
  PROVE  Distances(a, s) = Counted(a, Balls(a, s))
  BY Zenon DEF Distances, FoldLeft, MapThenFoldSet, Counted, Outside, Balls, WidenFold, WidenSteps,
               WidenStep, Sweep, Latest

(* n balls around the seeds. *)
AreBalls(n, a, seeds, w) ==
  /\ DOMAIN w = 1 .. n /\ \A k \in 1 .. n : w[k] \in SUBSET (0 .. n - 1)
  /\ w[1] = seeds
  /\ \A k \in 1 .. n - 1 : w[k + 1] = Widened(a, w[k])

LEMMA BallsAre ==
  ASSUME NEW n \in Nat, n >= 1, NEW a \in [0 .. n - 1 -> SUBSET (0 .. n - 1)],
         NEW seeds \in SUBSET (0 .. n - 1)
  PROVE  AreBalls(n, a, seeds, Balls(a, seeds))
<1> DEFINE V == SUBSET (0 .. n - 1)
           A == {q \in Seq(V) : Len(q) >= 1}
           m == n - 1
           base == <<seeds>>
           step == [c \in (1 .. m) \X A |-> WidenStep(a, c[2])]
           F == WidenFold(a, seeds)
<1>0. Cardinality(DOMAIN a) = n
  BY IntervalFinite
<1>1. m \in Nat /\ DOMAIN Sweep(n) = 1 .. m
  BY DEF Sweep
<1>2. base \in A
  OBVIOUS
<1>3. \A set \in V : Widened(a, set) \in V
  BY DEF Widened
<1>4. ASSUME NEW q \in A
      PROVE  /\ Len(q) \in 1 .. Len(q) /\ q[Len(q)] \in V /\ Len(q) \in Nat
             /\ WidenStep(a, q) = Append(q, Widened(a, q[Len(q)])) /\ WidenStep(a, q) \in A
             /\ Len(WidenStep(a, q)) = Len(q) + 1
             /\ WidenStep(a, q)[Len(q) + 1] = Widened(a, q[Len(q)])
             /\ \A k \in 1 .. Len(q) : WidenStep(a, q)[k] = q[k]
  <2>1. q \in Seq(V) /\ Len(q) >= 1 /\ Len(q) \in Nat
    OBVIOUS
  <2> HIDE DEF V
  <2>2. q[Len(q)] \in V
    BY <2>1
  <2>3. WidenStep(a, q) = Append(q, Widened(a, q[Len(q)]))
    BY DEF WidenStep, Widened, Last
  <2>4. Widened(a, q[Len(q)]) \in V
    BY <1>3, <2>2
  <2> QED
    BY <2>1, <2>2, <2>3, <2>4
<1> HIDE DEF V, base, m
<1>5. \A k \in 1 .. m : \A q \in A : step[<<k, q>>] = WidenStep(a, q)
  OBVIOUS
<1> HIDE DEF step
<1>6. StepsIn(m, A, step)
  BY <1>4, <1>5 DEF StepsIn
<1>7. PICK h : Made(m, A, base, step, h)
  <2> HIDE DEF A
  <2> QED
    BY <1>1, <1>2, <1>6, FoldMade
<1> HIDE DEF A
<1>8. h = WidenSteps(a, seeds, h)
  <2>1. \A s \in SUBSET (1 .. m) : h[s] = IF s = {} THEN base ELSE WidenStep(a, h[s \ {Latest(s)}])
    BY <1>5, <1>7 DEF Made
  <2>2. h = [s \in SUBSET (1 .. m) |-> IF s = {} THEN base ELSE WidenStep(a, h[s \ {Latest(s)}])]
    BY <1>7, <2>1 DEF Made
  <2> QED
    BY <1>0, <1>1, <2>2 DEF WidenSteps, base
<1>9. F = WidenSteps(a, seeds, F)
  BY <1>8 DEF WidenFold
<1> HIDE DEF F
<1>10. \A s \in SUBSET (1 .. m) : F[s] = IF s = {} THEN base ELSE WidenStep(a, F[s \ {Latest(s)}])
  <2>1. F = [s \in SUBSET (1 .. m) |-> IF s = {} THEN base ELSE WidenStep(a, F[s \ {Latest(s)}])]
    BY <1>0, <1>1, <1>9 DEF WidenSteps, base
  <2> QED
    BY <2>1
<1>11. Unfolds(m, A, base, step, F)
  <2>1. F[{}] = base
    BY <1>10
  <2>2. \A s \in SUBSET (1 .. m) :
           s # {} /\ F[s \ {Latest(s)}] \in A => F[s] = step[<<Latest(s), F[s \ {Latest(s)}]>>]
    BY <1>1, <1>5, <1>10, LatestFacts
  <2>3. Folds(m, A, base, step, F)
    BY <2>1, <2>2 DEF Folds
  <2> QED
    BY <1>1, <1>2, <1>6, <2>3, FoldIs
<1> DEFINE Good(k) == /\ Len(F[1 .. k]) = k + 1
                      /\ F[1 .. k][1] = seeds
                      /\ \A j \in 1 .. k : F[1 .. k][j + 1] = Widened(a, F[1 .. k][j])
           G == {k \in 0 .. m : Good(k)}
<1>12. 0 \in G
  <2>1. F[1 .. 0] = base
    BY <1>11 DEF Unfolds
  <2>2. Len(base) = 1 /\ base[1] = seeds /\ 1 .. 0 = {} /\ 0 + 1 = 1
    BY DEF base
  <2>3. Good(0)
    BY <2>1, <2>2
  <2> QED
    BY <1>1, <2>3
<1>13. ASSUME NEW k \in 0 .. m - 1, k \in G PROVE k + 1 \in G
  <2>1. k + 1 \in 1 .. m /\ (k + 1) - 1 = k /\ k \in 0 .. m /\ k \in Nat
    BY <1>1
  <2>2. F[1 .. k] \in A /\ F[1 .. k + 1] = step[<<k + 1, F[1 .. k]>>]
    BY <1>11, <2>1 DEF Unfolds
  <2>3. F[1 .. k + 1] = WidenStep(a, F[1 .. k])
    BY <1>5, <2>1, <2>2
  <2>4. Good(k)
    BY <1>13
  <2> DEFINE q == F[1 .. k]
  <2>q. q \in A /\ Len(q) = k + 1 /\ F[1 .. k + 1] = WidenStep(a, q)
    BY <2>2, <2>3, <2>4
  <2>a. F[1 .. k] = q
    OBVIOUS
  <2> HIDE DEF q
  <2>5. /\ Len(F[1 .. k + 1]) = k + 1 + 1
        /\ F[1 .. k + 1][k + 2] = Widened(a, q[k + 1])
        /\ \A j \in 1 .. k + 1 : F[1 .. k + 1][j] = q[j]
    <3>1. /\ Len(WidenStep(a, q)) = Len(q) + 1
          /\ WidenStep(a, q)[Len(q) + 1] = Widened(a, q[Len(q)])
          /\ \A j \in 1 .. Len(q) : WidenStep(a, q)[j] = q[j]
      BY <1>4, <2>q
    <3>2. k + 2 = k + 1 + 1
      BY <2>1
    <3> QED
      BY ONLY <2>q, <3>1, <3>2
  <2>4a. q[1] = seeds /\ \A j \in 1 .. k : q[j + 1] = Widened(a, q[j])
    BY <2>4, <2>a
  <2> HIDE DEF F
  <2>6. Good(k + 1)
    <3>1. 1 \in 1 .. k + 1
      BY <2>1
    <3>2. ASSUME NEW j \in 1 .. k + 1
          PROVE  F[1 .. k + 1][j + 1] = Widened(a, F[1 .. k + 1][j])
      <4>1. CASE j = k + 1
        BY <2>1, <2>5, <4>1
      <4>2. CASE j # k + 1
        <5>1. j \in 1 .. k /\ j + 1 \in 1 .. k + 1
          BY <2>1, <4>2
        <5> QED
          BY <2>4a, <2>5, <5>1
      <4> QED
        BY <4>1, <4>2
    <3> QED
      BY <2>4a, <2>5, <3>1, <3>2
  <2> QED
    BY <2>1, <2>6
<1>14. m \in G
  <2>1. \A k \in 0 .. m : k \in G
    <3> HIDE DEF G
    <3> QED
      BY <1>1, <1>12, <1>13, ByNumbers
  <2> QED
    BY <1>1, <2>1
<1>15. Balls(a, seeds) = F[1 .. m] /\ F[1 .. m] \in A
  <2>1. m \in 0 .. m
    BY <1>1
  <2> QED
    BY <1>0, <1>1, <1>11, <2>1 DEF Balls, F, Unfolds
<1>16. m + 1 = n
  BY DEF m
<1> HIDE DEF m
<1> DEFINE w == F[1 .. m]
<1>17. Len(w) = n /\ w[1] = seeds /\ \A j \in 1 .. m : w[j + 1] = Widened(a, w[j])
  BY <1>14, <1>16
<1>18. w \in Seq(V)
  BY <1>15 DEF A
<1> HIDE DEF w
<1>19. DOMAIN w = 1 .. n /\ \A k \in 1 .. n : w[k] \in V
  BY <1>17, <1>18
<1>20. n - 1 = m
  BY <1>16, <1>1
<1> QED
  BY <1>15, <1>17, <1>19, <1>20 DEF AreBalls, V, w

(* Balls grow, *)
LEMMA BallsNest ==
  ASSUME NEW n \in Nat, n >= 1, NEW a \in [0 .. n - 1 -> SUBSET (0 .. n - 1)],
         NEW seeds \in SUBSET (0 .. n - 1), NEW w, AreBalls(n, a, seeds, w),
         NEW j \in 1 .. n, NEW k \in 1 .. n, j <= k
  PROVE  w[j] \subseteq w[k]
<1> DEFINE G == {d \in 0 .. n : j + d <= n => w[j] \subseteq w[j + d]}
<1>1. 0 \in G
  OBVIOUS
<1>2. ASSUME NEW d \in 0 .. n - 1, d \in G PROVE d + 1 \in G
  <2>1. SUFFICES ASSUME j + (d + 1) <= n PROVE w[j] \subseteq w[j + (d + 1)]
    OBVIOUS
  <2>2. w[j] \subseteq w[j + d] /\ j + d \in 1 .. n - 1 /\ j + (d + 1) = (j + d) + 1
    BY <1>2, <2>1
  <2>3. w[(j + d) + 1] = Widened(a, w[j + d])
    BY <2>2 DEF AreBalls
  <2> QED
    BY <2>2, <2>3 DEF Widened
<1> HIDE DEF G
<1>3. \A d \in 0 .. n : d \in G
  BY <1>1, <1>2, ByNumbers
<1>4. k - j \in G /\ j + (k - j) = k
  BY <1>3
<1> QED
  BY <1>4 DEF G

(* what holds the seeds and all it leads to holds the n-th, *)
LEMMA BallsInside ==
  ASSUME NEW n \in Nat, n >= 1, NEW a \in [0 .. n - 1 -> SUBSET (0 .. n - 1)],
         NEW seeds \in SUBSET (0 .. n - 1), NEW w, AreBalls(n, a, seeds, w),
         NEW T, seeds \subseteq T, \A i \in T : a[i] \subseteq T
  PROVE  w[n] \subseteq T
<1> DEFINE G == {d \in 0 .. n : 1 + d <= n => w[1 + d] \subseteq T}
<1>1. 0 \in G
  BY DEF AreBalls
<1>2. ASSUME NEW d \in 0 .. n - 1, d \in G PROVE d + 1 \in G
  <2>1. SUFFICES ASSUME 1 + (d + 1) <= n PROVE w[1 + (d + 1)] \subseteq T
    OBVIOUS
  <2>2. w[1 + d] \subseteq T /\ 1 + d \in 1 .. n - 1 /\ 1 + (d + 1) = (1 + d) + 1
    BY <1>2, <2>1
  <2>3. w[(1 + d) + 1] = Widened(a, w[1 + d])
    BY <2>2 DEF AreBalls
  <2>4. Widened(a, w[1 + d]) \subseteq T
    BY <2>2, Zenon DEF Widened
  <2> QED
    BY <2>2, <2>3, <2>4
<1> HIDE DEF G
<1>3. \A d \in 0 .. n : d \in G
  BY <1>1, <1>2, ByNumbers
<1>4. n - 1 \in G /\ 1 + (n - 1) = n
  BY <1>3
<1> QED
  BY <1>4 DEF G

(* which leads nowhere else: a ball that grows gets another node.   *)
LEMMA BallsStop ==
  ASSUME NEW n \in Nat, n >= 1, NEW a \in [0 .. n - 1 -> SUBSET (0 .. n - 1)],
         NEW seeds \in SUBSET (0 .. n - 1), seeds # {}, NEW w, AreBalls(n, a, seeds, w)
  PROVE  Widened(a, w[n]) = w[n]
<1> DEFINE V == 0 .. n - 1
           G == {d \in 0 .. n - 1 : Cardinality(w[1 + d]) >= 1 + d \/ Widened(a, w[1 + d]) = w[1 + d]}
<1>1. IsFiniteSet(V) /\ Cardinality(V) = n
  BY IntervalFinite
<1>2. \A k \in 1 .. n : w[k] \subseteq V /\ IsFiniteSet(w[k]) /\ Cardinality(w[k]) \in Nat
  BY <1>1, FS_Subset, FS_CardinalityType DEF AreBalls
<1>3. 0 \in G
  <2>1. w[1] = seeds
    BY DEF AreBalls
  <2>2. Cardinality(seeds) # 0
    BY <1>2, <2>1, FS_EmptySet
  <2>3. Cardinality(w[1]) >= 1
    BY <1>2, <2>1, <2>2
  <2> QED
    BY <2>3
<1>4. ASSUME NEW d \in 0 .. (n - 1) - 1, d \in G PROVE d + 1 \in G
  <2>1. 1 + d \in 1 .. n - 1 /\ 1 + (d + 1) = (1 + d) + 1 /\ 1 + d \in 1 .. n /\ (1 + d) + 1 \in 1 .. n
        /\ d + 1 \in 0 .. n - 1
    OBVIOUS
  <2>2. w[(1 + d) + 1] = Widened(a, w[1 + d])
    BY <2>1 DEF AreBalls
  <2>3. CASE Widened(a, w[1 + d]) = w[1 + d]
    BY <2>1, <2>2, <2>3
  <2>4. CASE Widened(a, w[1 + d]) # w[1 + d]
    <3>1. Cardinality(w[1 + d]) >= 1 + d
      BY <1>4, <2>4
    <3>2. w[1 + d] \subseteq w[(1 + d) + 1]
      BY <2>2 DEF Widened
    <3>3. Cardinality(w[1 + d]) < Cardinality(w[(1 + d) + 1])
      BY <1>2, <2>1, <2>2, <2>4, <3>2, FS_Subset
    <3>4. Cardinality(w[(1 + d) + 1]) >= (1 + d) + 1
      BY <1>2, <2>1, <3>1, <3>3
    <3> QED
      BY <2>1, <3>4
  <2> QED
    BY <2>3, <2>4
<1>5. n - 1 \in Nat /\ n - 1 \in 0 .. n - 1 /\ 1 + (n - 1) = n /\ n \in 1 .. n
  OBVIOUS
<1> HIDE DEF G
<1>6. n - 1 \in G
  BY <1>3, <1>4, <1>5, ByNumbers
<1>7. CASE Cardinality(w[n]) >= n
  <2>1. w[n] = V
    <3>1. w[n] \subseteq V /\ Cardinality(w[n]) <= n
      BY <1>1, <1>2, <1>5, FS_Subset
    <3> QED
      BY <1>1, <1>2, <1>5, <1>7, <3>1, FS_Subset
  <2> QED
    BY <2>1 DEF Widened
<1> QED
  BY <1>5, <1>6, <1>7 DEF G

(* The distance of a node tells the first ball that holds it. *)
LEMMA BallDistance ==
  ASSUME NEW n \in Nat, n >= 1, NEW a \in [0 .. n - 1 -> SUBSET (0 .. n - 1)],
         NEW seeds \in SUBSET (0 .. n - 1), NEW i \in 0 .. n - 1
  PROVE  /\ Distances(a, seeds)[i] \in Nat
         /\ Distances(a, seeds)[i] < n <=> i \in Balls(a, seeds)[n]
         /\ \A k \in 1 .. n : Distances(a, seeds)[i] < k <=> i \in Balls(a, seeds)[k]
<1> DEFINE w == Balls(a, seeds)
           out == Outside(w, n, i)
<1>1. AreBalls(n, a, seeds, w)
  BY BallsAre
<1>2. Distances(a, seeds)[i] = Cardinality(out)
  BY DistancesCounted, IntervalFinite DEF Counted
<1> HIDE DEF w
<1>3. out \subseteq 1 .. n /\ IsFiniteSet(1 .. n) /\ n \in 1 .. n
  BY IntervalFinite DEF Outside
<1>4. IsFiniteSet(out) /\ Cardinality(out) \in Nat
  BY <1>3, FS_Subset, FS_CardinalityType
<1>5. ASSUME NEW k \in 1 .. n PROVE Cardinality(out) < k <=> i \in w[k]
  <2>1. CASE i \in w[k]
    <3>1. out \subseteq 1 .. k - 1
      <4> SUFFICES ASSUME NEW j \in out PROVE j \in 1 .. k - 1
        OBVIOUS
      <4>1. j \in 1 .. n /\ i \notin w[j]
        BY DEF Outside
      <4>2. ~(k <= j)
        BY <1>1, <2>1, <4>1, BallsNest
      <4> QED
        BY <4>1, <4>2
    <3>2. k - 1 \in Nat
      OBVIOUS
    <3>3. IsFiniteSet(1 .. k - 1) /\ Cardinality(1 .. k - 1) = k - 1
      BY <3>2, IntervalFinite
    <3>4. Cardinality(out) <= k - 1
      BY <3>1, <3>3, FS_Subset
    <3> QED
      BY <1>4, <2>1, <3>4
  <2>2. CASE i \notin w[k]
    <3>1. 1 .. k \subseteq out
      <4> SUFFICES ASSUME NEW j \in 1 .. k PROVE j \in out
        OBVIOUS
      <4>1. j \in 1 .. n /\ j <= k
        OBVIOUS
      <4>2. w[j] \subseteq w[k]
        BY <1>1, <4>1, BallsNest
      <4> QED
        BY <2>2, <4>1, <4>2 DEF Outside
    <3>3. IsFiniteSet(1 .. k) /\ Cardinality(1 .. k) = k
      BY IntervalFinite
    <3>4. k <= Cardinality(out)
      BY <1>4, <3>1, <3>3, FS_Subset
    <3> QED
      BY <1>4, <2>2, <3>4
  <2> QED
    BY <2>1, <2>2
<1> QED
  BY <1>2, <1>3, <1>4, <1>5 DEF w

-----------------------------------------------------------------------------
(* Components. What a system is.                                           *)
Limit == Option.max_local_region_size
N == system.matrix.n

LEMMA SystemFacts ==
  ASSUME system \in Systems
  PROVE  /\ N \in Nat /\ Rows = 0 .. N - 1 /\ IsFiniteSet(Rows) /\ Cardinality(Rows) = N
         /\ Neighbours \in [Rows -> SUBSET Rows]
         /\ \A i, j \in Rows : j \in Neighbours[i] => i \in Neighbours[j] /\ i # j
         /\ Risk \subseteq Rows /\ Seeds \subseteq Rows
         /\ Limit \in Nat \ {0} /\ Option.max_local_regions \in Nat \ {0}
         /\ Option.overlap_layers \in Nat /\ Option.max_local_factor_bytes \in Nat \ {0}
<1>1. IsPattern(system.matrix)
  BY RegionAssumption
<1>2. N \in Nat /\ Rows = 0 .. N - 1
  BY <1>1 DEF IsPattern, N, Rows, Nodes
<1>3. IsFiniteSet(Rows) /\ Cardinality(Rows) = N
  BY <1>2, IntervalFinite
<1>4. system.matrix.cols \in [Rows -> SUBSET Rows]
  BY <1>1 DEF IsPattern, Rows
<1>5. Neighbours = [i \in Rows |-> (Row(system.matrix, i) \cup Column(system.matrix, i)) \ {i}]
  BY DEF Neighbours, UndirectedAdjacency, Rows
<1>6. \A i \in Rows : Row(system.matrix, i) = system.matrix.cols[i]
                      /\ Column(system.matrix, i) = {k \in Rows : i \in system.matrix.cols[k]}
  BY DEF Row, Column, Rows
<1>7. Neighbours \in [Rows -> SUBSET Rows]
  <2>1. \A i \in Rows : (Row(system.matrix, i) \cup Column(system.matrix, i)) \ {i} \in SUBSET Rows
    BY <1>4, <1>6
  <2> QED
    BY <1>5, <2>1
<1>8. \A i, j \in Rows : j \in Neighbours[i] => i \in Neighbours[j] /\ i # j
  BY <1>4, <1>5, <1>6
<1>9. Risk \subseteq Rows /\ Seeds \subseteq Rows
  BY DEF Risk, Seeds
<1>10. /\ Limit \in Nat \ {0} /\ Option.max_local_regions \in Nat \ {0}
       /\ Option.overlap_layers \in Nat /\ Option.max_local_factor_bytes \in Nat \ {0}
  BY RegionAssumption DEF Limit, Option
<1> QED
  BY <1>2, <1>3, <1>7, <1>8, <1>9, <1>10

(* Sets that whoever moves between neighbours inside set does not leave,   *)
(* and sets that are in one piece.                                         *)
Stays(T, set) == \A i \in T : Neighbours[i] \cap set \subseteq T
InOnePiece(core) == core # {} /\ \A T \in SUBSET core : T # {} /\ Stays(T, core) => T = core

(* A component is the least set around its row that is not left. *)
Inside(set) == [i \in Rows |-> IF i \in set THEN Neighbours[i] \cap set ELSE {}]
LEMMA ComponentLeast ==
  ASSUME system \in Systems, NEW set \in SUBSET Rows, NEW row \in set
  PROVE  /\ row \in Component(set, row) /\ Component(set, row) \subseteq set
         /\ Stays(Component(set, row), set)
         /\ \A T \in SUBSET set : row \in T /\ Stays(T, set) => Component(set, row) \subseteq T
<1> DEFINE C == Component(set, row)
           a == Inside(set)
           w == Balls(a, {row})
<1>1. N \in Nat /\ Rows = 0 .. N - 1 /\ Neighbours \in [Rows -> SUBSET Rows]
  BY SystemFacts
<1>2. N >= 1 /\ row \in Rows /\ {row} \in SUBSET (0 .. N - 1) /\ {row} # {} /\ N \in 1 .. N /\ 1 \in 1 .. N
  BY <1>1
<1>3. a \in [0 .. N - 1 -> SUBSET (0 .. N - 1)] /\ \A i \in set : a[i] = Neighbours[i] \cap set
  BY <1>1 DEF Inside
<1>4. C = {i \in set : Distances(a, {row})[i] < N}
  BY Zenon DEF Component, Inside, N
<1> HIDE DEF a
<1>5. AreBalls(N, a, {row}, w)
  BY <1>1, <1>2, <1>3, BallsAre
<1>6. C = {i \in set : i \in w[N]}
  BY <1>1, <1>2, <1>3, <1>4, BallDistance
<1> HIDE DEF w, C
<1>7. Widened(a, w[N]) = w[N]
  BY <1>1, <1>2, <1>3, <1>5, BallsStop
<1>8. row \in w[N]
  <2>1. w[1] \subseteq w[N] /\ w[1] = {row}
    BY <1>1, <1>2, <1>3, <1>5, BallsNest DEF AreBalls
  <2> QED
    BY <2>1
<1>9. ASSUME NEW T \in SUBSET set, row \in T, Stays(T, set) PROVE w[N] \subseteq T
  <2>1. \A i \in T : a[i] \subseteq T
    BY <1>3, <1>9 DEF Stays
  <2>2. {row} \subseteq T
    BY <1>9
  <2>3. a \in [0 .. N - 1 -> SUBSET (0 .. N - 1)]
    BY <1>3
  <2>4. N \in Nat /\ N >= 1 /\ {row} \in SUBSET (0 .. N - 1)
    BY <1>1, <1>2
  <2> HIDE DEF N, Limit
  <2> QED
    BY ONLY <1>5, <2>1, <2>2, <2>3, <2>4, BallsInside
<1>10. Stays(C, set)
  <2> SUFFICES ASSUME NEW i \in C, NEW j \in Neighbours[i] \cap set PROVE j \in C
    BY DEF Stays
  <2>1. i \in set /\ i \in w[N] /\ j \in a[i]
    BY <1>3, <1>6
  <2>2. j \in Widened(a, w[N])
    BY <2>1, Zenon DEF Widened
  <2> QED
    BY <1>6, <1>7, <2>2
<1> QED
  BY <1>6, <1>8, <1>9, <1>10 DEF C

(* The rows of a component have the same component. *)
LEMMA ComponentSame ==
  ASSUME system \in Systems, NEW set \in SUBSET Rows, NEW row \in set, NEW i \in Component(set, row)
  PROVE  Component(set, i) = Component(set, row)
<1> DEFINE C(x) == Component(set, x)
<1>1. i \in set
  BY ComponentLeast
<1>2. C(i) \subseteq C(row)
  BY <1>1, ComponentLeast
<1>3. Stays(set \ C(i), set)
  <2> SUFFICES ASSUME NEW j \in set \ C(i), NEW k \in Neighbours[j] \cap set PROVE k \notin C(i)
    BY DEF Stays
  <2>1. j \in Neighbours[k] \cap set /\ k \in Rows
    BY SystemFacts
  <2> QED
    BY <1>1, <2>1, ComponentLeast DEF Stays
<1>4. row \in C(i)
  <2>1. ASSUME row \notin C(i) PROVE FALSE
    <3>1. C(row) \subseteq set \ C(i)
      BY <1>3, <2>1, ComponentLeast
    <3> QED
      BY <1>1, <3>1, ComponentLeast
  <2> QED
    BY <2>1
<1>5. C(row) \subseteq C(i)
  BY <1>1, <1>4, ComponentLeast
<1> QED
  BY <1>2, <1>5

(* A set in one piece is a component of itself, *)
LEMMA PieceIsComponent ==
  ASSUME system \in Systems, NEW core \in SUBSET Rows, InOnePiece(core), NEW row \in core
  PROVE  Component(core, row) = core
BY ComponentLeast DEF InOnePiece

LEMMA RowIsPiece ==
  ASSUME NEW row
  PROVE  InOnePiece({row})
BY DEF InOnePiece

(* and remains in one piece with a neighbour. *)
LEMMA PieceGrows ==
  ASSUME system \in Systems, NEW core \in SUBSET Rows, InOnePiece(core), NEW r \in core,
         NEW q \in Neighbours[r]
  PROVE  InOnePiece(core \cup {q})
<1>1. q \in Rows /\ r \in Neighbours[q]
  BY SystemFacts
<1> SUFFICES ASSUME NEW T \in SUBSET (core \cup {q}), T # {}, Stays(T, core \cup {q})
             PROVE  T = core \cup {q}
  BY DEF InOnePiece
<1>2. CASE T \cap core # {}
  <2>1. Stays(T \cap core, core)
    BY DEF Stays
  <2>2. T \cap core = core
    BY <1>2, <2>1 DEF InOnePiece
  <2>3. q \in T
    BY <2>2 DEF Stays
  <2> QED
    BY <2>2, <2>3
<1>3. CASE T \cap core = {}
  <2>1. q \in T
    BY <1>3
  <2>2. r \in T
    BY <1>1, <2>1 DEF Stays
  <2> QED
    BY <1>3, <2>2
<1> QED
  BY <1>2, <1>3

-----------------------------------------------------------------------------
(* By residual and by peak.                                                *)
LEMMA LeastIs ==
  ASSUME NEW S \in SUBSET Nat, S # {}
  PROVE  Least(S) \in S /\ \A x \in S : Least(S) <= x
<1>1. \E m \in S : \A x \in S : m <= x
  BY LeastNat
<1> QED
  BY <1>1 DEF Least, Min

LEMMA LesserOfTwo ==
  ASSUME NEW a \in Nat, NEW b \in Nat
  PROVE  Min({a, b}) = IF a <= b THEN a ELSE b
<1>1. Least({a, b}) \in {a, b} /\ \A x \in {a, b} : Least({a, b}) <= x
  BY LeastIs
<1>2. Least({a, b}) = Min({a, b})
  BY DEF Least
<1> HIDE DEF Least
<1> QED
  BY <1>1, <1>2

LEMMA FirstOfPair ==
  ASSUME NEW a1 \in Int, NEW a2 \in Int, NEW b1 \in Int, NEW b2 \in Int
  PROVE  Exceeds(<<a1, a2>>, <<b1, b2>>) <=> (a1 > b1 \/ (a1 = b1 /\ a2 > b2))
<1> DEFINE a == <<a1, a2>>
           b == <<b1, b2>>
           Differs(k) == a[k] > b[k] /\ \A j \in 1 .. k - 1 : a[j] = b[j]
<1>1. DOMAIN a = {1, 2} /\ 1 .. 1 - 1 = {} /\ 1 .. 2 - 1 = {1}
  OBVIOUS
<1>2. Exceeds(a, b) <=> (Differs(1) \/ Differs(2))
  <2>1. Exceeds(a, b) <=> \E k \in DOMAIN a : Differs(k)
    BY DEF Exceeds
  <2> HIDE DEF Differs, a
  <2> QED
    BY <1>1, <2>1
<1>3. Differs(1) <=> a1 > b1
  BY <1>1
<1>4. Differs(2) <=> a1 = b1 /\ a2 > b2
  BY <1>1
<1> HIDE DEF Differs
<1> QED
  BY <1>2, <1>3, <1>4

(* What a list of a set holds. *)
LEMMA ListedSet ==
  ASSUME NEW S, NEW seq, Lists(seq, S)
  PROVE  ToSet(seq) = S
<1>1. seq \in Seq(S) /\ \A x \in S : \E k \in 1 .. Len(seq) : seq[k] = x
  BY DEF Lists
<1>2. ToSet(seq) \subseteq S /\ \A k \in 1 .. Len(seq) : seq[k] \in ToSet(seq)
  BY <1>1, SetOf
<1> QED
  BY <1>1, <1>2

(* The head of a list in descending order holds nothing that is less than  *)
(* what it leaves out.                                                     *)
Descending(seq, value) == \A j, k \in 1 .. Len(seq) : j < k => value[seq[j]] >= value[seq[k]]
LEMMA HeadKept ==
  ASSUME NEW S, IsFiniteSet(S), NEW seq, Lists(seq, S), NEW value, Descending(seq, value),
         \A x \in S : value[x] \in Nat, NEW m \in 0 .. Len(seq)
  PROVE  LET head == SubSeq(seq, 1, m)
         IN  /\ head \in Seq(S) /\ Distinct(head) /\ Len(head) = m
             /\ ToSet(head) \subseteq S /\ Cardinality(ToSet(head)) = m
             /\ \A k \in 1 .. m : head[k] = seq[k]
             /\ \A kept \in ToSet(head), lost \in S \ ToSet(head) : value[kept] >= value[lost]
<1> DEFINE head == SubSeq(seq, 1, m)
<1>1. seq \in Seq(S) /\ Distinct(seq) /\ Len(seq) \in Nat
      /\ \A x \in S : \E k \in 1 .. Len(seq) : seq[k] = x
  BY DEF Lists, Distinct
<1>2. head \in Seq(S) /\ Len(head) = m /\ Distinct(head)
  BY <1>1, PrefixOf
<1>3. \A k \in 1 .. m : head[k] = seq[k]
  BY <1>1
<1> HIDE DEF head
<1>4. ToSet(head) \subseteq S /\ Cardinality(ToSet(head)) = m
  BY <1>2, SetOf, DistinctCount
<1>5. ASSUME NEW kept \in ToSet(head), NEW lost \in S \ ToSet(head)
      PROVE  value[kept] >= value[lost]
  <2>1. PICK j \in 1 .. m : head[j] = kept
    BY <1>2, SetOf
  <2>2. PICK k \in 1 .. Len(seq) : seq[k] = lost
    BY <1>1
  <2>3. ~(k <= m)
    <3>1. ASSUME k <= m PROVE FALSE
      <4>1. k \in 1 .. m /\ head[k] = lost
        BY <1>1, <1>3, <2>2, <3>1
      <4>2. head[k] \in ToSet(head)
        BY <1>2, <4>1, SetOf
      <4> QED
        BY <1>5, <4>1, <4>2
    <3> QED
      BY <3>1
  <2>4. seq[j] = kept
    BY <1>3, <2>1
  <2>5. j \in 1 .. Len(seq) /\ j < k
    BY <1>1, <2>3
  <2> QED
    BY <2>2, <2>4, <2>5 DEF Descending
<1> QED
  BY <1>2, <1>3, <1>4, <1>5 DEF head

(* Rows by residual. *)
RowKey(set) == [i \in set |-> <<residual[i], -i>>]
LEMMA RowsKeyed ==
  ASSUME system \in Systems, residual \in [Rows -> Nat], NEW set \in SUBSET Rows
  PROVE  IsFiniteSet(set) /\ IsKey(RowKey(set), set, 2)
<1>1. Rows \subseteq Nat /\ IsFiniteSet(Rows)
  BY SystemFacts
<1>2. IsFiniteSet(set)
  BY <1>1, FS_Subset
<1>3. ASSUME NEW i \in set PROVE RowKey(set)[i] = <<residual[i], -i>> /\ RowKey(set)[i] \in [1 .. 2 -> Int]
  <2>1. residual[i] \in Int /\ -i \in Int
    BY <1>1
  <2> QED
    BY <2>1 DEF RowKey
<1>4. ASSUME NEW i \in set, NEW j \in set, i # j PROVE RowKey(set)[i] # RowKey(set)[j]
  <2>1. i \in Nat /\ j \in Nat
    BY <1>1
  <2>2. -i # -j
    BY <1>4, <2>1
  <2> QED
    BY <1>3, <2>2
<1> QED
  BY <1>2, <1>3, <1>4 DEF IsKey

LEMMA StrongestFirst ==
  ASSUME system \in Systems, residual \in [Rows -> Nat], NEW set \in SUBSET Rows
  PROVE  Lists(Strongest(set), set) /\ Descending(Strongest(set), residual)
<1> DEFINE key == RowKey(set)
<1>1. IsFiniteSet(set) /\ IsKey(key, set, 2)
  BY RowsKeyed
<1>2. \A i \in set : key[i] = <<residual[i], -i>>
  BY DEF RowKey
<1>3. Strongest(set) = SortedBy(key, set)
  <2>1. ASSUME NEW x \in set
        PROVE  {y \in set : Exceeds(<<residual[y], -y>>, <<residual[x], -x>>)} = Ahead(key, set, x)
    BY <1>2 DEF Ahead
  <2>2. Strongest(set) = [k \in 1 .. Cardinality(set) |->
          CHOOSE x \in set : Cardinality({y \in set : Exceeds(<<residual[y], -y>>, <<residual[x], -x>>)}) = k - 1]
    BY Zenon DEF Strongest, Sorted
  <2> HIDE DEF key
  <2>3. ASSUME NEW k \in 1 .. Cardinality(set)
        PROVE  (CHOOSE x \in set : Cardinality({y \in set : Exceeds(<<residual[y], -y>>, <<residual[x], -x>>)}) = k - 1)
                 = (CHOOSE x \in set : Cardinality(Ahead(key, set, x)) = k - 1)
    BY <2>1, Zenon
  <2> QED
    BY <2>2, <2>3, Zenon DEF SortedBy
<1>4. /\ Lists(SortedBy(key, set), set)
      /\ \A j, k \in 1 .. Cardinality(set) :
            j < k => Exceeds(key[SortedBy(key, set)[j]], key[SortedBy(key, set)[k]])
  <2> HIDE DEF key
  <2>1. 2 \in Nat
    OBVIOUS
  <2> QED
    BY <1>1, <2>1, SortedLists
<1> HIDE DEF key
<1> DEFINE s == Strongest(set)
<1>5. ASSUME NEW j \in 1 .. Len(s), NEW k \in 1 .. Len(s), j < k PROVE residual[s[j]] >= residual[s[k]]
  <2>1. Len(s) = Cardinality(set) /\ s \in Seq(set)
    BY <1>3, <1>4 DEF Lists
  <2>2. Exceeds(key[s[j]], key[s[k]])
    BY <1>3, <1>4, <1>5, <2>1
  <2>3. s[j] \in set /\ s[k] \in set
    BY <2>1
  <2>4. residual[s[j]] \in Int /\ residual[s[k]] \in Int /\ -s[j] \in Int /\ -s[k] \in Int
    BY <2>3, SystemFacts
  <2>5. Exceeds(<<residual[s[j]], -s[j]>>, <<residual[s[k]], -s[k]>>)
    BY <1>2, <2>2, <2>3
  <2> HIDE DEF s
  <2> QED
    BY <2>4, <2>5, FirstOfPair
<1> QED
  BY <1>3, <1>4, <1>5 DEF Descending

LEMMA PeakIs ==
  ASSUME system \in Systems, residual \in [Rows -> Nat], NEW set \in SUBSET Rows, set # {}
  PROVE  Peak(set) \in Nat /\ \A i \in set : residual[i] <= Peak(set)
<1> DEFINE values == {residual[i] : i \in set}
<1>1. PICK top \in set : \A i \in set : residual[i] <= residual[top]
  <2>1. Lists(Strongest(set), set) /\ Descending(Strongest(set), residual)
    BY StrongestFirst
  <2> DEFINE s == Strongest(set)
  <2>2. s \in Seq(set) /\ Len(s) \in Nat /\ \A x \in set : \E k \in 1 .. Len(s) : s[k] = x
    BY <2>1 DEF Lists
  <2> HIDE DEF s
  <2>a. \A i \in set : residual[i] \in Nat
    OBVIOUS
  <2>b. \A k \in 1 .. Len(s) : s[k] \in set
    BY ONLY <2>2
  <2>3. \A k \in 1 .. Len(s) : s[k] \in set /\ residual[s[k]] \in Nat
    BY ONLY <2>a, <2>b
  <2>4. PICK k \in 1 .. Len(s) : s[k] \in set
    BY <2>2, <2>3
  <2>5. 1 \in 1 .. Len(s)
    BY <2>2, <2>4
  <2>6. \A i \in set : residual[i] <= residual[s[1]]
    <3> SUFFICES ASSUME NEW i \in set PROVE residual[i] <= residual[s[1]]
      OBVIOUS
    <3>1. PICK j \in 1 .. Len(s) : s[j] = i
      BY <2>2
    <3>2. CASE j = 1
      BY <2>3, <2>5, <3>1, <3>2
    <3>3. CASE j # 1
      <4>1. 1 < j
        BY <2>2, <3>3
      <4>2. residual[s[1]] >= residual[s[j]]
        BY <2>1, <2>5, <4>1 DEF Descending, s
      <4> QED
        BY <2>3, <2>5, <3>1, <4>2
    <3> QED
      BY <3>2, <3>3
  <2> QED
    BY <2>3, <2>5, <2>6
<1>2. values \in SUBSET Int /\ values # {} /\ residual[top] \in Int /\ \A x \in values : x <= residual[top]
  BY <1>1
<1>3. Max(values) \in values /\ \A x \in values : x <= Max(values)
  <2> HIDE DEF values
  <2> QED
    BY <1>2, MaxFacts
<1>4. Peak(set) = Max(values)
  BY DEF Peak
<1>5. values \subseteq Nat
  OBVIOUS
<1> QED
  BY <1>3, <1>4, <1>5

-----------------------------------------------------------------------------
(* Sets of rows by peak; whichever are apart have different first rows.    *)
Piecewise(sets) ==
  /\ \A a \in sets : a \in SUBSET Rows /\ a # {}
  /\ \A a, b \in sets : a # b => a \cap b = {}
SetKey(sets) == [a \in sets |-> <<Peak(a), -Least(a)>>]
Peaks(sets) == [a \in sets |-> Peak(a)]

LEMMA SetsKeyed ==
  ASSUME system \in Systems, residual \in [Rows -> Nat], NEW sets, Piecewise(sets)
  PROVE  /\ \A a \in sets : Peak(a) \in Nat /\ Least(a) \in a /\ Least(a) \in Nat /\ -Least(a) \in Int
         /\ IsKey(SetKey(sets), sets, 2)
<1>1. Rows \subseteq Nat
  BY SystemFacts
<1>2. ASSUME NEW a \in sets
      PROVE  Peak(a) \in Nat /\ Least(a) \in a /\ Least(a) \in Nat /\ -Least(a) \in Int
  <2>1. a \in SUBSET Rows /\ a # {} /\ a \in SUBSET Nat
    BY <1>1 DEF Piecewise
  <2>2. Peak(a) \in Nat
    BY <2>1, PeakIs
  <2>3. Least(a) \in a
    BY <2>1, LeastIs
  <2>4. Least(a) \in Nat
    BY ONLY <2>1, <2>3
  <2>5. -Least(a) \in Int
    BY ONLY <2>4
  <2> QED
    BY <2>2, <2>3, <2>4, <2>5
<1>3. ASSUME NEW a \in sets PROVE SetKey(sets)[a] = <<Peak(a), -Least(a)>> /\ SetKey(sets)[a] \in [1 .. 2 -> Int]
  <2>1. SetKey(sets)[a] = <<Peak(a), -Least(a)>>
    BY DEF SetKey
  <2>2. Peak(a) \in Int /\ -Least(a) \in Int
    BY <1>2
  <2> QED
    BY ONLY <2>1, <2>2
<1>4. ASSUME NEW a \in sets, NEW b \in sets, a # b PROVE SetKey(sets)[a] # SetKey(sets)[b]
  <2>1. a \cap b = {}
    BY <1>4 DEF Piecewise
  <2>2. Least(a) # Least(b)
    BY <1>2, <2>1
  <2>3. -Least(a) # -Least(b)
    BY <1>2, <2>2
  <2> QED
    BY <1>3, <2>3
<1> QED
  BY <1>2, <1>3, <1>4 DEF IsKey

LEMMA PeaksFirst ==
  ASSUME system \in Systems, residual \in [Rows -> Nat], NEW sets, Piecewise(sets), IsFiniteSet(sets)
  PROVE  Lists(ByPeak(sets), sets) /\ Descending(ByPeak(sets), Peaks(sets))
<1> DEFINE key == SetKey(sets)
<1>1. IsKey(key, sets, 2)
  BY SetsKeyed
<1>2. \A a \in sets : key[a] = <<Peak(a), -Least(a)>>
  BY DEF SetKey
<1>3. ByPeak(sets) = SortedBy(key, sets)
  <2>1. ASSUME NEW x \in sets
        PROVE  {y \in sets : Exceeds(<<Peak(y), -Least(y)>>, <<Peak(x), -Least(x)>>)} = Ahead(key, sets, x)
    BY <1>2 DEF Ahead
  <2>2. ByPeak(sets) = [k \in 1 .. Cardinality(sets) |->
          CHOOSE x \in sets :
            Cardinality({y \in sets : Exceeds(<<Peak(y), -Least(y)>>, <<Peak(x), -Least(x)>>)}) = k - 1]
    BY Zenon DEF ByPeak, Sorted
  <2> HIDE DEF key
  <2>3. ASSUME NEW k \in 1 .. Cardinality(sets)
        PROVE  (CHOOSE x \in sets :
                  Cardinality({y \in sets : Exceeds(<<Peak(y), -Least(y)>>, <<Peak(x), -Least(x)>>)}) = k - 1)
                 = (CHOOSE x \in sets : Cardinality(Ahead(key, sets, x)) = k - 1)
    BY <2>1, Zenon
  <2> QED
    BY <2>2, <2>3, Zenon DEF SortedBy
<1>4. /\ Lists(SortedBy(key, sets), sets)
      /\ \A j, k \in 1 .. Cardinality(sets) :
            j < k => Exceeds(key[SortedBy(key, sets)[j]], key[SortedBy(key, sets)[k]])
  <2> HIDE DEF key
  <2>1. 2 \in Nat
    OBVIOUS
  <2> QED
    BY <1>1, <2>1, SortedLists
<1> HIDE DEF key
<1> DEFINE s == ByPeak(sets)
<1>5. ASSUME NEW j \in 1 .. Len(s), NEW k \in 1 .. Len(s), j < k
      PROVE  Peaks(sets)[s[j]] >= Peaks(sets)[s[k]]
  <2>1. Len(s) = Cardinality(sets) /\ s \in Seq(sets)
    BY <1>3, <1>4 DEF Lists
  <2>2. Exceeds(key[s[j]], key[s[k]])
    BY <1>3, <1>4, <1>5, <2>1
  <2> HIDE DEF s
  <2>3. s[j] \in sets /\ s[k] \in sets
    BY <2>1
  <2>4. /\ Peak(s[j]) \in Int /\ Peak(s[k]) \in Int
        /\ -Least(s[j]) \in Int /\ -Least(s[k]) \in Int
    BY <2>3, SetsKeyed
  <2>5. Exceeds(<<Peak(s[j]), -Least(s[j])>>, <<Peak(s[k]), -Least(s[k])>>)
    BY <1>2, <2>2, <2>3
  <2>6. Peak(s[j]) >= Peak(s[k])
    BY <2>4, <2>5, FirstOfPair
  <2> QED
    BY <2>3, <2>6 DEF Peaks
<1> QED
  BY <1>3, <1>4, <1>5 DEF Descending

(* Sequences of sets that are apart from each other, and never too large.  *)
Apart(seq) ==
  /\ \A a, b \in 1 .. Len(seq) : a # b => seq[a] \cap seq[b] = {}
  /\ \A a \in 1 .. Len(seq) : Cardinality(seq[a]) \in 1 .. Limit

LEMMA ApartPieces ==
  ASSUME system \in Systems, NEW seq \in Seq(SUBSET Rows), Apart(seq)
  PROVE  /\ Piecewise(ToSet(seq)) /\ IsFiniteSet(ToSet(seq)) /\ Distinct(seq)
         /\ \A core \in ToSet(seq) : Cardinality(core) \in 1 .. Limit
<1>1. \A k \in 1 .. Len(seq) : seq[k] \in SUBSET Rows /\ seq[k] # {}
  <2>1. \A k \in 1 .. Len(seq) : Cardinality(seq[k]) # 0
    BY DEF Apart
  <2>2. \A k \in 1 .. Len(seq) : seq[k] \in SUBSET Rows
    OBVIOUS
  <2> QED
    BY <2>1, <2>2, FS_EmptySet
<1>2. Distinct(seq)
  BY <1>1 DEF Distinct, Apart
<1>3. /\ \A x \in ToSet(seq) : \E k \in 1 .. Len(seq) : seq[k] = x
      /\ IsFiniteSet(ToSet(seq))
  BY <1>2, SetOf, DistinctCount
<1>4. Piecewise(ToSet(seq))
  <2>1. \A a \in ToSet(seq) : a \in SUBSET Rows /\ a # {}
    BY <1>1, <1>3
  <2>2. ASSUME NEW a \in ToSet(seq), NEW b \in ToSet(seq), a # b PROVE a \cap b = {}
    <3>1. PICK j \in 1 .. Len(seq) : seq[j] = a
      BY <1>3
    <3>2. PICK k \in 1 .. Len(seq) : seq[k] = b
      BY <1>3
    <3> QED
      BY <2>2, <3>1, <3>2 DEF Apart
  <2> QED
    BY <2>1, <2>2 DEF Piecewise
<1> QED
  BY <1>2, <1>3, <1>4 DEF Apart

(* The ranking keeps pieces of the greatest peaks. *)
LEMMA RankedFacts ==
  ASSUME system \in Systems, residual \in [Rows -> Nat],
         candidates \in Seq(SUBSET Rows), Apart(candidates)
  PROVE  /\ Ranked \in Seq(SUBSET Rows) /\ Apart(Ranked)
         /\ ToSet(Ranked) \subseteq ToSet(candidates)
         /\ \A kept \in ToSet(Ranked), lost \in ToSet(candidates) \ ToSet(Ranked) :
               Peak(kept) >= Peak(lost)
<1> DEFINE S == ToSet(candidates)
           s == ByPeak(S)
           m == Min({Len(s), Option.max_local_regions})
<1>1. Piecewise(S) /\ IsFiniteSet(S) /\ \A core \in S : Cardinality(core) \in 1 .. Limit
  BY ApartPieces
<1>2. Lists(s, S) /\ Descending(s, Peaks(S))
  BY <1>1, PeaksFirst
<1>3. \A a \in S : Peaks(S)[a] = Peak(a) /\ Peaks(S)[a] \in Nat
  BY <1>1, SetsKeyed DEF Peaks
<1>4. Ranked = SubSeq(s, 1, m)
  BY DEF Ranked, Truncated
<1> HIDE DEF S, s
<1>5. m \in 0 .. Len(s)
  <2>1. Len(s) \in Nat
    BY <1>2 DEF Lists
  <2>2. Option.max_local_regions \in Nat
    BY SystemFacts
  <2> QED
    BY <2>1, <2>2, LesserOfTwo
<1> HIDE DEF m
<1>6. /\ Ranked \in Seq(S) /\ Distinct(Ranked) /\ Len(Ranked) = m /\ ToSet(Ranked) \subseteq S
      /\ \A kept \in ToSet(Ranked), lost \in S \ ToSet(Ranked) : Peaks(S)[kept] >= Peaks(S)[lost]
  BY <1>1, <1>2, <1>3, <1>4, <1>5, HeadKept
<1>7. \A k \in 1 .. Len(Ranked) : Ranked[k] \in S
  BY <1>6
<1>8. Apart(Ranked)
  BY <1>1, <1>6, <1>7 DEF Apart, Piecewise, Distinct
<1>9. Ranked \in Seq(SUBSET Rows)
  <2>1. S \subseteq SUBSET Rows
    BY <1>1 DEF Piecewise
  <2> QED
    BY <1>6, <2>1
<1>10. \A kept \in ToSet(Ranked), lost \in S \ ToSet(Ranked) : Peak(kept) >= Peak(lost)
  <2> SUFFICES ASSUME NEW kept \in ToSet(Ranked), NEW lost \in S \ ToSet(Ranked)
               PROVE  Peak(kept) >= Peak(lost)
    OBVIOUS
  <2>1. Peaks(S)[kept] = Peak(kept) /\ Peaks(S)[lost] = Peak(lost)
    BY <1>3, <1>6
  <2> QED
    BY <1>6, <2>1
<1> QED
  BY <1>6, <1>8, <1>9, <1>10 DEF S

(* A list of rows is cut into chunks of the limit. *)
LEMMA DivFacts ==
  ASSUME NEW a \in Nat, NEW s \in Nat \ {0}
  PROVE  a \div s \in Nat /\ (a \div s) * s <= a /\ a < (a \div s) * s + s
OBVIOUS

LEMMA SmallerProduct ==
  ASSUME NEW a \in Nat, NEW b \in Nat, NEW s \in Nat, a <= b
  PROVE  a * s <= b * s
OBVIOUS

LEMMA ChunksFacts ==
  ASSUME system \in Systems, NEW rows \in Seq(Rows), Distinct(rows)
  PROVE  /\ Chunks(rows) \in Seq(SUBSET Rows) /\ Apart(Chunks(rows))
         /\ \A i \in 1 .. Len(rows) : \E k \in 1 .. Len(Chunks(rows)) : rows[i] \in Chunks(rows)[k]
         /\ \A k \in 1 .. Len(Chunks(rows)) : Chunks(rows)[k] \subseteq ToSet(rows)
<1> DEFINE size == Limit
           len == Len(rows)
           m == (len + size - 1) \div size
           low(k) == (k - 1) * size + 1
           high(k) == Min({k * size, len})
           c == Chunks(rows)
<1>1. size \in Nat \ {0} /\ len \in Nat /\ \A i \in 1 .. len : rows[i] \in Rows
  BY SystemFacts
<1>2. c = [k \in 1 .. m |-> {rows[i] : i \in low(k) .. high(k)}]
  BY DEF Chunks, Limit
<1> HIDE DEF size, len, c
<1>3. m \in Nat /\ m * size <= len + size - 1 /\ len + size - 1 < m * size + size
  BY <1>1, DivFacts
<1> HIDE DEF m
<1>4. ASSUME NEW k \in 1 .. m
      PROVE  /\ low(k) \in 1 .. len /\ high(k) \in low(k) .. len
             /\ high(k) <= k * size /\ high(k) - low(k) + 1 <= size
             /\ k * size = (k - 1) * size + size /\ k * size \in Nat /\ (k - 1) * size \in Nat
             /\ high(k) = IF k * size <= len THEN k * size ELSE len
  <2>1. k \in Nat /\ k - 1 \in Nat /\ m \in Nat /\ k <= m
    BY <1>3
  <2>2. k * size \in Nat /\ (k - 1) * size \in Nat
    BY <1>1, <2>1
  <2>3. k * size = (k - 1) * size + size
    BY <1>1, <2>1
  <2>4. k * size <= m * size
    BY <1>1, <2>1, SmallerProduct
  <2>5. (k - 1) * size + 1 <= len
    BY <1>1, <1>3, <2>1, <2>2, <2>3, <2>4
  <2>6. high(k) = IF k * size <= len THEN k * size ELSE len
    BY <1>1, <2>2, LesserOfTwo
  <2> DEFINE p == (k - 1) * size
             q == k * size
  <2>7. p \in Nat /\ q \in Nat /\ q = p + size /\ p + 1 <= len /\ low(k) = p + 1
        /\ high(k) = IF q <= len THEN q ELSE len
    BY <2>2, <2>3, <2>5, <2>6
  <2> HIDE DEF p, q, low, high
  <2>8. /\ low(k) \in 1 .. len /\ high(k) \in low(k) .. len
        /\ high(k) <= q /\ high(k) - low(k) + 1 <= size
    BY <1>1, <2>7
  <2> QED
    BY <2>2, <2>3, <2>6, <2>8 DEF q
<1>5. ASSUME NEW k \in 1 .. m
      PROVE  /\ c[k] \in SUBSET Rows /\ Cardinality(c[k]) \in 1 .. size
             /\ \A x \in c[k] : \E i \in low(k) .. high(k) : i \in 1 .. len /\ rows[i] = x
  <2> DEFINE lo == low(k)
             hi == high(k)
             part == [i \in 1 .. hi - lo + 1 |-> rows[lo + i - 1]]
  <2>1. lo \in 1 .. len /\ hi \in lo .. len /\ hi - lo + 1 <= size
    BY <1>4
  <2>2. c[k] = {rows[i] : i \in lo .. hi}
    BY <1>2
  <2> HIDE DEF lo, hi, low, high
  <2>3. part \in Seq(Rows) /\ Len(part) = hi - lo + 1 /\ DOMAIN part = 1 .. hi - lo + 1
    <3>1. hi - lo + 1 \in Nat /\ \A i \in 1 .. hi - lo + 1 : lo + i - 1 \in 1 .. len
      BY <1>1, <2>1
    <3> QED
      BY <1>1, <3>1
  <2>4. Distinct(part)
    <3> SUFFICES ASSUME NEW i \in 1 .. Len(part), NEW j \in 1 .. Len(part), i # j
                 PROVE  part[i] # part[j]
      BY DEF Distinct
    <3>1. i \in 1 .. hi - lo + 1 /\ j \in 1 .. hi - lo + 1
      BY <2>3
    <3>2. /\ lo + i - 1 \in 1 .. len /\ lo + j - 1 \in 1 .. len
          /\ lo + i - 1 # lo + j - 1
      BY <1>1, <2>1, <3>1
    <3> QED
      BY <3>1, <3>2 DEF Distinct, len
  <2>5. c[k] = ToSet(part)
    <3>1. ToSet(part) = {part[i] : i \in 1 .. hi - lo + 1}
      BY <2>3 DEF ToSet
    <3>2. ASSUME NEW x \in c[k] PROVE x \in ToSet(part)
      <4>1. PICK i \in lo .. hi : x = rows[i]
        BY <2>2
      <4>2. i - lo + 1 \in 1 .. hi - lo + 1 /\ lo + (i - lo + 1) - 1 = i
        BY <1>1, <2>1
      <4>3. part[i - lo + 1] = x
        BY <4>1, <4>2
      <4> QED
        BY <3>1, <4>2, <4>3
    <3>3. ASSUME NEW x \in ToSet(part) PROVE x \in c[k]
      <4>1. PICK i \in 1 .. hi - lo + 1 : x = part[i]
        BY <3>1
      <4>2. lo + i - 1 \in lo .. hi /\ x = rows[lo + i - 1]
        BY <1>1, <2>1, <4>1
      <4> QED
        BY <2>2, <4>2
    <3> QED
      BY <3>2, <3>3
  <2> HIDE DEF part
  <2>6. Cardinality(c[k]) = hi - lo + 1 /\ c[k] \in SUBSET Rows
    BY <2>3, <2>4, <2>5, DistinctCount, SetOf
  <2>7. hi - lo + 1 \in 1 .. size
    BY <1>1, <2>1
  <2>8. \A i \in lo .. hi : i \in 1 .. len
    BY <1>1, <2>1
  <2> QED
    BY <2>2, <2>6, <2>7, <2>8 DEF lo, hi
<1>6. c \in Seq(SUBSET Rows) /\ Len(c) = m
  <2>1. \A k \in 1 .. m : c[k] \in SUBSET Rows
    BY <1>5
  <2>2. c = [k \in 1 .. m |-> c[k]]
    BY <1>2
  <2> QED
    BY <1>3, <2>1, <2>2
<1>7. ASSUME NEW k \in 1 .. m, NEW l \in 1 .. m, k < l PROVE c[k] \cap c[l] = {}
  <2>1. high(k) < low(l)
    <3>1. k * size <= (l - 1) * size
      <4>1. k \in Nat /\ l - 1 \in Nat /\ k <= l - 1
        BY <1>3, <1>7
      <4> QED
        BY <1>1, <4>1, SmallerProduct
    <3>2. high(k) <= k * size /\ k * size \in Nat /\ (l - 1) * size \in Nat /\ high(k) \in Int
      <4>1. high(k) \in low(k) .. len /\ low(k) \in 1 .. len /\ high(k) <= k * size /\ k * size \in Nat
            /\ (l - 1) * size \in Nat
        BY <1>4
      <4> QED
        BY <4>1
    <3> HIDE DEF high
    <3> QED
      BY <3>1, <3>2
  <2>a. /\ \A i \in low(k) .. high(k) : i <= high(k)
        /\ \A j \in low(l) .. high(l) : low(l) <= j
    OBVIOUS
  <2>b. high(k) \in Int /\ low(l) \in Int
    <3>1. high(k) \in low(k) .. len /\ low(k) \in 1 .. len /\ low(l) \in 1 .. len
      BY <1>4
    <3> HIDE DEF high, low
    <3> QED
      BY ONLY <1>1, <3>1
  <2>2. \A i \in low(k) .. high(k), j \in low(l) .. high(l) : i # j
    <3> HIDE DEF high, low
    <3> QED
      BY <2>1, <2>a, <2>b
  <2>3. ASSUME NEW x \in c[k], x \in c[l] PROVE FALSE
    <3>1. PICK i \in low(k) .. high(k) : i \in 1 .. len /\ rows[i] = x
      BY <1>5
    <3>2. PICK j \in low(l) .. high(l) : j \in 1 .. len /\ rows[j] = x
      BY <1>5, <2>3
    <3>3. i # j
      BY <2>2
    <3> QED
      BY <3>1, <3>2, <3>3 DEF Distinct, len
  <2> QED
    BY <2>3
<1>8. Apart(c)
  <2>1. ASSUME NEW k \in 1 .. m, NEW l \in 1 .. m, k # l PROVE c[k] \cap c[l] = {}
    <3>1. k < l \/ l < k
      BY <1>3, <2>1
    <3>2. CASE k < l
      BY <1>7, <3>2
    <3>3. CASE l < k
      <4>1. c[l] \cap c[k] = {}
        BY <1>7, <3>3
      <4> QED
        BY <4>1
    <3> QED
      BY <3>1, <3>2, <3>3
  <2>2. \A k \in 1 .. m : Cardinality(c[k]) \in 1 .. Limit
    BY <1>5 DEF size
  <2> QED
    BY <1>6, <2>1, <2>2 DEF Apart
<1>9. ASSUME NEW i \in 1 .. len PROVE \E k \in 1 .. m : rows[i] \in c[k]
  <2> DEFINE d == (i - 1) \div size
             k == d + 1
  <2>1. d \in Nat /\ d * size <= i - 1 /\ i - 1 < d * size + size
    BY <1>1, DivFacts
  <2> HIDE DEF d
  <2>2. k \in Nat /\ k - 1 = d /\ k * size = d * size + size /\ d * size \in Nat /\ k * size \in Nat
    BY <1>1, <2>1
  <2>3. k <= m
    <3>1. ASSUME m <= d PROVE FALSE
      <4>1. m * size <= d * size
        BY <1>1, <1>3, <2>1, <3>1, SmallerProduct
      <4>2. m * size \in Nat /\ i <= len
        BY <1>1, <1>3
      <4> QED
        BY <1>1, <1>3, <2>1, <2>2, <4>1, <4>2
    <3> QED
      BY <1>3, <2>1, <3>1
  <2>4. k \in 1 .. m
    BY <2>1, <2>2, <2>3
  <2>5. i \in low(k) .. high(k)
    <3>1. low(k) = d * size + 1 /\ high(k) = IF k * size <= len THEN k * size ELSE len
      BY <1>4, <2>2, <2>4
    <3> HIDE DEF low, high, k
    <3> QED
      BY <1>1, <2>1, <2>2, <3>1
  <2>6. c[k] = {rows[j] : j \in low(k) .. high(k)}
    BY <1>2, <2>4
  <2>7. rows[i] \in c[k]
    <3> HIDE DEF low, high, k
    <3> QED
      BY <2>5, <2>6
  <2> QED
    BY <2>4, <2>7
<1>10. ASSUME NEW k \in 1 .. m PROVE c[k] \subseteq ToSet(rows)
  <2>1. \A x \in c[k] : \E i \in 1 .. len : rows[i] = x
    BY <1>5
  <2>2. \A i \in 1 .. len : rows[i] \in ToSet(rows)
    BY SetOf DEF len
  <2> QED
    BY <2>1, <2>2
<1> QED
  BY <1>6, <1>8, <1>9, <1>10 DEF c, len

-----------------------------------------------------------------------------
(* Overlap: the layers around a core are balls.                            *)
Layers(l) == [k \in 1 .. l |-> k]
HopSteps(core, l, h) ==
  [s \in SUBSET (DOMAIN Layers(l)) |-> IF s = {} THEN core ELSE OneHop(h[s \ {Latest(s)}])]
HopFold(core, l) == CHOOSE h : h = HopSteps(core, l, h)
Grown(core, l) == HopFold(core, l)[DOMAIN Layers(l)]

LEMMA ExpandedIs ==
  ASSUME NEW core
  PROVE  LET l == Option.overlap_layers
             others == Strongest(Grown(core, l) \ core)
         IN  Expanded(core) = core \cup
               ToSet(SubSeq(others, 1, Min({Limit - Cardinality(core), Len(others)})))
  BY Zenon DEF Expanded, FoldLeft, MapThenFoldSet, Grown, HopFold, HopSteps, Layers, Latest, Limit

LEMMA GrownIs ==
  ASSUME system \in Systems, NEW core \in SUBSET Rows, NEW l \in Nat
  PROVE  \E F : /\ Grown(core, l) = F[1 .. l]
                /\ F[1 .. 0] = core
                /\ \A k \in 0 .. l : F[1 .. k] \in SUBSET Rows
                /\ \A k \in 1 .. l : F[1 .. k] = Widened(Neighbours, F[1 .. k - 1])
<1> DEFINE A == SUBSET Rows
           step == [c \in (1 .. l) \X A |-> OneHop(c[2])]
           F == HopFold(core, l)
<1>1. core \in A /\ DOMAIN Layers(l) = 1 .. l
  BY DEF Layers
<1>2. \A set : OneHop(set) = Widened(Neighbours, set)
  BY Zenon DEF OneHop, Widened
<1>3. \A set \in A : OneHop(set) \in A
  <2>1. Neighbours \in [Rows -> SUBSET Rows]
    BY SystemFacts
  <2> QED
    BY <2>1 DEF OneHop
<1>4. \A k \in 1 .. l : \A q \in A : step[<<k, q>>] = OneHop(q)
  OBVIOUS
<1> HIDE DEF step, A
<1>5. StepsIn(l, A, step)
  BY <1>3, <1>4 DEF StepsIn
<1>6. PICK h : Made(l, A, core, step, h)
  BY <1>1, <1>5, FoldMade
<1>7. h = HopSteps(core, l, h)
  <2>1. \A s \in SUBSET (1 .. l) : h[s] = IF s = {} THEN core ELSE OneHop(h[s \ {Latest(s)}])
    BY <1>4, <1>6 DEF Made
  <2>2. h = [s \in SUBSET (1 .. l) |-> IF s = {} THEN core ELSE OneHop(h[s \ {Latest(s)}])]
    BY <1>6, <2>1 DEF Made
  <2> QED
    BY <1>1, <2>2 DEF HopSteps
<1>8. F = HopSteps(core, l, F)
  BY <1>7 DEF HopFold
<1> HIDE DEF F
<1>9. \A s \in SUBSET (1 .. l) : F[s] = IF s = {} THEN core ELSE OneHop(F[s \ {Latest(s)}])
  <2>1. F = [s \in SUBSET (1 .. l) |-> IF s = {} THEN core ELSE OneHop(F[s \ {Latest(s)}])]
    BY <1>1, <1>8 DEF HopSteps
  <2> QED
    BY <2>1
<1>10. Unfolds(l, A, core, step, F)
  <2>1. F[{}] = core
    BY <1>9
  <2>2. \A s \in SUBSET (1 .. l) :
           s # {} /\ F[s \ {Latest(s)}] \in A => F[s] = step[<<Latest(s), F[s \ {Latest(s)}]>>]
    BY <1>4, <1>9, LatestFacts
  <2>3. Folds(l, A, core, step, F)
    BY <2>1, <2>2 DEF Folds
  <2> QED
    BY <1>1, <1>5, <2>3, FoldIs
<1>11. ASSUME NEW k \in 1 .. l PROVE F[1 .. k] = Widened(Neighbours, F[1 .. k - 1])
  <2>1. k - 1 \in 0 .. l
    OBVIOUS
  <2>2. F[1 .. k - 1] \in A /\ F[1 .. k] = step[<<k, F[1 .. k - 1]>>]
    BY <1>10, <2>1 DEF Unfolds
  <2> QED
    BY <1>2, <1>4, <2>2
<1>12. Grown(core, l) = F[1 .. l]
  BY <1>1 DEF Grown, F
<1> QED
  BY <1>10, <1>11, <1>12 DEF Unfolds, A

LEMMA GrownIsBall ==
  ASSUME system \in Systems, NEW core \in SUBSET Rows, core # {}, NEW l \in Nat
  PROVE  /\ N \in Nat /\ N >= 1
         /\ Grown(core, l) = Balls(Neighbours, core)[IF l + 1 <= N THEN l + 1 ELSE N]
<1> DEFINE w == Balls(Neighbours, core)
           at(k) == IF k + 1 <= N THEN k + 1 ELSE N
<1>1. N \in Nat /\ Rows = 0 .. N - 1 /\ Neighbours \in [0 .. N - 1 -> SUBSET (0 .. N - 1)]
  BY SystemFacts
<1>2. N >= 1 /\ core \in SUBSET (0 .. N - 1)
  <2>1. PICK x \in core : TRUE
    OBVIOUS
  <2>2. x \in 0 .. N - 1
    BY <1>1
  <2> QED
    BY <1>1, <2>2
<1>3. AreBalls(N, Neighbours, core, w)
  BY <1>1, <1>2, BallsAre
<1> HIDE DEF w
<1>4. Widened(Neighbours, w[N]) = w[N]
  BY <1>1, <1>2, <1>3, BallsStop
<1>5. PICK F : /\ Grown(core, l) = F[1 .. l]
               /\ F[1 .. 0] = core
               /\ \A k \in 1 .. l : F[1 .. k] = Widened(Neighbours, F[1 .. k - 1])
  BY GrownIs
<1> DEFINE G == {k \in 0 .. l : F[1 .. k] = w[at(k)]}
<1>6. 0 \in G
  <2>1. at(0) = 1 /\ w[1] = core
    BY <1>1, <1>2, <1>3 DEF AreBalls
  <2> QED
    BY <1>5, <2>1
<1>7. ASSUME NEW k \in 0 .. l - 1, k \in G PROVE k + 1 \in G
  <2>1. k + 1 \in 1 .. l /\ (k + 1) - 1 = k /\ k \in Nat
    OBVIOUS
  <2>2. F[1 .. k + 1] = Widened(Neighbours, w[at(k)])
    <3>1. F[1 .. k] = w[at(k)]
      BY <1>7
    <3> QED
      BY <1>5, <2>1, <3>1
  <2>3. CASE k + 2 <= N
    <3>1. at(k) = k + 1 /\ at(k + 1) = (k + 1) + 1 /\ k + 1 \in 1 .. N - 1
      BY <1>1, <2>1, <2>3
    <3>2. w[(k + 1) + 1] = Widened(Neighbours, w[k + 1])
      BY <1>3, <3>1 DEF AreBalls
    <3> HIDE DEF at
    <3>3. F[1 .. k + 1] = w[at(k + 1)]
      BY <2>2, <3>1, <3>2
    <3> QED
      BY <2>1, <3>3
  <2>4. CASE ~(k + 2 <= N)
    <3>1. at(k) = N /\ at(k + 1) = N
      BY <1>1, <1>2, <2>1, <2>4
    <3> QED
      BY <1>4, <2>1, <2>2, <3>1
  <2> QED
    BY <2>3, <2>4
<1> HIDE DEF G
<1>8. l \in G
  BY <1>6, <1>7, ByNumbers
<1> QED
  BY <1>1, <1>2, <1>5, <1>8 DEF G, w

(* Rows that are few enough layers away. *)
Ball(core) ==
  {i \in Rows : Distances(Neighbours, core)[i] <= Option.overlap_layers
                /\ Distances(Neighbours, core)[i] < N}

LEMMA GrownWithin ==
  ASSUME system \in Systems, NEW core \in SUBSET Rows, core # {}
  PROVE  Grown(core, Option.overlap_layers) = Ball(core) /\ core \subseteq Ball(core)
<1> DEFINE w == Balls(Neighbours, core)
           l == Option.overlap_layers
           k == IF l + 1 <= N THEN l + 1 ELSE N
           dist == Distances(Neighbours, core)
<1>1. N \in Nat /\ Rows = 0 .. N - 1 /\ Neighbours \in [0 .. N - 1 -> SUBSET (0 .. N - 1)] /\ l \in Nat
  BY SystemFacts
<1>2. N >= 1 /\ Grown(core, l) = w[k]
  BY <1>1, GrownIsBall
<1>3. k \in 1 .. N /\ N \in 1 .. N /\ 1 \in 1 .. N /\ 1 <= k
  BY <1>1, <1>2
<1>4. core \in SUBSET (0 .. N - 1)
  BY <1>1
<1>5. AreBalls(N, Neighbours, core, w)
  BY <1>1, <1>2, <1>4, BallsAre
<1>6. \A i \in Rows : dist[i] \in Nat /\ (dist[i] < k <=> i \in w[k])
  BY <1>1, <1>2, <1>3, <1>4, BallDistance
<1>7. w[k] \subseteq Rows /\ w[1] = core
  BY <1>1, <1>3, <1>5 DEF AreBalls
<1>8. core \subseteq w[k]
  BY <1>1, <1>2, <1>3, <1>4, <1>5, <1>7, BallsNest
<1> HIDE DEF w, dist, l
<1>9. \A i \in Rows : dist[i] < k <=> (dist[i] <= l /\ dist[i] < N)
  BY <1>1, <1>6
<1>10. Ball(core) = {i \in Rows : dist[i] <= l /\ dist[i] < N}
  BY DEF Ball, dist, l
<1>11. w[k] = Ball(core)
  <2> HIDE DEF k
  <2> QED
    BY <1>6, <1>7, <1>9, <1>10
<1> QED
  BY <1>2, <1>8, <1>11 DEF l

LEMMA ExpandedFacts ==
  ASSUME system \in Systems, residual \in [Rows -> Nat],
         NEW core \in SUBSET Rows, Cardinality(core) \in 1 .. Limit
  PROVE  /\ Expanded(core) \in SUBSET Rows /\ Expanded(core) # {}
         /\ core \subseteq Expanded(core) /\ Expanded(core) \subseteq Ball(core)
         /\ Cardinality(Expanded(core)) = Min({Cardinality(Ball(core)), Limit})
         /\ \A kept \in Expanded(core) \ core, lost \in Ball(core) \ Expanded(core) :
               residual[kept] >= residual[lost]
<1> DEFINE ball == Ball(core)
           rest == ball \ core
           others == Strongest(rest)
           room == Limit - Cardinality(core)
           m == Min({room, Len(others)})
           added == ToSet(SubSeq(others, 1, m))
<1>1. IsFiniteSet(Rows) /\ Limit \in Nat \ {0} /\ Rows \subseteq Nat
  BY SystemFacts
<1>2. core # {}
  BY FS_EmptySet
<1>3. Grown(core, Option.overlap_layers) = ball /\ core \subseteq ball /\ ball \in SUBSET Rows
  BY <1>2, GrownWithin DEF Ball
<1>4. Expanded(core) = core \cup added
  BY <1>3, ExpandedIs
<1>5. Lists(others, rest) /\ Descending(others, residual)
  <2>1. rest \in SUBSET Rows
    BY <1>3
  <2> QED
    BY <2>1, StrongestFirst
<1>6. /\ IsFiniteSet(core) /\ IsFiniteSet(ball) /\ IsFiniteSet(rest)
      /\ Cardinality(core) \in Nat /\ Cardinality(ball) \in Nat /\ Cardinality(rest) \in Nat
      /\ Len(others) = Cardinality(rest)
  BY <1>1, <1>3, <1>5, FS_Subset, FS_CardinalityType DEF Lists
<1>7. room \in Nat
  BY <1>1, <1>6
<1>8. m = IF room <= Len(others) THEN room ELSE Len(others)
  <2> HIDE DEF room, others
  <2> QED
    BY <1>6, <1>7, LesserOfTwo
<1>9. m \in 0 .. Len(others)
  <2> HIDE DEF m, room, others, rest
  <2> QED
    BY <1>6, <1>7, <1>8
<1>10. /\ added \subseteq rest /\ Cardinality(added) = m
       /\ \A kept \in added, lost \in rest \ added : residual[kept] >= residual[lost]
  <2>1. \A x \in rest : residual[x] \in Nat
    BY <1>3
  <2> HIDE DEF m, others, rest
  <2> QED
    BY <1>5, <1>6, <1>9, <2>1, HeadKept
<1> HIDE DEF added, m, others
<1>11. Expanded(core) \ core = added /\ ball \ Expanded(core) = rest \ added /\ core \cap added = {}
  BY <1>4, <1>10
<1>12. IsFiniteSet(added)
  BY <1>6, <1>10, FS_Subset
<1>13. Cardinality(Expanded(core)) = Cardinality(core) + m
  <2>1. Cardinality(core \cup added) = Cardinality(core) + Cardinality(added) - Cardinality(core \cap added)
    BY <1>6, <1>12, FS_Union
  <2>2. Cardinality(core \cap added) = 0
    BY <1>11, FS_EmptySet
  <2>3. m \in Int
    BY <1>6, <1>9
  <2> QED
    BY <1>4, <1>6, <1>10, <2>1, <2>2, <2>3
<1>14. Cardinality(ball) = Cardinality(core) + Cardinality(rest)
  <2>1. core \cup rest = ball /\ core \cap rest = {}
    BY <1>3
  <2>2. Cardinality(core \cup rest) = Cardinality(core) + Cardinality(rest) - Cardinality(core \cap rest)
    BY <1>6, FS_Union
  <2>3. Cardinality(core \cap rest) = 0
    BY <2>1, FS_EmptySet
  <2> HIDE DEF ball, rest
  <2>4. Cardinality(ball) = Cardinality(core) + Cardinality(rest) - 0
    BY <2>1, <2>2, <2>3
  <2> QED
    BY <1>6, <2>4
<1>15. Cardinality(Expanded(core)) = Min({Cardinality(ball), Limit})
  <2>1. Min({Cardinality(ball), Limit}) = IF Cardinality(ball) <= Limit THEN Cardinality(ball) ELSE Limit
    BY <1>1, <1>6, LesserOfTwo
  <2> DEFINE b == Cardinality(ball)
             c == Cardinality(core)
             r == Cardinality(rest)
  <2>2. b \in Nat /\ c \in Nat /\ r \in Nat /\ b = c + r /\ room = Limit - c /\ Limit \in Nat
        /\ Cardinality(Expanded(core)) = c + m /\ m = IF room <= r THEN room ELSE r
    BY <1>1, <1>6, <1>8, <1>13, <1>14
  <2> HIDE DEF b, c, r, room, ball, rest
  <2>3. Cardinality(Expanded(core)) = IF b <= Limit THEN b ELSE Limit
    BY ONLY <2>2
  <2> QED
    BY <2>1, <2>3 DEF b
<1> HIDE DEF rest, ball
<1> QED
  BY <1>2, <1>3, <1>4, <1>10, <1>11, <1>15 DEF ball, rest

-----------------------------------------------------------------------------
(* Selection. Sequences that get or lose an element.                       *)
LEMMA AppendedFacts ==
  ASSUME NEW V, NEW seq \in Seq(V), NEW x \in V
  PROVE  /\ Append(seq, x) \in Seq(V) /\ Len(Append(seq, x)) = Len(seq) + 1
         /\ ToSet(Append(seq, x)) = ToSet(seq) \cup {x}
         /\ \A k \in 1 .. Len(seq) : Append(seq, x)[k] = seq[k]
         /\ Distinct(seq) /\ x \notin ToSet(seq) => Distinct(Append(seq, x))
<1> DEFINE new == Append(seq, x)
           n == Len(seq)
<1>1. /\ n \in Nat /\ new \in Seq(V) /\ Len(new) = n + 1 /\ new[n + 1] = x
      /\ \A k \in 1 .. n : new[k] = seq[k]
  OBVIOUS
<1>2. /\ \A k \in 1 .. n : seq[k] \in ToSet(seq)
      /\ \A y \in ToSet(seq) : \E k \in 1 .. n : seq[k] = y
  BY SetOf
<1> HIDE DEF new, n
<1>3. /\ \A k \in 1 .. n + 1 : new[k] \in ToSet(new)
      /\ \A y \in ToSet(new) : \E k \in 1 .. n + 1 : new[k] = y
  BY <1>1, SetOf
<1>4. \A k \in 1 .. n + 1 : k \in 1 .. n \/ k = n + 1
  BY <1>1
<1>5. 1 .. n \subseteq 1 .. n + 1 /\ n + 1 \in 1 .. n + 1
  BY <1>1
<1>6. ToSet(new) = ToSet(seq) \cup {x}
  <2>1. ASSUME NEW y \in ToSet(new) PROVE y \in ToSet(seq) \cup {x}
    BY <1>1, <1>2, <1>3, <1>4
  <2>2. ASSUME NEW y \in ToSet(seq) PROVE y \in ToSet(new)
    <3>1. PICK k \in 1 .. n : seq[k] = y
      BY <1>2
    <3> QED
      BY <1>1, <1>3, <1>5, <3>1
  <2>3. x \in ToSet(new)
    BY <1>1, <1>3, <1>5
  <2> QED
    BY <2>1, <2>2, <2>3
<1>7. ASSUME Distinct(seq), x \notin ToSet(seq) PROVE Distinct(new)
  <2> SUFFICES ASSUME NEW j \in 1 .. n + 1, NEW k \in 1 .. n + 1, j # k PROVE new[j] # new[k]
    BY <1>1 DEF Distinct
  <2>1. \A i \in 1 .. n : new[i] # x
    BY <1>1, <1>2, <1>7
  <2>2. CASE j \in 1 .. n /\ k \in 1 .. n
    BY <1>1, <1>7, <2>2 DEF Distinct, n
  <2>3. CASE ~(j \in 1 .. n /\ k \in 1 .. n)
    BY <1>1, <1>4, <2>1, <2>3
  <2> QED
    BY <2>2, <2>3
<1> QED
  BY <1>1, <1>6, <1>7 DEF new, n

LEMMA RestFacts ==
  ASSUME NEW V, NEW seq \in Seq(V), Distinct(seq), seq # <<>>
  PROVE  /\ Tail(seq) \in Seq(V) /\ Distinct(Tail(seq)) /\ Head(seq) \in V /\ Head(seq) \in ToSet(seq)
         /\ ToSet(Tail(seq)) = ToSet(seq) \ {Head(seq)} /\ Len(Tail(seq)) = Len(seq) - 1
<1> DEFINE n == Len(seq)
           rest == Tail(seq)
<1>1. /\ n \in Nat /\ n >= 1 /\ rest \in Seq(V) /\ Len(rest) = n - 1 /\ Head(seq) = seq[1] /\ seq[1] \in V
      /\ \A k \in 1 .. n - 1 : rest[k] = seq[k + 1]
  OBVIOUS
<1>2. /\ \A k \in 1 .. n : seq[k] \in ToSet(seq)
      /\ \A y \in ToSet(seq) : \E k \in 1 .. n : seq[k] = y
  BY SetOf
<1> HIDE DEF n, rest
<1>3. /\ \A k \in 1 .. n - 1 : rest[k] \in ToSet(rest)
      /\ \A y \in ToSet(rest) : \E k \in 1 .. n - 1 : rest[k] = y
  BY <1>1, SetOf
<1>4. \A j, k \in 1 .. n : j # k => seq[j] # seq[k]
  BY DEF Distinct, n
<1>5. /\ \A k \in 1 .. n - 1 : k + 1 \in 1 .. n /\ k + 1 # 1
      /\ \A k \in 1 .. n : k = 1 \/ (k - 1 \in 1 .. n - 1 /\ (k - 1) + 1 = k)
      /\ 1 \in 1 .. n
  BY <1>1
<1>6. Distinct(rest)
  <2> SUFFICES ASSUME NEW j \in 1 .. n - 1, NEW k \in 1 .. n - 1, j # k PROVE rest[j] # rest[k]
    BY <1>1 DEF Distinct
  <2>1. j + 1 # k + 1
    BY <1>1
  <2> QED
    BY <1>1, <1>4, <1>5, <2>1
<1>7. ASSUME NEW y \in ToSet(rest) PROVE y \in ToSet(seq) /\ y # seq[1]
  <2>1. PICK k \in 1 .. n - 1 : rest[k] = y
    BY <1>3
  <2>2. y = seq[k + 1]
    BY <1>1, <2>1
  <2> QED
    BY <1>2, <1>4, <1>5, <2>2
<1>8. ASSUME NEW y \in ToSet(seq), y # seq[1] PROVE y \in ToSet(rest)
  <2>1. PICK k \in 1 .. n : seq[k] = y
    BY <1>2
  <2>2. k # 1
    BY <1>8, <2>1
  <2>3. k - 1 \in 1 .. n - 1 /\ rest[k - 1] = y
    BY <1>1, <1>5, <2>1, <2>2
  <2> QED
    BY <1>3, <2>3
<1>9. ToSet(rest) = ToSet(seq) \ {Head(seq)}
  BY <1>1, <1>7, <1>8
<1> QED
  BY <1>1, <1>2, <1>5, <1>6, <1>9 DEF n, rest

LEMMA AmongFacts ==
  ASSUME NEW V, NEW seq \in Seq(V), Distinct(seq), NEW S
  PROVE  /\ Among(seq, S) \in Seq(V) /\ Distinct(Among(seq, S))
         /\ ToSet(Among(seq, S)) = ToSet(seq) \cap S
<1> DEFINE K == {k \in DOMAIN seq : seq[k] \in S}
           kept == Ascending(K)
           new == Among(seq, S)
<1>1. DOMAIN seq = 1 .. Len(seq) /\ Len(seq) \in Nat /\ \A k \in 1 .. Len(seq) : seq[k] \in V
  OBVIOUS
<1>2. K \in SUBSET Int /\ K \subseteq 1 .. Len(seq)
  BY <1>1
<1>3. IsFiniteSet(K)
  BY <1>1, <1>2, IntervalFinite, FS_Subset
<1>4. Lists(kept, K)
  <2> HIDE DEF K
  <2> QED
    BY <1>2, <1>3, AscendingFacts
<1> HIDE DEF kept
<1>5. /\ kept \in Seq(K) /\ DOMAIN kept = 1 .. Len(kept) /\ Len(kept) \in Nat
      /\ \A x \in K : \E k \in 1 .. Len(kept) : kept[k] = x
      /\ \A j, k \in 1 .. Len(kept) : j # k => kept[j] # kept[k]
  <2> HIDE DEF K
  <2> QED
    BY <1>4 DEF Lists
<1>6. new = [k \in DOMAIN kept |-> seq[kept[k]]]
  BY Zenon DEF Among, kept
<1> HIDE DEF new
<1>7. \A k \in 1 .. Len(kept) : kept[k] \in K
  <2> HIDE DEF K
  <2> QED
    BY <1>5
<1>8. \A k \in 1 .. Len(kept) : new[k] = seq[kept[k]] /\ new[k] \in V /\ new[k] \in S
  BY <1>1, <1>5, <1>6, <1>7
<1>9. new \in Seq(V) /\ Len(new) = Len(kept)
  <2>1. new = [k \in 1 .. Len(kept) |-> new[k]]
    BY <1>5, <1>6
  <2> QED
    BY <1>5, <1>8, <2>1
<1>10. Distinct(new)
  <2> SUFFICES ASSUME NEW j \in 1 .. Len(kept), NEW k \in 1 .. Len(kept), j # k PROVE new[j] # new[k]
    BY <1>9 DEF Distinct
  <2>1. kept[j] # kept[k] /\ kept[j] \in 1 .. Len(seq) /\ kept[k] \in 1 .. Len(seq)
    BY <1>2, <1>5, <1>7
  <2>2. seq[kept[j]] # seq[kept[k]]
    BY <2>1 DEF Distinct
  <2> QED
    BY <1>8, <2>2
<1>11. ToSet(new) = ToSet(seq) \cap S
  <2>1. ASSUME NEW y \in ToSet(new) PROVE y \in ToSet(seq) \cap S
    <3>1. PICK k \in 1 .. Len(kept) : new[k] = y
      BY <1>9, SetOf
    <3>2. kept[k] \in 1 .. Len(seq) /\ y = seq[kept[k]] /\ y \in S
      BY <1>2, <1>7, <1>8, <3>1
    <3> QED
      BY <3>2, SetOf
  <2>2. ASSUME NEW y \in ToSet(seq) \cap S PROVE y \in ToSet(new)
    <3>1. PICK i \in 1 .. Len(seq) : seq[i] = y
      BY SetOf
    <3>2. i \in K
      BY <1>1, <2>2, <3>1
    <3>3. PICK k \in 1 .. Len(kept) : kept[k] = i
      BY <1>5, <3>2
    <3>4. new[k] = y /\ k \in 1 .. Len(new)
      BY <1>8, <1>9, <3>1, <3>3
    <3> QED
      BY <1>9, <3>4, SetOf
  <2> QED
    BY <2>1, <2>2
<1> QED
  BY <1>9, <1>10, <1>11 DEF new

(* Factor bytes add up. *)
LEMMA RegionBytesType ==
  ASSUME system \in Systems, NEW set \in SUBSET Rows
  PROVE  RegionBytes(set) \in Nat /\ (set # {} => RegionBytes(set) >= 1)
<1> DEFINE c == Cardinality(set)
<1>1. c \in Nat /\ (set # {} => c # 0)
  BY SystemFacts, FS_Subset, FS_CardinalityType, FS_EmptySet
<1>2. RegionBytes(set) = 8 * c + 8 * ((c * (c + 1)) \div 2) + 8 * c + 16 * c
  BY DEF RegionBytes
<1> HIDE DEF c
<1>3. c * (c + 1) \in Nat
  BY <1>1
<1>4. (c * (c + 1)) \div 2 \in Nat
  BY <1>3
<1> DEFINE t == (c * (c + 1)) \div 2
<1>5. t \in Nat /\ RegionBytes(set) = 8 * c + 8 * t + 8 * c + 16 * c
  BY <1>2, <1>4
<1> HIDE DEF t
<1> QED
  BY <1>1, <1>5

LEMMA BytesAdd ==
  ASSUME system \in Systems, NEW seq \in Seq(SUBSET Rows), NEW r \in SUBSET Rows
  PROVE  /\ FactorBytes(seq) \in Nat
         /\ FactorBytes(Append(seq, r)) = FactorBytes(seq) + RegionBytes(r)
<1> DEFINE n == Len(seq)
           f == [k \in DOMAIN seq |-> RegionBytes(seq[k])]
           new == Append(seq, r)
           g == [k \in DOMAIN new |-> RegionBytes(new[k])]
<1>1. /\ n \in Nat /\ DOMAIN seq = 1 .. n /\ DOMAIN new = 1 .. n + 1 /\ new[n + 1] = r
      /\ \A k \in 1 .. n : seq[k] \in SUBSET Rows /\ new[k] = seq[k]
  OBVIOUS
<1> HIDE DEF n, new
<1>2. \A k \in 1 .. n : f[k] = RegionBytes(seq[k]) /\ f[k] \in Nat
  BY <1>1, RegionBytesType
<1>3. g[n + 1] = RegionBytes(r) /\ g[n + 1] \in Nat /\ \A k \in 1 .. n : g[k] = f[k] /\ g[k] \in Nat
  <2>1. \A k \in 1 .. n : k \in 1 .. n + 1
    BY <1>1
  <2>2. n + 1 \in 1 .. n + 1
    BY <1>1
  <2> QED
    BY <1>1, <1>2, <2>1, <2>2, RegionBytesType
<1>4. FactorBytes(seq) = 2 * N + SumFunctionOnSet(f, 1 .. n)
  <2>1. FactorBytes(seq) = 2 * N + SumFunctionOnSet(f, DOMAIN f)
    BY DEF FactorBytes, SumFunction, N
  <2> QED
    BY <1>1, <2>1
<1>5. FactorBytes(new) = 2 * N + SumFunctionOnSet(g, 1 .. n + 1)
  <2>1. FactorBytes(new) = 2 * N + SumFunctionOnSet(g, DOMAIN g)
    BY DEF FactorBytes, SumFunction, N
  <2> QED
    BY <1>1, <2>1
<1> HIDE DEF f, g
<1>6. IsFiniteSet(1 .. n) /\ IsFiniteSet(1 .. n + 1) /\ N \in Nat
  BY <1>1, IntervalFinite, SystemFacts
<1>7. SumFunctionOnSet(f, 1 .. n) \in Nat
  BY <1>2, <1>6, SumType
<1>8. SumFunctionOnSet(g, 1 .. n) = SumFunctionOnSet(f, 1 .. n)
  BY <1>2, <1>3, <1>6, SumEq
<1>9. SumFunctionOnSet(g, 1 .. n + 1) = g[n + 1] + SumFunctionOnSet(g, 1 .. n)
  <2>1. \A k \in 1 .. n + 1 : k \in 1 .. n \/ k = n + 1
    BY <1>1
  <2>2. n + 1 \in 1 .. n + 1 /\ (1 .. n + 1) \ {n + 1} = 1 .. n
    BY <1>1
  <2>3. \A k \in 1 .. n + 1 : g[k] \in Nat
    BY <1>3, <2>1
  <2>4. SumFunctionOnSet(g, 1 .. n + 1) = g[n + 1] + SumFunctionOnSet(g, (1 .. n + 1) \ {n + 1})
    BY ONLY <1>6, <2>2, <2>3, SumWithout
  <2> QED
    BY <2>2, <2>4
<1> DEFINE a == SumFunctionOnSet(f, 1 .. n)
           b == RegionBytes(r)
<1>10. /\ a \in Nat /\ b \in Nat /\ FactorBytes(seq) = 2 * N + a
       /\ FactorBytes(new) = 2 * N + (b + a)
  BY <1>3, <1>4, <1>5, <1>7, <1>8, <1>9
<1> HIDE DEF a, b
<1> QED
  BY <1>6, <1>10 DEF b, new

(* Benefit per byte: fractions are compared across, and sets of rows by    *)
(* the first row that is not in both.                                      *)
LEMMA BenefitType ==
  ASSUME system \in Systems, residual \in [Rows -> Nat], NEW r \in SUBSET Rows
  PROVE  Benefit(r) \in Nat
<1> DEFINE f == [i \in Rows |-> residual[i] * residual[i] * Weight(i)]
           s == r \ UNION ToSet(accepted)
<1>1. \A i \in Rows : system.diagonal[i] \in Nat \ {0}
  BY RegionAssumption DEF Rows
<1>2. \A i \in Rows : Weight(i) \in Nat
  BY <1>1 DEF Weight, EnergyUnit
<1>3. \A i \in Rows : f[i] \in Nat
  BY <1>2
<1>4. s \subseteq Rows /\ IsFiniteSet(s)
  BY SystemFacts, FS_Subset
<1>5. Benefit(r) = SumFunctionOnSet(f, s)
  BY DEF Benefit
<1> HIDE DEF f, s
<1> QED
  BY <1>3, <1>4, <1>5, SumType

LEMMA LesserProduct ==
  ASSUME NEW a \in Nat, NEW b \in Nat, NEW s \in Nat, s >= 1, a < b
  PROVE  a * s < b * s
<1>1. a + 1 <= b /\ a + 1 \in Nat
  OBVIOUS
<1>2. (a + 1) * s <= b * s
  BY <1>1, SmallerProduct
<1>3. (a + 1) * s = a * s + s
  OBVIOUS
<1>4. a * s \in Nat /\ b * s \in Nat
  OBVIOUS
<1> QED
  BY <1>2, <1>3, <1>4

LEMMA FractionsOrdered ==
  ASSUME NEW b1 \in Nat, NEW b2 \in Nat, NEW b3 \in Nat,
         NEW c1 \in Nat, NEW c2 \in Nat, NEW c3 \in Nat, c1 >= 1, c2 >= 1, c3 >= 1,
         b1 * c2 >= b2 * c1, b2 * c3 >= b3 * c2
  PROVE  /\ b1 * c3 >= b3 * c1
         /\ b1 * c2 > b2 * c1 \/ b2 * c3 > b3 * c2 => b1 * c3 > b3 * c1
<1>1. /\ b1 * c2 \in Nat /\ b2 * c1 \in Nat /\ b2 * c3 \in Nat /\ b3 * c2 \in Nat
      /\ b1 * c3 \in Nat /\ b3 * c1 \in Nat
  OBVIOUS
<1>2. (b2 * c1) * c3 <= (b1 * c2) * c3 /\ (b3 * c2) * c1 <= (b2 * c3) * c1
  BY <1>1, SmallerProduct
<1>3. (b1 * c2) * c3 = (b1 * c3) * c2 /\ (b2 * c1) * c3 = (b2 * c3) * c1 /\ (b3 * c2) * c1 = (b3 * c1) * c2
  OBVIOUS
<1>4. (b1 * c2) * c3 \in Nat /\ (b2 * c1) * c3 \in Nat /\ (b3 * c2) * c1 \in Nat
  BY <1>1
<1>5. (b3 * c1) * c2 <= (b1 * c3) * c2
  BY ONLY <1>2, <1>3, <1>4
<1>6. ~(b1 * c3 < b3 * c1)
  <2>1. ASSUME b1 * c3 < b3 * c1 PROVE FALSE
    <3>1. (b1 * c3) * c2 < (b3 * c1) * c2
      BY <1>1, <2>1, LesserProduct
    <3> QED
      BY ONLY <1>3, <1>4, <1>5, <3>1
  <2> QED
    BY <2>1
<1>7. ASSUME b1 * c2 > b2 * c1 \/ b2 * c3 > b3 * c2, b1 * c3 = b3 * c1 PROVE FALSE
  <2>1. (b1 * c2) * c3 > (b2 * c1) * c3 \/ (b2 * c3) * c1 > (b3 * c2) * c1
    BY <1>1, <1>7, LesserProduct
  <2>2. (b3 * c1) * c2 < (b1 * c3) * c2
    BY ONLY <1>2, <1>3, <1>4, <2>1
  <2>3. (b3 * c1) * c2 = (b1 * c3) * c2
    BY <1>7
  <2> QED
    BY ONLY <1>3, <1>4, <2>2, <2>3
<1> QED
  BY <1>1, <1>6, <1>7

Leads(a, b) == \E x \in a \ b : \A y \in Nat : y < x => (y \in a <=> y \in b)
LEMMA LeadsIs ==
  ASSUME NEW a \in SUBSET Nat, NEW b \in SUBSET Nat, a # b
  PROVE  /\ Least((a \ b) \cup (b \ a)) \in a <=> Leads(a, b)
         /\ Leads(a, b) \/ Leads(b, a)
         /\ ~(Leads(a, b) /\ Leads(b, a))
<1> DEFINE D == (a \ b) \cup (b \ a)
           x == Least(D)
<1>1. D \in SUBSET Nat /\ D # {}
  OBVIOUS
<1>2. x \in D /\ \A y \in D : x <= y
  <2> HIDE DEF D
  <2> QED
    BY <1>1, LeastIs
<1> HIDE DEF x
<1>3. x \in Nat /\ \A y \in Nat : y < x => (y \in a <=> y \in b)
  BY <1>2
<1>4. ASSUME NEW z \in a \ b, \A y \in Nat : y < z => (y \in a <=> y \in b) PROVE z = x
  <2>1. z \in Nat /\ x <= z
    BY <1>2
  <2>2. ~(x < z)
    BY <1>2, <1>3, <1>4
  <2> QED
    BY <1>3, <2>1, <2>2
<1>5. ASSUME NEW z \in b \ a, \A y \in Nat : y < z => (y \in b <=> y \in a) PROVE z = x
  <2>1. z \in Nat /\ x <= z
    BY <1>2
  <2>2. ~(x < z)
    BY <1>2, <1>3, <1>5
  <2> QED
    BY <1>3, <2>1, <2>2
<1>6. x \in a <=> Leads(a, b)
  BY <1>2, <1>3, <1>4 DEF Leads
<1>7. x \in b <=> Leads(b, a)
  BY <1>2, <1>3, <1>5 DEF Leads
<1> QED
  BY <1>2, <1>6, <1>7 DEF x

LEMMA LeadsOn ==
  ASSUME NEW a \in SUBSET Nat, NEW b \in SUBSET Nat, NEW c \in SUBSET Nat, Leads(a, b), Leads(b, c)
  PROVE  Leads(a, c)
<1>1. PICK x \in a \ b : \A y \in Nat : y < x => (y \in a <=> y \in b)
  BY DEF Leads
<1>2. PICK z \in b \ c : \A y \in Nat : y < z => (y \in b <=> y \in c)
  BY DEF Leads
<1>3. x \in Nat /\ z \in Nat
  OBVIOUS
<1>4. CASE x < z
  <2>1. x \in a \ c
    BY <1>1, <1>2, <1>3, <1>4
  <2>2. \A y \in Nat : y < x => (y \in a <=> y \in c)
    BY <1>1, <1>2, <1>3, <1>4
  <2> QED
    BY <2>1, <2>2 DEF Leads
<1>5. CASE z < x
  <2>1. z \in a \ c
    BY <1>1, <1>2, <1>3, <1>5
  <2>2. \A y \in Nat : y < z => (y \in a <=> y \in c)
    BY <1>1, <1>2, <1>3, <1>5
  <2> QED
    BY <2>1, <2>2 DEF Leads
<1>6. x # z
  BY <1>1, <1>2
<1> QED
  BY <1>3, <1>4, <1>5, <1>6

(* The first of the two is better. *)
Outranks(a, b) ==
  LET p == Benefit(a) * RegionBytes(b)
      q == Benefit(b) * RegionBytes(a)
  IN  \/ p > q
      \/ p = q /\ Benefit(a) > Benefit(b)
      \/ /\ p = q /\ Benefit(a) = Benefit(b)
         /\ RegionBytes(a) < RegionBytes(b) \/ (RegionBytes(a) = RegionBytes(b) /\ Leads(a, b))

LEMMA BetterIs ==
  ASSUME NEW a \in SUBSET Nat, NEW b \in SUBSET Nat, a # b
  PROVE  Better(a, b) <=> Outranks(a, b)
<1>1. Least((a \ b) \cup (b \ a)) \in a <=> Leads(a, b)
  BY LeadsIs
<1> QED
  BY <1>1 DEF Better, Outranks

LEMMA BestFits ==
  ASSUME system \in Systems, residual \in [Rows -> Nat], NEW S, IsFiniteSet(S), S # {},
         \A r \in S : r \in SUBSET Rows /\ r # {}
  PROVE  \E r \in S : \A s \in S \ {r} : Better(r, s)
<1> DEFINE R == {p \in S \X S : p[1] # p[2] /\ Outranks(p[2], p[1])}
<1>1. \A r \in S : /\ Benefit(r) \in Nat /\ RegionBytes(r) \in Nat /\ RegionBytes(r) >= 1
                   /\ r \in SUBSET Nat
  BY BenefitType, RegionBytesType, SystemFacts
<1>2. \A x, y \in S : <<x, y>> \in R <=> x # y /\ Outranks(y, x)
  OBVIOUS
<1> HIDE DEF R
<1>3. ASSUME NEW a \in S, NEW b \in S, a # b PROVE Outranks(a, b) \/ Outranks(b, a)
  <2>1. Leads(a, b) \/ Leads(b, a)
    BY <1>1, <1>3, LeadsIs
  <2> DEFINE p == Benefit(a) * RegionBytes(b)
             q == Benefit(b) * RegionBytes(a)
  <2>2. p \in Int /\ q \in Int /\ Benefit(a) \in Int /\ Benefit(b) \in Int
        /\ RegionBytes(a) \in Int /\ RegionBytes(b) \in Int
    BY <1>1
  <2>3. /\ p > q => Outranks(a, b)
        /\ p < q => Outranks(b, a)
        /\ p = q /\ Benefit(a) > Benefit(b) => Outranks(a, b)
        /\ p = q /\ Benefit(a) < Benefit(b) => Outranks(b, a)
        /\ p = q /\ Benefit(a) = Benefit(b) /\ RegionBytes(a) < RegionBytes(b) => Outranks(a, b)
        /\ p = q /\ Benefit(a) = Benefit(b) /\ RegionBytes(a) > RegionBytes(b) => Outranks(b, a)
        /\ p = q /\ Benefit(a) = Benefit(b) /\ RegionBytes(a) = RegionBytes(b) /\ Leads(a, b) => Outranks(a, b)
        /\ p = q /\ Benefit(a) = Benefit(b) /\ RegionBytes(a) = RegionBytes(b) /\ Leads(b, a) => Outranks(b, a)
    BY <2>2 DEF Outranks
  <2> HIDE DEF p, q
  <2> QED
    BY <2>1, <2>2, <2>3
<1>4. ASSUME NEW a \in S, NEW b \in S, NEW c \in S, Outranks(a, b), Outranks(b, c), a # b, b # c
      PROVE  Outranks(a, c) /\ a # c
  <2> DEFINE ba == Benefit(a)
             bb == Benefit(b)
             bc == Benefit(c)
             na == RegionBytes(a)
             nb == RegionBytes(b)
             nc == RegionBytes(c)
  <2>1. /\ ba \in Nat /\ bb \in Nat /\ bc \in Nat /\ na \in Nat /\ nb \in Nat /\ nc \in Nat
        /\ na >= 1 /\ nb >= 1 /\ nc >= 1
    BY <1>1
  <2>2. \/ ba * nb > bb * na
        \/ ba * nb = bb * na /\ ba > bb
        \/ ba * nb = bb * na /\ ba = bb /\ (na < nb \/ (na = nb /\ Leads(a, b)))
    BY <1>4 DEF Outranks
  <2>3. \/ bb * nc > bc * nb
        \/ bb * nc = bc * nb /\ bb > bc
        \/ bb * nc = bc * nb /\ bb = bc /\ (nb < nc \/ (nb = nc /\ Leads(b, c)))
    BY <1>4 DEF Outranks
  <2>4. Leads(a, b) /\ Leads(b, c) => Leads(a, c)
    BY <1>1, LeadsOn
  <2>5. ASSUME a = c PROVE ~(Leads(a, b) /\ Leads(b, c))
    BY <1>1, <1>4, <2>5, LeadsIs
  <2>6. Outranks(a, c) <=>
          \/ ba * nc > bc * na
          \/ ba * nc = bc * na /\ ba > bc
          \/ ba * nc = bc * na /\ ba = bc /\ (na < nc \/ (na = nc /\ Leads(a, c)))
    BY DEF Outranks
  <2>7. ASSUME a = c PROVE ba = bc /\ na = nc
    BY <2>7
  <2> HIDE DEF ba, bb, bc, na, nb, nc
  <2>8. /\ ba * nb \in Nat /\ bb * na \in Nat /\ bb * nc \in Nat /\ bc * nb \in Nat
        /\ ba * nc \in Nat /\ bc * na \in Nat
    BY <2>1
  <2>9. ba * nb >= bb * na /\ bb * nc >= bc * nb
    BY <2>2, <2>3, <2>8
  <2>10. /\ ba * nc >= bc * na
         /\ ba * nb > bb * na \/ bb * nc > bc * nb => ba * nc > bc * na
    BY <2>1, <2>9, FractionsOrdered
  <2>11. ba * nb = bb * na /\ bb * nc = bc * nb => ba * nc = bc * na
    <3>1. SUFFICES ASSUME ba * nb = bb * na, bb * nc = bc * nb PROVE ba * nc = bc * na
      OBVIOUS
    <3>2. bc * nb >= bb * nc /\ bb * na >= ba * nb
      BY <2>8, <3>1
    <3>3. bc * na >= ba * nc
      BY <2>1, <3>2, FractionsOrdered
    <3> QED
      BY <2>8, <2>10, <3>3
  <2> DEFINE ab == ba * nb
             ab2 == bb * na
             cb == bb * nc
             cb2 == bc * nb
             ac == ba * nc
             ac2 == bc * na
  <2>12. ac2 # ac => ab # ab2 \/ cb # cb2
    BY <2>11
  <2>13. a = c => ac = ac2
    BY <2>7
  <2>14. /\ ab \in Nat /\ ab2 \in Nat /\ cb \in Nat /\ cb2 \in Nat /\ ac \in Nat /\ ac2 \in Nat
         /\ ab > ab2 \/ (ab = ab2 /\ ba > bb)
            \/ (ab = ab2 /\ ba = bb /\ (na < nb \/ (na = nb /\ Leads(a, b))))
         /\ cb > cb2 \/ (cb = cb2 /\ bb > bc)
            \/ (cb = cb2 /\ bb = bc /\ (nb < nc \/ (nb = nc /\ Leads(b, c))))
         /\ ab > ab2 \/ cb > cb2 => ac > ac2
         /\ ab = ab2 /\ cb = cb2 => ac = ac2
    BY <2>2, <2>3, <2>8, <2>10, <2>11
  <2> HIDE DEF ab, ab2, cb, cb2, ac, ac2
  <2>15. \/ ac > ac2
         \/ ac = ac2 /\ ba > bc
         \/ ac = ac2 /\ ba = bc /\ (na < nc \/ (na = nc /\ Leads(a, c)))
    BY ONLY <2>1, <2>4, <2>14
  <2>16. a # c
    BY ONLY <2>1, <2>5, <2>7, <2>13, <2>14
  <2>17. Outranks(a, c)
    BY <2>6, <2>15 DEF ac, ac2
  <2> QED
    BY <2>16, <2>17
<1>5. IsOrder(R, S)
  <2>1. \A x \in S : <<x, x>> \notin R
    BY <1>2
  <2>2. \A x, y \in S : x # y => <<x, y>> \in R \/ <<y, x>> \in R
    BY <1>2, <1>3
  <2>3. \A x, y, z \in S : <<x, y>> \in R /\ <<y, z>> \in R => <<x, z>> \in R
    <3> SUFFICES ASSUME NEW x \in S, NEW y \in S, NEW z \in S, <<x, y>> \in R, <<y, z>> \in R
                 PROVE  <<x, z>> \in R
      OBVIOUS
    <3>1. x # y /\ Outranks(y, x) /\ y # z /\ Outranks(z, y)
      BY <1>2
    <3>2. Outranks(z, x) /\ z # x
      BY <1>4, <3>1
    <3> QED
      BY <1>2, <3>2
  <2> QED
    BY <2>1, <2>2, <2>3 DEF IsOrder
<1>6. PICK r \in S : \A s \in S \ {r} : <<s, r>> \in R
  BY <1>5, HasGreatest
<1>7. ASSUME NEW s \in S \ {r} PROVE Better(r, s)
  <2>1. Outranks(r, s) /\ r # s
    BY <1>2, <1>6
  <2> QED
    BY <1>1, <2>1, BetterIs
<1> QED
  BY <1>7

(* The merge of the expanded cores into what is pending. *)
RegionSets == (SUBSET Rows) \ {{}}
AddStep(seq, core) ==
  IF Expanded(core) \in ToSet(accepted) \cup ToSet(seq) THEN seq ELSE Append(seq, Expanded(core))
MergeSteps(h) ==
  [s \in SUBSET (DOMAIN candidates) |->
      IF s = {} THEN <<>> ELSE AddStep(h[s \ {Latest(s)}], candidates[Latest(s)])]
MergeFold == CHOOSE h : h = MergeSteps(h)

LEMMA ExpandIs == ASSUME Expand PROVE pending' = MergeFold[DOMAIN candidates]
  BY Zenon DEF Expand, FoldLeft, MapThenFoldSet, MergeFold, MergeSteps, AddStep, Latest

LEMMA MergedFacts ==
  ASSUME system \in Systems, residual \in [Rows -> Nat], candidates \in Seq(SUBSET Rows),
         \A core \in ToSet(candidates) : Cardinality(core) \in 1 .. Limit
  PROVE  LET merged == MergeFold[DOMAIN candidates]
         IN  /\ merged \in Seq(RegionSets) /\ Distinct(merged)
             /\ ToSet(merged) \cap ToSet(accepted) = {}
             /\ {Expanded(core) : core \in ToSet(candidates)} \subseteq ToSet(accepted) \cup ToSet(merged)
<1> DEFINE old == ToSet(accepted)
           A == {q \in Seq(RegionSets) : Distinct(q) /\ ToSet(q) \cap old = {}}
           m == Len(candidates)
           base == <<>>
           step == [c \in (1 .. m) \X A |-> AddStep(c[2], candidates[c[1]])]
           F == MergeFold
<1>1. m \in Nat /\ DOMAIN candidates = 1 .. m
  OBVIOUS
<1>2. \A k \in 1 .. m : candidates[k] \in SUBSET Rows /\ candidates[k] \in ToSet(candidates)
  BY SetOf
<1>3. \A k \in 1 .. m : Expanded(candidates[k]) \in RegionSets
  BY <1>2, ExpandedFacts DEF RegionSets
<1> HIDE DEF old, m
<1>4. base \in A
  <2>1. <<>> \in Seq(RegionSets) /\ Len(<<>>) = 0 /\ ToSet(<<>>) = {}
    BY DEF ToSet
  <2> QED
    BY <2>1 DEF Distinct
<1>5. ASSUME NEW q \in A, NEW k \in 1 .. m
      PROVE  /\ AddStep(q, candidates[k]) \in A
             /\ ToSet(q) \subseteq ToSet(AddStep(q, candidates[k]))
             /\ Expanded(candidates[k]) \in old \cup ToSet(AddStep(q, candidates[k]))
  <2> DEFINE x == Expanded(candidates[k])
  <2>1. x \in RegionSets
    BY <1>3
  <2>2. q \in Seq(RegionSets) /\ Distinct(q) /\ ToSet(q) \cap old = {}
    OBVIOUS
  <2>3. AddStep(q, candidates[k]) = IF x \in old \cup ToSet(q) THEN q ELSE Append(q, x)
    BY DEF AddStep, old
  <2> HIDE DEF x
  <2>4. CASE x \in old \cup ToSet(q)
    BY <2>3, <2>4 DEF x
  <2>5. CASE x \notin old \cup ToSet(q)
    <3>1. /\ Append(q, x) \in Seq(RegionSets) /\ Distinct(Append(q, x))
          /\ ToSet(Append(q, x)) = ToSet(q) \cup {x}
      BY <2>1, <2>2, <2>5, AppendedFacts
    <3>2. Append(q, x) \in A
      BY <2>2, <2>5, <3>1
    <3> QED
      BY <2>3, <2>5, <3>1, <3>2 DEF x
  <2> QED
    BY <2>4, <2>5
<1> HIDE DEF base
<1>6. \A k \in 1 .. m : \A q \in A : step[<<k, q>>] = AddStep(q, candidates[k])
  OBVIOUS
<1> HIDE DEF step, A
<1>7. StepsIn(m, A, step)
  BY <1>5, <1>6 DEF StepsIn
<1>8. PICK h : Made(m, A, base, step, h)
  BY <1>1, <1>4, <1>7, FoldMade
<1>9. h = MergeSteps(h)
  <2>1. \A s \in SUBSET (1 .. m) :
          h[s] = IF s = {} THEN base ELSE AddStep(h[s \ {Latest(s)}], candidates[Latest(s)])
    BY <1>6, <1>8 DEF Made
  <2>2. h = [s \in SUBSET (1 .. m) |->
          IF s = {} THEN base ELSE AddStep(h[s \ {Latest(s)}], candidates[Latest(s)])]
    BY <1>8, <2>1 DEF Made
  <2> QED
    BY <1>1, <2>2 DEF MergeSteps, base
<1>10. F = MergeSteps(F)
  BY <1>9 DEF MergeFold
<1> HIDE DEF F
<1>11. \A s \in SUBSET (1 .. m) :
          F[s] = IF s = {} THEN base ELSE AddStep(F[s \ {Latest(s)}], candidates[Latest(s)])
  <2>1. F = [s \in SUBSET (1 .. m) |->
          IF s = {} THEN base ELSE AddStep(F[s \ {Latest(s)}], candidates[Latest(s)])]
    BY <1>1, <1>10 DEF MergeSteps, base
  <2> QED
    BY <2>1
<1>12. Unfolds(m, A, base, step, F)
  <2>1. F[{}] = base
    BY <1>11
  <2>2. \A s \in SUBSET (1 .. m) :
           s # {} /\ F[s \ {Latest(s)}] \in A => F[s] = step[<<Latest(s), F[s \ {Latest(s)}]>>]
    BY <1>1, <1>6, <1>11, LatestFacts
  <2>3. Folds(m, A, base, step, F)
    BY <2>1, <2>2 DEF Folds
  <2> QED
    BY <1>1, <1>4, <1>7, <2>3, FoldIs
<1> DEFINE sent(k) == old \cup ToSet(F[1 .. k])
           G == {k \in 0 .. m : \A j \in 1 .. k : Expanded(candidates[j]) \in sent(k)}
<1>13. 0 \in G
  BY <1>1
<1>14. ASSUME NEW k \in 0 .. m - 1, k \in G PROVE k + 1 \in G
  <2>1. k + 1 \in 1 .. m /\ (k + 1) - 1 = k /\ k \in 0 .. m /\ k + 1 \in 0 .. m
    BY <1>1
  <2>2. F[1 .. k] \in A /\ F[1 .. k + 1] = step[<<k + 1, F[1 .. k]>>]
    BY <1>12, <2>1 DEF Unfolds
  <2>3. F[1 .. k + 1] = AddStep(F[1 .. k], candidates[k + 1])
    BY <1>6, <2>1, <2>2
  <2>4. sent(k) \subseteq sent(k + 1) /\ Expanded(candidates[k + 1]) \in sent(k + 1)
    BY <1>5, <2>1, <2>2, <2>3
  <2>5. \A j \in 1 .. k : Expanded(candidates[j]) \in sent(k)
    BY <1>14
  <2>6. \A j \in 1 .. k + 1 : j \in 1 .. k \/ j = k + 1
    BY <1>1
  <2> HIDE DEF sent
  <2>7. \A j \in 1 .. k + 1 : Expanded(candidates[j]) \in sent(k + 1)
    BY <2>4, <2>5, <2>6
  <2> QED
    BY <2>1, <2>7
<1> HIDE DEF G, sent
<1>14a. \A k \in 0 .. m : k \in G
  BY ONLY <1>1, <1>13, <1>14, ByNumbers
<1>15. m \in G
  BY ONLY <1>1, <1>14a
<1>16. F[1 .. m] \in A
  BY <1>1, <1>12 DEF Unfolds
<1>17. {Expanded(core) : core \in ToSet(candidates)} \subseteq old \cup ToSet(F[1 .. m])
  <2> SUFFICES ASSUME NEW core \in ToSet(candidates) PROVE Expanded(core) \in old \cup ToSet(F[1 .. m])
    OBVIOUS
  <2>1. PICK k \in 1 .. m : candidates[k] = core
    BY SetOf DEF m
  <2> QED
    BY <1>15, <2>1 DEF G, sent
<1> QED
  BY <1>1, <1>16, <1>17 DEF A, F, old

(* Whatever depends on nothing but the system and the residual stays.      *)
ComponentOf(sys, set, row) ==
  LET near == UndirectedAdjacency(sys.matrix)
      inside == [i \in Nodes(sys.matrix) |-> IF i \in set THEN near[i] \cap set ELSE {}]
      distance == Distances(inside, {row})
  IN  {i \in set : distance[i] < sys.matrix.n}
ExpandedOf(sys, res, core) ==
  LET near == UndirectedAdjacency(sys.matrix)
      Hop(set) == set \cup UNION {near[i] : i \in set}
      ball == FoldLeft(LAMBDA set, k : Hop(set), core, [k \in 1 .. sys.options.overlap_layers |-> k])
      room == sys.options.max_local_region_size - Cardinality(core)
      others == Sorted(ball \ core, LAMBDA i, j : Exceeds(<<res[i], -i>>, <<res[j], -j>>))
  IN  core \cup ToSet(SubSeq(others, 1, Min({room, Len(others)})))

LEMMA ComponentNow ==
  /\ \A set, row : Component(set, row) = ComponentOf(system, set, row)
  /\ \A set, row : Component(set, row)' = ComponentOf(system', set, row)
  BY Zenon DEF Component, ComponentOf, Rows, Neighbours

LEMMA ExpandedNow ==
  /\ \A core : Expanded(core) = ExpandedOf(system, residual, core)
  /\ \A core : Expanded(core)' = ExpandedOf(system', residual', core)
  BY Zenon DEF Expanded, ExpandedOf, Neighbours, OneHop, Option, Strongest, FoldLeft, MapThenFoldSet, Sorted

SeededRows == {i \in Risk : Component(Risk, i) \cap Seeds # {}}

LEMMA SameSystem ==
  ASSUME system' = system, residual' = residual
  PROVE  /\ Rows' = Rows /\ Neighbours' = Neighbours /\ Option' = Option /\ Limit' = Limit
         /\ Risk' = Risk /\ Seeds' = Seeds /\ SeededRows' = SeededRows
         /\ \A set, row : Component(set, row)' = Component(set, row)
         /\ \A core : Expanded(core)' = Expanded(core)
         /\ \A T, set : Stays(T, set)' <=> Stays(T, set)
         /\ \A core : InOnePiece(core)' <=> InOnePiece(core)
         /\ \A seq : FactorBytes(seq)' = FactorBytes(seq)
         /\ RegionSets' = RegionSets
<1>1. Rows' = Rows /\ Neighbours' = Neighbours /\ Option' = Option /\ Limit' = Limit
  BY DEF Rows, Neighbours, Option, Limit
<1>2. \A i : i \in Risk' <=> i \in Risk
  BY <1>1 DEF Risk
<1>3. \A i : i \in Seeds' <=> i \in Seeds
  BY <1>1 DEF Seeds
<1>4. Risk' = Risk /\ Seeds' = Seeds
  BY <1>2, <1>3
<1>5. \A set, row : Component(set, row)' = Component(set, row)
  BY ComponentNow
<1>6. \A core : Expanded(core)' = Expanded(core)
  BY ExpandedNow
<1>7. \A T, set : Stays(T, set)' <=> Stays(T, set)
  BY <1>1 DEF Stays
<1>8. \A core : InOnePiece(core)' <=> InOnePiece(core)
  BY <1>7 DEF InOnePiece
<1>9. \A seq : FactorBytes(seq)' = FactorBytes(seq)
  BY DEF FactorBytes
<1>10. SeededRows' = SeededRows
  BY <1>4, <1>5 DEF SeededRows
<1> QED
  BY <1>1, <1>4, <1>5, <1>6, <1>7, <1>8, <1>9, <1>10 DEF RegionSets

(* The discovery: what its variables hold. *)
Searching == {"component", "chunk", "grow"}
Early == Searching \cup {"fallback", "rank", "expand"}
Cores == ToSet(candidates)
DiscoveryTypes ==
  /\ system \in Systems /\ residual \in [Rows -> Nat]
  /\ visited \subseteq Rows /\ assigned \subseteq Rows /\ chunk \subseteq Rows
  /\ roots \in Seq(Rows) /\ region_queue \in Seq(Rows)
  /\ candidates \in Seq(SUBSET Rows)
  /\ locked \in Seq(RegionSets) /\ accepted \in Seq(RegionSets)
  /\ pending \in Seq(RegionSets) /\ skipped \in Seq(RegionSets)

(* Whole components were visited; of their rows those with a seed are      *)
(* assigned to a chunk or still among the roots.                           *)
RiskInv ==
  /\ visited \subseteq Risk /\ \A i \in visited : Component(Risk, i) \subseteq visited
  /\ assigned \subseteq SeededRows \cap visited
  /\ ToSet(roots) \subseteq SeededRows \cap visited
  /\ doing = "component" => roots = <<>>
  /\ SeededRows \cap visited \subseteq
        assigned \cup ToSet(roots) \cup (IF doing = "grow" /\ chunk = {} THEN ToSet(region_queue) ELSE {})
  /\ UNION Cores = assigned \ (IF doing = "grow" THEN chunk ELSE {})
  /\ \A core \in Cores : InOnePiece(core)

(* A chunk is in one piece, and what waits in the queue is next to it.     *)
ChunkInv ==
  LET waiting == ToSet(region_queue)
  IN  /\ region_queue # <<>> /\ Distinct(region_queue)
      /\ waiting \subseteq stamped /\ waiting \cap assigned = {}
      /\ waiting \subseteq SeededRows \cap visited
      /\ chunk \subseteq assigned /\ Cardinality(chunk) < Limit
      /\ chunk = {} => Len(region_queue) = 1
      /\ chunk # {} => /\ InOnePiece(chunk)
                       /\ \A q \in waiting : \E r \in chunk : q \in Neighbours[r]

(* Without a component that has a seed, the components of the seeds.       *)
SpareInv ==
  /\ SeededRows = {} /\ visited \subseteq Seeds
  /\ \A i \in visited : Component(Seeds, i) \subseteq visited
  /\ UNION Cores = visited
  /\ \A core \in Cores : core \subseteq Component(Seeds, Least(core))

CoresFound ==
  IF SeededRows # {}
  THEN UNION Cores = SeededRows /\ \A core \in Cores : Component(core, Least(core)) = core
  ELSE UNION Cores = Seeds /\ \A core \in Cores : core \subseteq Component(Seeds, Least(core))

CoreInv ==
  /\ Apart(candidates)
  /\ doing \in Searching => RiskInv
  /\ doing = "grow" => ChunkInv
  /\ doing = "fallback" => SpareInv
  /\ doing = "rank" => CoresFound

(* Factors of earlier stages come first; a candidate is accepted, skipped  *)
(* for good, or not yet decided.                                           *)
Affordable(seq) == FactorBytes(seq) <= Option.max_local_factor_bytes
Selecting ==
  /\ Distinct(pending) /\ ToSet(pending) \cap ToSet(accepted) = {}
  /\ Affordable(locked) => Affordable(accepted)
  /\ \A r \in ToSet(skipped) : ~FitsBudget(r)
  /\ {Expanded(core) : core \in Cores} \subseteq ToSet(accepted) \cup ToSet(skipped) \cup ToSet(pending)
  /\ Option.local_factor_selection # "CandidateOrder" /\ pending # <<>> => skipped = <<>>
SelectInv ==
  /\ Len(locked) <= Len(accepted) /\ \A k \in 1 .. Len(locked) : accepted[k] = locked[k]
  /\ Distinct(accepted)
  /\ doing \in Early => accepted = locked /\ skipped = <<>>
  /\ doing = "select" => Selecting

DiscoveryInv == DiscoveryTypes /\ CoreInv /\ SelectInv

(* It starts with nothing, *)
LEMMA EmptySequence ==
  /\ \A S : <<>> \in Seq(S)
  /\ Len(<<>>) = 0 /\ ToSet(<<>>) = {} /\ Distinct(<<>>) /\ Apart(<<>>)
<1>1. \A S : <<>> \in Seq(S)
  OBVIOUS
<1>2. Len(<<>>) = 0 /\ DOMAIN <<>> = {} /\ 1 .. Len(<<>>) = {}
  OBVIOUS
<1>3. ToSet(<<>>) = {}
  BY <1>2 DEF ToSet
<1> QED
  BY <1>1, <1>2, <1>3 DEF Distinct, Apart

LEMMA DiscoveryStarts == ASSUME DiscoveryInit PROVE DiscoveryInv
<1>1. system \in Systems /\ residual = [i \in Rows |-> 0]
  BY DEF DiscoveryInit
<1>2. DiscoveryTypes
  BY <1>1, EmptySequence DEF DiscoveryInit, DiscoveryTypes
<1>3. candidates = <<>> /\ locked = <<>> /\ accepted = <<>> /\ doing = "diagnose"
  BY DEF DiscoveryInit
<1>4. CoreInv
  BY <1>3, EmptySequence DEF CoreInv, Searching
<1>5. Len(locked) <= Len(accepted) /\ 1 .. Len(locked) = {} /\ Distinct(accepted)
  BY <1>3, EmptySequence
<1>6. SelectInv
  BY <1>3, <1>5 DEF SelectInv, Early, Searching
<1> QED
  BY <1>2, <1>4, <1>6 DEF DiscoveryInv

(* keeps the selection while cores are sought, *)
LEMMA SelectKeeps ==
  ASSUME DiscoveryInv, doing \in Early, doing' \in Early, UNCHANGED <<system, selection>>
  PROVE  /\ SelectInv'
         /\ locked' \in Seq(RegionSets') /\ accepted' \in Seq(RegionSets')
         /\ pending' \in Seq(RegionSets') /\ skipped' \in Seq(RegionSets')
<1>1. locked' = locked /\ accepted' = accepted /\ pending' = pending /\ skipped' = skipped
  BY DEF selection
<1>2. RegionSets' = RegionSets
  BY DEF RegionSets, Rows
<1>3. SelectInv /\ DiscoveryTypes
  BY DEF DiscoveryInv
<1>4. doing' # "select"
  BY DEF Early, Searching
<1>5. SelectInv'
  BY <1>1, <1>3, <1>4 DEF SelectInv, Distinct
<1> QED
  BY <1>1, <1>2, <1>3, <1>5 DEF DiscoveryTypes

(* and the cores from their expansion on. *)
LEMMA CoresKeep ==
  ASSUME DiscoveryInv, UNCHANGED <<system, residual, discovery, candidates>>,
         doing' \notin Searching \cup {"fallback", "rank"}
  PROVE  /\ CoreInv'
         /\ system' \in Systems /\ residual' \in [Rows' -> Nat]
         /\ visited' \subseteq Rows' /\ assigned' \subseteq Rows' /\ chunk' \subseteq Rows'
         /\ roots' \in Seq(Rows') /\ region_queue' \in Seq(Rows')
         /\ candidates' \in Seq(SUBSET Rows')
<1>1. /\ visited' = visited /\ assigned' = assigned /\ chunk' = chunk
      /\ roots' = roots /\ region_queue' = region_queue /\ candidates' = candidates
      /\ system' = system /\ residual' = residual
  BY DEF discovery
<1>2. Rows' = Rows /\ Limit' = Limit
  BY <1>1, SameSystem
<1>3. CoreInv /\ DiscoveryTypes
  BY DEF DiscoveryInv
<1>4. Apart(candidates)'
  BY <1>1, <1>2, <1>3 DEF CoreInv, Apart
<1>5. CoreInv'
  BY <1>4 DEF CoreInv, Searching
<1> QED
  BY <1>1, <1>2, <1>3, <1>5 DEF DiscoveryTypes

(* The rows of a component all have a seed in it or none has. *)
LEMMA SeededTogether ==
  ASSUME system \in Systems, NEW row \in Risk
  PROVE  /\ Component(Risk, row) \cap Seeds # {} => Component(Risk, row) \subseteq SeededRows
         /\ Component(Risk, row) \cap Seeds = {} => Component(Risk, row) \cap SeededRows = {}
<1>1. Risk \in SUBSET Rows
  BY SystemFacts
<1>2. Component(Risk, row) \subseteq Risk
  BY <1>1, ComponentLeast
<1>3. \A i \in Component(Risk, row) : Component(Risk, i) = Component(Risk, row)
  BY <1>1, ComponentSame
<1> QED
  BY <1>2, <1>3 DEF SeededRows

(* Steps that seek chunks. *)
LEMMA NextComponentKeeps == ASSUME DiscoveryInv, NextComponent PROVE DiscoveryInv'
<1>1. DiscoveryTypes /\ Apart(candidates) /\ RiskInv /\ doing = "component"
  BY DEF DiscoveryInv, CoreInv, NextComponent, Searching
<1>2. system \in Systems /\ residual \in [Rows -> Nat] /\ Risk \in SUBSET Rows /\ Rows \subseteq Nat
  <2>1. system \in Systems /\ residual \in [Rows -> Nat]
    BY <1>1 DEF DiscoveryTypes
  <2> QED
    BY <2>1, SystemFacts
<1>3. /\ UNCHANGED <<system, residual, selection>> /\ assigned' = assigned /\ chunk' = chunk
      /\ region_queue' = region_queue /\ candidates' = candidates
  BY DEF NextComponent
<1>4. /\ Rows' = Rows /\ Limit' = Limit /\ Risk' = Risk /\ SeededRows' = SeededRows
      /\ \A set, i : Component(set, i)' = Component(set, i)
      /\ \A core : InOnePiece(core)' <=> InOnePiece(core)
  BY <1>3, SameSystem
<1> DEFINE row == Least(Risk \ visited)
           found == Component(Risk, row)
<1>5. row \in Risk \ visited
  <2>1. Risk \ visited \in SUBSET Nat /\ Risk \ visited # {}
    BY <1>2 DEF NextComponent
  <2> QED
    BY <2>1, LeastIs
<1>6. /\ visited' = visited \cup found
      /\ \/ found \cap Seeds # {} /\ roots' = Strongest(found) /\ doing' = "chunk"
         \/ found \cap Seeds = {} /\ roots' = roots /\ doing' = doing
  BY DEF NextComponent
<1> HIDE DEF row
<1>7. row \in found /\ found \subseteq Risk
  BY <1>2, <1>5, ComponentLeast
<1>8. \A i \in found : Component(Risk, i) = found
  BY <1>2, <1>5, ComponentSame
<1>9. /\ found \cap Seeds # {} => found \subseteq SeededRows
      /\ found \cap Seeds = {} => found \cap SeededRows = {}
  BY <1>2, <1>5, SeededTogether
<1> HIDE DEF found
<1>10. found \in SUBSET Rows
  BY <1>2, <1>7
<1>11. /\ roots' \in Seq(Rows)
       /\ found \cap Seeds # {} => ToSet(roots') = found
  <2>1. Lists(Strongest(found), found)
    BY <1>2, <1>10, StrongestFirst
  <2>2. Strongest(found) \in Seq(found)
    BY ONLY <2>1 DEF Lists
  <2>3. Strongest(found) \in Seq(Rows)
    BY <1>10, <2>2
  <2>4. ToSet(Strongest(found)) = found
    BY <2>1, ListedSet
  <2>5. roots \in Seq(Rows)
    BY <1>1 DEF DiscoveryTypes
  <2> QED
    BY <1>6, <2>3, <2>4, <2>5
<1>12. RiskInv'
  <2>1. /\ visited \subseteq Risk /\ \A i \in visited : Component(Risk, i) \subseteq visited
        /\ assigned \subseteq SeededRows \cap visited /\ roots = <<>> /\ ToSet(roots) = {}
        /\ SeededRows \cap visited \subseteq assigned
        /\ UNION Cores = assigned /\ \A core \in Cores : InOnePiece(core)
    <3>1. roots = <<>>
      BY <1>1 DEF RiskInv
    <3>2. ToSet(roots) = {}
      BY <3>1, EmptySequence
    <3> QED
      BY <1>1, <3>1, <3>2 DEF RiskInv
  <2>2. visited' \subseteq Risk'
    BY <1>4, <1>6, <1>7, <2>1
  <2>3. assigned' \subseteq SeededRows' \cap visited'
    BY <1>3, <1>4, <1>6, <2>1
  <2>4. ToSet(roots') \subseteq SeededRows' \cap visited'
    BY <1>4, <1>6, <1>9, <1>11, <2>1
  <2>5. doing' = "component" => roots' = <<>>
    BY <1>6, <2>1
  <2>6. doing' # "grow" /\ doing # "grow"
    BY <1>1, <1>6
  <2>7. SeededRows' \cap visited' \subseteq assigned' \cup ToSet(roots')
    BY <1>3, <1>4, <1>6, <1>9, <1>11, <2>1
  <2>8. Cores' = Cores
    BY <1>3 DEF Cores
  <2>9. UNION Cores' = assigned' /\ \A core \in Cores' : InOnePiece(core)'
    BY <1>3, <1>4, <2>1, <2>8
  <2>10. \A i \in visited' : Component(Risk, i) \subseteq visited'
    BY <1>6, <1>8, <2>1
  <2>11. \A i \in visited' : Component(Risk, i)' = Component(Risk, i)
    BY <1>4
  <2>12. \A i \in visited' : Component(Risk, i)' \subseteq visited'
    BY <2>10, <2>11
  <2> QED
    BY <1>4, <2>2, <2>3, <2>4, <2>5, <2>6, <2>7, <2>8, <2>9, <2>12 DEF RiskInv
<1>13. doing' \in {"component", "chunk"}
  BY <1>1, <1>6
<1>14. CoreInv'
  <2>1. Apart(candidates)'
    BY <1>1, <1>3, <1>4 DEF Apart
  <2> QED
    BY <1>12, <1>13, <2>1 DEF CoreInv
<1>15. /\ SelectInv'
       /\ locked' \in Seq(RegionSets') /\ accepted' \in Seq(RegionSets')
       /\ pending' \in Seq(RegionSets') /\ skipped' \in Seq(RegionSets')
  <2>1. doing \in Early /\ doing' \in Early
    BY <1>1, <1>13 DEF Early, Searching
  <2> QED
    BY <1>3, <2>1, SelectKeeps
<1>16. DiscoveryTypes'
  <2>1. visited' \subseteq Rows
    BY <1>1, <1>6, <1>10 DEF DiscoveryTypes
  <2> QED
    BY <1>1, <1>3, <1>4, <1>11, <1>15, <2>1 DEF DiscoveryTypes
<1> QED
  BY <1>14, <1>15, <1>16 DEF DiscoveryInv

LEMMA ComponentsDoneKeeps == ASSUME DiscoveryInv, ComponentsDone PROVE DiscoveryInv'
<1>1. DiscoveryTypes /\ Apart(candidates) /\ RiskInv /\ doing = "component" /\ Risk \subseteq visited
  BY DEF DiscoveryInv, CoreInv, ComponentsDone, Searching
<1>2. system \in Systems /\ candidates \in Seq(SUBSET Rows)
  BY <1>1 DEF DiscoveryTypes
<1>3. /\ UNCHANGED <<system, residual, selection>> /\ visited' = {} /\ assigned' = assigned
      /\ roots' = roots /\ chunk' = chunk /\ region_queue' = region_queue /\ candidates' = candidates
  BY DEF ComponentsDone
<1>4. /\ Rows' = Rows /\ Limit' = Limit /\ Seeds' = Seeds /\ SeededRows' = SeededRows
      /\ \A set, i : Component(set, i)' = Component(set, i)
  BY <1>3, SameSystem
<1>5. UNION Cores = SeededRows /\ \A core \in Cores : InOnePiece(core)
  <2>1. roots = <<>> /\ ToSet(roots) = {}
    BY <1>1, EmptySequence DEF RiskInv
  <2>2. SeededRows \subseteq Risk
    BY DEF SeededRows
  <2>3. visited \subseteq Risk /\ assigned \subseteq SeededRows /\ SeededRows \cap visited \subseteq assigned
        /\ UNION Cores = assigned /\ \A core \in Cores : InOnePiece(core)
    BY <1>1, <2>1 DEF RiskInv
  <2> QED
    BY <1>1, <2>2, <2>3
<1>6. Cores' = Cores
  BY <1>3 DEF Cores
<1>7. Apart(candidates)'
  BY <1>1, <1>3, <1>4 DEF Apart
<1>8. ASSUME candidates = <<>> PROVE CoreInv'
  <2>1. doing' = "fallback"
    BY <1>8 DEF ComponentsDone
  <2>2. Cores = {} /\ SeededRows = {}
    BY <1>5, <1>8, EmptySequence DEF Cores
  <2>3. SpareInv'
    BY <1>3, <1>4, <1>6, <2>2 DEF SpareInv
  <2> QED
    BY <1>7, <2>1, <2>3 DEF CoreInv, Searching
<1>9. ASSUME candidates # <<>> PROVE CoreInv'
  <2>1. doing' = "rank"
    BY <1>9 DEF ComponentsDone
  <2>2. \A core \in Cores : core \in SUBSET Rows /\ core # {} /\ Least(core) \in core
    <3> SUFFICES ASSUME NEW core \in Cores PROVE core \in SUBSET Rows /\ core # {} /\ Least(core) \in core
      OBVIOUS
    <3>1. core \in SUBSET Rows
      BY <1>2, SetOf DEF Cores
    <3>2. core # {}
      BY <1>5 DEF InOnePiece
    <3>3. Rows \subseteq Nat
      BY <1>2, SystemFacts
    <3>4. core \in SUBSET Nat
      BY <3>1, <3>3
    <3> QED
      BY <3>1, <3>2, <3>4, LeastIs
  <2>3. \A core \in Cores : Component(core, Least(core)) = core
    BY <1>2, <1>5, <2>2, PieceIsComponent
  <2>4. SeededRows # {}
    <3>1. Len(candidates) \in Nat /\ Len(candidates) # 0
      BY <1>2, <1>9
    <3>2. candidates[1] \in Cores
      BY <1>2, <3>1, SetOf DEF Cores
    <3> QED
      BY <1>5, <2>2, <3>2
  <2>5. CoresFound
    BY <1>5, <2>3, <2>4 DEF CoresFound
  <2>6. \A core \in Cores : Component(core, Least(core))' = Component(core, Least(core))
    BY <1>4
  <2>7. CoresFound'
    BY <1>4, <1>5, <1>6, <2>3, <2>4, <2>6 DEF CoresFound
  <2> QED
    BY <1>7, <2>1, <2>7 DEF CoreInv, Searching
<1>10. doing' \in {"fallback", "rank"}
  BY DEF ComponentsDone
<1>11. /\ SelectInv'
       /\ locked' \in Seq(RegionSets') /\ accepted' \in Seq(RegionSets')
       /\ pending' \in Seq(RegionSets') /\ skipped' \in Seq(RegionSets')
  <2>1. doing \in Early /\ doing' \in Early
    BY <1>1, <1>10 DEF Early, Searching
  <2> QED
    BY <1>3, <2>1, SelectKeeps
<1>12. DiscoveryTypes'
  BY <1>1, <1>3, <1>4, <1>11 DEF DiscoveryTypes
<1> QED
  BY <1>8, <1>9, <1>11, <1>12 DEF DiscoveryInv

LEMMA TailLeft ==
  ASSUME NEW V, NEW seq \in Seq(V), seq # <<>>
  PROVE  /\ Tail(seq) \in Seq(V) /\ Head(seq) \in ToSet(seq)
         /\ ToSet(Tail(seq)) \subseteq ToSet(seq) /\ ToSet(seq) \subseteq ToSet(Tail(seq)) \cup {Head(seq)}
<1> DEFINE rest == Tail(seq)
<1>1. Len(seq) \in Nat /\ Len(seq) # 0 /\ rest \in Seq(V) /\ Len(rest) = Len(seq) - 1
  OBVIOUS
<1>2. Head(seq) = seq[1] /\ \A k \in 1 .. Len(seq) - 1 : rest[k] = seq[k + 1]
  OBVIOUS
<1> HIDE DEF rest
<1>3. Head(seq) \in ToSet(seq)
  BY <1>1, <1>2, SetOf
<1>4. ASSUME NEW x \in ToSet(rest) PROVE x \in ToSet(seq)
  <2>0. rest \in Seq(V)
    BY <1>1
  <2>1. PICK k \in 1 .. Len(rest) : rest[k] = x
    BY <2>0, SetOf
  <2>2. k \in 1 .. Len(seq) - 1 /\ k + 1 \in 1 .. Len(seq)
    BY <1>1
  <2> QED
    BY <1>2, <2>1, <2>2, SetOf
<1>5. ASSUME NEW x \in ToSet(seq) PROVE x \in ToSet(rest) \cup {Head(seq)}
  <2>1. PICK k \in 1 .. Len(seq) : seq[k] = x
    BY SetOf
  <2>2. CASE k = 1
    BY <1>2, <2>1, <2>2
  <2>3. CASE k # 1
    <3>1. k - 1 \in 1 .. Len(rest) /\ k - 1 \in 1 .. Len(seq) - 1 /\ (k - 1) + 1 = k
      BY <1>1, <2>3
    <3>2. rest[k - 1] = x
      BY <1>2, <2>1, <3>1
    <3> QED
      BY <1>1, <3>1, <3>2, SetOf
  <2> QED
    BY <2>2, <2>3
<1> QED
  BY <1>1, <1>3, <1>4, <1>5 DEF rest

LEMMA OneInSequence ==
  ASSUME NEW V, NEW x \in V
  PROVE  <<x>> \in Seq(V) /\ <<x>> # <<>> /\ Len(<<x>>) = 1 /\ Distinct(<<x>>) /\ ToSet(<<x>>) = {x}
<1>1. <<x>> \in Seq(V) /\ Len(<<x>>) = 1 /\ <<x>>[1] = x /\ <<x>> # <<>>
  OBVIOUS
<1>2. Distinct(<<x>>)
  BY <1>1 DEF Distinct
<1>3. ToSet(<<x>>) = {x}
  <2> DEFINE one == <<x>>
  <2>1. one \in Seq(V) /\ Len(one) = 1 /\ one[1] = x
    BY <1>1
  <2> HIDE DEF one
  <2>2. 1 .. Len(one) = {1}
    BY <2>1
  <2>3. \A y \in ToSet(one) : \E k \in 1 .. Len(one) : one[k] = y
    BY <2>1, SetOf
  <2>4. one[1] \in ToSet(one)
    BY <2>1, <2>2, SetOf
  <2>5. ToSet(one) = {x}
    BY <2>1, <2>2, <2>3, <2>4
  <2> QED
    BY <2>5 DEF one
<1> QED
  BY <1>1, <1>2, <1>3

LEMMA RootKeeps == ASSUME DiscoveryInv, Root PROVE DiscoveryInv'
<1>1. DiscoveryTypes /\ Apart(candidates) /\ RiskInv /\ doing = "chunk" /\ roots # <<>>
  BY DEF DiscoveryInv, CoreInv, Root, Searching
<1>2. system \in Systems /\ roots \in Seq(Rows)
  BY <1>1 DEF DiscoveryTypes
<1>3. /\ UNCHANGED <<system, residual, selection>> /\ visited' = visited /\ assigned' = assigned
      /\ roots' = Tail(roots) /\ candidates' = candidates
  BY DEF Root
<1>4. /\ Rows' = Rows /\ Limit' = Limit /\ Risk' = Risk /\ SeededRows' = SeededRows
      /\ \A set, i : Component(set, i)' = Component(set, i)
      /\ \A core : InOnePiece(core)' <=> InOnePiece(core)
  BY <1>3, SameSystem
<1> DEFINE head == Head(roots)
<1>5. \/ /\ head \in assigned /\ doing' = "chunk"
         /\ region_queue' = region_queue /\ chunk' = chunk
      \/ /\ head \notin assigned /\ doing' = "grow"
         /\ region_queue' = <<head>> /\ stamped' = {head} /\ chunk' = {}
  BY <1>1 DEF Root
<1>6. /\ Tail(roots) \in Seq(Rows) /\ head \in ToSet(roots)
      /\ ToSet(Tail(roots)) \subseteq ToSet(roots) /\ ToSet(roots) \subseteq ToSet(Tail(roots)) \cup {head}
  BY <1>1, <1>2, TailLeft
<1> HIDE DEF head
<1>7. /\ visited \subseteq Risk /\ \A i \in visited : Component(Risk, i) \subseteq visited
      /\ assigned \subseteq SeededRows \cap visited /\ ToSet(roots) \subseteq SeededRows \cap visited
      /\ SeededRows \cap visited \subseteq assigned \cup ToSet(roots)
      /\ UNION Cores = assigned /\ \A core \in Cores : InOnePiece(core)
  BY <1>1 DEF RiskInv
<1>8. head \in Rows /\ head \in SeededRows \cap visited
  BY <1>2, <1>6, <1>7, SetOf
<1>9. /\ <<head>> \in Seq(Rows) /\ <<head>> # <<>> /\ Len(<<head>>) = 1
      /\ Distinct(<<head>>) /\ ToSet(<<head>>) = {head}
  BY <1>8, OneInSequence
<1>10. Cores' = Cores
  BY <1>3 DEF Cores
<1>11. RiskInv'
  <2>1. \A i \in visited' : Component(Risk, i)' = Component(Risk, i)
    BY <1>4
  <2>2. visited' \subseteq Risk' /\ \A i \in visited' : Component(Risk, i)' \subseteq visited'
    BY <1>3, <1>4, <1>7, <2>1
  <2>3. assigned' \subseteq SeededRows' \cap visited' /\ ToSet(roots') \subseteq SeededRows' \cap visited'
    BY <1>3, <1>4, <1>6, <1>7
  <2>4. doing' # "component"
    BY <1>5
  <2>5. SeededRows' \cap visited' \subseteq
          assigned' \cup ToSet(roots')
          \cup (IF doing' = "grow" /\ chunk' = {} THEN ToSet(region_queue') ELSE {})
    <3>1. SeededRows \cap visited \subseteq assigned \cup ToSet(Tail(roots)) \cup {head}
      BY <1>6, <1>7
    <3>2. head \in assigned \/ (doing' = "grow" /\ chunk' = {} /\ ToSet(region_queue') = {head})
      BY <1>5, <1>9
    <3> QED
      BY <1>3, <1>4, <3>1, <3>2
  <2>6. UNION Cores' = assigned' \ (IF doing' = "grow" THEN chunk' ELSE {})
    BY <1>3, <1>5, <1>7, <1>10
  <2>7. \A core \in Cores' : InOnePiece(core)'
    BY <1>4, <1>7, <1>10
  <2> QED
    BY <2>2, <2>3, <2>4, <2>5, <2>6, <2>7 DEF RiskInv
<1>12. doing' = "grow" => ChunkInv'
  <2> SUFFICES ASSUME doing' = "grow" PROVE ChunkInv'
    OBVIOUS
  <2>1. head \notin assigned /\ region_queue' = <<head>> /\ stamped' = {head} /\ chunk' = {}
    BY <1>5
  <2>2. Limit \in Nat \ {0} /\ Cardinality({}) = 0
    BY <1>2, SystemFacts, FS_EmptySet
  <2>3. Distinct(region_queue') /\ ToSet(region_queue') = {head} /\ Len(region_queue') = 1 /\ region_queue' # <<>>
    BY <1>9, <2>1
  <2>4. /\ {head} \subseteq stamped' /\ {head} \cap assigned' = {} /\ {head} \subseteq SeededRows' \cap visited'
        /\ chunk' \subseteq assigned' /\ Cardinality(chunk') < Limit'
    BY <1>3, <1>4, <1>8, <2>1, <2>2
  <2>5. Distinct(region_queue)'
    BY <2>3 DEF Distinct
  <2> QED
    BY <2>1, <2>3, <2>4, <2>5 DEF ChunkInv
<1>13. doing' \in {"chunk", "grow"}
  BY <1>5
<1>14. CoreInv'
  <2>1. Apart(candidates)'
    BY <1>1, <1>3, <1>4 DEF Apart
  <2> QED
    BY <1>11, <1>12, <1>13, <2>1 DEF CoreInv
<1>15. /\ SelectInv'
       /\ locked' \in Seq(RegionSets') /\ accepted' \in Seq(RegionSets')
       /\ pending' \in Seq(RegionSets') /\ skipped' \in Seq(RegionSets')
  <2>1. doing \in Early /\ doing' \in Early
    BY <1>1, <1>13 DEF Early, Searching
  <2> QED
    BY <1>3, <2>1, SelectKeeps
<1>16. DiscoveryTypes'
  <2>1. chunk' \subseteq Rows /\ region_queue' \in Seq(Rows)
    BY <1>1, <1>5, <1>9 DEF DiscoveryTypes
  <2> QED
    BY <1>1, <1>3, <1>4, <1>6, <1>15, <2>1 DEF DiscoveryTypes
<1> QED
  BY <1>14, <1>15, <1>16 DEF DiscoveryInv

LEMMA RootsDoneKeeps == ASSUME DiscoveryInv, RootsDone PROVE DiscoveryInv'
<1>1. DiscoveryTypes /\ Apart(candidates) /\ RiskInv /\ doing = "chunk" /\ roots = <<>>
  BY DEF DiscoveryInv, CoreInv, RootsDone, Searching
<1>2. /\ UNCHANGED <<system, residual, selection>> /\ visited' = visited /\ assigned' = assigned
      /\ roots' = roots /\ region_queue' = region_queue /\ chunk' = chunk /\ candidates' = candidates
      /\ doing' = "component"
  BY DEF RootsDone, discovery
<1>3. /\ Rows' = Rows /\ Limit' = Limit /\ Risk' = Risk /\ SeededRows' = SeededRows
      /\ \A set, i : Component(set, i)' = Component(set, i)
      /\ \A core : InOnePiece(core)' <=> InOnePiece(core)
  BY <1>2, SameSystem
<1>4. Cores' = Cores
  BY <1>2 DEF Cores
<1>5. \A i \in visited' : Component(Risk, i)' = Component(Risk, i)
  BY <1>3
<1>6. RiskInv'
  BY <1>1, <1>2, <1>3, <1>4, <1>5 DEF RiskInv
<1>7. CoreInv'
  <2>1. Apart(candidates)'
    BY <1>1, <1>2, <1>3 DEF Apart
  <2> QED
    BY <1>2, <1>6, <2>1 DEF CoreInv
<1>8. /\ SelectInv'
      /\ locked' \in Seq(RegionSets') /\ accepted' \in Seq(RegionSets')
      /\ pending' \in Seq(RegionSets') /\ skipped' \in Seq(RegionSets')
  <2>1. doing \in Early /\ doing' \in Early
    BY <1>1, <1>2 DEF Early, Searching
  <2> QED
    BY <1>2, <2>1, SelectKeeps
<1>9. DiscoveryTypes'
  BY <1>1, <1>2, <1>3, <1>8 DEF DiscoveryTypes
<1> QED
  BY <1>7, <1>8, <1>9 DEF DiscoveryInv

LEMMA WiderSequence ==
  ASSUME NEW A, NEW B, A \subseteq B, NEW seq \in Seq(A)
  PROVE  seq \in Seq(B)
  OBVIOUS

(* What waits for a row of the chunk, and what it leads to, is a queue.    *)
LEMMA Queued ==
  ASSUME NEW D \in SUBSET Nat, IsFiniteSet(D), NEW queue \in Seq(D), Distinct(queue), queue # <<>>,
         NEW more \in SUBSET D, more \cap ToSet(queue) = {}
  PROVE  LET next == Tail(queue) \o Ascending(more)
         IN  /\ next \in Seq(D) /\ Distinct(next)
             /\ ToSet(next) = (ToSet(queue) \ {Head(queue)}) \cup more
<1> DEFINE rest == Tail(queue)
           next == rest \o Ascending(more)
<1>1. /\ rest \in Seq(D) /\ Distinct(rest)
      /\ ToSet(rest) = ToSet(queue) \ {Head(queue)}
  BY RestFacts
<1> HIDE DEF rest
<1>2. IsFiniteSet(ToSet(rest)) /\ Cardinality(ToSet(rest)) = Len(rest) /\ ToSet(rest) \subseteq D
  BY <1>1, DistinctCount, SetOf
<1>3. Lists(rest, ToSet(rest))
  <2>1. \A x \in ToSet(rest) : \E k \in 1 .. Len(rest) : rest[k] = x
    BY <1>1, SetOf
  <2>2. rest \in Seq(ToSet(rest))
    <3>1. Len(rest) \in Nat /\ rest = [k \in 1 .. Len(rest) |-> rest[k]]
      BY <1>1
    <3>2. \A k \in 1 .. Len(rest) : rest[k] \in ToSet(rest)
      BY <1>1, SetOf
    <3>3. [k \in 1 .. Len(rest) |-> rest[k]] \in Seq(ToSet(rest))
      BY <3>1, <3>2
    <3> QED
      BY <3>1, <3>3
  <2>3. \A j, k \in 1 .. Len(rest) : j # k => rest[j] # rest[k]
    BY <1>1 DEF Distinct
  <2> QED
    BY ONLY <1>2, <2>1, <2>2, <2>3 DEF Lists
<1>4. IsFiniteSet(more) /\ more \in SUBSET Int
  <2>1. more \subseteq D /\ IsFiniteSet(D)
    OBVIOUS
  <2>2. IsFiniteSet(more)
    BY ONLY <2>1, FS_Subset
  <2> QED
    BY <2>2
<1>5. Lists(Ascending(more), more)
  BY <1>4, AscendingFacts
<1>6. ToSet(rest) \cap more = {}
  BY <1>1
<1>7. Lists(next, ToSet(rest) \cup more)
  BY <1>2, <1>3, <1>4, <1>5, <1>6, Joined
<1> HIDE DEF next
<1>8. ToSet(next) = ToSet(rest) \cup more
  BY <1>7, ListedSet
<1>9. next \in Seq(ToSet(rest) \cup more) /\ Distinct(next)
  BY <1>7 DEF Lists, Distinct
<1>10. next \in Seq(D)
  <2>1. ToSet(rest) \cup more \subseteq D
    BY <1>2
  <2> QED
    BY ONLY <1>9, <2>1, WiderSequence
<1> QED
  BY <1>1, <1>8, <1>9, <1>10 DEF next, rest

(* A set that is apart from the sets of a sequence can be appended. *)
LEMMA ApartAppended ==
  ASSUME NEW seq \in Seq(SUBSET Rows), Apart(seq), NEW r \in SUBSET Rows,
         r \cap UNION ToSet(seq) = {}, Cardinality(r) \in 1 .. Limit
  PROVE  /\ Append(seq, r) \in Seq(SUBSET Rows) /\ Apart(Append(seq, r))
         /\ ToSet(Append(seq, r)) = ToSet(seq) \cup {r}
<1> DEFINE more == Append(seq, r)
<1>1. /\ more \in Seq(SUBSET Rows) /\ Len(more) = Len(seq) + 1 /\ ToSet(more) = ToSet(seq) \cup {r}
      /\ \A k \in 1 .. Len(seq) : more[k] = seq[k]
  BY AppendedFacts
<1>2. more[Len(seq) + 1] = r /\ Len(seq) \in Nat
  OBVIOUS
<1> HIDE DEF more
<1>3. \A k \in 1 .. Len(seq) : seq[k] \cap r = {}
  BY SetOf
<1>4. \A a \in 1 .. Len(more) : a \in 1 .. Len(seq) \/ a = Len(seq) + 1
  BY <1>1, <1>2
<1>5. \A a, b \in 1 .. Len(more) : a # b => more[a] \cap more[b] = {}
  <2> SUFFICES ASSUME NEW a \in 1 .. Len(more), NEW b \in 1 .. Len(more), a # b
               PROVE  more[a] \cap more[b] = {}
    OBVIOUS
  <2>1. CASE a \in 1 .. Len(seq) /\ b \in 1 .. Len(seq)
    BY <1>1, <2>1 DEF Apart
  <2>2. CASE a \in 1 .. Len(seq) /\ b = Len(seq) + 1
    BY <1>1, <1>2, <1>3, <2>2
  <2>3. CASE a = Len(seq) + 1 /\ b \in 1 .. Len(seq)
    BY <1>1, <1>2, <1>3, <2>3
  <2> QED
    BY <1>4, <2>1, <2>2, <2>3
<1>6. \A a \in 1 .. Len(more) : Cardinality(more[a]) \in 1 .. Limit
  BY <1>1, <1>2, <1>4 DEF Apart
<1> QED
  BY <1>1, <1>5, <1>6 DEF Apart, more

LEMMA GrowKeeps == ASSUME DiscoveryInv, Grow PROVE DiscoveryInv'
<1>1. DiscoveryTypes /\ Apart(candidates) /\ RiskInv /\ ChunkInv /\ doing = "grow"
  BY DEF DiscoveryInv, CoreInv, Grow, Searching
<1>2. /\ system \in Systems /\ region_queue \in Seq(Rows) /\ candidates \in Seq(SUBSET Rows)
      /\ chunk \in SUBSET Rows /\ assigned \in SUBSET Rows
  BY <1>1 DEF DiscoveryTypes
<1>3. /\ Rows \in SUBSET Nat /\ IsFiniteSet(Rows) /\ Risk \in SUBSET Rows /\ Limit \in Nat \ {0}
      /\ Neighbours \in [Rows -> SUBSET Rows] /\ \A i, j \in Rows : j \in Neighbours[i] => i # j
  BY <1>2, SystemFacts
<1>4. /\ UNCHANGED <<system, residual, selection>> /\ visited' = visited /\ roots' = roots
  BY DEF Grow
<1>5. /\ Rows' = Rows /\ Limit' = Limit /\ Risk' = Risk /\ SeededRows' = SeededRows
      /\ Neighbours' = Neighbours
      /\ \A set, i : Component(set, i)' = Component(set, i)
      /\ \A core : InOnePiece(core)' <=> InOnePiece(core)
  BY <1>4, SameSystem
<1> DEFINE row == Head(region_queue)
           more == Frontier(row)
           grown == chunk \cup {row}
           next == Tail(region_queue) \o Ascending(more)
           waiting == ToSet(region_queue)
<1>6. /\ region_queue # <<>> /\ Distinct(region_queue)
      /\ waiting \subseteq stamped /\ waiting \cap assigned = {}
      /\ waiting \subseteq SeededRows \cap visited
      /\ chunk \subseteq assigned /\ Cardinality(chunk) < Limit
      /\ chunk = {} => Len(region_queue) = 1
      /\ chunk # {} => InOnePiece(chunk) /\ \A q \in waiting : \E r \in chunk : q \in Neighbours[r]
  BY <1>1 DEF ChunkInv
<1>7. /\ assigned' = assigned \cup {row} /\ chunk' = grown
      /\ \/ Cardinality(grown) >= Limit /\ region_queue' = <<>> /\ stamped' = stamped
         \/ /\ Cardinality(grown) < Limit
            /\ region_queue' = next /\ stamped' = stamped \cup more
      /\ IF region_queue' = <<>> THEN doing' = "chunk" /\ candidates' = Append(candidates, grown)
         ELSE doing' = doing /\ candidates' = candidates
  <2>1. /\ assigned' = assigned \cup {row} /\ chunk' = grown
        /\ IF Cardinality(grown) >= Limit THEN region_queue' = <<>> /\ stamped' = stamped
           ELSE region_queue' = next /\ stamped' = stamped \cup more
        /\ IF region_queue' = <<>> THEN doing' = "chunk" /\ candidates' = Append(candidates, grown)
           ELSE doing' = doing /\ candidates' = candidates
    BY <1>5 DEF Grow, Limit
  <2>2. IsFiniteSet(grown)
    BY <1>2, <1>3, FS_Subset, FS_AddElement
  <2>3. Cardinality(grown) \in Nat
    BY <2>2, FS_CardinalityType
  <2>4. Cardinality(grown) < Limit <=> ~(Cardinality(grown) >= Limit)
    BY <1>3, <2>3
  <2> HIDE DEF grown, next, more, row
  <2>5. \/ Cardinality(grown) >= Limit /\ region_queue' = <<>> /\ stamped' = stamped
        \/ /\ Cardinality(grown) < Limit
           /\ region_queue' = next /\ stamped' = stamped \cup more
    BY ONLY <2>1, <2>4
  <2> QED
    BY <2>1, <2>5
<1>8. row \in waiting /\ row \in Rows
  BY <1>2, <1>6, RestFacts
<1>9. more = (Neighbours[row] \cap Risk) \ (assigned \cup stamped)
  BY DEF Frontier
<1>10. more \in SUBSET Rows /\ more \cap waiting = {}
  BY <1>3, <1>6, <1>9
<1>11. next \in Seq(Rows) /\ Distinct(next) /\ ToSet(next) = (waiting \ {row}) \cup more
  BY <1>2, <1>3, <1>6, <1>10, Queued
<1>12. chunk = {} => waiting = {row}
  <2> SUFFICES ASSUME chunk = {} PROVE waiting \subseteq {row}
    BY <1>8
  <2>1. Len(region_queue) = 1 /\ region_queue[1] = row
    BY <1>2, <1>6
  <2> QED
    BY <1>2, <2>1, SetOf
<1> HIDE DEF next, more, row, waiting
<1>13. row \notin assigned /\ row \notin chunk /\ row \in SeededRows \cap visited /\ row \in stamped
  BY <1>6, <1>8
<1>14. grown \in SUBSET Rows /\ Cardinality(grown) \in 1 .. Limit
  <2>1. IsFiniteSet(chunk)
    BY <1>2, <1>3, FS_Subset
  <2>2. Cardinality(chunk) \in Nat /\ Cardinality(grown) = Cardinality(chunk) + 1
    BY <1>13, <2>1, FS_CardinalityType, FS_AddElement
  <2> QED
    BY <1>2, <1>3, <1>6, <1>8, <2>2
<1>15. InOnePiece(grown)
  <2>1. CASE chunk = {}
    BY <2>1, RowIsPiece
  <2>2. CASE chunk # {}
    <3>1. PICK r \in chunk : row \in Neighbours[r]
      BY <1>6, <1>8, <2>2
    <3> QED
      BY <1>2, <1>6, <2>2, <3>1, PieceGrows
  <2> QED
    BY <2>1, <2>2
<1>16. more \subseteq SeededRows \cap visited /\ row \notin more
  <2>1. row \in Risk /\ Component(Risk, row) \subseteq visited /\ Component(Risk, row) \cap Seeds # {}
    BY <1>1, <1>13 DEF RiskInv, SeededRows
  <2>2. row \in Component(Risk, row) /\ Stays(Component(Risk, row), Risk)
    BY <1>2, <1>3, <2>1, ComponentLeast
  <2>3. Neighbours[row] \cap Risk \subseteq Component(Risk, row)
    BY <2>2 DEF Stays
  <2>4. Component(Risk, row) \subseteq SeededRows
    BY <1>2, <2>1, SeededTogether
  <2> QED
    BY <1>9, <1>13, <2>1, <2>3, <2>4
<1>17. /\ visited \subseteq Risk /\ \A i \in visited : Component(Risk, i) \subseteq visited
       /\ assigned \subseteq SeededRows \cap visited /\ ToSet(roots) \subseteq SeededRows \cap visited
       /\ SeededRows \cap visited \subseteq assigned \cup ToSet(roots) \cup (IF chunk = {} THEN waiting ELSE {})
       /\ UNION Cores = assigned \ chunk /\ \A core \in Cores : InOnePiece(core)
  BY <1>1 DEF RiskInv, waiting
<1>18. row \in grown /\ chunk' # {} /\ chunk \subseteq grown
  BY <1>7
<1>19. \/ doing' = "grow" /\ candidates' = candidates /\ region_queue' = next /\ next # <<>>
          /\ Cardinality(grown) < Limit /\ stamped' = stamped \cup more
       \/ doing' = "chunk" /\ candidates' = Append(candidates, grown) /\ region_queue' = <<>>
  BY <1>1, <1>7
<1>20. /\ Append(candidates, grown) \in Seq(SUBSET Rows) /\ Apart(Append(candidates, grown))
       /\ ToSet(Append(candidates, grown)) = Cores \cup {grown}
  <2>1. grown \cap UNION Cores = {}
    BY <1>13, <1>17
  <2> QED
    BY <1>1, <1>2, <1>14, <2>1, ApartAppended DEF Cores
<1>21. Cores' = ToSet(candidates')
  BY DEF Cores
<1> HIDE DEF grown
<1>22. RiskInv'
  <2>1. \A i \in visited' : Component(Risk, i)' = Component(Risk, i)
    BY <1>5
  <2>2. visited' \subseteq Risk' /\ \A i \in visited' : Component(Risk, i)' \subseteq visited'
    BY <1>4, <1>5, <1>17, <2>1
  <2>3. assigned' \subseteq SeededRows' \cap visited' /\ ToSet(roots') \subseteq SeededRows' \cap visited'
    BY <1>4, <1>5, <1>7, <1>13, <1>17
  <2>4. doing' # "component"
    BY <1>19
  <2>5. SeededRows' \cap visited' \subseteq
          assigned' \cup ToSet(roots')
          \cup (IF doing' = "grow" /\ chunk' = {} THEN ToSet(region_queue') ELSE {})
    BY <1>4, <1>5, <1>7, <1>12, <1>17, <1>18
  <2>6. UNION Cores' = assigned' \ (IF doing' = "grow" THEN chunk' ELSE {})
    <3>1. CASE doing' = "grow" /\ candidates' = candidates
      <4>1. Cores' = Cores
        BY <1>21, <3>1 DEF Cores
      <4> QED
        BY <1>7, <1>13, <1>17, <3>1, <4>1 DEF grown
    <3>2. CASE doing' = "chunk" /\ candidates' = Append(candidates, grown)
      <4>1. Cores' = Cores \cup {grown}
        BY <1>20, <1>21, <3>2
      <4>2. UNION Cores' = (UNION Cores) \cup grown
        BY ONLY <4>1
      <4>3. assigned' = (assigned \ chunk) \cup grown
        BY <1>6, <1>7 DEF grown
      <4>4. UNION Cores' = assigned'
        BY <1>17, <4>2, <4>3
      <4> QED
        BY <3>2, <4>4
    <3> QED
      BY <1>19, <3>1, <3>2
  <2>7. \A core \in Cores' : InOnePiece(core)'
    <3>1. Cores' \subseteq Cores \cup {grown}
      BY <1>19, <1>20, <1>21 DEF Cores
    <3> QED
      BY <1>5, <1>15, <1>17, <3>1
  <2> QED
    BY <2>2, <2>3, <2>4, <2>5, <2>6, <2>7 DEF RiskInv
<1>23. doing' = "grow" => ChunkInv'
  <2> SUFFICES ASSUME doing' = "grow" PROVE ChunkInv'
    OBVIOUS
  <2>1. region_queue' = next /\ next # <<>> /\ Cardinality(grown) < Limit /\ stamped' = stamped \cup more
    BY <1>19
  <2>2. Distinct(region_queue)' /\ ToSet(region_queue') = (waiting \ {row}) \cup more
    BY <1>11, <2>1 DEF Distinct
  <2>3. ToSet(region_queue') \subseteq stamped'
    BY <1>6, <2>1, <2>2
  <2>4. ToSet(region_queue') \cap assigned' = {}
    BY <1>6, <1>7, <1>9, <1>16, <2>2
  <2>5. ToSet(region_queue') \subseteq SeededRows' \cap visited'
    BY <1>4, <1>5, <1>6, <1>16, <2>2
  <2>6. chunk' \subseteq assigned' /\ Cardinality(chunk') < Limit'
    BY <1>5, <1>6, <1>7, <2>1 DEF grown
  <2>7. InOnePiece(chunk)'
    <3>1. grown # {} /\ \A T \in SUBSET grown : T # {} /\ (\A i \in T : Neighbours[i] \cap grown \subseteq T) => T = grown
      BY <1>15 DEF InOnePiece, Stays
    <3>2. chunk' = grown /\ Neighbours' = Neighbours
      BY <1>5, <1>7
    <3>3. chunk' # {} /\ \A T \in SUBSET chunk' : T # {} /\ (\A i \in T : Neighbours'[i] \cap chunk' \subseteq T) => T = chunk'
      BY <3>1, <3>2
    <3> QED
      BY <3>3 DEF InOnePiece, Stays
  <2>8. \A q \in ToSet(region_queue') : \E r \in chunk' : q \in Neighbours'[r]
    <3> SUFFICES ASSUME NEW q \in (waiting \ {row}) \cup more PROVE \E r \in grown : q \in Neighbours[r]
      BY <1>5, <1>7, <2>2
    <3>1. CASE q \in more
      BY <1>9, <1>18, <3>1
    <3>2. CASE q \in waiting \ {row}
      BY <1>6, <1>12, <1>18, <3>2
    <3> QED
      BY <3>1, <3>2
  <2> QED
    BY <1>18, <2>1, <2>2, <2>3, <2>4, <2>5, <2>6, <2>7, <2>8 DEF ChunkInv
<1>24. CoreInv'
  <2>1. Apart(candidates)'
    BY <1>1, <1>5, <1>19, <1>20 DEF Apart
  <2> QED
    BY <1>19, <1>22, <1>23, <2>1 DEF CoreInv
<1>25. /\ SelectInv'
       /\ locked' \in Seq(RegionSets') /\ accepted' \in Seq(RegionSets')
       /\ pending' \in Seq(RegionSets') /\ skipped' \in Seq(RegionSets')
  <2>1. doing \in Early /\ doing' \in Early
    BY <1>1, <1>19 DEF Early, Searching
  <2> QED
    BY <1>4, <2>1, SelectKeeps
<1>26. DiscoveryTypes'
  <2>1. assigned' \subseteq Rows /\ chunk' \subseteq Rows
    BY <1>2, <1>7, <1>8, <1>14
  <2>2. region_queue' \in Seq(Rows)
    BY <1>11, <1>19, EmptySequence
  <2>3. candidates' \in Seq(SUBSET Rows)
    BY <1>2, <1>19, <1>20
  <2> QED
    BY <1>1, <1>4, <1>5, <1>25, <2>1, <2>2, <2>3 DEF DiscoveryTypes
<1> QED
  BY <1>24, <1>25, <1>26 DEF DiscoveryInv

(* Sequences of sets that are apart, one after the other. *)
LEMMA ApartJoined ==
  ASSUME NEW first \in Seq(SUBSET Rows), Apart(first), NEW second \in Seq(SUBSET Rows), Apart(second),
         (UNION ToSet(first)) \cap (UNION ToSet(second)) = {}
  PROVE  /\ first \o second \in Seq(SUBSET Rows) /\ Apart(first \o second)
         /\ ToSet(first \o second) = ToSet(first) \cup ToSet(second)
<1> DEFINE m == Len(first)
           n == Len(second)
           both == first \o second
<1>1. /\ m \in Nat /\ n \in Nat /\ both \in Seq(SUBSET Rows) /\ Len(both) = m + n
      /\ \A k \in 1 .. m : both[k] = first[k] /\ k \in 1 .. m + n
      /\ \A k \in 1 .. n : both[m + k] = second[k] /\ m + k \in 1 .. m + n
  OBVIOUS
<1>2. /\ \A k \in 1 .. m : first[k] \in ToSet(first) /\ first[k] \subseteq UNION ToSet(first)
      /\ \A k \in 1 .. n : second[k] \in ToSet(second) /\ second[k] \subseteq UNION ToSet(second)
  BY SetOf
<1>3. /\ \A x \in ToSet(first) : \E k \in 1 .. m : first[k] = x
      /\ \A x \in ToSet(second) : \E k \in 1 .. n : second[k] = x
  BY SetOf
<1>4. /\ \A a, b \in 1 .. m : a # b => first[a] \cap first[b] = {}
      /\ \A a, b \in 1 .. n : a # b => second[a] \cap second[b] = {}
      /\ \A a \in 1 .. m : Cardinality(first[a]) \in 1 .. Limit
      /\ \A a \in 1 .. n : Cardinality(second[a]) \in 1 .. Limit
  BY DEF Apart
<1> HIDE DEF m, n, both
<1>5. \A k \in 1 .. m + n : k \in 1 .. m \/ \E c \in 1 .. n : k = m + c
  <2> SUFFICES ASSUME NEW k \in 1 .. m + n, k \notin 1 .. m PROVE \E c \in 1 .. n : k = m + c
    OBVIOUS
  <2>1. k - m \in 1 .. n /\ k = m + (k - m)
    BY <1>1
  <2> QED
    BY <2>1
<1>6. ASSUME NEW a \in 1 .. m, NEW b \in 1 .. n PROVE both[a] \cap both[m + b] = {}
  <2>1. both[a] \subseteq UNION ToSet(first) /\ both[m + b] \subseteq UNION ToSet(second)
    BY <1>1, <1>2
  <2> QED
    BY <2>1
<1>7. \A a, b \in 1 .. m + n : a # b => both[a] \cap both[b] = {}
  <2> SUFFICES ASSUME NEW a \in 1 .. m + n, NEW b \in 1 .. m + n, a # b PROVE both[a] \cap both[b] = {}
    OBVIOUS
  <2>1. CASE a \in 1 .. m /\ b \in 1 .. m
    BY <1>1, <1>4, <2>1
  <2>2. CASE a \in 1 .. m /\ b \notin 1 .. m
    BY <1>5, <1>6, <2>2
  <2>3. CASE a \notin 1 .. m /\ b \in 1 .. m
    BY <1>5, <1>6, <2>3
  <2>4. CASE a \notin 1 .. m /\ b \notin 1 .. m
    <3>1. PICK c \in 1 .. n : a = m + c
      BY <1>5, <2>4
    <3>2. PICK d \in 1 .. n : b = m + d
      BY <1>5, <2>4
    <3>3. c # d /\ both[a] = second[c] /\ both[b] = second[d]
      BY <1>1, <3>1, <3>2
    <3> QED
      BY <1>4, <3>3
  <2> QED
    BY <2>1, <2>2, <2>3, <2>4
<1>8. \A a \in 1 .. m + n : Cardinality(both[a]) \in 1 .. Limit
  <2> SUFFICES ASSUME NEW a \in 1 .. m + n PROVE Cardinality(both[a]) \in 1 .. Limit
    OBVIOUS
  <2>1. CASE a \in 1 .. m
    BY <1>1, <1>4, <2>1
  <2>2. CASE a \notin 1 .. m
    <3>1. PICK c \in 1 .. n : a = m + c
      BY <1>5, <2>2
    <3> QED
      BY <1>1, <1>4, <3>1
  <2> QED
    BY <2>1, <2>2
<1>9. Apart(both)
  BY <1>1, <1>7, <1>8 DEF Apart
<1>10. \A x \in ToSet(both) : \E k \in 1 .. m + n : both[k] = x
  BY <1>1, SetOf
<1>11. \A k \in 1 .. m + n : both[k] \in ToSet(both)
  BY <1>1, SetOf
<1>12. ToSet(both) \subseteq ToSet(first) \cup ToSet(second)
  <2> SUFFICES ASSUME NEW x \in ToSet(both) PROVE x \in ToSet(first) \cup ToSet(second)
    OBVIOUS
  <2>1. PICK k \in 1 .. m + n : both[k] = x
    BY <1>10
  <2>2. CASE k \in 1 .. m
    BY <1>1, <1>2, <2>1, <2>2
  <2>3. CASE k \notin 1 .. m
    <3>1. PICK c \in 1 .. n : k = m + c
      BY <1>5, <2>3
    <3> QED
      BY <1>1, <1>2, <2>1, <3>1
  <2> QED
    BY <2>2, <2>3
<1>13. ToSet(first) \subseteq ToSet(both)
  BY <1>1, <1>3, <1>11
<1>14. ToSet(second) \subseteq ToSet(both)
  BY <1>1, <1>3, <1>11
<1>15. ToSet(both) = ToSet(first) \cup ToSet(second)
  BY <1>12, <1>13, <1>14
<1> QED
  BY <1>1, <1>9, <1>15 DEF both

(* Steps without a component of the risk rows that has a seed. *)
LEMMA FallbackKeeps == ASSUME DiscoveryInv, Fallback PROVE DiscoveryInv'
<1>1. DiscoveryTypes /\ Apart(candidates) /\ SpareInv /\ doing = "fallback"
  BY DEF DiscoveryInv, CoreInv, Fallback
<1>2. /\ system \in Systems /\ residual \in [Rows -> Nat] /\ candidates \in Seq(SUBSET Rows)
      /\ visited \in SUBSET Rows
  BY <1>1 DEF DiscoveryTypes
<1>3. Rows \in SUBSET Nat /\ IsFiniteSet(Rows) /\ Seeds \in SUBSET Rows
  BY <1>2, SystemFacts
<1> DEFINE row == Least(Seeds \ visited)
           found == Component(Seeds, row)
           rows == Strongest(found)
           more == Chunks(rows)
<1>4. /\ UNCHANGED <<system, residual, selection>> /\ assigned' = assigned /\ roots' = roots
      /\ region_queue' = region_queue /\ chunk' = chunk /\ doing' = doing
      /\ visited' = visited \cup found /\ candidates' = candidates \o more
  BY DEF Fallback
<1>5. /\ Rows' = Rows /\ Limit' = Limit /\ Seeds' = Seeds /\ SeededRows' = SeededRows
      /\ \A set, i : Component(set, i)' = Component(set, i)
  BY <1>4, SameSystem
<1>6. row \in Seeds \ visited
  <2>1. Seeds \ visited \in SUBSET Nat /\ Seeds \ visited # {}
    BY <1>3 DEF Fallback
  <2> QED
    BY <2>1, LeastIs
<1> HIDE DEF row
<1>7. row \in found /\ found \subseteq Seeds
  BY <1>2, <1>3, <1>6, ComponentLeast
<1>8. \A i \in found : Component(Seeds, i) = found
  BY <1>2, <1>3, <1>6, ComponentSame
<1> HIDE DEF found
<1>9. found \in SUBSET Rows
  BY <1>3, <1>7
<1>10. Lists(rows, found)
  BY <1>2, <1>9, StrongestFirst
<1>11. ToSet(rows) = found
  BY <1>10, ListedSet
<1> HIDE DEF rows
<1>12. rows \in Seq(Rows) /\ Distinct(rows)
  <2>1. rows \in Seq(found) /\ Distinct(rows)
    BY ONLY <1>10 DEF Lists, Distinct
  <2> QED
    BY <1>9, <2>1, WiderSequence
<1>13. /\ more \in Seq(SUBSET Rows) /\ Apart(more)
       /\ \A i \in 1 .. Len(rows) : \E k \in 1 .. Len(more) : rows[i] \in more[k]
       /\ \A k \in 1 .. Len(more) : more[k] \subseteq found
  BY <1>2, <1>11, <1>12, ChunksFacts
<1> HIDE DEF more
<1>14. UNION ToSet(more) = found
  <2>1. \A core \in ToSet(more) : core \subseteq found
    <3> SUFFICES ASSUME NEW core \in ToSet(more) PROVE core \subseteq found
      OBVIOUS
    <3>1. PICK k \in 1 .. Len(more) : more[k] = core
      BY <1>13, SetOf
    <3> QED
      BY <1>13, <3>1
  <2>2. ASSUME NEW x \in found PROVE \E core \in ToSet(more) : x \in core
    <3>1. PICK i \in 1 .. Len(rows) : rows[i] = x
      BY <1>11, <1>12, SetOf
    <3>2. PICK k \in 1 .. Len(more) : rows[i] \in more[k]
      BY <1>13
    <3>3. more[k] \in ToSet(more)
      BY <1>13, SetOf
    <3> QED
      BY <3>1, <3>2, <3>3
  <2> QED
    BY <2>1, <2>2
<1>15. /\ SeededRows = {} /\ visited \subseteq Seeds
       /\ \A i \in visited : Component(Seeds, i) \subseteq visited
       /\ UNION Cores = visited
       /\ \A core \in Cores : core \subseteq Component(Seeds, Least(core))
  BY <1>1 DEF SpareInv
<1>16. found \cap visited = {}
  <2> SUFFICES ASSUME NEW j \in found, j \in visited PROVE FALSE
    OBVIOUS
  <2>1. Component(Seeds, j) = found /\ Component(Seeds, j) \subseteq visited
    BY <1>8, <1>15
  <2> QED
    BY <1>6, <1>7, <2>1
<1>17. /\ candidates \o more \in Seq(SUBSET Rows) /\ Apart(candidates \o more)
       /\ ToSet(candidates \o more) = Cores \cup ToSet(more)
  <2>1. (UNION Cores) \cap (UNION ToSet(more)) = {}
    BY <1>14, <1>15, <1>16
  <2> QED
    BY <1>1, <1>2, <1>13, <2>1, ApartJoined DEF Cores
<1>18. Cores' = Cores \cup ToSet(more)
  BY <1>4, <1>17 DEF Cores
<1>19. \A core \in ToSet(more) : core \subseteq Component(Seeds, Least(core))
  <2> SUFFICES ASSUME NEW core \in ToSet(more) PROVE core \subseteq Component(Seeds, Least(core))
    OBVIOUS
  <2>1. core \subseteq found
    BY <1>14
  <2>2. core # {} /\ core \in SUBSET Nat
    <3>1. Piecewise(ToSet(more))
      BY <1>2, <1>13, ApartPieces
    <3>2. core # {}
      BY <3>1 DEF Piecewise
    <3> QED
      BY <1>3, <1>9, <2>1, <3>2
  <2>3. Least(core) \in found
    BY <2>1, <2>2, LeastIs
  <2> QED
    BY <1>8, <2>1, <2>3
<1>20. SpareInv'
  <2>1. \A core \in Cores' : core \subseteq Component(Seeds, Least(core))
    BY <1>15, <1>18, <1>19
  <2>2. \A core \in Cores' : Component(Seeds, Least(core))' = Component(Seeds, Least(core))
    BY <1>5
  <2>3. \A core \in Cores' : core \subseteq Component(Seeds, Least(core))'
    BY <2>1, <2>2
  <2>4. UNION Cores' = visited'
    <3>1. UNION Cores' = (UNION Cores) \cup (UNION ToSet(more))
      BY ONLY <1>18
    <3> QED
      BY <1>4, <1>14, <1>15, <3>1
  <2>5. \A i \in visited' : Component(Seeds, i) \subseteq visited'
    BY <1>4, <1>8, <1>15
  <2>6. \A i \in visited' : Component(Seeds, i)' = Component(Seeds, i)
    BY <1>5
  <2>7. \A i \in visited' : Component(Seeds, i)' \subseteq visited'
    BY <2>5, <2>6
  <2>8. SeededRows' = {} /\ visited' \subseteq Seeds'
    BY <1>4, <1>5, <1>7, <1>15
  <2> QED
    BY <2>3, <2>4, <2>7, <2>8 DEF SpareInv
<1>21. CoreInv'
  <2>1. Apart(candidates)'
    BY <1>4, <1>5, <1>17 DEF Apart
  <2> QED
    BY <1>1, <1>4, <1>20, <2>1 DEF CoreInv, Searching
<1>22. /\ SelectInv'
       /\ locked' \in Seq(RegionSets') /\ accepted' \in Seq(RegionSets')
       /\ pending' \in Seq(RegionSets') /\ skipped' \in Seq(RegionSets')
  <2>1. doing \in Early /\ doing' \in Early
    BY <1>1, <1>4 DEF Early, Searching
  <2> QED
    BY <1>4, <2>1, SelectKeeps
<1>23. DiscoveryTypes'
  <2>1. visited' \subseteq Rows /\ candidates' \in Seq(SUBSET Rows)
    BY <1>2, <1>4, <1>9, <1>17
  <2> QED
    BY <1>1, <1>4, <1>5, <1>22, <2>1 DEF DiscoveryTypes
<1> QED
  BY <1>21, <1>22, <1>23 DEF DiscoveryInv

LEMMA FallbackDoneKeeps == ASSUME DiscoveryInv, FallbackDone PROVE DiscoveryInv'
<1>1. DiscoveryTypes /\ Apart(candidates) /\ SpareInv /\ doing = "fallback" /\ Seeds \subseteq visited
  BY DEF DiscoveryInv, CoreInv, FallbackDone
<1>2. /\ UNCHANGED <<system, residual, selection>> /\ visited' = visited /\ assigned' = assigned
      /\ roots' = roots /\ region_queue' = region_queue /\ chunk' = chunk /\ candidates' = candidates
      /\ doing' = "rank"
  BY DEF FallbackDone, discovery
<1>3. /\ Rows' = Rows /\ Limit' = Limit /\ Seeds' = Seeds /\ SeededRows' = SeededRows
      /\ \A set, i : Component(set, i)' = Component(set, i)
  BY <1>2, SameSystem
<1>4. Cores' = Cores
  BY <1>2 DEF Cores
<1>5. /\ SeededRows = {} /\ visited = Seeds /\ UNION Cores = Seeds
      /\ \A core \in Cores : core \subseteq Component(Seeds, Least(core))
  BY <1>1 DEF SpareInv
<1>6. \A core \in Cores : Component(Seeds, Least(core))' = Component(Seeds, Least(core))
  BY <1>3
<1>7. CoresFound'
  BY <1>3, <1>4, <1>5, <1>6 DEF CoresFound
<1>8. CoreInv'
  <2>1. Apart(candidates)'
    BY <1>1, <1>2, <1>3 DEF Apart
  <2> QED
    BY <1>2, <1>7, <2>1 DEF CoreInv, Searching
<1>9. /\ SelectInv'
      /\ locked' \in Seq(RegionSets') /\ accepted' \in Seq(RegionSets')
      /\ pending' \in Seq(RegionSets') /\ skipped' \in Seq(RegionSets')
  <2>1. doing \in Early /\ doing' \in Early
    BY <1>1, <1>2 DEF Early, Searching
  <2> QED
    BY <1>2, <2>1, SelectKeeps
<1>10. DiscoveryTypes'
  BY <1>1, <1>2, <1>3, <1>9 DEF DiscoveryTypes
<1> QED
  BY <1>8, <1>9, <1>10 DEF DiscoveryInv

(* Steps that rank and expand. *)
LEMMA RankKeeps == ASSUME DiscoveryInv, Rank PROVE DiscoveryInv'
<1>1. DiscoveryTypes /\ Apart(candidates) /\ doing = "rank"
  BY DEF DiscoveryInv, CoreInv, Rank
<1>2. /\ system \in Systems /\ residual \in [Rows -> Nat] /\ candidates \in Seq(SUBSET Rows)
  BY <1>1 DEF DiscoveryTypes
<1>3. /\ UNCHANGED <<system, residual, selection>> /\ visited' = visited /\ assigned' = assigned
      /\ roots' = roots /\ region_queue' = region_queue /\ chunk' = chunk /\ candidates' = Ranked
      /\ doing' = "expand"
  BY DEF Rank, discovery
<1>4. Rows' = Rows /\ Limit' = Limit
  BY <1>3, SameSystem
<1>5. Ranked \in Seq(SUBSET Rows) /\ Apart(Ranked)
  BY <1>1, <1>2, RankedFacts
<1>6. CoreInv'
  <2>1. Apart(candidates)'
    BY <1>3, <1>4, <1>5 DEF Apart
  <2> QED
    BY <1>3, <2>1 DEF CoreInv, Searching
<1>7. /\ SelectInv'
      /\ locked' \in Seq(RegionSets') /\ accepted' \in Seq(RegionSets')
      /\ pending' \in Seq(RegionSets') /\ skipped' \in Seq(RegionSets')
  <2>1. doing \in Early /\ doing' \in Early
    BY <1>1, <1>3 DEF Early, Searching
  <2> QED
    BY <1>3, <2>1, SelectKeeps
<1>8. DiscoveryTypes'
  BY <1>1, <1>3, <1>4, <1>5, <1>7 DEF DiscoveryTypes
<1> QED
  BY <1>6, <1>7, <1>8 DEF DiscoveryInv

LEMMA ExpandKeeps == ASSUME DiscoveryInv, Expand PROVE DiscoveryInv'
<1>1. DiscoveryTypes /\ Apart(candidates) /\ SelectInv /\ doing = "expand"
  BY DEF DiscoveryInv, CoreInv, Expand
<1>2. /\ system \in Systems /\ residual \in [Rows -> Nat] /\ candidates \in Seq(SUBSET Rows)
  BY <1>1 DEF DiscoveryTypes
<1>3. /\ UNCHANGED <<system, residual, discovery, candidates>>
      /\ locked' = locked /\ accepted' = accepted /\ skipped' = skipped /\ doing' = "select"
  BY DEF Expand
<1> DEFINE merged == MergeFold[DOMAIN candidates]
<1>4. pending' = merged
  BY ExpandIs
<1>5. /\ merged \in Seq(RegionSets) /\ Distinct(merged) /\ ToSet(merged) \cap ToSet(accepted) = {}
      /\ {Expanded(core) : core \in Cores} \subseteq ToSet(accepted) \cup ToSet(merged)
  <2>1. \A core \in ToSet(candidates) : Cardinality(core) \in 1 .. Limit
    BY <1>1, <1>2, ApartPieces
  <2> QED
    BY <1>2, <2>1, MergedFacts DEF Cores
<1> HIDE DEF merged
<1>6. /\ RegionSets' = RegionSets /\ Option' = Option /\ Cores' = Cores
      /\ \A core : Expanded(core)' = Expanded(core)
      /\ \A seq : FactorBytes(seq)' = FactorBytes(seq)
  BY <1>3, SameSystem DEF Cores
<1>7. accepted = locked /\ skipped = <<>> /\ Distinct(accepted)
  BY <1>1 DEF SelectInv, Early, Searching
<1>8. Selecting'
  <2>1. Distinct(pending)' /\ ToSet(pending') \cap ToSet(accepted') = {}
    BY <1>3, <1>4, <1>5 DEF Distinct
  <2>2. (Affordable(locked) => Affordable(accepted))'
    BY <1>3, <1>7
  <2>3. ToSet(skipped') = {}
    BY <1>3, <1>7, EmptySequence
  <2>4. \A core \in Cores' : Expanded(core)' \in ToSet(accepted') \cup ToSet(pending')
    <3>1. \A core \in Cores : Expanded(core) \in ToSet(accepted) \cup ToSet(merged)
      BY <1>5
    <3>2. \A core \in Cores : Expanded(core)' \in ToSet(accepted) \cup ToSet(merged)
      BY <1>6, <3>1
    <3> QED
      BY <1>3, <1>4, <1>6, <3>2
  <2> QED
    BY <1>3, <1>7, <2>1, <2>2, <2>3, <2>4 DEF Selecting
<1>9. SelectInv'
  <2>1. Len(locked') <= Len(accepted') /\ \A k \in 1 .. Len(locked') : accepted'[k] = locked'[k]
    BY <1>1, <1>3 DEF SelectInv
  <2>2. Distinct(accepted)'
    BY <1>3, <1>7 DEF Distinct
  <2> QED
    BY <1>3, <1>8, <2>1, <2>2 DEF SelectInv, Early, Searching
<1>10. /\ CoreInv'
       /\ system' \in Systems /\ residual' \in [Rows' -> Nat]
       /\ visited' \subseteq Rows' /\ assigned' \subseteq Rows' /\ chunk' \subseteq Rows'
       /\ roots' \in Seq(Rows') /\ region_queue' \in Seq(Rows')
       /\ candidates' \in Seq(SUBSET Rows')
  <2>1. doing' \notin Searching \cup {"fallback", "rank"}
    BY <1>3 DEF Searching
  <2> QED
    BY <1>3, <2>1, CoresKeep
<1>11. DiscoveryTypes'
  <2>1. /\ locked' \in Seq(RegionSets') /\ accepted' \in Seq(RegionSets')
        /\ pending' \in Seq(RegionSets') /\ skipped' \in Seq(RegionSets')
    BY <1>1, <1>3, <1>4, <1>5, <1>6 DEF DiscoveryTypes
  <2> QED
    BY <1>10, <2>1 DEF DiscoveryTypes
<1> QED
  BY <1>9, <1>10, <1>11 DEF DiscoveryInv

(* Steps after the selection, and its start over with another residual. *)
LEMMA SelectionEnds ==
  ASSUME DiscoveryInv, UNCHANGED <<system, residual, discovery, candidates, selection>>,
         doing' \notin Early \cup {"select"}
  PROVE  DiscoveryInv'
<1>1. /\ CoreInv'
      /\ system' \in Systems /\ residual' \in [Rows' -> Nat]
      /\ visited' \subseteq Rows' /\ assigned' \subseteq Rows' /\ chunk' \subseteq Rows'
      /\ roots' \in Seq(Rows') /\ region_queue' \in Seq(Rows')
      /\ candidates' \in Seq(SUBSET Rows')
  <2>1. doing' \notin Searching \cup {"fallback", "rank"}
    BY DEF Early, Searching
  <2> QED
    BY <2>1, CoresKeep
<1>2. locked' = locked /\ accepted' = accepted /\ pending' = pending /\ skipped' = skipped
  BY DEF selection
<1>3. RegionSets' = RegionSets
  BY SameSystem
<1>4. SelectInv /\ DiscoveryTypes
  BY DEF DiscoveryInv
<1>5. SelectInv'
  BY <1>2, <1>4 DEF SelectInv, Distinct
<1>6. DiscoveryTypes'
  BY <1>1, <1>2, <1>3, <1>4 DEF DiscoveryTypes
<1> QED
  BY <1>1, <1>5, <1>6 DEF DiscoveryInv

LEMMA OverBudgetKeeps == ASSUME DiscoveryInv, LockedOverBudget PROVE DiscoveryInv'
<1>1. UNCHANGED <<system, residual, discovery, candidates, selection>> /\ doing' = "error"
  BY DEF LockedOverBudget
<1>2. doing' \notin Early \cup {"select"}
  BY <1>1 DEF Early, Searching
<1> QED
  BY <1>1, <1>2, SelectionEnds

LEMMA StageDoneKeeps == ASSUME DiscoveryInv, StageDone PROVE DiscoveryInv'
<1>1. UNCHANGED <<system, residual, discovery, candidates, selection>> /\ doing' \in {"diagnose", "done"}
  BY DEF StageDone
<1>2. doing' \notin Early \cup {"select"}
  BY <1>1 DEF Early, Searching
<1> QED
  BY <1>1, <1>2, SelectionEnds

LEMMA DiagnoseKeeps == ASSUME DiscoveryInv, Diagnose PROVE DiscoveryInv'
<1>1. DiscoveryTypes /\ SelectInv /\ system \in Systems
  BY DEF DiscoveryInv, DiscoveryTypes
<1>2. /\ system' = system /\ accepted' = accepted /\ pending' = pending /\ skipped' = <<>>
      /\ locked' = accepted /\ doing' = "component"
      /\ visited' = {} /\ assigned' = {} /\ roots' = <<>>
      /\ region_queue' = <<>> /\ chunk' = {} /\ candidates' = <<>>
  BY DEF Diagnose, Fresh
<1>3. Rows' = Rows /\ RegionSets' = RegionSets
  BY <1>2 DEF Rows, RegionSets
<1>4. residual' \in [Rows' -> Nat]
  <2>1. PICK r \in Residuals : residual' = [i \in Rows |-> r[i]]
    BY DEF Diagnose
  <2>2. \A i \in Rows : r[i] \in Nat
    BY <1>1, RegionAssumption DEF Rows
  <2>3. [i \in Rows |-> r[i]] \in [Rows -> Nat]
    BY ONLY <2>2
  <2> QED
    BY <1>3, <2>1, <2>3
<1>5. /\ \A S : <<>> \in Seq(S)
      /\ Len(<<>>) = 0 /\ ToSet(<<>>) = {} /\ 1 .. Len(<<>>) = {}
  BY EmptySequence
<1>6. RiskInv'
  <2>1. Cores' = {}
    BY <1>2, <1>5 DEF Cores
  <2> QED
    BY <1>2, <1>5, <2>1 DEF RiskInv
<1>7. CoreInv'
  <2>1. Apart(candidates)'
    BY <1>2, <1>5 DEF Apart
  <2> QED
    BY <1>2, <1>6, <2>1 DEF CoreInv
<1>8. SelectInv'
  <2>1. accepted \in Seq(RegionSets) /\ Distinct(accepted)
    BY <1>1 DEF DiscoveryTypes, SelectInv
  <2>2. Len(locked') <= Len(accepted') /\ \A k \in 1 .. Len(locked') : accepted'[k] = locked'[k]
    BY <1>2, <2>1
  <2>3. Distinct(accepted)'
    BY <1>2, <2>1 DEF Distinct
  <2> QED
    BY <1>2, <2>2, <2>3 DEF SelectInv
<1>9. DiscoveryTypes'
  BY <1>1, <1>2, <1>3, <1>4, <1>5 DEF DiscoveryTypes
<1> QED
  BY <1>7, <1>8, <1>9 DEF DiscoveryInv

LEMMA DiscoveryStutters == ASSUME DiscoveryInv, UNCHANGED discoveryVars PROVE DiscoveryInv'
<1>1. /\ system' = system /\ residual' = residual /\ doing' = doing /\ visited' = visited
      /\ assigned' = assigned /\ roots' = roots /\ region_queue' = region_queue
      /\ stamped' = stamped /\ chunk' = chunk /\ candidates' = candidates /\ locked' = locked
      /\ accepted' = accepted /\ pending' = pending /\ skipped' = skipped
  BY DEF discoveryVars, discovery, selection
<1>2. /\ Rows' = Rows /\ Neighbours' = Neighbours /\ Option' = Option /\ Limit' = Limit
      /\ Risk' = Risk /\ Seeds' = Seeds /\ SeededRows' = SeededRows
      /\ \A set, row : Component(set, row)' = Component(set, row)
      /\ \A core : Expanded(core)' = Expanded(core)
      /\ \A core : InOnePiece(core)' <=> InOnePiece(core)
      /\ \A seq : FactorBytes(seq)' = FactorBytes(seq)
      /\ RegionSets' = RegionSets
  BY <1>1, SameSystem
<1>3. DiscoveryTypes /\ CoreInv /\ SelectInv
  BY DEF DiscoveryInv
<1>4. DiscoveryTypes'
  BY <1>1, <1>2, <1>3 DEF DiscoveryTypes
<1>5. Cores' = Cores
  BY <1>1 DEF Cores
<1>6. CoreInv'
  <2>1. /\ \A i : Component(Risk, i)' = Component(Risk, i)
        /\ \A i : Component(Seeds, i)' = Component(Seeds, i)
        /\ \A core : Component(Seeds, Least(core))' = Component(Seeds, Least(core))
        /\ \A core : Component(core, Least(core))' = Component(core, Least(core))
    BY <1>2
  <2>2. Apart(candidates)' <=> Apart(candidates)
    BY <1>1, <1>2 DEF Apart
  <2>3. RiskInv' <=> RiskInv
    BY <1>1, <1>2, <1>5, <2>1 DEF RiskInv
  <2>4. InOnePiece(chunk)' <=> InOnePiece(chunk)
    BY <1>1, <1>2 DEF InOnePiece, Stays
  <2>5. ChunkInv' <=> ChunkInv
    BY <1>1, <1>2, <2>4 DEF ChunkInv, Distinct
  <2>6. SpareInv' <=> SpareInv
    BY <1>1, <1>2, <1>5, <2>1 DEF SpareInv
  <2>7. CoresFound' <=> CoresFound
    BY <1>1, <1>2, <1>5, <2>1 DEF CoresFound
  <2> QED
    BY <1>1, <1>3, <2>2, <2>3, <2>5, <2>6, <2>7 DEF CoreInv
<1>7. SelectInv'
  <2>1. /\ Affordable(locked)' <=> Affordable(locked)
        /\ Affordable(accepted)' <=> Affordable(accepted)
        /\ \A r : FitsBudget(r)' <=> FitsBudget(r)
    BY <1>1 DEF Affordable, FitsBudget, Option, FactorBytes, RegionBytes
  <2>2. {Expanded(core) : core \in Cores}' = {Expanded(core) : core \in Cores}
    BY <1>2, <1>5
  <2>3. Distinct(pending)' <=> Distinct(pending)
    BY <1>1 DEF Distinct
  <2>4. Selecting' <=> Selecting
    BY <1>1, <1>2, <2>1, <2>2, <2>3 DEF Selecting
  <2> QED
    BY <1>1, <1>3, <2>4 DEF SelectInv, Distinct
<1> QED
  BY <1>4, <1>6, <1>7 DEF DiscoveryInv

(* The selection. A region that fits is accepted; what was skipped fits    *)
(* even less then.                                                         *)
LEMMA AcceptKeeps ==
  ASSUME DiscoveryInv, doing = "select", UNCHANGED <<system, residual, doing, discovery, candidates>>,
         NEW r \in ToSet(pending), FitsBudget(r), Accept(r)
  PROVE  DiscoveryInv'
<1>1. DiscoveryTypes /\ SelectInv /\ Selecting
  BY DEF DiscoveryInv, SelectInv
<1>2. /\ system \in Systems /\ accepted \in Seq(RegionSets) /\ pending \in Seq(RegionSets)
      /\ skipped \in Seq(RegionSets) /\ locked \in Seq(RegionSets)
  BY <1>1 DEF DiscoveryTypes
<1>3. /\ accepted' = Append(accepted, r) /\ pending' = Among(pending, ToSet(pending) \ {r})
      /\ locked' = locked /\ skipped' = skipped
  BY DEF Accept
<1>4. /\ RegionSets' = RegionSets /\ Option' = Option
      /\ \A core : Expanded(core)' = Expanded(core)
      /\ \A seq : FactorBytes(seq)' = FactorBytes(seq)
  BY SameSystem
<1>5. Cores' = Cores
  BY DEF Cores
<1>6. r \in RegionSets /\ r \notin ToSet(accepted)
  <2>1. r \in RegionSets
    BY <1>2, SetOf
  <2> QED
    BY <1>1, <2>1 DEF Selecting
<1>7. /\ accepted' \in Seq(RegionSets) /\ Len(accepted') = Len(accepted) + 1
      /\ ToSet(accepted') = ToSet(accepted) \cup {r}
      /\ \A k \in 1 .. Len(accepted) : accepted'[k] = accepted[k]
      /\ Distinct(accepted')
  <2>1. Distinct(accepted)
    BY <1>1 DEF SelectInv
  <2> QED
    BY <1>2, <1>3, <1>6, <2>1, AppendedFacts
<1>8. /\ pending' \in Seq(RegionSets) /\ Distinct(pending') /\ ToSet(pending') = ToSet(pending) \ {r}
  <2>1. Distinct(pending)
    BY <1>1 DEF Selecting
  <2>2. /\ pending' \in Seq(RegionSets) /\ Distinct(pending')
        /\ ToSet(pending') = ToSet(pending) \cap (ToSet(pending) \ {r})
    BY <1>2, <1>3, <2>1, AmongFacts
  <2> QED
    BY <2>2
<1>9. \A s \in RegionSets : FitsBudget(s)' => FitsBudget(s)
  <2> SUFFICES ASSUME NEW s \in RegionSets, FitsBudget(s)' PROVE FitsBudget(s)
    OBVIOUS
  <2>1. /\ accepted \in Seq(SUBSET Rows) /\ accepted' \in Seq(SUBSET Rows)
        /\ r \in SUBSET Rows /\ s \in SUBSET Rows
    <3>1. RegionSets \subseteq SUBSET Rows
      BY DEF RegionSets
    <3> QED
      BY <1>2, <1>6, <1>7, <3>1, WiderSequence
  <2>2. /\ FactorBytes(accepted) \in Nat
        /\ FactorBytes(Append(accepted, s)) = FactorBytes(accepted) + RegionBytes(s)
        /\ FactorBytes(Append(accepted, r)) = FactorBytes(accepted) + RegionBytes(r)
    BY <1>2, <2>1, BytesAdd
  <2>3. FactorBytes(Append(accepted', s)) = FactorBytes(accepted') + RegionBytes(s)
    <3> DEFINE now == accepted'
    <3>1. now \in Seq(SUBSET Rows)
      BY <2>1
    <3> HIDE DEF now
    <3>2. FactorBytes(Append(now, s)) = FactorBytes(now) + RegionBytes(s)
      BY <1>2, <2>1, <3>1, BytesAdd
    <3> QED
      BY <3>2 DEF now
  <2>4. RegionBytes(r) \in Nat /\ RegionBytes(s) \in Nat
    BY <1>2, <2>1, RegionBytesType
  <2>5. FactorBytes(Append(accepted', s)) <= Option.max_local_factor_bytes
    BY <1>4 DEF FitsBudget
  <2>6. Option.max_local_factor_bytes \in Nat
    BY <1>2, SystemFacts
  <2> QED
    BY <1>3, <2>2, <2>3, <2>4, <2>5, <2>6 DEF FitsBudget
<1>10. Selecting'
  <2>1. Distinct(pending)' /\ ToSet(pending') \cap ToSet(accepted') = {}
    <3>1. ToSet(pending) \cap ToSet(accepted) = {}
      BY <1>1 DEF Selecting
    <3>2. ToSet(pending') \cap ToSet(accepted') = {}
      BY <1>7, <1>8, <3>1
    <3> QED
      BY <1>8, <3>2 DEF Distinct
  <2>2. Affordable(accepted)'
    BY <1>3, <1>4 DEF FitsBudget, Affordable
  <2>3. \A s \in ToSet(skipped') : ~FitsBudget(s)'
    <3>1. \A s \in ToSet(skipped) : s \in RegionSets /\ ~FitsBudget(s)
      BY <1>1, <1>2, SetOf DEF Selecting
    <3> QED
      BY <1>3, <1>9, <3>1
  <2>4. \A core \in Cores' : Expanded(core)' \in ToSet(accepted') \cup ToSet(skipped') \cup ToSet(pending')
    <3>1. \A core \in Cores : Expanded(core) \in ToSet(accepted) \cup ToSet(skipped) \cup ToSet(pending)
      BY <1>1 DEF Selecting
    <3>2. \A core \in Cores : Expanded(core)' \in ToSet(accepted) \cup ToSet(skipped) \cup ToSet(pending)
      BY <1>4, <3>1
    <3>3. ToSet(accepted) \cup ToSet(skipped) \cup ToSet(pending)
          \subseteq ToSet(accepted') \cup ToSet(skipped') \cup ToSet(pending')
      BY <1>3, <1>7, <1>8
    <3> QED
      BY <1>5, <3>2, <3>3
  <2>5. Option'.local_factor_selection # "CandidateOrder" /\ pending' # <<>> => skipped' = <<>>
    <3>1. pending # <<>>
      BY EmptySequence
    <3> QED
      BY <1>1, <1>3, <1>4, <3>1 DEF Selecting
  <2> QED
    BY <2>1, <2>2, <2>3, <2>4, <2>5 DEF Selecting
<1>11. SelectInv'
  <2>1. Len(locked) <= Len(accepted) /\ \A k \in 1 .. Len(locked) : accepted[k] = locked[k]
    BY <1>1 DEF SelectInv
  <2>2. Len(locked') <= Len(accepted') /\ \A k \in 1 .. Len(locked') : accepted'[k] = locked'[k]
    <3>1. Len(locked) \in Nat /\ Len(accepted) \in Nat
      BY <1>2
    <3> HIDE DEF Accept
    <3> QED
      BY ONLY <1>3, <1>7, <2>1, <3>1
  <2>3. Distinct(accepted)'
    BY <1>7 DEF Distinct
  <2> QED
    BY <1>10, <2>2, <2>3 DEF SelectInv, Early, Searching
<1>12. /\ CoreInv'
       /\ system' \in Systems /\ residual' \in [Rows' -> Nat]
       /\ visited' \subseteq Rows' /\ assigned' \subseteq Rows' /\ chunk' \subseteq Rows'
       /\ roots' \in Seq(Rows') /\ region_queue' \in Seq(Rows')
       /\ candidates' \in Seq(SUBSET Rows')
  <2>1. doing' \notin Searching \cup {"fallback", "rank"}
    BY DEF Searching
  <2> QED
    BY <2>1, CoresKeep
<1>13. DiscoveryTypes'
  BY <1>2, <1>3, <1>4, <1>7, <1>8, <1>12 DEF DiscoveryTypes
<1> QED
  BY <1>11, <1>12, <1>13 DEF DiscoveryInv

(* What does not fit is skipped. *)
LEMMA SkipKeeps ==
  ASSUME DiscoveryInv, doing = "select", UNCHANGED <<system, residual, doing, discovery, candidates>>,
         locked' = locked, accepted' = accepted,
         pending' \in Seq(RegionSets), Distinct(pending'), skipped' \in Seq(RegionSets),
         ToSet(pending) \cup ToSet(skipped) = ToSet(pending') \cup ToSet(skipped'),
         ToSet(pending') \subseteq ToSet(pending),
         \A r \in ToSet(skipped') \ ToSet(skipped) : ~FitsBudget(r),
         Option.local_factor_selection # "CandidateOrder" => pending' = <<>>
  PROVE  DiscoveryInv'
<1>1. DiscoveryTypes /\ SelectInv /\ Selecting
  BY DEF DiscoveryInv, SelectInv
<1>2. /\ RegionSets' = RegionSets /\ Option' = Option
      /\ \A core : Expanded(core)' = Expanded(core)
      /\ \A seq : FactorBytes(seq)' = FactorBytes(seq)
  BY SameSystem
<1>3. Cores' = Cores
  BY DEF Cores
<1>4. /\ \A r : FitsBudget(r)' <=> FitsBudget(r)
      /\ Affordable(locked)' <=> Affordable(locked)
      /\ Affordable(accepted)' <=> Affordable(accepted)
  BY DEF FitsBudget, Affordable, Option, FactorBytes, RegionBytes
<1>5. Selecting'
  <2>1. Distinct(pending)' /\ ToSet(pending') \cap ToSet(accepted') = {}
    <3>1. ToSet(pending) \cap ToSet(accepted) = {}
      BY <1>1 DEF Selecting
    <3> QED
      BY <3>1 DEF Distinct
  <2>2. (Affordable(locked) => Affordable(accepted))'
    BY <1>1, <1>4 DEF Selecting
  <2>3. \A r \in ToSet(skipped') : ~FitsBudget(r)'
    BY <1>1, <1>4 DEF Selecting
  <2>4. \A core \in Cores' : Expanded(core)' \in ToSet(accepted') \cup ToSet(skipped') \cup ToSet(pending')
    <3>1. \A core \in Cores : Expanded(core) \in ToSet(accepted) \cup ToSet(skipped) \cup ToSet(pending)
      BY <1>1 DEF Selecting
    <3>2. \A core \in Cores : Expanded(core)' \in ToSet(accepted) \cup ToSet(skipped) \cup ToSet(pending)
      BY <1>2, <3>1
    <3> QED
      BY <1>3, <3>2
  <2>5. Option'.local_factor_selection # "CandidateOrder" /\ pending' # <<>> => skipped' = <<>>
    BY <1>2
  <2> QED
    BY <2>1, <2>2, <2>3, <2>4, <2>5 DEF Selecting
<1>6. SelectInv'
  BY <1>1, <1>5 DEF SelectInv, Early, Searching, Distinct
<1>7. /\ CoreInv'
      /\ system' \in Systems /\ residual' \in [Rows' -> Nat]
      /\ visited' \subseteq Rows' /\ assigned' \subseteq Rows' /\ chunk' \subseteq Rows'
      /\ roots' \in Seq(Rows') /\ region_queue' \in Seq(Rows')
      /\ candidates' \in Seq(SUBSET Rows')
  <2>1. doing' \notin Searching \cup {"fallback", "rank"}
    BY DEF Searching
  <2> QED
    BY <2>1, CoresKeep
<1>8. DiscoveryTypes'
  BY <1>1, <1>2, <1>7 DEF DiscoveryTypes
<1> QED
  BY <1>6, <1>7, <1>8 DEF DiscoveryInv

LEMMA CandidateOrderKeeps == ASSUME DiscoveryInv, CandidateOrder PROVE DiscoveryInv'
<1>1. DiscoveryTypes /\ Selecting
  BY DEF DiscoveryInv, SelectInv, CandidateOrder
<1>2. pending \in Seq(RegionSets) /\ skipped \in Seq(RegionSets) /\ Distinct(pending) /\ pending # <<>>
  BY <1>1 DEF DiscoveryTypes, Selecting, CandidateOrder
<1>3. /\ doing = "select" /\ UNCHANGED <<system, residual, doing, discovery, candidates>>
      /\ Option.local_factor_selection = "CandidateOrder"
  BY DEF CandidateOrder
<1> DEFINE head == Head(pending)
<1>4. /\ Tail(pending) \in Seq(RegionSets) /\ Distinct(Tail(pending)) /\ head \in RegionSets
      /\ head \in ToSet(pending) /\ ToSet(Tail(pending)) = ToSet(pending) \ {head}
  BY <1>2, RestFacts
<1>5. CASE FitsBudget(head)
  <2>1. Accept(head)
    BY <1>5 DEF CandidateOrder
  <2> QED
    BY <1>3, <1>4, <1>5, <2>1, AcceptKeeps
<1>6. CASE ~FitsBudget(head)
  <2>1. /\ skipped' = Append(skipped, head) /\ pending' = Tail(pending)
        /\ locked' = locked /\ accepted' = accepted
    BY <1>6 DEF CandidateOrder
  <2>2. Append(skipped, head) \in Seq(RegionSets) /\ ToSet(Append(skipped, head)) = ToSet(skipped) \cup {head}
    BY <1>2, <1>4, AppendedFacts
  <2> HIDE DEF head
  <2>3. /\ pending' \in Seq(RegionSets) /\ Distinct(pending') /\ skipped' \in Seq(RegionSets)
        /\ ToSet(pending') = ToSet(pending) \ {head} /\ ToSet(skipped') = ToSet(skipped) \cup {head}
    BY <1>4, <2>1, <2>2
  <2>4. \A r \in ToSet(skipped') \ ToSet(skipped) : ~FitsBudget(r)
    BY <1>6, <2>3
  <2>5. /\ ToSet(pending) \cup ToSet(skipped) = ToSet(pending') \cup ToSet(skipped')
        /\ ToSet(pending') \subseteq ToSet(pending)
    BY <1>4, <2>3
  <2> QED
    BY <1>3, <2>1, <2>3, <2>4, <2>5, SkipKeeps
<1> QED
  BY <1>5, <1>6

LEMMA BestPerByteKeeps == ASSUME DiscoveryInv, BestPerByte PROVE DiscoveryInv'
<1>1. DiscoveryTypes /\ Selecting
  BY DEF DiscoveryInv, SelectInv, BestPerByte
<1>2. /\ system \in Systems /\ residual \in [Rows -> Nat]
      /\ pending \in Seq(RegionSets) /\ skipped \in Seq(RegionSets) /\ Distinct(pending) /\ pending # <<>>
  BY <1>1 DEF DiscoveryTypes, Selecting, BestPerByte
<1>3. /\ doing = "select" /\ UNCHANGED <<system, residual, doing, discovery, candidates>>
      /\ Option.local_factor_selection # "CandidateOrder"
  BY DEF BestPerByte
<1> DEFINE fitting == {r \in ToSet(pending) : FitsBudget(r)}
<1>4. CASE fitting = {}
  <2>1. /\ skipped' = pending /\ pending' = <<>> /\ locked' = locked /\ accepted' = accepted
    BY <1>4 DEF BestPerByte
  <2>2. skipped = <<>>
    BY <1>1, <1>2, <1>3 DEF Selecting
  <2>3. /\ pending' \in Seq(RegionSets) /\ Distinct(pending') /\ skipped' \in Seq(RegionSets)
        /\ ToSet(pending') = {} /\ ToSet(skipped') = ToSet(pending) /\ ToSet(skipped) = {}
    BY <1>2, <2>1, <2>2, EmptySequence
  <2>4. \A r \in ToSet(skipped') \ ToSet(skipped) : ~FitsBudget(r)
    BY <1>4, <2>3
  <2>5. /\ ToSet(pending) \cup ToSet(skipped) = ToSet(pending') \cup ToSet(skipped')
        /\ ToSet(pending') \subseteq ToSet(pending)
    BY <2>3
  <2> QED
    BY <1>3, <2>1, <2>3, <2>4, <2>5, SkipKeeps
<1>5. CASE fitting # {}
  <2> DEFINE best == CHOOSE r \in fitting : \A s \in fitting \ {r} : Better(r, s)
  <2>1. Accept(best)
    BY <1>5 DEF BestPerByte
  <2>2. IsFiniteSet(fitting)
    <3>1. IsFiniteSet(ToSet(pending))
      BY <1>2, DistinctCount
    <3> QED
      BY <3>1, FS_Subset
  <2>3. \A r \in fitting : r \in SUBSET Rows /\ r # {}
    <3>1. \A r \in ToSet(pending) : r \in RegionSets
      BY <1>2, SetOf
    <3> QED
      BY <3>1 DEF RegionSets
  <2> HIDE DEF fitting
  <2>4. \E r \in fitting : \A s \in fitting \ {r} : Better(r, s)
    BY <1>2, <1>5, <2>2, <2>3, BestFits
  <2>5. best \in fitting
    BY <2>4
  <2> HIDE DEF best
  <2>6. best \in ToSet(pending) /\ FitsBudget(best)
    BY <2>5 DEF fitting
  <2> QED
    BY <1>3, <2>1, <2>6, AcceptKeeps
<1> QED
  BY <1>4, <1>5

LEMMA DiscoveryStepKeeps == ASSUME DiscoveryInv, [DiscoveryNext]_discoveryVars PROVE DiscoveryInv'
<1>1. CASE Diagnose
  BY <1>1, DiagnoseKeeps
<1>2. CASE NextComponent
  BY <1>2, NextComponentKeeps
<1>3. CASE ComponentsDone
  BY <1>3, ComponentsDoneKeeps
<1>4. CASE Root
  BY <1>4, RootKeeps
<1>5. CASE RootsDone
  BY <1>5, RootsDoneKeeps
<1>6. CASE Grow
  BY <1>6, GrowKeeps
<1>7. CASE Fallback
  BY <1>7, FallbackKeeps
<1>8. CASE FallbackDone
  BY <1>8, FallbackDoneKeeps
<1>9. CASE Rank
  BY <1>9, RankKeeps
<1>10. CASE Expand
  BY <1>10, ExpandKeeps
<1>11. CASE LockedOverBudget
  BY <1>11, OverBudgetKeeps
<1>12. CASE CandidateOrder
  BY <1>12, CandidateOrderKeeps
<1>13. CASE BestPerByte
  BY <1>13, BestPerByteKeeps
<1>14. CASE StageDone
  BY <1>14, StageDoneKeeps
<1>15. CASE UNCHANGED discoveryVars
  BY <1>15, DiscoveryStutters
<1> QED
  BY <1>1, <1>2, <1>3, <1>4, <1>5, <1>6, <1>7, <1>8, <1>9, <1>10, <1>11, <1>12, <1>13, <1>14, <1>15
  DEF DiscoveryNext

(* What holds of the search and the selection of discover_core_regions and *)
(* select_regions_with_factor_budget after every iteration of their loops: *)
(* chunks in one piece whose queue is next to them, whole components       *)
(* visited, cores apart from each other and within the limit, and of the   *)
(* candidates each accepted, skipped for good, or undecided.               *)
THEOREM DiscoveryAlways == DiscoverySpec => []DiscoveryInv
<1>1. DiscoveryInit => DiscoveryInv
  BY DiscoveryStarts
<1>2. DiscoveryInv /\ [DiscoveryNext]_discoveryVars => DiscoveryInv'
  BY DiscoveryStepKeeps
<1> QED
  BY <1>1, <1>2, PTL DEF DiscoverySpec

LEMMA CoresAreSound == ASSUME DiscoveryInv PROVE CandidatesSound
<1>1. system \in Systems /\ candidates \in Seq(SUBSET Rows) /\ Apart(candidates)
  BY DEF DiscoveryInv, DiscoveryTypes, CoreInv
<1>2. \A a, b \in DOMAIN candidates : a # b => candidates[a] \cap candidates[b] = {}
  BY <1>1 DEF Apart
<1>3. \A core \in ToSet(candidates) : Cardinality(core) \in 1 .. Option.max_local_region_size
  BY <1>1, ApartPieces DEF Limit
<1>4. doing = "rank" => CoresFound
  BY DEF DiscoveryInv, CoreInv
<1> QED
  BY <1>2, <1>3, <1>4 DEF CandidatesSound, CoresFound, Cores, SeededRows

LEMMA StrongestAreKept == ASSUME DiscoveryInv PROVE StrongestKept
<1>1. /\ system \in Systems /\ residual \in [Rows -> Nat]
      /\ candidates \in Seq(SUBSET Rows) /\ Apart(candidates)
  BY DEF DiscoveryInv, DiscoveryTypes, CoreInv
<1>2. \A kept \in ToSet(Ranked), lost \in ToSet(candidates) \ ToSet(Ranked) : Peak(kept) >= Peak(lost)
  BY <1>1, RankedFacts
<1>3. ASSUME NEW core \in ToSet(candidates)
      PROVE  /\ core \subseteq Expanded(core) /\ Expanded(core) \subseteq Ball(core)
             /\ Cardinality(Expanded(core)) = Min({Cardinality(Ball(core)), Limit})
             /\ \A kept \in Expanded(core) \ core, lost \in Ball(core) \ Expanded(core) :
                   residual[kept] >= residual[lost]
  <2>1. core \in SUBSET Rows
    BY <1>1, SetOf
  <2>2. Cardinality(core) \in 1 .. Limit
    BY <1>1, ApartPieces
  <2> QED
    BY <1>1, <2>1, <2>2, ExpandedFacts
<1> QED
  BY <1>2, <1>3 DEF StrongestKept, Ball, Limit, N

LEMMA SelectionIsMaximal == ASSUME DiscoveryInv PROVE SelectionMaximal
<1> SUFFICES ASSUME doing = "select", pending = <<>>, FactorBytes(locked) <= Option.max_local_factor_bytes
             PROVE  /\ SubSeq(accepted, 1, Len(locked)) = locked
                    /\ FactorBytes(accepted) <= Option.max_local_factor_bytes
                    /\ IsInjective(accepted)
                    /\ \A r \in ToSet(skipped) : ~FitsBudget(r)
                    /\ {Expanded(core) : core \in ToSet(candidates)} \subseteq ToSet(accepted) \cup ToSet(skipped)
  BY DEF SelectionMaximal
<1>1. DiscoveryTypes /\ SelectInv /\ Selecting
  BY DEF DiscoveryInv, SelectInv
<1>2. locked \in Seq(RegionSets) /\ accepted \in Seq(RegionSets)
  BY <1>1 DEF DiscoveryTypes
<1>3. SubSeq(accepted, 1, Len(locked)) = locked
  <2> DEFINE head == SubSeq(accepted, 1, Len(locked))
  <2>1. /\ Len(locked) \in Nat /\ Len(accepted) \in Nat /\ Len(locked) <= Len(accepted)
        /\ \A k \in 1 .. Len(locked) : accepted[k] = locked[k]
    BY <1>1, <1>2 DEF SelectInv
  <2>2. head \in Seq(RegionSets) /\ Len(head) = Len(locked) /\ \A k \in 1 .. Len(locked) : head[k] = accepted[k]
    BY <1>2, <2>1
  <2> HIDE DEF head
  <2>3. head = locked
    BY <1>2, <2>1, <2>2
  <2> QED
    BY <2>3 DEF head
<1>4. IsInjective(accepted)
  BY <1>1, <1>2 DEF SelectInv, Distinct, IsInjective
<1>5. ToSet(pending) = {}
  BY EmptySequence
<1> QED
  BY <1>1, <1>3, <1>4, <1>5 DEF Selecting, Affordable, Cores

(* RegionSets are found, grown and selected as the staged solve takes them to *)
(* be, for every system of the SPD class and every residual: the cores are *)
(* disjoint, within the limit and all rows of the risk components with a   *)
(* seed, ranking and expansion keep the strongest, and no candidate is     *)
(* left out of the selection that would still fit the budget.              *)
THEOREM RegionsFound == DiscoverySpec => []RegionsSound
<1>1. DiscoveryInv => RegionsSound
  BY CoresAreSound, StrongestAreKept, SelectionIsMaximal DEF RegionsSound, CoresSound
<1> QED
  BY <1>1, DiscoveryAlways, PTL
=============================================================================
