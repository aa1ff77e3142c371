----------------------------- MODULE StagedSolve ------------------------------
(***************************************************************************)
(* HybitPreparedSystem::solve of hybit-auto for an SPD matrix on the       *)
(* hybrid path, one right-hand side after the other: a probe with the base *)
(* preconditioner, then either a continuation of the same recurrence or    *)
(* escalation stages, each with the local factors learned so far and a     *)
(* recurrence of its own, then a continuation with the strongest           *)
(* preconditioner, which later right-hand sides reuse.                     *)
(*                                                                         *)
(* PCG (hybit-krylov) is modelled with it, an iteration a step: a          *)
(* PcgSession holds the scalars of a recurrence and the one PcgWorkspace   *)
(* of the prepared system its vectors. Residuals are abstracted to what    *)
(* the code tells apart: converged, broken down, or neither, and at the    *)
(* end of a call progress that is poor or not. A preconditioner is the set *)
(* of the regions with a local factor, {} the base alone.                  *)
(***************************************************************************)
EXTENDS Naturals, FiniteSets, FiniteSetsExt

CONSTANTS
    Options,    \* the options to run with
    Regions,    \* regions the diagnostics can find
    Bytes,      \* Bytes[r]: bytes of the factor of region r
    BaseBytes,  \* bytes of the multiplicity array, whatever the regions
    MaxSolves   \* bound: right-hand sides per prepared system

OptionType ==
    [max_iterations : Nat \ {0}, probe_iterations : Nat \ {0},
     stage_iterations : Nat \ {0}, max_escalations : Nat \ {0},
     max_factor_bytes : Nat \ {0}, enabled : BOOLEAN, coarse : BOOLEAN]

ASSUME OptionsAssumption == Options \subseteq OptionType
ASSUME BytesAssumption ==
    /\ IsFiniteSet(Regions) /\ Bytes \in [Regions -> Nat \ {0}] /\ BaseBytes \in Nat
ASSUME SolvesAssumption == MaxSolves \in Nat

VARIABLES
    opt,            \* the options the system was prepared with
    hybrid,         \* the cached local factors, {} for none
    coarse,         \* whether the algebraic coarse space is built
    solves,         \* solve_sequence
    pc,             \* "idle", "start", "run", "return", "escalate", "finish"
    call,           \* the PCG call that is made: "probe", "stage", "final", "cached"
    current_pcg,    \* the session of the recurrence to continue
    stage_pcg,      \* the session of the stage that runs
    workspace,      \* the session whose vectors the workspace holds
    left,           \* iterations the running call may still make
    done,           \* iterations the running call made
    remaining,      \* iterations not spent by the calls that returned
    escalations,    \* stages started
    active,         \* active_regions
    current,        \* current_hybrid, {} for none
    status,         \* outcome.status
    iterations,     \* outcome.iterations
    updates,        \* how often this solve has updated x
    result          \* what the last solve returned

control == <<pc, call, left, done>>
pcgs == <<current_pcg, stage_pcg, workspace>>
learned == <<active, current, escalations>>
outcome == <<status, iterations, remaining>>
vars == <<opt, hybrid, coarse, solves, control, pcgs, learned, outcome, updates, result>>

Statuses == {"Converged", "MaxIterations", "Breakdown"}
NoSession == [id |-> 0, prec |-> {}, finished |-> "none"]

Init ==
    /\ opt \in Options
    /\ hybrid = {} /\ coarse = FALSE /\ solves = 0
    /\ pc = "idle" /\ call = "probe" /\ left = 0 /\ done = 0
    /\ current_pcg = NoSession /\ stage_pcg = NoSession /\ workspace = 0
    /\ active = {} /\ current = {} /\ escalations = 0
    /\ status = "MaxIterations" /\ iterations = 0 /\ remaining = 0
    /\ updates = 0 /\ result = "none"

(* A PCG call of at most budget iterations; it starts with a new session,  *)
(* or continues the current one.                                           *)
Call(c, p, budget) == pc' = p /\ call' = c /\ left' = budget /\ done' = 0

Errors == {"coarse error", "breakdown error", "budget error"}
Raise(why) == /\ pc' = "idle" /\ result' = why
              /\ UNCHANGED <<call, left, done>>

ProbeBudget ==
    IF opt.max_iterations <= 1 THEN opt.max_iterations
    ELSE IF opt.probe_iterations <= opt.max_iterations - 1
    THEN opt.probe_iterations ELSE opt.max_iterations - 1

(* solve: a cached hybrid is used at once; otherwise the coarse space is   *)
(* built the first time, which can fail, and the probe starts.             *)
Solve ==
    /\ pc = "idle" /\ solves < MaxSolves
    /\ solves' = solves + 1
    /\ active' = {} /\ current' = {} /\ escalations' = 0
    /\ status' = "MaxIterations" /\ iterations' = 0 /\ remaining' = opt.max_iterations
    /\ updates' = 0
    /\ current_pcg' = NoSession /\ stage_pcg' = NoSession /\ workspace' = 0
    /\ \/ /\ hybrid # {}
          /\ Call("cached", "start", opt.max_iterations)
          /\ result' = "none"
          /\ UNCHANGED coarse
       \/ /\ hybrid = {}
          /\ coarse' = (opt.enabled /\ opt.coarse)
          /\ Call("probe", "start", ProbeBudget)
          /\ result' = "none"
       \/ /\ hybrid = {} /\ opt.enabled /\ opt.coarse /\ ~coarse
          /\ Raise("coarse error")
          /\ UNCHANGED coarse
    /\ UNCHANGED <<opt, hybrid>>

(* The preconditioner that is passed to the running call.                  *)
Using == CASE call = "cached" -> hybrid
           [] call = "stage"  -> active
           [] OTHER           -> current

Pcg == IF call = "stage" THEN stage_pcg ELSE current_pcg
SetPcg(s) ==
    IF call = "stage" THEN stage_pcg' = s /\ UNCHANGED current_pcg
    ELSE current_pcg' = s /\ UNCHANGED stage_pcg

(* pcg_start_with_workspace: the workspace is overwritten, whether the     *)
(* session starts, has converged already, or r^T M^-1 r is not positive.   *)
Start ==
    /\ pc = "start"
    /\ workspace' = workspace + 1
    /\ \/ \E f \in {"none", "Converged"} :
              SetPcg([id |-> workspace + 1, prec |-> Using, finished |-> f])
          /\ pc' = "run"
          /\ UNCHANGED <<call, left, done, result>>
       \/ /\ Raise("breakdown error")
          /\ UNCHANGED <<current_pcg, stage_pcg>>
    /\ UNCHANGED <<opt, hybrid, coarse, solves, learned, outcome, updates>>

(* One iteration; it ends in Breakdown before x is updated (p^T A p) or    *)
(* after (r^T M^-1 r), in Converged, or goes on.                           *)
Iterate ==
    /\ pc = "run" /\ Pcg.finished = "none" /\ left > 0
    /\ \/ /\ SetPcg([Pcg EXCEPT !.finished = "Breakdown"])
          /\ UNCHANGED <<left, done, updates>>
       \/ /\ \E f \in {"none", "Converged", "Breakdown"} :
                 SetPcg([Pcg EXCEPT !.finished = f])
          /\ left' = left - 1 /\ done' = done + 1 /\ updates' = updates + 1
    /\ UNCHANGED <<opt, hybrid, coarse, solves, pc, call, workspace, learned,
                   outcome, result>>

(* mistakes: a session that has finished is not noticed; the iterations    *)
(* of the stage are not subtracted                                         *)
ReturnAtBudget ==
    /\ pc = "run" /\ left = 0
    /\ pc' = "return"
    /\ status' = (IF Pcg.finished # "none" THEN Pcg.finished ELSE "MaxIterations")
    /\ iterations' = iterations + done
    /\ remaining' = remaining - done
    /\ UNCHANGED <<opt, hybrid, coarse, solves, call, left, done, pcgs, learned,
                   updates, result>>
ReturnUncounted ==
    /\ pc = "run" /\ (Pcg.finished # "none" \/ left = 0)
    /\ pc' = "return"
    /\ status' = (IF Pcg.finished # "none" THEN Pcg.finished ELSE "MaxIterations")
    /\ iterations' = iterations + done
    /\ remaining' = IF call = "stage" THEN remaining ELSE remaining - done
    /\ UNCHANGED <<opt, hybrid, coarse, solves, call, left, done, pcgs, learned,
                   updates, result>>
(* The call returns, at once if the session has finished already; its      *)
(* outcome is combined with that of the calls before.                      *)
Return ==
    /\ pc = "run" /\ (Pcg.finished # "none" \/ left = 0)
    /\ pc' = "return"
    /\ status' = (IF Pcg.finished # "none" THEN Pcg.finished ELSE "MaxIterations")
    /\ iterations' = iterations + done
    /\ remaining' = remaining - done
    /\ UNCHANGED <<opt, hybrid, coarse, solves, call, left, done, pcgs, learned,
                   updates, result>>

(* mistake: factors that led to a breakdown are kept *)
ReportAnyway ==
    /\ pc' = "idle" /\ result' = status
    /\ hybrid' = IF current # {} THEN current ELSE hybrid
    /\ UNCHANGED <<opt, coarse, solves, call, left, done, pcgs, learned, outcome, updates>>
(* The report; the factors are kept for later right-hand sides.            *)
Report ==
    /\ pc' = "idle" /\ result' = status
    /\ hybrid' = IF current # {} /\ status # "Breakdown" THEN current ELSE hybrid
    /\ UNCHANGED <<opt, coarse, solves, call, left, done, pcgs, learned, outcome, updates>>

(* Whether the progress of the call that returned can be found poor: the   *)
(* residual ratio is looked at only if the iterations ran out.             *)
PoorPossible == opt.enabled /\ status = "MaxIterations"

Goto(p) == /\ pc' = p
           /\ UNCHANGED <<opt, hybrid, coarse, solves, call, left, done, pcgs, learned,
                          outcome, updates, result>>
Continue == /\ Call("final", "run", remaining)
            /\ UNCHANGED <<opt, hybrid, coarse, solves, pcgs, learned, outcome,
                           updates, result>>

AfterCached == pc = "return" /\ call = "cached" /\ Report

AfterProbe ==
    /\ pc = "return" /\ call = "probe"
    /\ IF status = "Converged" \/ remaining = 0 THEN Report
       ELSE \/ PoorPossible /\ Goto("escalate")
            \/ Continue

BytesOf(set) == BaseBytes + MapThenSumSet(LAMBDA r : Bytes[r], set)
(* mistakes: the active regions compete with the candidates; a candidate   *)
(* is compared with the budget by itself                                   *)
SelectionsFresh(cands) ==
    {set \in SUBSET cands :
        /\ BytesOf(set) <= opt.max_factor_bytes
        /\ \A r \in cands \ set : BytesOf(set \cup {r}) > opt.max_factor_bytes}
SelectionsAlone(cands) ==
    {active \cup {r \in cands : BytesOf({r}) <= opt.max_factor_bytes}}
(* select_regions_with_factor_budget: regions are added to the active ones *)
(* in the order of the policy (scores are arbitrary), each that fits. As   *)
(* bytes only grow, the outcomes are the sets that no candidate fits into. *)
Selections(cands) ==
    {set \in {active \cup added : added \in SUBSET cands} :
        /\ BytesOf(set) <= opt.max_factor_bytes
        /\ \A r \in cands \ set : BytesOf(set \cup {r}) > opt.max_factor_bytes}

(* mistakes: a stage may get more than is left; the last stage is missed   *)
StageBudgetFixed(n) ==
    IF n >= opt.max_escalations THEN remaining ELSE opt.stage_iterations
StageBudgetStrict(n) ==
    IF n > opt.max_escalations \/ remaining <= opt.stage_iterations
    THEN remaining ELSE opt.stage_iterations
StageBudget(n) ==
    IF n >= opt.max_escalations \/ remaining <= opt.stage_iterations
    THEN remaining ELSE opt.stage_iterations

(* The head of the loop, and what is done only if its condition holds:     *)
(* diagnostics, selection, factorization, and then a stage.                *)
Diagnosed == remaining > 0 /\ escalations < opt.max_escalations

OverBudget ==
    /\ pc = "escalate" /\ Diagnosed /\ BytesOf(active) > opt.max_factor_bytes
    /\ Raise("budget error")
    /\ UNCHANGED <<opt, hybrid, coarse, solves, pcgs, learned, outcome, updates>>

(* The condition is false, or nothing new is found or fits, or a local     *)
(* factorization fails.                                                    *)
LeaveLoop ==
    /\ pc = "escalate"
    /\ Diagnosed => BytesOf(active) <= opt.max_factor_bytes
    /\ Goto("finish")

Escalate ==
    /\ pc = "escalate" /\ Diagnosed /\ BytesOf(active) <= opt.max_factor_bytes
    /\ \E cands \in SUBSET Regions : \E set \in Selections(cands) :
           set # active /\ active' = set
    /\ escalations' = escalations + 1
    /\ Call("stage", "start", StageBudget(escalations + 1))
    /\ UNCHANGED <<opt, hybrid, coarse, solves, pcgs, current, outcome, updates, result>>

(* mistake: the session of the stage is forgotten *)
AfterStageForgotten ==
    /\ pc = "return" /\ call = "stage"
    /\ current' = active
    /\ \/ pc' = "finish"
       \/ status = "MaxIterations" /\ remaining > 0 /\ pc' = "escalate"
    /\ UNCHANGED <<opt, hybrid, coarse, solves, call, left, done, current_pcg, stage_pcg,
                   workspace, active, escalations, outcome, updates, result>>
AfterStage ==
    /\ pc = "return" /\ call = "stage"
    /\ current' = active /\ current_pcg' = stage_pcg
    /\ \/ pc' = "finish"
       \/ status = "MaxIterations" /\ remaining > 0 /\ pc' = "escalate"
    /\ UNCHANGED <<opt, hybrid, coarse, solves, call, left, done, stage_pcg,
                   workspace, active, escalations, outcome, updates, result>>

Finish ==
    /\ pc = "finish"
    /\ IF remaining > 0 /\ status = "MaxIterations" THEN Continue ELSE Report

AfterFinal == pc = "return" /\ call = "final" /\ Report

Step ==
    \/ Start \/ Iterate \/ Return
    \/ AfterCached \/ AfterProbe \/ AfterStage \/ AfterFinal
    \/ OverBudget \/ LeaveLoop \/ Escalate \/ Finish
Next == Solve \/ Step

Spec == Init /\ [][Next]_vars

(* A solve that was called runs on.                                        *)
FairSpec == Spec /\ WF_vars(Step)

-----------------------------------------------------------------------------
SessionType ==
    [id : Nat, prec : SUBSET Regions, finished : {"none", "Converged", "Breakdown"}]

TypeOK ==
    /\ opt \in Options /\ hybrid \in SUBSET Regions /\ coarse \in BOOLEAN
    /\ solves \in 0 .. MaxSolves
    /\ pc \in {"idle", "start", "run", "return", "escalate", "finish"}
    /\ call \in {"probe", "stage", "final", "cached"}
    /\ current_pcg \in SessionType /\ stage_pcg \in SessionType /\ workspace \in Nat
    /\ left \in Nat /\ done \in Nat /\ remaining \in Nat /\ escalations \in Nat
    /\ active \in SUBSET Regions /\ current \in SUBSET Regions
    /\ status \in Statuses /\ iterations \in Nat /\ updates \in Nat
    /\ result \in Statuses \cup Errors \cup {"none"}

(* A recurrence is only advanced with the preconditioner it was started    *)
(* with and with its own vectors in the workspace ("The session is only    *)
(* valid while the operator and preconditioner remain unchanged").         *)
SessionValid ==
    pc = "run" => Pcg.prec = Using /\ Pcg.id = workspace

(* The report counts every update of x, the configured number is never     *)
(* exceeded, and MaxIterations is reported only when it was spent.         *)
IterationsAccounted ==
    /\ updates <= opt.max_iterations
    /\ result \in Statuses =>
           /\ iterations = updates
           /\ result = "MaxIterations" => updates = opt.max_iterations

(* The local factors, in use or cached, fit the memory budget.             *)
FactorsFit ==
    \A set \in {active, current, hybrid} :
        set # {} => BytesOf(set) <= opt.max_factor_bytes

(* A continuation after the last stage is never needed: the last stage had *)
(* all remaining iterations.                                               *)
LastStageTakesAll ==
    pc = "run" /\ call = "final" => escalations < opt.max_escalations

(* Factors are cached once, when the solve that learned them all reports   *)
(* something else than a breakdown; they are never replaced or dropped.    *)
CacheLearned ==
    [][hybrid' # hybrid =>
        /\ hybrid = {} /\ hybrid' = active
        /\ result' \in {"Converged", "MaxIterations"}]_vars

(* "Re-ranking ... must not evict already paid-for local factors".         *)
NothingEvicted ==
    [][pc # "idle" => active \subseteq active' /\ current \subseteq current']_vars

(* Every solve returns.                                                    *)
SolveReturns == pc # "idle" ~> pc = "idle"
=============================================================================
