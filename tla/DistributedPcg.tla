----------------------------- MODULE DistributedPcg ---------------------------
(***************************************************************************)
(* DistributedPcg::solve and solve_adaptive of hybit-distributed: PCG with *)
(* the light preconditioner (rank-constant two-level Jacobi) until a probe *)
(* window shows poor progress; then every rank selects diagonal blocks     *)
(* within its budget, factorizes them, and the recurrence restarts from    *)
(* the true residual with the new preconditioner. The report rests on a    *)
(* last product with x.                                                    *)
(*                                                                         *)
(* The ranks go through every reduction together (SpmdCalls shows that     *)
(* they do), so control is one; what each rank selects, validates and      *)
(* factorizes by itself is not. Residual norms are low (at most the        *)
(* threshold) or high; the recursive one may drift from that of x.         *)
(***************************************************************************)
EXTENDS Integers, FiniteSets, Functions

CONSTANTS
    Ranks,          \* the ranks
    Blocks,         \* contiguous diagonal blocks of a rank
    Bytes,          \* Bytes[q][i]: bytes of the dense factor of block i of rank q
    Calls,          \* the calls to make: options and policy
    ReplayRanks,    \* the number of ranks that masks can be replayed on (8)
    MaxSolves       \* bound: calls per prepared solver

Modes == {"score", "swap", "replay", "replay_no_coarse", "replay_pooled"}
CallType ==
    [adaptive : BOOLEAN, mode : Modes, max_iterations : Nat, probe_iterations : Nat,
     budget : Nat, target : Nat, remove : Nat, add : Nat, masks : [Ranks -> SUBSET Nat]]

ASSUME RanksAssumption == IsFiniteSet(Ranks) /\ Ranks # {}
ASSUME BytesAssumption ==
    /\ IsFiniteSet(Blocks) /\ Blocks \subseteq Nat
    /\ Bytes \in [Ranks -> [Blocks -> Nat \ {0}]]
ASSUME CallsAssumption == Calls \subseteq CallType
ASSUME BoundsAssumption == MaxSolves \in Nat /\ ReplayRanks \in Nat

VARIABLES
    preconditioner, \* per rank: the kind that is installed
    factors,        \* per rank: the blocks with a dense factor
    solves,         \* calls made
    pc,             \* the next piece of solve_impl, "idle" between calls
    call,           \* options and policy of the call
    step,           \* iterations
    escalation,     \* adaptive_escalation_iteration
    direction,      \* per rank: the preconditioner that p and rz were made with
    recursive,      \* the norm of r: "low" or "high"
    true,           \* the norm of b - A x
    mask,           \* per rank: the selected blocks
    traced,         \* whether adaptive_block_trace is filled
    status,         \* what the loop ended with
    result          \* what the last call returned

prepared == <<preconditioner, factors>>
loop == <<step, escalation, direction>>
norms == <<recursive, true>>
vars == <<prepared, solves, pc, call, loop, norms, mask, traced, status, result>>

Statuses == {"Converged", "MaxIterations", "Breakdown"}
Norms == {"low", "high"}
Light == "light"
None == [q \in Ranks |-> {}]

Init ==
    /\ preconditioner = [q \in Ranks |-> Light] /\ factors = None
    /\ solves = 0 /\ pc = "idle" /\ call \in Calls
    /\ step = 0 /\ escalation = 0 /\ direction = preconditioner
    /\ recursive = "high" /\ true = "high"
    /\ mask = None /\ traced = FALSE
    /\ status = "MaxIterations" /\ result = "none"

Fail(why) == pc' = "idle" /\ result' = why
Stop(s) == pc' = "verify" /\ status' = s /\ UNCHANGED result
(* mistake: the limit is not looked at *)
AgainUnbounded == pc' = "iterate" /\ UNCHANGED <<status, result>>
(* The end of an iteration.                                                *)
Again == /\ pc' = (IF step < call.max_iterations THEN "iterate" ELSE "verify")
         /\ UNCHANGED <<status, result>>

(* The check at the entry, reduced over the ranks; the traces are cleared. *)
Solve ==
    /\ pc = "idle" /\ solves < MaxSolves
    /\ solves' = solves + 1 /\ call' \in Calls
    /\ step' = 0 /\ escalation' = 0
    /\ traced' = FALSE /\ mask' = None
    /\ IF \/ call'.max_iterations = 0
          \/ /\ call'.adaptive
             /\ \/ \E q \in Ranks : preconditioner[q] # Light
                \/ call'.probe_iterations \notin 1 .. call'.max_iterations - 1
                \/ call'.budget = 0
       THEN Fail("invalid") /\ UNCHANGED status
       ELSE pc' = "start" /\ status' = "MaxIterations" /\ result' = "none"
    /\ UNCHANGED <<prepared, direction, norms>>

(* r = b - A x, z = M^-1 r, p = z; r^T z must be positive.                 *)
Start ==
    /\ pc = "start"
    /\ \E n \in Norms : true' = n /\ recursive' = n
    /\ direction' = preconditioner
    /\ IF recursive' = "low" THEN Stop("Converged")
       ELSE \/ Stop("Breakdown")
            \/ pc' = "iterate" /\ UNCHANGED <<status, result>>
    /\ UNCHANGED <<prepared, solves, call, step, escalation, mask, traced>>

(* mistake: the window is looked at after the promotion as well            *)
ProbesAlways(s) == call.adaptive /\ s % call.probe_iterations = 0
(* adaptive_window_ratio is looked at, once per window, until a promotion. *)
Probes(s) ==
    call.adaptive /\ escalation = 0 /\ s % call.probe_iterations = 0

(* The product A p, the update of x and r, and the tests of the norm.      *)
Iterate ==
    /\ pc = "iterate"
    /\ \/ Stop("Breakdown") /\ UNCHANGED <<step, norms>>
       \/ /\ step' = step + 1
          /\ true' \in Norms /\ recursive' \in Norms
          /\ \/ Stop("Breakdown")
             \/ recursive' = "low" /\ Stop("Converged")
             \/ /\ recursive' = "high"
                /\ pc' = (IF Probes(step') THEN "window" ELSE "direction")
                /\ UNCHANGED <<status, result>>
    /\ UNCHANGED <<prepared, solves, call, escalation, direction, mask, traced>>

(* z = M^-1 r, p = z + beta p.                                             *)
Direction ==
    /\ pc = "direction"
    /\ \/ Stop("Breakdown")
       \/ Again
    /\ UNCHANGED <<prepared, solves, call, loop, norms, mask, traced>>

RankBudget == call.budget \div Cardinality(Ranks)
FactorBytes(q, set) == SumFunctionOnSet(Bytes[q], set)

(* select_budgeted_blocks goes through the blocks by a score, which can    *)
(* put them in any order, and takes each that still fits: what is left out *)
(* does not fit in the end either.                                         *)
Greedy(q) ==
    {set \in SUBSET Blocks :
        /\ FactorBytes(q, set) <= RankBudget
        /\ \A i \in Blocks \ set : FactorBytes(q, set) + Bytes[q][i] > RankBudget}

(* The progress of the window: acceptable, or poor and blocks are selected.*)
Window ==
    /\ pc = "window"
    /\ \/ pc' = "direction" /\ UNCHANGED mask
       \/ /\ mask' \in {m \in [Ranks -> SUBSET Blocks] : \A q \in Ranks : m[q] \in Greedy(q)}
          /\ pc' = (CASE call.mode = "score" -> "promote"
                      [] call.mode = "swap" -> "swap"
                      [] OTHER -> "replay")
    /\ UNCHANGED <<prepared, solves, call, loop, norms, traced, status, result>>

Swapped(q) == (mask[q] \ {call.remove}) \cup {call.add}

(* swap_selected_block on the target rank; all ranks learn its verdict.    *)
SwapUnchecked ==
    /\ pc = "swap"
    /\ IF /\ call.target \in Ranks /\ {call.remove, call.add} \subseteq Blocks
          /\ call.remove \in mask[call.target] /\ call.add \notin mask[call.target]
       THEN /\ mask' = [mask EXCEPT ![call.target] = Swapped(call.target)]
            /\ pc' = "promote" /\ UNCHANGED result
       ELSE Fail("invalid swap") /\ UNCHANGED mask
    /\ UNCHANGED <<prepared, solves, call, loop, norms, traced, status>>
Swap ==
    /\ pc = "swap"
    /\ IF /\ call.target \in Ranks /\ {call.remove, call.add} \subseteq Blocks
          /\ call.remove \in mask[call.target] /\ call.add \notin mask[call.target]
          /\ FactorBytes(call.target, Swapped(call.target)) <= RankBudget
       THEN /\ mask' = [mask EXCEPT ![call.target] = Swapped(call.target)]
            /\ pc' = "promote" /\ UNCHANGED result
       ELSE Fail("invalid swap") /\ UNCHANGED mask
    /\ UNCHANGED <<prepared, solves, call, loop, norms, traced, status>>

(* replay_reference_mask on each rank; one that rejects stops all.         *)
Replayable(q) ==
    /\ Cardinality(Ranks) = ReplayRanks
    /\ call.masks[q] # {} /\ call.masks[q] \subseteq Blocks
    /\ call.mode # "replay_pooled" => FactorBytes(q, call.masks[q]) <= RankBudget

Replay ==
    /\ pc = "replay"
    /\ IF \A q \in Ranks : Replayable(q)
       THEN /\ mask' = call.masks
            /\ pc' = (IF call.mode = "replay_pooled" THEN "pool" ELSE "promote")
            /\ UNCHANGED result
       ELSE Fail("invalid mask") /\ UNCHANGED mask
    /\ UNCHANGED <<prepared, solves, call, loop, norms, traced, status>>

GlobalBytes(blocks) == SumFunctionOnSet([q \in Ranks |-> FactorBytes(q, blocks[q])], Ranks)
(* The bytes of all ranks share the global budget.                         *)
Pool ==
    /\ pc = "pool"
    /\ IF GlobalBytes(mask) <= call.budget
       THEN pc' = "promote" /\ UNCHANGED result
       ELSE Fail("over budget")
    /\ UNCHANGED <<prepared, solves, call, loop, norms, mask, traced, status>>

Kind == IF call.mode = "replay_no_coarse" THEN "blocks" ELSE "blocks and coarse"

(* mistakes: a rank installs its factors before all have theirs; the       *)
(* recurrence goes on with the new preconditioner; a selection of nothing  *)
(* is tried again                                                          *)
PromoteEarly ==
    /\ pc = "promote" /\ traced' = TRUE
    /\ \E failed \in SUBSET Ranks :
          /\ preconditioner' = [q \in Ranks |->
                                    IF q \in failed THEN preconditioner[q] ELSE Kind]
          /\ factors' = [q \in Ranks |-> IF q \in failed THEN factors[q] ELSE mask[q]]
          /\ IF failed = {}
             THEN escalation' = step /\ pc' = "restart" /\ UNCHANGED result
             ELSE Fail("factorization") /\ UNCHANGED escalation
    /\ UNCHANGED <<solves, call, step, direction, norms, mask, status>>
PromoteOnly ==
    /\ pc = "promote" /\ traced' = TRUE
    /\ escalation' = step /\ pc' = "direction"
    /\ preconditioner' = [q \in Ranks |-> Kind] /\ factors' = mask
    /\ UNCHANGED <<solves, call, step, direction, norms, mask, status, result>>
(* The trace is kept. If no rank selected a block, the iteration goes on   *)
(* as before. Otherwise the ranks factorize, which may fail on any, then   *)
(* prepare the coarse correction, which fails on all; only then is the new *)
(* preconditioner installed.                                               *)
Promote ==
    /\ pc = "promote"
    /\ traced' = TRUE
    /\ \/ /\ mask = None
          /\ pc' = "direction"
          /\ UNCHANGED <<prepared, escalation, result>>
       \/ /\ mask # None
          /\ \E failed \in SUBSET Ranks :
                IF failed = {} THEN
                    /\ preconditioner' = [q \in Ranks |-> Kind] /\ factors' = mask
                    /\ escalation' = step /\ pc' = "restart" /\ UNCHANGED result
                ELSE Fail("factorization") /\ UNCHANGED <<prepared, escalation>>
       \/ /\ mask # None /\ call.mode # "replay_no_coarse"
          /\ Fail("coarse")
          /\ UNCHANGED <<prepared, escalation>>
    /\ UNCHANGED <<solves, call, step, direction, norms, mask, status>>

(* r = b - A x again, and a new direction from it.                         *)
Restart ==
    /\ pc = "restart"
    /\ recursive' = true
    /\ \/ /\ Stop("Breakdown")
          /\ UNCHANGED direction
       \/ /\ recursive' = "low" /\ Stop("Converged")
          /\ UNCHANGED direction
       \/ /\ recursive' = "high" /\ Again
          /\ direction' = preconditioner
    /\ UNCHANGED <<prepared, solves, call, step, escalation, true, mask, traced>>

(* mistake: the status of the recurrence is reported *)
VerifyNothing ==
    /\ pc = "verify" /\ pc' = "idle" /\ result' = status
    /\ UNCHANGED <<prepared, solves, call, loop, norms, mask, traced, status>>
(* The last product; a convergence that it does not confirm is withdrawn.  *)
Verify ==
    /\ pc = "verify" /\ pc' = "idle"
    /\ result' = (IF status = "Converged" /\ true = "high" THEN "MaxIterations" ELSE status)
    /\ UNCHANGED <<prepared, solves, call, loop, norms, mask, traced, status>>

Step ==
    \/ Start \/ Iterate \/ Direction \/ Window \/ Swap \/ Replay \/ Pool
    \/ Promote \/ Restart \/ Verify
Next == Solve \/ Step

Spec == Init /\ [][Next]_vars
-----------------------------------------------------------------------------
Kinds == {Light, "blocks", "blocks and coarse"}
Errors == {"invalid", "invalid swap", "invalid mask", "over budget", "factorization", "coarse"}

TypeOK ==
    /\ preconditioner \in [Ranks -> Kinds] /\ factors \in [Ranks -> SUBSET Blocks]
    /\ solves \in 0 .. MaxSolves /\ call \in Calls
    /\ pc \in {"idle", "start", "iterate", "direction", "window", "swap", "replay", "pool",
               "promote", "restart", "verify"}
    /\ step \in Nat /\ escalation \in Nat /\ direction \in [Ranks -> Kinds]
    /\ pc # "idle" => step <= call.max_iterations
    /\ recursive \in Norms /\ true \in Norms
    /\ mask \in [Ranks -> SUBSET Blocks] /\ traced \in BOOLEAN
    /\ status \in Statuses /\ result \in Statuses \cup Errors \cup {"none"}

(* "Only when the preconditioner changes does PCG restart", and then it    *)
(* does: on every rank a recurrence goes on only with the preconditioner   *)
(* that its direction was made with.                                       *)
OneRecurrence ==
    pc \in {"iterate", "direction"} => direction = preconditioner

(* The ranks always apply the same kind of preconditioner: the coarse      *)
(* correction is a reduction that all must enter.                          *)
SameKind == \A p, q \in Ranks : preconditioner[p] = preconditioner[q]

(* "strict global dense-factor byte cap": the factors that a promotion     *)
(* installs fit the global budget together.                                *)
WithinBudget ==
    escalation > 0 => GlobalBytes(factors) <= call.budget

(* "one promotion": the preconditioner changes once in the life of the     *)
(* solver, from the light one to factors that some rank selected, at a     *)
(* probe; a call that fails leaves it unchanged.                           *)
PromotedOnce ==
    [][prepared' # prepared =>
        /\ \A q \in Ranks : preconditioner[q] = Light
        /\ factors' # None
        /\ step % call.probe_iterations = 0
        /\ result' \notin Errors]_vars

(* "Convergence is ALWAYS checked against a fresh, true b-Ax SpMV";        *)
(* MaxIterations before the maximum means that this check failed.          *)
ReportHonest ==
    /\ result = "Converged" => true = "low"
    /\ result = "MaxIterations" =>
           \/ step = call.max_iterations
           \/ recursive = "low" /\ true = "high"
=============================================================================
