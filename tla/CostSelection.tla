---------------------------- MODULE CostSelection ---------------------------
(* Selection of a contiguous partition by calibrated cost, with evidence   *)
(* kept from earlier measurements: cost_partition.rs and cost_guard.rs. A  *)
(* caller captures timings and prepares a graph proposal for the problem   *)
(* at hand, may change the problem, and selects with what it kept. Digests *)
(* are taken to be free of collisions; imbalance caps are per mille.       *)
EXTENDS FieldPartition

CONSTANTS
    Problems,   \* [matrix, values, at, fields, ranks, radius, environment]
    Policies,   \* [calls, caps, minimum]; caps of rows and of stored entries
    Timings     \* [baseline, graph, prepare], nanoseconds

(* A layout has at least one block and no empty one; times and counts are  *)
(* unsigned.                                                               *)
IsLayout(at) ==
    /\ IsFiniteSet(DOMAIN at) /\ Blocks(at) > 0
    /\ DOMAIN at = 0 .. Blocks(at) /\ at \in [DOMAIN at -> Nat]
    /\ at[0] = 0 /\ \A b \in 1 .. Blocks(at) : at[b - 1] < at[b]
ASSUME CostAssumption ==
    /\ \A p \in Problems : IsLayout(p.at) /\ p.ranks \in Nat /\ p.radius \in Nat
    /\ Timings \subseteq [baseline : Nat, graph : Nat, prepare : Nat]
    /\ \A policy \in Policies : policy.calls \in Nat /\ policy.minimum \in Nat

VARIABLES
    problem,      \* the live inputs of the next call
    calibration,  \* ScopedPartitionCostCalibration kept by the caller, or NoEvidence
    candidate,    \* PreparedCostGraphCandidate kept by the caller, or NoEvidence
    answer        \* of a selection, with what it was given, until the next call
costVars == <<problem, calibration, candidate, answer>>

NoEvidence == [none |-> TRUE]
Prepared(it) == it # NoEvidence

(* What partition_telemetry measures: volume, cut and peers; the largest   *)
(* share of a rank and all there is, of rows and of stored entries.        *)
Stats(matrix, offsets) ==
    LET stored == [i \in Nodes(matrix) |-> Cardinality(Row(matrix, i))]
    IN  [traffic |-> Telemetry(matrix, offsets),
         largest |-> <<Max({OwnedLen(offsets, r) : r \in RanksOf(offsets)}),
                       Max({SumFunctionOnSet(stored, OwnedRange(offsets, r)) : r \in RanksOf(offsets)})>>,
         total |-> <<matrix.n, SumFunction(stored)>>]
NoWorse(a, b) == \A k \in DOMAIN a : a[k] <= b[k]
StructurallyDominates(a, b) == NoWorse(a.traffic, b.traffic) /\ NoWorse(a.largest, b.largest)

(* The dimensions and rank counts that the partitioners accept. *)
Served(p) == TotalDofs(p.at) = p.matrix.n /\ p.ranks \in 1 .. Blocks(p.at)

Contiguous(p, kind, offsets) ==
    [kind |-> kind, offsets |-> offsets, stats |-> Stats(p.matrix, offsets)]

(* Uniform ranges replace the block-aligned ones only where they split no  *)
(* block and dominate.                                                     *)
Preferred(p, uniform, field) ==
    IF /\ CutsStartBlocks(p.at, uniform.offsets)
       /\ StructurallyDominates(uniform.stats, field.stats)
    THEN uniform ELSE field
Baseline ==
    [p \in {q \in Problems : Served(q)} |->
        Preferred(p, Contiguous(p, "Equal", BalancedOffsets(p.matrix.n, p.ranks)),
                     Contiguous(p, "Field", Offsets(p.at, AlignedCuts(p.at, p.ranks))))]

(* field_graph_contiguous_partition, with what its comparison reports. *)
Compared(p, cuts) ==
    [proposed |-> Contiguous(p, "Graph", Offsets(p.at, cuts)),
     radius |-> p.radius, accepted |-> cuts # AlignedCuts(p.at, p.ranks)]
Proposal ==
    [p \in {q \in Problems : Served(q)} |->
        Compared(p, FieldGraphCuts(p.matrix, p.at, p.ranks, p.radius))]

(* All that must match before a graph is prepared or used. *)
Identity(p) ==
    [matrix_pattern |-> p.matrix, matrix_values |-> p.values,
     physical_layout |-> <<p.at, p.fields>>, environment |-> p.environment, ranks |-> p.ranks,
     search_radius_blocks |-> p.radius, baseline_kind |-> Baseline[p].kind]

Overloaded(policy, stats, ranks) ==
    \E k \in 1 .. 2 : 1000 * ranks * stats.largest[k] > policy.caps[k] * stats.total[k]

(* Why the baseline stands, in the order of the checks: those that need no *)
(* graph first.                                                            *)
CheapReasons == <<"SingleRank", "NoExpectedReuse", "ZeroSearchRadius", "NoCalibration",
                  "NoCalibratedSpeedup", "UnamortizedPreparation">>
GraphReasons == <<"GraphProposalRejected", "GraphNotDistinct", "GraphDoesNotDominateBaseline",
                  "LoadImbalanceLimit">>
ReasonHolds(reason, it) ==
    LET p == it.problem
        gain == it.timing.baseline - it.timing.graph
    IN  \/ reason = "SingleRank" /\ p.ranks = 1
        \/ reason = "NoExpectedReuse" /\ it.policy.calls = 0
        \/ reason = "ZeroSearchRadius" /\ p.radius = 0
        \/ reason = "NoCalibration" /\ it.timing = NoEvidence
        \/ reason = "NoCalibratedSpeedup" /\ gain <= 0
        \/ /\ reason = "UnamortizedPreparation"
           /\ gain * it.policy.calls - it.timing.prepare <= it.policy.minimum
        \/ reason = "GraphProposalRejected" /\ ~it.graph.accepted
        \/ /\ reason = "GraphNotDistinct"
           /\ it.graph.proposed.offsets = it.baseline.offsets
        \/ /\ reason = "GraphDoesNotDominateBaseline"
           /\ ~NoWorse(it.graph.proposed.stats.traffic, it.baseline.stats.traffic)
        \/ /\ reason = "LoadImbalanceLimit"
           /\ Overloaded(it.policy, it.graph.proposed.stats, p.ranks)

(* The first of the reasons that holds, or "none": later ones may have no  *)
(* meaning where an earlier one holds.                                     *)
FirstReason(reasons, it) ==
    IF \A k \in DOMAIN reasons : ~ReasonHolds(reasons[k], it) THEN "none"
    ELSE reasons[CHOOSE k \in DOMAIN reasons :
                    /\ \A j \in 1 .. k - 1 : ~ReasonHolds(reasons[j], it)
                    /\ ReasonHolds(reasons[k], it)]

(* cost_aware_contiguous_partition_with_graph, with a kept proposal or one *)
(* that is made where it is needed.                                        *)
Keeps(it, reason) == [kind |-> it.baseline.kind, offsets |-> it.baseline.offsets, decision |-> reason]
Refused(why) == [kind |-> "error", decision |-> why]
Decided(it, cheap, costly) ==
    IF cheap # "none" THEN Keeps(it, cheap)
    ELSE IF it.graph.radius # it.problem.radius THEN Refused("other radius")
    ELSE IF costly # "none" THEN Keeps(it, costly)
    ELSE [kind |-> "Graph", offsets |-> it.graph.proposed.offsets, decision |-> "GraphSelected"]
Weighed(it) == Decided(it, FirstReason(CheapReasons, it), FirstReason(GraphReasons, it))
CostAware(p, policy, timing, kept) ==
    Weighed([problem |-> p, policy |-> policy, timing |-> timing, baseline |-> Baseline[p],
             graph |-> IF Prepared(kept) THEN kept ELSE Proposal[p]])

(* A mistake: only the timings are compared with the live problem. *)
GuardTimingsOnly(p, scoped, kept) ==
    IF ~Prepared(scoped) THEN "Missing"
    ELSE IF scoped.identity = Identity(p) THEN "Matched" ELSE "ScopeMismatch"

(* Evidence counts if all that was kept is of the live problem. *)
Guard(p, scoped, kept) ==
    IF \E it \in {scoped, kept} : Prepared(it) /\ it.identity # Identity(p) THEN "ScopeMismatch"
    ELSE IF Prepared(scoped) THEN "Matched" ELSE "Missing"

(* Evidence that does not count is left out of the selection. *)
SelectGuarded(p, policy, scoped, kept, guard) ==
    CostAware(p, policy, IF guard = "Matched" THEN scoped.timings ELSE NoEvidence,
              IF guard = "Matched" /\ Prepared(kept) THEN kept.graph ELSE NoEvidence)
Scoped(p, policy, scoped, kept) ==
    LET guard == Guard(p, scoped, kept)
    IN  [guard |-> guard, chosen |-> SelectGuarded(p, policy, scoped, kept, guard)]
-----------------------------------------------------------------------------
CostInit ==
    /\ problem \in Problems
    /\ calibration = NoEvidence /\ candidate = NoEvidence /\ answer = NoEvidence

(* The caller moves to another problem, with its evidence. *)
Change ==
    /\ problem' \in Problems \ {problem}
    /\ answer' = NoEvidence /\ UNCHANGED <<calibration, candidate>>

(* capture_partition_calibration *)
Capture ==
    /\ Served(problem)
    /\ \E timing \in Timings :
          /\ timing.baseline > 0 /\ timing.graph > 0
          /\ calibration' = [identity |-> Identity(problem), timings |-> timing]
    /\ answer' = NoEvidence /\ UNCHANGED <<problem, candidate>>

(* prepare_cost_graph_candidate_scoped *)
Prepare ==
    /\ Served(problem)
    /\ candidate' = [identity |-> Identity(problem), graph |-> Proposal[problem]]
    /\ answer' = NoEvidence /\ UNCHANGED <<problem, calibration>>

(* cost_aware_contiguous_partition_scoped, or its _prepared form where the *)
(* caller passes its proposal.                                             *)
Select ==
    \E policy \in Policies, scoped \in {calibration, NoEvidence}, kept \in {candidate, NoEvidence} :
        /\ answer' =
              [policy |-> policy, scoped |-> scoped, kept |-> kept,
               report |-> IF Served(problem) /\ (\A k \in 1 .. 2 : policy.caps[k] >= 1000)
                          THEN Scoped(problem, policy, scoped, kept)
                          ELSE [guard |-> "none", chosen |-> Refused("invalid")]]
        /\ UNCHANGED <<problem, calibration, candidate>>

CostNext == Change \/ Capture \/ Prepare \/ Select
CostSpec == CostInit /\ [][CostNext]_costVars
-----------------------------------------------------------------------------
(* A selection is warranted: a retained proposal never fails or changes    *)
(* it; what is not the graph is the baseline of the live problem; and a    *)
(* graph splits no block, moves no more than that baseline, keeps both     *)
(* caps of this call on the live matrix, and by timings that were taken    *)
(* for the live problem saves more than it costs.                          *)
GraphPays(chosen) ==
    LET policy == answer.policy
        timing == answer.scoped.timings
        measured == Stats(problem.matrix, chosen.offsets)
    IN  /\ answer.scoped.identity = Identity(problem)
        /\ chosen.offsets # Baseline[problem].offsets
        /\ NoWorse(measured.traffic, Baseline[problem].stats.traffic)
        /\ ~Overloaded(policy, measured, problem.ranks)
        /\ policy.calls * timing.graph + timing.prepare + policy.minimum
              < policy.calls * timing.baseline
Warranted(chosen) ==
    /\ chosen.kind \in {"Equal", "Field", "Graph"}
    /\ chosen.kind # "Graph" => chosen.offsets = Baseline[problem].offsets
    /\ chosen.kind = "Graph" => GraphPays(chosen)
    /\ answer.report.guard = "Matched" =>
          CostAware(problem, answer.policy, answer.scoped.timings, NoEvidence) = chosen
WholeBlocks(chosen) ==
    IsPartition(chosen.offsets, problem.matrix.n) /\ CutsStartBlocks(problem.at, chosen.offsets)
SelectionWarranted ==
    answer # NoEvidence =>
        LET chosen == answer.report.chosen
        IN  chosen.decision # "invalid" => Warranted(chosen) /\ WholeBlocks(chosen)
-----------------------------------------------------------------------------
(* evaluate_robust_cost of robust_cost.rs: whether a measured gain pays    *)
(* for what it costs to find and prepare a graph partition. All quantities *)
(* are nanoseconds below M, the number of u64 values; sums and products    *)
(* are of u128. An epoch is a pair of paired medians.                      *)
Gains(epochs) == {epochs[i].baseline - epochs[i].graph : i \in DOMAIN epochs}
IsLeast(g, S) == g \in S /\ \A h \in S : g <= h
LeastGain(epochs) == CHOOSE g \in Gains(epochs) : IsLeast(g, Gains(epochs))

(* saturating_sub, and a quarter more, rounded up.                         *)
RawExtra(it) ==
    LET spent == it.probe + it.selector + it.graph_setup
    IN  IF spent < it.baseline_setup THEN 0 ELSE spent - it.baseline_setup
Extra(it) == RawExtra(it) + (RawExtra(it) + 3) \div 4
Threshold(it) == Extra(it) + it.minimum
Savings(it) == LeastGain(it.epochs) * it.calls
RequiredCalls(it) == Threshold(it) \div LeastGain(it.epochs) + 1

RobustDecision(it) ==
    IF Len(it.epochs) < 3 THEN "InsufficientEpochs"
    ELSE IF \E i \in DOMAIN it.epochs : it.epochs[i].baseline = 0 \/ it.epochs[i].graph = 0
    THEN "InvalidTimings"
    ELSE IF \E g \in Gains(it.epochs) : g <= 0 THEN "NoConsistentPairedGain"
    ELSE IF Savings(it) > Threshold(it) THEN "Admit" ELSE "UnamortizedTotalCost"

CostInputs(M) ==
    [epochs : Seq([baseline : 0 .. M - 1, graph : 0 .. M - 1]), calls : 0 .. M - 1,
     probe : 0 .. M - 1, baseline_setup : 0 .. M - 1, graph_setup : 0 .. M - 1,
     selector : 0 .. M - 1, minimum : 0 .. M - 1]

(* What admission means: by every single epoch, and not only by the least  *)
(* gain, the expected calls save strictly more than a budget that covers   *)
(* all that was and will be spent on the graph, with a quarter of it again,*)
(* and the minimum; and it is what the reported number of calls announces. *)
AdmissionPays(it) ==
    RobustDecision(it) = "Admit" =>
        \A i \in DOMAIN it.epochs :
            4 * (it.epochs[i].baseline - it.epochs[i].graph) * it.calls
                > 5 * (it.probe + it.selector + it.graph_setup - it.baseline_setup)
                    + 4 * it.minimum
CallsAnnounce(it) ==
    RobustDecision(it) \in {"Admit", "UnamortizedTotalCost"} =>
        (RobustDecision(it) = "Admit" <=> it.calls >= RequiredCalls(it))
(* No sum or product leaves u128, whatever the inputs. *)
FitsU128(M, it) ==
    RobustDecision(it) \in {"Admit", "UnamortizedTotalCost"} =>
        /\ Savings(it) \in 0 .. M * M - 1
        /\ Threshold(it) \in 0 .. M * M - 1
        /\ RequiredCalls(it) \in 1 .. M * M - 1
RobustCostSound(M, it) == AdmissionPays(it) /\ CallsAnnounce(it) /\ FitsU128(M, it)
=============================================================================
