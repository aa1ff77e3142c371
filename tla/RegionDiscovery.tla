-------------------------- MODULE RegionDiscovery ---------------------------
(* Where an escalation of the staged solve gets its regions from: risk and *)
(* residual diagnostics, connected chunks of limited size, overlap, and a  *)
(* selection under the memory budget, stage after stage. The matrix is     *)
(* symmetric (the SPD class) with off-diagonal entries of magnitude 1; one *)
(* step is one iteration of a loop of discover_core_regions or of          *)
(* select_regions_with_factor_budget.                                      *)
EXTENDS PartitionGraph

CONSTANTS
    Systems,        \* matrices with their diagonals, and HybridOptions
    Residuals,      \* magnitudes of b - A x a stage may find
    MaxStages       \* max_escalations

(* HybridOptions::validate, and what a system of the SPD class is. *)
ASSUME RegionAssumption ==
    /\ \A it \in Systems :
          /\ IsPattern(it.matrix) /\ it.diagonal \in [Nodes(it.matrix) -> Nat \ {0}]
          /\ it.options.max_local_region_size \in Nat \ {0}
          /\ it.options.max_local_regions \in Nat \ {0}
          /\ it.options.overlap_layers \in Nat
          /\ it.options.max_local_factor_bytes \in Nat \ {0}
          /\ \A r \in Residuals : \A i \in Nodes(it.matrix) : r[i] \in Nat

VARIABLES
    system,
    residual,
    stage,          \* escalations completed
    doing,
    visited,        \* component_visited
    assigned,       \* claimed: rows of chunks
    roots,          \* rows of the component at hand not yet tried as a root
    region_queue,
    stamped,        \* rows that were queued for this chunk
    chunk,          \* the region that grows
    candidates,     \* core regions found, as sets
    locked,         \* regions with factors of earlier stages
    accepted,       \* regions with factors, in the order of their acceptance
    pending,        \* expanded candidates the selection has not decided
    skipped         \* those that did not fit

discovery == <<visited, assigned, roots, region_queue, stamped, chunk>>
selection == <<locked, accepted, pending, skipped>>
discoveryVars == <<system, residual, stage, doing, discovery, candidates, selection>>

Rows == Nodes(system.matrix)
Neighbours == UndirectedAdjacency(system.matrix)
Option == system.options
Least(set) == Min(set)

(* numerical_risk_mask: strong coupling, or a jump between diagonals.      *)
Risk ==
    LET diagonal == system.diagonal
        Coupled(i) == Cardinality(Neighbours[i]) >= Option.coupling_risk_threshold * diagonal[i]
        Jumps(i) == Option.scale_jump_threshold = 1 \/ \E j \in Neighbours[i] :
            \/ diagonal[i] >= Option.scale_jump_threshold * diagonal[j]
            \/ diagonal[j] >= Option.scale_jump_threshold * diagonal[i]
    IN  {i \in Rows : Coupled(i) \/ Jumps(i)}

(* residual_seed_mask; the fraction is given in halves. *)
LargestResidual(r) == Max({r[i] : i \in DOMAIN r})
Seeds ==
    {i \in Rows : LargestResidual(residual) > 0
                  /\ 2 * residual[i] >= Option.residual_seed_halves * LargestResidual(residual)}

Component(set, row) ==
    LET inside == [i \in Rows |-> IF i \in set THEN Neighbours[i] \cap set ELSE {}]
        distance == Distances(inside, {row})
    IN  {i \in set : distance[i] < system.matrix.n}

Strongest(set) ==
    Sorted(set, LAMBDA i, j : Exceeds(<<residual[i], -i>>, <<residual[j], -j>>))

Fresh ==
    /\ visited' = {} /\ assigned' = {} /\ roots' = <<>>
    /\ region_queue' = <<>> /\ stamped' = {} /\ chunk' = {} /\ candidates' = <<>>

DiscoveryInit ==
    /\ system \in Systems
    /\ residual = [i \in Rows |-> 0]
    /\ stage = 0 /\ doing = "diagnose"
    /\ visited = {} /\ assigned = {} /\ roots = <<>>
    /\ region_queue = <<>> /\ stamped = {} /\ chunk = {}
    /\ candidates = <<>> /\ locked = <<>> /\ accepted = <<>> /\ pending = <<>> /\ skipped = <<>>

Diagnose ==
    /\ doing = "diagnose"
    /\ \E r \in Residuals : residual' = [i \in Rows |-> r[i]]
    /\ Fresh /\ skipped' = <<>>
    /\ doing' = "component"
    /\ locked' = accepted
    /\ UNCHANGED <<system, stage, accepted, pending>>

(* The next component of the risk rows; its rows become roots, strongest   *)
(* residual first, if there is a seed among them.                          *)
NextComponent ==
    /\ doing = "component" /\ ~(Risk \subseteq visited)
    /\ LET found == Component(Risk, Least(Risk \ visited))
       IN  /\ visited' = visited \cup found
           /\ IF found \cap Seeds # {}
              THEN roots' = Strongest(found) /\ doing' = "chunk"
              ELSE UNCHANGED <<roots, doing>>
    /\ UNCHANGED <<system, residual, stage, assigned, region_queue, stamped, chunk, candidates, selection>>

ComponentsDone ==
    /\ doing = "component" /\ Risk \subseteq visited
    /\ doing' = IF candidates = <<>> THEN "fallback" ELSE "rank"
    /\ visited' = {}
    /\ UNCHANGED <<system, residual, stage, assigned, roots, region_queue, stamped, chunk, candidates,
                   selection>>

Root ==
    /\ doing = "chunk" /\ roots # <<>>
    /\ roots' = Tail(roots)
    /\ IF Head(roots) \in assigned THEN UNCHANGED <<doing, region_queue, stamped, chunk>>
       ELSE /\ region_queue' = <<Head(roots)>> /\ stamped' = {Head(roots)} /\ chunk' = {}
            /\ doing' = "grow"
    /\ UNCHANGED <<system, residual, stage, visited, assigned, candidates, selection>>

RootsDone ==
    /\ doing = "chunk" /\ roots = <<>>
    /\ doing' = "component"
    /\ UNCHANGED <<system, residual, stage, discovery, candidates, selection>>

Frontier(row) == (Neighbours[row] \cap Risk) \ (assigned \cup stamped)

(* One row of the chunk, in breadth-first order, until it is full.         *)
Grow ==
    /\ doing = "grow"
    /\ LET row == Head(region_queue)
       IN  /\ assigned' = assigned \cup {row}
           /\ chunk' = chunk \cup {row}
           /\ IF Cardinality(chunk') >= Option.max_local_region_size
              THEN region_queue' = <<>> /\ UNCHANGED stamped
              ELSE /\ region_queue' = Tail(region_queue) \o Ascending(Frontier(row))
                   /\ stamped' = stamped \cup Frontier(row)
    /\ IF region_queue' = <<>> THEN doing' = "chunk" /\ candidates' = Append(candidates, chunk')
       ELSE UNCHANGED <<doing, candidates>>
    /\ UNCHANGED <<system, residual, stage, visited, roots, selection>>

(* No component has a seed: the seeds themselves, component by component,  *)
(* are cut into chunks of the strongest.                                   *)
Chunks(rows) ==
    LET size == Option.max_local_region_size
    IN  [k \in 1 .. (Len(rows) + size - 1) \div size |->
            {rows[i] : i \in (k - 1) * size + 1 .. Min({k * size, Len(rows)})}]

Fallback ==
    /\ doing = "fallback" /\ ~(Seeds \subseteq visited)
    /\ LET found == Component(Seeds, Least(Seeds \ visited))
       IN  /\ visited' = visited \cup found
           /\ candidates' = candidates \o Chunks(Strongest(found))
    /\ UNCHANGED <<system, residual, stage, doing, assigned, roots, region_queue, stamped, chunk, selection>>

FallbackDone ==
    /\ doing = "fallback" /\ Seeds \subseteq visited
    /\ doing' = "rank"
    /\ UNCHANGED <<system, residual, stage, discovery, candidates, selection>>
-----------------------------------------------------------------------------
Peak(set) == Max({residual[i] : i \in set})

ByPeak(set) ==
    Sorted(set, LAMBDA a, b : Exceeds(<<Peak(a), -Least(a)>>, <<Peak(b), -Least(b)>>))
Truncated(seq) == SubSeq(seq, 1, Min({Len(seq), Option.max_local_regions}))

RankedFirst == ByPeak(ToSet(Truncated(candidates)))   \* a mistake: sorted too late
(* By peak, then by first row; the strongest are kept.                     *)
Ranked == Truncated(ByPeak(ToSet(candidates)))

Rank ==
    /\ doing = "rank"
    /\ candidates' = Ranked
    /\ doing' = "expand"
    /\ UNCHANGED <<system, residual, stage, discovery, selection>>

(* expand_regions_with_overlap: layers of neighbours; of a region that is *)
(* too large the core and the strongest others stay.                       *)
OneHop(set) == set \cup UNION {Neighbours[i] : i \in set}
Expanded(core) ==
    LET ball == FoldLeft(LAMBDA set, k : OneHop(set), core, [k \in 1 .. Option.overlap_layers |-> k])
        room == Option.max_local_region_size - Cardinality(core)
        others == Strongest(ball \ core)
    IN  core \cup ToSet(SubSeq(others, 1, Min({room, Len(others)})))

(* merge_unique_regions of the accepted with the expanded regions.         *)
Expand ==
    LET Add(seq, core) ==
            IF Expanded(core) \in ToSet(accepted) \cup ToSet(seq) THEN seq
            ELSE Append(seq, Expanded(core))
    IN  /\ doing = "expand"
        /\ pending' = FoldLeft(Add, <<>>, candidates)
        /\ doing' = "select"
        /\ UNCHANGED <<system, residual, stage, discovery, candidates, locked, accepted, skipped>>

(* estimated_factor_bytes: the multiplicities, and per region its indices,*)
(* the packed triangle, weights and two scratch vectors.                   *)
RegionBytes(set) ==
    LET n == Cardinality(set) IN 8 * n + 8 * ((n * (n + 1)) \div 2) + 8 * n + 16 * n
FactorBytes(seq) == 2 * system.matrix.n + SumFunction([k \in DOMAIN seq |-> RegionBytes(seq[k])])

FitsAlone(r) == FactorBytes(<<r>>) <= Option.max_local_factor_bytes   \* a mistake
FitsBudget(r) == FactorBytes(Append(accepted, r)) <= Option.max_local_factor_bytes

Accept(r) ==
    /\ accepted' = Append(accepted, r) /\ pending' = Among(pending, ToSet(pending) \ {r})
    /\ UNCHANGED <<locked, skipped>>

(* The factors there are must fit before any candidate is looked at.       *)
LockedOverBudget ==
    /\ doing = "select" /\ FactorBytes(accepted) > Option.max_local_factor_bytes
    /\ doing' = "error"
    /\ UNCHANGED <<system, residual, stage, discovery, candidates, selection>>

CandidateOrder ==
    /\ doing = "select" /\ Option.local_factor_selection = "CandidateOrder"
    /\ pending # <<>> /\ FactorBytes(accepted) <= Option.max_local_factor_bytes
    /\ IF FitsBudget(Head(pending)) THEN Accept(Head(pending))
       ELSE /\ skipped' = Append(skipped, Head(pending)) /\ pending' = Tail(pending)
            /\ UNCHANGED <<locked, accepted>>
    /\ UNCHANGED <<system, residual, stage, doing, discovery, candidates>>

(* Residual energy on rows that no accepted region covers; the Jacobi      *)
(* energy divides it by the diagonal, here in parts of EnergyUnit (exactly *)
(* where the diagonal divides it).                                         *)
EnergyUnit == 8
Weight(i) ==
    IF Option.local_factor_selection = "BenefitPerByte" THEN EnergyUnit
    ELSE EnergyUnit \div system.diagonal[i]
Benefit(r) ==
    SumFunctionOnSet([i \in Rows |-> residual[i] * residual[i] * Weight(i)],
                     r \ UNION ToSet(accepted))

(* Score, benefit, fewer bytes, and last the order of their rows. *)
Better(a, b) ==
    LET score_a == Benefit(a) * RegionBytes(b)
        score_b == Benefit(b) * RegionBytes(a)
    IN  \/ score_a > score_b
        \/ score_a = score_b /\ Benefit(a) > Benefit(b)
        \/ /\ score_a = score_b /\ Benefit(a) = Benefit(b)
           /\ \/ RegionBytes(a) < RegionBytes(b)
              \/ RegionBytes(a) = RegionBytes(b) /\ Least((a \ b) \cup (b \ a)) \in a

BestPerByte ==
    /\ doing = "select" /\ Option.local_factor_selection # "CandidateOrder"
    /\ pending # <<>> /\ FactorBytes(accepted) <= Option.max_local_factor_bytes
    /\ LET fitting == {r \in ToSet(pending) : FitsBudget(r)}
       IN  IF fitting = {}
           THEN skipped' = pending /\ pending' = <<>> /\ UNCHANGED <<locked, accepted>>
           ELSE Accept(CHOOSE r \in fitting : \A s \in fitting \ {r} : Better(r, s))
    /\ UNCHANGED <<system, residual, stage, doing, discovery, candidates>>

(* The loop of the solve is left if nothing was accepted; otherwise the    *)
(* solve may need another stage or not.                                    *)
StageDone ==
    /\ doing = "select" /\ pending = <<>> /\ FactorBytes(accepted) <= Option.max_local_factor_bytes
    /\ IF accepted = locked THEN doing' = "done" /\ UNCHANGED stage
       ELSE /\ stage' = stage + 1
            /\ doing' \in IF stage' < MaxStages THEN {"diagnose", "done"} ELSE {"done"}
    /\ UNCHANGED <<system, residual, discovery, candidates, selection>>

DiscoveryNext ==
    \/ Diagnose \/ NextComponent \/ ComponentsDone
    \/ Root \/ RootsDone \/ Grow
    \/ Fallback \/ FallbackDone
    \/ Rank \/ Expand
    \/ LockedOverBudget \/ CandidateOrder \/ BestPerByte \/ StageDone

DiscoverySpec == DiscoveryInit /\ [][DiscoveryNext]_discoveryVars
-----------------------------------------------------------------------------
(* "Harvest several connected residual-centered chunks": cores are         *)
(* disjoint, never larger than the limit, and together all rows of the     *)
(* risk components with a seed, each a connected piece of one; without     *)
(* such a component they are the seeds, and a core lies in one component.  *)
CandidatesSound ==
    /\ \A a, b \in DOMAIN candidates : a # b => candidates[a] \cap candidates[b] = {}
    /\ \A core \in ToSet(candidates) : Cardinality(core) \in 1 .. Option.max_local_region_size
    /\ doing = "rank" =>
          LET seeded == {i \in Risk : Component(Risk, i) \cap Seeds # {}}
              cores == ToSet(candidates)
          IN  IF seeded # {}
              THEN /\ UNION cores = seeded
                   /\ \A core \in cores : Component(core, Least(core)) = core
              ELSE /\ UNION cores = Seeds
                   /\ \A core \in cores : core \subseteq Component(Seeds, Least(core))

(* "Core DOFs are never discarded" and "strongest residual first": the     *)
(* limit on the number of regions drops no core that is stronger than one  *)
(* it keeps, and the limit on their size no core row, and no row of the    *)
(* overlap that is stronger than one it keeps.                             *)
StrongestKept ==
    /\ doing = "rank" =>
          \A kept \in ToSet(Ranked), lost \in ToSet(candidates) \ ToSet(Ranked) :
              Peak(kept) >= Peak(lost)
    /\ doing = "expand" =>
          \A core \in ToSet(candidates) :
              LET distance == Distances(Neighbours, core)
                  ball == {i \in Rows : distance[i] <= Option.overlap_layers /\ distance[i] < system.matrix.n}
              IN  /\ core \subseteq Expanded(core) /\ Expanded(core) \subseteq ball
                  /\ Cardinality(Expanded(core)) =
                        Min({Cardinality(ball), Option.max_local_region_size})
                  /\ \A kept \in Expanded(core) \ core, lost \in ball \ Expanded(core) :
                        residual[kept] >= residual[lost]

(* What the expansion and the selection rely on.                           *)
CoresSound == CandidatesSound /\ StrongestKept

(* What StagedSolve takes a selection to be: the factors of earlier stages *)
(* stay, everything fits the budget, nothing is factorized twice, and no   *)
(* candidate is left out that would still fit.                             *)
SelectionMaximal ==
    doing = "select" /\ pending = <<>> /\ FactorBytes(locked) <= Option.max_local_factor_bytes =>
        /\ SubSeq(accepted, 1, Len(locked)) = locked
        /\ FactorBytes(accepted) <= Option.max_local_factor_bytes
        /\ IsInjective(accepted)
        /\ \A r \in ToSet(skipped) : ~FitsBudget(r)
        /\ {Expanded(core) : core \in ToSet(candidates)} \subseteq ToSet(accepted) \cup ToSet(skipped)

(* Regions are found, grown and selected as the staged solve takes them    *)
(* to be: sound cores, and a maximal selection of them.                    *)
RegionsSound == CoresSound /\ SelectionMaximal
=============================================================================
