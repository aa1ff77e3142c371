# HyBIT verification project

TLA+ models of the HyBIT sparse solver workspace (`crates/*`), checked with TLC on small instances and, for the
parts where an error would be hardest to see, proved with TLAPS for all values of the constants. Paths below are
relative to the root of the repository; `mpi_pcg.rs` and the like are in `crates/hybit-distributed/src/`.

1. [The system](#1-the-system)
2. [Modules](#2-modules)
3. [Halo exchange and overlapped product](#3-halo-exchange-and-overlapped-product)
4. [Programs of collective calls](#4-programs-of-collective-calls)
5. [Staged hybrid solve](#5-staged-hybrid-solve)
6. [Regions of an escalation](#6-regions-of-an-escalation)
7. [General square solves and prepared contexts](#7-general-square-solves-and-prepared-contexts)
8. [Distributed PCG with promotion](#8-distributed-pcg-with-promotion)
9. [Partitions, halo plans and aggregates](#9-partitions-halo-plans-and-aggregates)
10. [Cost model](#10-cost-model)
11. [Matrices, layouts and regions of fields](#11-matrices-layouts-and-regions-of-fields)
12. [Preconditioners](#12-preconditioners)
13. [C interface and thread pool](#13-c-interface-and-thread-pool)
14. [Runs and bounds](#14-runs-and-bounds)
15. [Fairness](#15-fairness)
16. [Proofs](#16-proofs)
17. [Where code and documentation disagree](#17-where-code-and-documentation-disagree)
18. [What is not modelled, and what is next](#18-what-is-not-modelled-and-what-is-next)

## 1. The system

HyBIT solves sparse linear systems, mostly symmetric positive definite ones of finite-element models, on one
machine or on MPI ranks. It chooses a preconditioner by what a short probe shows, adds local factors where the
probe does badly, and keeps what it learned for the next right-hand side.

| component | state it keeps | operations | talks to | what makes it correct |
|---|---|---|---|---|
| Staged solve: `HybitPreparedSystem` (hybit-auto), `PcgSession`, `PcgWorkspace` (hybit-krylov) | cached factors, coarse space, workspace, solve counter | `solve`, escalation, continuation, caching | PCG and preconditioners by call, everything shared by `&mut self` | a recurrence meets only its own preconditioner and vectors; one iteration limit for all calls; factors fit the budget and are cached only when complete |
| Blocking halo exchange (`mpi_backend.rs`) | the `extended` vector, position in the peer list | `exchange_halo`, `spmv_local` | the peers' Sendrecv calls, one tag for everything | no waiting cycle; every ghost read is of this product; a disagreement is found before data moves |
| Overlapped product (`mpi_overlap.rs`) | send and receive buffers, requests, row partition | `prepare`, `spmv_overlap` | Isend, Irecv, Waitall, Alltoall | no request outlives the call; interior rows read no ghost; buffers are reused only when free |
| Distributed PCG (`mpi_pcg.rs`, `mpi_block_jacobi.rs`, `mpi_two_level.rs`) | installed preconditioner, vectors, traces | `solve`, `solve_adaptive` | overlapped product, reductions | one promotion, on all ranks or none; restart from the true residual; honest report |
| Contiguous path (`mpi_mtx.rs`, `mpi_input.rs`) | none between calls | read on the root, distribute rows, build halo | reductions, broadcasts, blocking sends of the root | an error anywhere is an error everywhere; nobody waits for a rank that left |
| Noncontiguous path (`mpi_assignment*.rs`) | owner directories, halo buffers | scatter (dense or sparse directory), verification, halo, product | as above, Alltoallv | as above, and no message is left over |
| Cost selection (`cost_distribution.rs`, `cost_consensus.rs`) | the selection | root's choice, broadcast, consensus | broadcast, allgather | all ranks have the same selection or all fail |
| Cost model (`cost_partition.rs`, `cost_guard.rs`, `robust_cost.rs`) | evidence its caller keeps: scoped timings, a prepared graph proposal | capture, prepare, select, admit | field partitions; called on the root before a broadcast | evidence counts for the problem it was taken for and no other; what is admitted pays |
| Drivers (`examples/mpi_*.rs`) | none between calls | whole programs of the calls above | everything distributed | all ranks make the same calls, or all return |
| Partitioning (`partition.rs`, `multilevel.rs`), contiguous plans (`lib.rs`) | owners, loads, queues of candidates, levels, inside one call | grow, coarsen, refine, swap; ownership, halo plans, simulated exchange | pure functions; their plans are what the exchanges are given | each row owned once; loads within the cap; the cut only shrinks; every column finds its value |
| Field partitions (`field_partition.rs`, `field_halo.rs`, `dof_layout.rs`) | none | contiguous ownership in whole field blocks, refined by the pattern | pure functions | no block is split, no rank empty or too large; the choice is no worse than its start |
| Region discovery and selection (hybit-auto) | none between escalations but the accepted regions | `discover_core_regions`, `expand_regions_with_overlap`, `select_regions_with_factor_budget` | called by an escalation of the staged solve | cores cover the seeded risk rows; limits drop the weakest; earlier factors stay; nothing that fits is left out |
| General square path (hybit-auto, `hybit-krylov/src/fgmres.rs`) | Arnoldi workspace, restart controller | FGMRES with three restart policies | preconditioners | the report is that of the x returned; restarts fit the workspace and grow for a reason |
| Settings and contexts: `HybitSolver`, `HybitAnalysis`, `HybitPreparedSystem`, `HybitPreparedStructuralSystem` (hybit-auto) | options; snapshots of them | setters, `analyze_csr32`, `prepare_csr32`, `prepare_structural_csr32`, solves | snapshots handed from one call to the next | a context can serve what it is asked for |
| Resident and parallel PCG (`hybit-krylov/src/execution.rs`), structural systems | device-like arrays | solve, fallback chain | rayon | the fallback uses no half-built state |
| Aggregates of the two-level preconditioners (hybit-precond) | none | grow, join tails, merge, renumber | pure functions of the pattern | every node in one aggregate, none too small to support its modes |
| Preconditioners (hybit-precond) | factors, coarse spaces, buffers of workers | construct, apply | matrices; called by every Krylov method | an application is the operator the documentation defines, however it is stored, and whoever works on it |
| Matrix forms and layouts (hybit-matrix) | CSR, words and their transpose, packed values, tiles, blocks, restrictions | convert, multiply, combine, locate | read-only | every form stands for the same matrix |
| Regions of fields (`region.rs`, `field_region.rs`, `prepared_field_region.rs`) | dual topology, regions, plans of positions | close, grow, prepare, gather | matrices and layouts | the right set of unknowns, with the values of the moment |
| C ABI (hybit-ffi) with C, C++, Fortran interfaces | handles, one global thread pool, the last error of each thread | create, set, prepare, solve, destroy | the crates above | the pool is built once, and nobody is told another size; a code, its message and its report belong together |
| hybit-core, hybit facade, single-process examples, benchmark scripts, tools | none | types, re-exports, drivers | | |

What is hard here: ranks that go through the same calls at different speeds and may fail on their own data; one
tag and reused buffers without barriers; a solve that is a chain of calls on shared mutable state with early
returns; budgets of iterations and of bytes that several stages spend; and learned state that outlives a solve
which failed. `PROJECT.json` lists each such hazard at its line with the properties that would notice it.

## 2. Modules

| module | models |
|---|---|
| `HaloEpochs` | abstract promise of a distributed product |
| `HaloPlans` | what the ranks' halo plans say together; constants of the two modules below |
| `HaloExchange` | `exchange_halo`, `spmv_local` of `mpi_backend.rs` |
| `OverlapSpmv` | `mpi_overlap.rs` |
| `SpmdCalls` | ranks that run one program of collective calls and transfers |
| `SpmdPrograms` | the collective functions of hybit-distributed as sequences of stages |
| `SpmdReplicated`, `SpmdScattered`, `SpmdCostDrivers` | the drivers of `crates/hybit-distributed/examples`, whole: replicated input (K3 to K5), scattered input (K6 to K8), cost and field partitions |
| `SpmdContiguous` | the MPI drivers of `crates/hybit/examples` |
| `StagedSolve` | `HybitPreparedSystem::solve` with PCG sessions |
| `RegionDiscovery` | diagnostics, core regions, overlap and budget of an escalation, stage after stage |
| `GeneralSquareSolve` | `run_general_square_fgmres` and restarted FGMRES, column by column |
| `SolverLifecycle` | `HybitSolver`, analyses, prepared contexts; its solves are `GeneralSquareSolve` |
| `DistributedPcg` | `DistributedPcg::solve`, `solve_adaptive` |
| `PartitionGraph` | adjacency, seeds, targets, caps, pairing, aggregation, cut: the pure operators |
| `AbtmPartition` | the three partitioners of `partition.rs` and `multilevel.rs` |
| `HaloConstruction` | ownership, plans, local operators and simulated exchange of `lib.rs` |
| `FieldPartition` | ownership in whole field blocks: `field_halo.rs`, `field_partition.rs` |
| `Aggregation` | graph aggregates and recommended sizes of hybit-precond |
| `CostSelection` | `cost_partition.rs`, `cost_guard.rs`, and a caller that keeps their evidence while its problem changes; `robust_cost.rs`, in integers of any width |
| `MatrixForms` | the storage forms of hybit-matrix and their products, Matrix Market files |
| `PreparedRegions` | `dof_layout.rs` word by word; dual topology, regions, plans and forms, while the caller changes values |
| `Ilu0` | `Ilu0Preconditioner`: both constructions and the application |
| `Preconditioners` | the preconditioners for symmetric systems: construction, refusal, application |
| `ThreadPool` | `configure_rayon_threads` of hybit-ffi, called concurrently |
| `CInterface` | all calls of hybit-ffi, on top of `ThreadPool` |
| `HaloExchangeProofs`, `OverlapSpmvProofs`, `SpmdCallsProofs`, `SolverLifecycleProofs`, `DistributedPcgProofs`, `CInterfaceProofs` | theorems about the module of that name |
| `StagedSolveProofs` | theorems about `StagedSolve` and about `RegionDiscovery` |
| `PartitionProofs` | theorems about `AbtmPartition` and about `CostSelection` and all it stands on (`FieldPartition`, `HaloConstruction`, `PartitionGraph`) |
| `MCPlans`, `MCHaloExchange`, `MCOverlapSpmv`, `MCSpmdCalls`, `MCStagedSolve`, `MCDistributedPcg`, `MCAbtmPartition`, `MCSolverLifecycle`, `MCRegionDiscovery`, `MCMatrices`, `MCThreadPool` | instances for TLC |

`HaloExchange` and `OverlapSpmv` extend `HaloPlans` and each implements `HaloEpochs` (`INSTANCE ... WITH`,
property `ImplementsEpochs`). `MCSpmdCalls` gives `SpmdCalls` the driver programs, which are made of the functions in `SpmdPrograms`. `DistributedPcg` stands
on both: it lets the ranks pass every reduction together, which `SpmdCalls` shows they do, and takes a product as one
step, which `HaloEpochs` allows. `SolverLifecycle` extends `GeneralSquareSolve`, and `MCAbtmPartition` puts `AbtmPartition`,
`HaloConstruction`, `FieldPartition` and `Aggregation` on the same matrices. `CostSelection` extends `FieldPartition`, `PreparedRegions`
extends `Ilu0`, which extends `MatrixForms`, `Preconditioners` extends `Ilu0`, and `CInterface` extends `ThreadPool`. Where one run explores two modules
that share no state (`MCAbtmPartition`, `MCMatrices`), one of them is at rest in each behaviour. `RegionDiscovery` is one level below `StagedSolve`: `SelectionMaximal` is what
`StagedSolve!Selections` takes for granted, on regions with rows in them. Definitions marked *mistake* stand next to the definition they spoil; the project uses
them to show that each property notices a plausible error.

## 3. Halo exchange and overlapped product

**State.** `HaloPlans!Plans` are the plans of all ranks together: how many values p packs for q (`send`), how
many ghosts p expects of q (`recv`), and whether p's own checks accept its plan (`valid`) and its vectors (`fits`), and whether MPI
buffers blocking sends (`eager`). Plans need not agree. Values are represented by the number of the product (*epoch*) they belong to, since the properties
only ask whether a ghost is of this product, of an older one, or never arrived (`NaN` in the code, 0 here).

**HaloExchange.** A rank enters a product (`Enter`: the whole local validation, then ghosts are poisoned) and
visits its peers in ascending order. Each peer takes two Sendrecv calls, counts then values; each has a `Post`, a
`Receive` that takes the head of the channel whatever it is, and `FinishCount` or `FinishPayload` once its own message
is gone (or at once, if the plan is `eager`). `Apply` multiplies. An error is final for the rank (`status = "err"`),
and its messages stay where they are; nothing is assumed about what its peers do then except what the code does.

**OverlapSpmv.** `Prepare` and `Alltoall` check the layout and the lengths; `Enter` packs and posts, `Interior` computes the
rows that need no ghosts, `Finish` waits for all requests, scatters and computes the other rows. MPI is the pair
`Buffer` and `Deliver`: a send refers to the buffer of the rank until MPI copies or delivers it, at any time.

**Properties.** `NoWaitCycle` and `EveryCallReturns` are the reason for the ascending order. `MatchedMessages`,
`PayloadFits` and `ChannelAccounting` say that one tag for counts, values and all epochs is enough, also on plans the
ranks do not agree on and after errors. `GhostsCurrent` is what the caller needs; `NeighbourSkew` bounds how far a peer runs ahead. For
the overlapped product, `DeliveredInEpoch` concerns the buffers, during a call and after it.
`ImplementsEpochs` says of both that a rank leaves its e-th product only after the owners of its ghosts entered
theirs, with values of exactly that product.

## 4. Programs of collective calls

A rank is at a stage of a program. A stage is a reduction of `local_bad` (`agree`), a gather or minimum/maximum that ranks compare with
their own value (`compare`), a broadcast, an exchange that nobody checks, `k` blocking messages from the root to one
rank (`transfer`), or a check of one rank alone (`fallible`, the `?` of the code). Failures arise by nondeterminism exactly
where the code can find one. `Receives`, `Rejected` and `Needs` are the branches of the code. A rank that fails returns and takes
no part in anything further. `SpmdPrograms` has one definition per function of `mpi_mtx.rs`, `mpi_input.rs`,
`mpi_pcg.rs`, `mpi_two_level.rs`, `mpi_assignment*.rs` and `cost_*.rs`, in the order of its calls.

The drivers are what calls these functions one after the other, and where a rank that goes on alone would do harm. `SpmdReplicated`, `SpmdScattered`, `SpmdCostDrivers` and
`SpmdContiguous` have the MPI examples, each `main` with the functions it is divided into; `MCProgram` lists 31 programs. Six more drivers make the calls of a listed one (k5, k5b order, k8d1, k8d3, the IC(0) sweep, the field comparison), and the profile of a file those of the other profile with one exchange less; they are written out from their own source and not listed. A loop over policies, trials, right-hand sides or iterations is run once; a verdict that every rank computes from
the same replicated data is left out; consecutive collectives whose results are only data are one stage; of the modes that are meant to fail, only the successful ones are there.
Eight listed programs whose calls are a selection of those of another one are left out of the run by `MCRunning`.

`NoRankStranded` says that nobody waits for a rank that returned, `SameVerdict` that no rank succeeds while another
gives up, `NoFailureLost` that nobody goes on past a stage in which a failure was reported, `NothingInFlight` that no message is left
for a later call to match, and `EveryRankReturns` that everybody returns.

The cause of every `fallible` stage is named (`why`); `Causes` selects those that do happen. The run takes the cause
"own data" alone, which only the *mistakes* have. The others are of three kinds. "layout", "mutated", "halo", "halo length", "own rows", "own matrix", "reference", "volumes" and "ring" would follow from data that
earlier checks have agreed on, or that is the same on all ranks. "output" is the root's own file, written with `?` next to collectives of all ranks; "input file" one that only some
ranks cannot read: the drivers do not guard against either. "request count" and "extended_len" are in the library and *can* happen on one
rank: with either of them in `Causes`, TLC finds `NoRankStranded` violated (section 17).

## 5. Staged hybrid solve

One step is an iteration or a piece of `solve` between two PCG calls. `Solve` is the entry up to the first call; `Start`,
`Iterate` and `Return` are `pcg_start`/`pcg_continue`; `AfterProbe`, `AfterStage`, `AfterFinal` and `AfterCached` decide how to go
on; `Escalate` selects regions under the byte budget (`Selections`: regions already paid for stay) and runs a stage;
`LeaveLoop` and `Finish` are the ends of the controller loop. `PcgSession` is an identity with the preconditioner it was
started with; the workspace remembers whose vectors it holds. The residual is converged, broken down or neither,
and progress is poor or not, by choice.

`SessionValid` is the rule stated on `PcgSession` ("only valid while the operator and preconditioner remain
unchanged"), which nothing in the types enforces. `IterationsAccounted` compares the report with the real number of updates of `x`
and with the limit. `FactorsFit`, `NothingEvicted` and `CacheLearned` are about factors; `LastStageTakesAll` (proved) says that a last stage leaves
nothing to continue; `SolveReturns` that the controller ends.

Bytes are those of `estimated_factor_bytes`, a constant part plus one per region; whether the estimate equals the allocation is
not part of the model. `SizeOverflow` is left out. The saturating subtractions of the code are plain ones here: TLC
and the proof show that they never saturate (`TypeOK` has `remaining` and `left` in `Nat`). The general square path, the resident path and structural systems
are other functions (section 7).

## 6. Regions of an escalation

The code is sequential and deterministic but for the residual, which the solve between two escalations leaves behind: `Diagnose` takes any of `Residuals`.
`NextComponent`, `Root` and `Grow` are the three nested loops of `discover_core_regions`, with `visited`, `assigned` (the code's `claimed`) and `stamped` kept apart as in the code;
`Fallback` is the second half, for matrices whose diagnostics name no seeded component. `Rank` sorts and truncates, `Expand` adds overlap
(`expand_regions_with_overlap`, then `merge_unique_regions`), and `LockedOverBudget`, `CandidateOrder` and `BestPerByte` are `select_regions_with_factor_budget`. `StageDone`
leaves the loop when nothing was accepted.

The run checks `RegionsSound`, which has three parts. `CandidatesSound` compares the cores with a definition of their own: connected pieces of the components, disjoint, bounded, complete. `StrongestKept` is about the two limits.
`SelectionMaximal` is about the budget, with the bytes of `estimated_factor_bytes`. `RegionsFound` proves all of it for every system (section 16). Matrices are symmetric with entries of magnitude 1 next to the diagonal, which is enough for
rows to be risky because of coupling, of a jump between diagonals, of both or of neither; magnitudes are small integers. `Better` compares quotients by products: equal scores in
floating point may differ there. Failing allocations and sizes that overflow are left out.

## 7. General square solves and prepared contexts

**GeneralSquareSolve.** `StartStage` is the head of the loop over stages and FGMRES up to its first cycle; `BeginCycle`, `Column` and `Update` a cycle;
`Boundary` and `Exhausted` its end, where `Controlled` is the restart controller; `NextStage` and `Report` the rest of the policy. Residuals are low or high. The estimate of
a column and the residual computed from `x` after the cycle are chosen independently, so that a low estimate may be wrong. `SolveSound` has two parts: `OutcomeHonest` relates the report to the
`x` returned: its residual, its convergence, and which counted columns are part of it; `RestartsServed` makes two errors of the code unreachable (a restart above the
prepared capacity; an escalation that does not advance). `GrowthSustained` says when a restart may grow. `SolveReturns` says that every call returns.

**SolverLifecycle.** Setters, changes of the matrix, `Analyze`, `Prepare`, `PrepareStructural` and solves in any order. An analysis and a prepared context are snapshots;
the code compares only some of their settings later (`Prepare` looks at the class and at the execution policy up to `Compatible`, `PrepareStructural` at neither). `ContextComplete` says that what is prepared
then can still be solved: factors exist for the matrix, and the backend is one the execution policy can use. A staged solve is one step here and shows only whether it learned factors.

## 8. Distributed PCG with promotion

Control is one, as all decisions are made on reduced values; what ranks do alone (selection, validation of a swap or a mask,
factorization) is per rank. Two norms, of the recursive residual and of `b - A x`, are low or high and may disagree:
that is what the last product of `solve_impl` is for. `Window` looks at a checkpoint; `Greedy` is what a rank can select under its
share of the budget (any maximal set, since the score may order the blocks in any way); `Swap`, `Replay` and `Pool` are the
experimental modes; `Promote` factorizes, which any rank may fail to do, and installs; `Restart` starts again from `b - A x`.

`OneRecurrence`: a direction is only used with the preconditioner that made it. `SameKind`: never a coarse reduction on
some ranks only. `PromotedOnce`: the preconditioner changes once in the life of a solver, at a probe, to factors of some rank, and
not in a call that returns an error. `WithinBudget`: the global byte cap holds for what is installed, in every mode. `ReportHonest`: converged means
that `b - A x` says so.

All ranks have the same number of blocks in the model, of different sizes. Values that are not finite are left out: `true_norm > threshold` is false for NaN, so a
NaN in the last product leaves "Converged" in place. Masks can be replayed on exactly eight ranks; the number is the constant
`ReplayRanks`, so that two ranks can play the part. Times, counters and the residual trace are left out.

## 9. Partitions, halo plans and aggregates

**AbtmPartition.** The code is sequential and deterministic; a behaviour is one call, taken from `Inputs`, and a step is one iteration of a loop.
`phase` is the loop. `Enter` is the validation at the top. *Region growth*: `RegionSeed`, `RegionExpand` and `RegionNext` fill one rank
after the other. *Multisource growth*: `MultisourceClaim` is a rank's turn, `MultisourceSweep` the end of a sweep. *Multilevel*:
`CoarsenOnce` pairs nodes and keeps the finer level; `StartGrowth` is `weighted_multisource_partition` up to its loop, `GrowthClaim` and `GrowthSweep` the loop;
`RefineNode`, `RefinePass` and `RefineEnd` are `refine_by_cut` on each level and the projection to the next; `Score`, `Swap` and `SwapPass` are
`refine_fine_pair_swaps`. Orders of candidates are the code's, ties included (`Best`, `Sorted`, `Exceeds` compare tuples).

Two things are kept twice by the code and may drift apart: the loads that moves are decided on, next to the owners; and the scores of swaps, taken at the start of a pass
and used after other swaps of that pass. `Balanced` says the loads are those of the owners at every step and stay in the tolerance, and
what a returned partition is; `CutDecreases` that each accepted move or swap strictly lowers the cut, which also is why passes could run without a limit.
Both are proved for every matrix, number of ranks and options (section 16); the run checks them with the mistakes that would break them.
Left out: telemetry, the counters of the report, and timing.

**HaloConstruction.** Plans are values, so these are operators. A slot of `[owned | ghosts]` holds the global index of its value. `ExchangeDelivers`
says that all plans of a partition together fill each slot exactly once, that sends and receives agree in content and order, and that every stored entry
then meets its own column. The run asks this of every contiguous partition of a pattern (`PlansDeliver`). This is what `HaloExchange` and `OverlapSpmv` call a reciprocal plan (`HaloPlans!IsReciprocal`), with the indices that those two leave out.

**FieldPartition.** A layout is its offsets, cuts are numbers of blocks. `AlignedCuts` is `field_aligned_contiguous_partition`; `Pressure`, `Reachable` and `RefinedCuts` are the difference
array and the three sweeps of `field_graph_contiguous_partition` (a sweep that changes nothing ends them in the code, and repeats without effect here); `FieldGraphCuts` accepts the
result if `Improves`. A cut is moved while its neighbours stand where the sweep has left them, but the radius, the size limit and the pressures are those of the start: `FieldCuts` says that
all of them hold for the cuts together at the end, and that the chosen partition passes the checks of the code, splits no block and has halo plans that deliver. Seven layouts of uneven blocks, two radii.

**Aggregation.** `RigidRegions` is the loop over seeds of `build_graph_aggregates`, with `JoinTail` for regions of one or two nodes; `Merged` the loop that absorbs small
aggregates, in place and in the order of their ids; `Compact` the renumbering. `build_piecewise_constant_graph_aggregates` has the same merge and its own first phase. Lists of neighbours are given in ascending and in
reversed order, since the strong variant orders them by coefficients. `AggregatesSound` is checked on every undirected pattern of the run, among them some of 20 nodes
where aggregates are merged. `PatternsServed` is `PlansDeliver`, `FieldCuts`, `AggregatesSound` and `RobustAdmission` (section 10) together. The merge ends because each of its sweeps but the last removes an aggregate; the model makes as many sweeps as there are aggregates.

## 10. Cost model

**CostSelection.** A caller has a problem at hand (pattern, values, layout, rank count, radius, machine) and keeps two pieces of evidence: timings
(`Capture`) and a graph proposal (`Prepare`), each with the identity of the problem they were taken for. It may change the problem (`Change`) and selects
(`Select`) with any of what it kept. `Baseline` chooses between uniform and block-aligned ranges; `CheapReasons` are tried before a graph is made and `GraphReasons` after, in the code's order; `Guard` compares
identities. Digests are taken to be free of collisions, caps of imbalance are per mille, and the partitions are those of `FieldPartition`, computed.

`SelectionWarranted` says of the answer what its caller relies on: a kept proposal never fails a call nor changes its partition; what is not the graph is the baseline of the *live*
problem; and a graph splits no block, moves no more than that baseline, keeps both caps of this call on the live matrix, and saves more than it costs by timings of the live problem.

**Robust admission.** `evaluate_robust_cost` on integers below `M`. `AdmissionPays` restates admission without the least gain, the saturating subtraction and the rounding; `CallsAnnounce` that the reported number of calls is
the one from which on the graph is admitted; `FitsU128` that nothing overflows. TLC looks at inputs around each threshold (`RobustAdmission`, a part of `PatternsServed`); the theorems are for all.

## 11. Matrices, layouts and regions of fields

**MatrixForms.** A matrix is its rows of stored columns and values, in storage order, with duplicates and explicit zeros. From it come the words of `AbtmTopology` (a column goes into the last
word, a word found, or a new one), its transpose by counting, packed values, the tiles of `AbtmMatrix` in their three kinds, dense blocks with a partial last one, the restrictions to columns, rows
and both, the rows of each parallel task, and Matrix Market files in both directions. Masks are sets of bits; the words have `W` bits, 4 in the run and 64 in the code, and the thresholds between kinds of tiles are constants. Values are integers, so that sums are exact.

**Layouts** (the first part of `PreparedRegions`). Blocks, their offsets and ranges, the block of an unknown, masks of ranges word by word, closure over whole blocks, the mask of a field, and the check of owners.

**PreparedRegions.** `Build` makes the dual topology and refuses a layout of another size. `CloseSeeds`, `Hop` and `FinishRegion` are `grow_field_aware_region` for one seed mask after
the other: a hop looks only at the last frontier and ends early when that is empty; a mask of the wrong length fails the whole call. `MakeForms` makes every form that copies values; `Update` stores new values in the same structure.

`RegionsExact` is `RegionExact` (a region is the ball of its seeds, where a hop is a structural edge and moving inside a block is free, its frontier the outermost layer; multiplicities count exactly the pairwise overlaps)
and `LocalValues` (a plan gathers exactly `A[R,R]` as it is *now*). `FormsAgree` is `TopologyAgrees` (rank and select invert each other, merging words is set algebra, columns are the transposed rows, tasks cover each row once) and
`ProductsAgree` (every form multiplies like the matrix it was made from, whatever was stored since). `FactorExact` is about `Ilu0`.

**Ilu0.** Canonical rows, elimination by binary search and by words of the topology, replacement of pivots at the floor, substitution. Numbers are residues modulo 23, so that divisions are exact; a pivot at or below the floor is a
zero pivot. `FactorExact`: both eliminations give the same factors; `L U` equals the matrix on its pattern but for replaced pivots; an application solves `L U z = r`.

Left out of these modules: sizes that overflow, the byte counts, statistics of profiles, the parsing of a file's lines.

## 12. Preconditioners

`Make` constructs what a request names, or refuses it as the code does: a missing, zero or negative diagonal, a block that is not positive definite, a width that does not divide, an aggregate
without radius, modes that are too many for compact storage, a coarse operator that breaks down, a region outside the matrix. `Begin` applies the fine part, `RestrictPart` is one worker of the parallel restriction (they finish in any order, into buffers that the next
application uses again), `CoarseRight` adds the parts, `Correct` solves on the coarse space and prolongs. The methods are Jacobi, block Jacobi, the two-level method with piecewise-constant or smoothed modes in
wide, compact or automatic storage, rigid-body modes (sequential and parallel), the balanced method, and local Cholesky regions with their weights.

Numbers are residues modulo 23 again, and factors are root-free: the pivot stays on the diagonal, and the two divisions by its root are one by the pivot. "Positive" has no meaning there, so a zero pivot stands for a pivot that is
not positive. The damping of the smoothed modes, a spectral estimate in the code, is a number of the request. `CompactMax` and `InverseFrom`, the sizes at which storage and solution of the coarse operator change, are small.

`AppliedExact` compares every application with the definition in the documentation and not with the construction: block solves are exact; `P s` is added where `P^T A P s = P^T r` for the *documented* basis `P` (the
piecewise-constant modes, these smoothed by one damped Jacobi step, or the rigid motions `t + w x offset`); the balanced method leaves a residual orthogonal to the coarse space; every region is solved exactly, and one that no
other overlaps gets just its solution; automatic storage refuses nothing that wide storage takes. Left out: estimates of bytes, statistics, and which aggregates are formed (section 9).

## 13. C interface and thread pool

**ThreadPool.** `hybit_set_num_threads`, `hybit_num_threads` and `hybit_solver_create` may be called by any thread of the host. `Look`, `Build`, `Query` and `Publish` are the accesses to the cell and to Rayon's pool in
`configure_rayon_threads`; between them others may run, and other users of Rayon may build the pool first (`Foreign`). The environment is any choice of the two variables. `OnePool` has two parts: `PoolAgrees` says that a
call which succeeds tells the size of the only pool, and that one which fails wanted another; `Settled` that after the first success all later calls agree with it.

**CInterface.** The same host holds at most one solver, matrix, layout and prepared system, as the C++ wrapper does, and calls everything in `hybit.h` that changes state. The header asks for exclusive use of a handle, so such a
call is one step; those that go through the pool keep the steps of `ThreadPool`. Arguments are reduced to the error they lead to, a matrix to its sizes, its two signatures and whether it has a positive diagonal, a solver to the settings with bounds.
The last error is kept per thread and not cleared by a success; a solve that did not converge is an error *with* a report. `CallsAnswered`: what a thread was told stays true whatever the
others do: code and message belong together, a report is there exactly when the iteration ended, the factors were those of the matrix that was named (`ValidMatrix` compares signatures, and a matrix may be destroyed and
another made in its place), and a setter that fails leaves valid settings. That the signatures are injective is an assumption; in the code they are 64-bit digests.

## 14. Runs and bounds

| run | question | instance |
|---|---|---|
| `halo_exchange` | can the blocking exchange wait in a cycle; what is matched and delivered when ranks run apart, also on plans that disagree; does it implement the promise | 4 ranks, 2 products; 6 plans whose sends wait (ring, star, one-way ring with a chord, triangle, two that disagree), 8 whose sends are buffered |
| `overlap` | the same for the nonblocking product | 3 ranks, 2 products, five plans |
| `spmd` | 23 driver programs with any rank failing wherever the code can find a failure | 3 ranks: a root, a rank that is served and one that is passed by |
| `staged_solve` | all choices of the controller | 99 options, 3 regions of 2, 3 and 5 bytes, 2 right-hand sides |
| `regions` | which regions an escalation finds and accepts, twice in a row | 348 inputs: 4 patterns of 5 rows, 3 diagonals, 29 options; 6 residuals in each stage |
| `solver_lifecycle` | settings, analyses, contexts and general square solves in any order | 4 matrices, 2 changes, 5 sets of restart options, up to 10 iterations (two windows of four cycles, and more) |
| `distributed_pcg` | all modes, two calls in a row | 2 ranks with 2 blocks of unequal size, 114 calls |
| `partition` | loads, tolerance and cut in every step of a partitioner; plans of every contiguous partition; field blocks; aggregates; selection by cost | 2,825 calls: 128 directed patterns of 4 rows, 512 of 6 rows, 256 of 8 rows, 4 made for aggregates; 2 to 4 ranks; 2 tolerances; up to 3 levels. Cost: 10 problems, each different from the first in one part of the identity or in the decision, 5 policies, 3 timings |
| `matrices` | forms, regions, factors; construction and application of preconditioners | 3 matrices of 7 rows, 4 layouts, 5 lists of seeds, 2 hops, 2 updates; 4 operators of 6 to 18 rows, 23 requests, 2 applications |
| `thread_pool` | what the threads of a host are told | 2 threads, one configuring call each, 5 calls on handles between them, 2 sizes, environments up to renaming of the sizes |
| `partition_capacity` | "Capacity exists globally" when a growth gives up | as `partition`, violation |
| `resident_hybrid` | a resident solve without the controller | as `solver_lifecycle`, violation |

Four ranks are the least in which a waiting cycle longer than a triangle can form, and three those in which a rank can be
two products away from another through a third. Two right-hand sides show everything that is learned in one and used in another. Two iterations in a window and four in a solve put
promotion before, at and after the last iteration. Eight rows are the
least on which two levels of aggregates of different weights are refined, and then swapped on the finest. The bounds `MaxEpoch` and `MaxSolves` only end a run: no guard of the code depends on them, and the theorems hold for all of them.
`CHECK_DEADLOCK FALSE` stands where ranks really stop: after an error, when all programs have returned, or after the last
right-hand side or escalation. Nine iterations are the least in which the restart controller, which counts
windows of four cycles, can decide twice. `partition` checks deadlock; `Finished` is its only stutter. `halo_exchange` does not need to: `NoWaitCycle` is about every state. Seven unknowns in words of four bits
give a full word and a partial one, and a partial last block of three. Eighteen unknowns are two aggregates of three nodes with six rigid motions each and a balanced coarse space.

## 15. Fairness

Processes keep running: weak fairness of each rank's steps (`WF_vars(Step(p))`). MPI completes matched operations: that is
part of `Step(p)` where the completion is the rank's own wait, and weak fairness of `Deliver` for nonblocking messages. That MPI *buffers* a
blocking send is not promised, so `SendBuffered` and `Buffer` have no fairness. A solve is sequential code; `WF_vars(Step)`
says that it runs on, and nothing says that a caller solves again. `SolverLifecycle` is sequential too: weak fairness of `Running`, the solve under way, and none of the caller's actions. A partitioner, a region
discovery, prepared regions and preconditioners end by construction of their loops and have no liveness property here (`partition` checks that no state is stuck); a host of the C interface owes nobody a call. No strong fairness is used.

## 16. Proofs

| module | theorems | assumptions beyond types |
|---|---|---|
| `HaloExchangeProofs` | `TypeCorrect`, `Accounting`, `Matched`, `Fits`, `GhostsAreCurrent`, `Skew`, `NoCycle`, `Implements` | none; `NoCycle` and `Skew` speak of reciprocal plans |
| `OverlapSpmvProofs` | `TypeCorrect`, `Inductive`, `DeliveredIsCurrent`, `Implements` | none |
| `SpmdCallsProofs` | `TypeCorrect`, `NobodyStranded`, `OneVerdict`, `FailuresReachAll`, `ChannelsEmpty` | `Agreed`: no `fallible` stage fails |
| `StagedSolveProofs` | `TypeCorrect`, `SessionsValid`, `Accounting`, `Fits`, `LastStageIsFinal`, `Cache`, `Kept`, `DiscoveryAlways`, `RegionsFound` | the regions: `RegionAssumption`, types and what the options' validation checks |
| `SolverLifecycleProofs` | `Inductive`, `ContextServed`, `ReportHonest`, `RestartGrowth` | none |
| `DistributedPcgProofs` | `TypeCorrect`, `NeverMixed`, `AllRanksAlike`, `Honest`, `Once`, `OwnShare`, `GlobalShare` | none |
| `PartitionProofs` | `AdmittedPays`, `CallsAreLeast`, `NothingOverflows`, `SelectionInductive`, `SelectionsPay`, `PlansServe`, `CutsSound`, `PartitionAlways`, `PartitionsBalanced`, `RefinementImproves` | `NothingOverflows`: a width of at least eight values; `CutsSound`: no more ranks than blocks, which the code checks (`Served`); the partitioners: `InputAssumption`, the types of a call |
| `CInterfaceProofs` | `PoolIsOne`, `EveryCallAnswered`, `PoolOfInterface` | `SignaturesAssumption`: no two matrices have the same signatures |

*Halo exchange.* `ChannelAccounting` is the core of the invariant: what is in flight between two ranks equals the difference of their progress, and the i-th
message of a channel is the i-th that its receiver will ask for. From it a receive can only match its own message. For
`NoCycle`, suppose no unfinished rank can move, and look at those that entered the fewest products: the peer a stuck rank waits for entered as few and
still has that rank to do. Let q be the smallest peer waited for, q itself wait for s, and s for t. Then q <= t by the choice of q, and t <= q because s
still has q to do and visits its peers in ascending order. So q and s wait for each other, which cannot be: two ranks that are each other's current peer can
move. The refinement maps `Apply` to `Leave`, `Enter` to `Enter` and all else to stuttering.

*Overlapped product.* `FlightInv` is the invariant's core: for each ordered pair, sends, messages in flight and receives (`Got`) differ by exactly what the products entered by the two ranks say;
the plans may disagree, but a product only starts where Alltoall found the rank's own part agreed (`CallInv`). A rank that returned has nothing outstanding, so its buffers may be used again (`DeliveredIsCurrent`). The refinement takes the values of the ghosts at `Finish`.
`CallKept` says once, for all steps of other ranks, what stays of a rank's own call.

*Programs.* The position of a rank tells about the others: past a stage, all that it needed took part and none was rejected; a
rank that failed did so at a stage that was rejected, and a rejection looks the same to all. Hence nobody is past the stage at which another failed. Channels hold the
difference of what the root sent and the receiver took. The hypothesis `Agreed` excludes exactly the stages at which one rank returns alone; it is needed, as the two causes of section 17 show. The theorems are about any program, and hold for all 31.

*Staged solve.* The invariant adds to the checked properties what a session may be continued with between calls (`Sessions`), that
`iterations + done + left` and `remaining` add up to the limit (`Counting`), that the last stage was given all that was left
(`LastStage`), and that the current and cached factors are the active regions (`Learned`).

*Settings, contexts and general solves.* The invariant has a part for a solve under way (`SolveInv`: the counters of stage, cycle and column add up to the iterations granted; the restart is between its bounds and within
the workspace; the exact residual remembered is that of the `x` of the last update) and one for what an analysis and a prepared context were when they were made (`ContextInv`), which later setters cannot change. `ContextServed`, `ReportHonest` and `RestartGrowth` follow from it.

*Distributed PCG.* The invariant adds what holds between a poor window and the promotion: the call is adaptive, nothing was promoted, `step` is at
a probe, and `direction` is still of the installed preconditioner. `OwnShare` proves the share of each rank, `GlobalShare` that the installed factors of all ranks together fit the global cap: outside the pooled
mode because the shares add up to at most the cap, in it because the pooled mask itself passed the check against the cap.

*Sums and folds.* `SumFunctionOnSet` and `FoldLeft` are recursive functions on the subsets of a finite set, each chosen (`CHOOSE`) as the solution of an equation. `FoldExists` constructs a solution from approximations
on sets of bounded cardinality; `FoldsAgree` shows that two solutions coincide by a least counterexample, which replaces the induction the provers cannot instantiate. On these rest `SumFacts`, `SumGrows` (sums are
monotone), `UnionBound` (a union has no more elements than its parts together), `FlattenedLists` (a concatenation lists the union of disjoint sets) and the unfolding of the loops below. `InOrderFacts` shows that
sorting by a strict total order lists each element once, in that order. `PartitionProofs` and `StagedSolveProofs` both hold these lemmas, since no module can extend the specifications of both.

*Halo plans.* `OwnerFacts`: every row has exactly one owner. The lists of requests are ascending lists of disjoint sets, so their concatenation numbers every ghost once (`GhostFacts`, `SlotFacts`); what the sender lists is
by definition what the receiver lists, so that message k lands in the slot of its own global index. `PlansServe` is `ExchangeDelivers` for all patterns and partitions; `PlansDeliver` checks it on patterns of four rows.

*Field partitions.* `AlignedServe`: cuts placed from left to right each leave room for those to come (`Partly`). `MoveKeeps`: a single move keeps a block for both neighbours, the bound, the radius and does not raise the pressure at
that cut; `FoldSettles` carries that through three sweeps. An entry that is cut crosses the boundary at which the later of its two ranks begins, so it is counted in that pressure (`CutPressed`).
`CutsSound` is `FieldCutsSound` for all inputs; `FieldCuts` checks it on seven layouts. That the chosen partition also improves on every measure is the guard `Improves`, and not stated again.

*ABTM partitions.* `PartitionInv` has two parts. `CallInv` says what the call works on: the levels and the graph at hand are a chain (`Hierarchy`) of graphs with mutual neighbours, nodes numbered
from zero and weights that add up to the rows, each coarse node weighing what was merged into it; queues and proposals hold nodes of the graph at hand; a method's loop is only entered with its own options. `LoadInv` says what
the ranks own: the loads are those of the owners, at most the targets for the growers and the cap for the multilevel scheme. Neither is inductive alone: a projection keeps the loads only because the levels are
merged from each other (`ProjectedLoads`), a swap only because on the finest graph every node weighs one (`Finest`, `SwapLoads`), and a grower ends with its targets only because targets and rows have the same sum (`FreeLoad`, `SumTight`).
On the way, the operators of `PartitionGraph` get the facts that the code takes for granted: tuples that all differ have a best and an order, and `Sorted` lists a set once (`BestIs`, `SortedLists`); `Pairing` leaves no node alone and no
number unused, so that `Coarsen` makes a graph of the same weight (`CoarsenFacts`); `SpreadSeeds` finds as many different seeds as there are ranks (`SeedsFacts`), whatever the pattern. That each rank owns a seed is why none is empty after growth. Then one lemma per action.
For the cut, `CutSplits` separates the cut edges at a node from the others: a move trades the links to the new owner for those to the old one (`MoveCut`); a swap is two moves, and the edge between the two is cut before and after, which is
exactly what `ExactGain` leaves aside (`SwapCut`). A proposal of a rank with itself would have gain zero, so an accepted one has two owners.

*Regions.* `DiscoveryInv` has three parts. `CoreInv` is about the search. In it, `RiskInv` says that whole components were visited and that of their rows those with a seed are assigned to a chunk, are roots still, or are the one row with which a
chunk starts: the roots left behind by a chunk that is full are found again, so that no row of the component is lost. `ChunkInv` says that the chunk that grows is in one piece and that what is queued is next to it, not assigned, and stamped. `SpareInv` is the same for the seeds
themselves, whose chunks are cut by strength and need not be connected; it may assume that no component has a seed, as there would be a core otherwise (`ComponentsDoneKeeps`). `SelectInv` is about the selection: accepted, skipped and undecided regions are all
of the expanded cores that were not accepted before, and what was skipped does not fit later either, since bytes only grow (`BytesAdd`, `AcceptKeeps`). The lemmas on the way: breadth-first search stops after n balls because a ball that grows gets another
row (`BallsStop`), so that a component is the least set around its row that is not left (`ComponentLeast`), and a set in one piece stays in one piece with a neighbour (`PieceGrows`); the layers of an overlap are such balls, up to the last (`GrownWithin`); rows, and sets
that are disjoint, are sorted by strict orders, so that what a limit keeps is the strongest (`HeadKept`, `RankedFacts`, `ExpandedFacts`); quotients compared by products are transitive and ties end at the first row that differs, so that a best region exists (`BestFits`).

*Selection by cost.* The invariant: what the caller keeps is what the code measured or prepared for the problem it is stamped with. `IdentityDecides` shows that `Guard` passes evidence on only if all parts of the identity
agree, `SelectsWarranted` goes through the reasons in their order. The baseline is always a partition by whole blocks: uniform ranges only when `CutsStartBlocks`, aligned ones by `AlignedServe`.

*C interface.* For the pool, the invariant adds what a caller relies on between two accesses (`Local`): one that is to ask for the size found it built, or wanted none; one that is to publish
holds the size of the pool and asked for no other; and whoever is past the look began before any success. The cell and `settled` are the size of the pool or nothing (`Shared`).
`PoolOfInterface` shows that a step of the whole interface is a step of the pool or leaves it alone, so that `PoolIsOne` holds there too. For `EveryCallAnswered`, `Told` says what each thread knows, and
`AnswerInv` that telling one thread leaves what the others were told: codes and messages are kept per thread. That no factors of another matrix are used rests on `SignaturesAssumption`.

*Robust cost.* `GainIsLeast` is the heart: the least gain is one of the gains (a nonempty set of natural numbers has a least element, by well-founded induction) and none is smaller, so that what pays for the least pays for every epoch.
`ThresholdBounds` puts the threshold above five quarters of what is spent, `LeastFactor` turns the quotient and the strict comparison into each other.

Some properties are proved and not among those of a run: the type invariants, `PayloadFits` and `ChannelAccounting` of the halo exchange, `LastStageTakesAll`.

Only model-checked: every liveness property (it needs ENABLED); of `PatternsServed` the part about aggregates (the others are proved: `PlansServe`, `CutsSound`, `AdmittedPays`, `CallsAreLeast`,
`NothingOverflows`); `RegionsExact`, `FormsAgree`, `FactorExact` and `AppliedExact`, which are about sums and recursive functions over data; and that the programs have the shape that the
theorems ask of a program (`ProgramAssumption`, evaluated by TLC).

## 17. Where code and documentation disagree

* `partition_capacity`: `weighted_multisource_partition` comments "Capacity exists globally" where a sweep claimed nothing. With the default tolerance and
  few rows (3 on 2 ranks, or 33), the cap of a rank is rounded down below the average load, so that no partition fits, and the call ends in an error.
* `resident_hybrid`: a resident policy excludes the adaptive controller; the doc of `ExecutionPolicy` says so, `analyze_csr32` rejects the two, and `solve_resident_jacobi` asserts it in debug builds. `prepare_csr32` does
  not look again: analyzed with the controller off and prepared with it on, the two come together.

In the models, and found by TLC when a property is stated about them, but not the subject of a run:

* `prepare_owned_rows` (`mpi_input.rs`) returns the error of a count conversion on one rank, below the comment "No rank may return before the next collective."; its peers wait in the next reduction (cause "request count" of `SpmdPrograms`).
* `solve_impl` (`mpi_pcg.rs`) agrees on `local_bad` so that bad inputs "do not strand peers", but the extended length of the local
  matrix is compared later, in the product, by one rank (cause "extended_len").
* A factor budget below the two bytes per row of the multiplicity array makes the first escalation fail with "existing local factors exceed configured memory budget", though there are none; the doc of the option says that regions are selected under the budget.
* `adaptive_block_trace` is filled although no block was selected and nothing promoted; its doc says "Only populated if this solve triggered adaptive promotion."
* `build_graph_aggregates` joins tails of one or two nodes node by node. A tail node whose only neighbours are in the tail goes to the *last* aggregate, wherever that is; the doc of
  `from_csr32_graph` says "one/two-node tails are merged into adjacent aggregates". On `Fork` of `MCAbtmPartition` (eight nodes, connected) node 6 and its neighbour 7 are separated, and the aggregate of 6 is not connected.
  For the same reason a structural component of fewer than three nodes is an error only if it is met before the first region; otherwise it joins the last aggregate, to which it has no edge.
* In FGMRES the test at the top of a cycle is never true, since the residual vector is still that of the last exact residual (`BeginCycle`). A rotation that breaks down gives up the columns of its cycle, which the report
  counts all the same (`OutcomeHonest` says by how many). An error in the update leaves `x` changed by some of the columns.
* An implicit caller of the thread pool (one that only asks for the size or creates a solver) fails if the environment names another size than a pool that was built and not yet published, or built by another user of Rayon; after the size is
  published the same call succeeds. `docs/THREADING.md:12` puts `hybit_set_num_threads` before the environment.

Read in the source: `adaptive_probe_ratio` is documented as a ratio to the initial residual and is one to the previous
checkpoint; `allreduce_elapsed_ns` is documented as all reductions of a solve and leaves out those of the promotion; a second `solve_adaptive`
on a promoted solver is refused with the message for invalid dimensions, options or values. `abtm_multilevel_partition` may aggregate below the number of ranks and then fails with
"invalid rank count" on a call that has enough rows; with a minimum load that rounds to zero, refinement can empty a rank, and the call fails with "empty
rank"; the fallback at the end of `weighted_multisource_partition` is never reached with something to claim (`GrowthSweep`).

## 18. What is not modelled, and what is next

Rounding, overflow and values that are not finite stay outside: the modules about numbers use integers or residues, where the algebra of the code is exact. So do
parsing of text, timing, logging, byte estimates and drivers of one process. Of the rest:

* *Resident and parallel PCG* (`execution.rs`) and the *kernels of the Krylov methods* are data-parallel loops without shared mutable state between tasks, and fixed sequences of calls; resident vectors appear in `SolverLifecycle` as far as they change with it.
* *Structural preparation* is an action of `SolverLifecycle`; the scores by which it chooses a graph decomposition or falls back from it are floating-point measurements.
* The *ledger of bytes* in hybit-precond and the *profiles* of hybit-matrix.
* *The persistent point-to-point product* (D7) appears as one exchange in the driver programs; as a third implementation of `HaloEpochs`, with its requests, it would be the next module to write.
* *Noncontiguous owners* appear as calls in the programs; the plans that `finalize_halo_plans_from_recv_requests` makes of them would extend `HaloConstruction`.
* Negative modes of drivers, which fail on purpose.

Proofs worth trying next: in `PreparedRegions`, that a grown region is the ball of its seeds, which the lemmas about balls in `StagedSolveProofs` prepare; in `Aggregation`, that every node is in
one aggregate.
