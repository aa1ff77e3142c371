--------------------------- MODULE SpmdReplicated ---------------------------
(***************************************************************************)
(* The drivers of hybit-distributed/examples that read the matrix on every *)
(* rank (K3 to K5). A verdict every rank computes from the same data is    *)
(* left out, consecutive reductions that are only used as data are one     *)
(* stage, and a loop over policies, trials or iterations is run once.      *)
(***************************************************************************)
EXTENDS SpmdPrograms

(* Every rank loads the matrix, then the ranks check its size.             *)
LoadEverywhere == <<Exchange, Agree(RankSet), Agree(RankSet), Exchange>>

(* The root proposes owners and the others take them.                      *)
RootProposal == <<Exchange, Agree(RootSet), Broadcast, Exchange>>

(* The halo of a case, and its counts against the partition's telemetry.   *)
HaloCase == <<Exchange>> \o PrepareAssignment \o <<Exchange, Agree(RankSet)>>

(* mistake: a rank checks its part of the results after the last collective*)
WriteResultsChecked == <<Exchange, Fallible("own data")>>
(* Only the root writes the results, after the last collective.            *)
WriteResults == <<Exchange, RootFallible("output")>>

-----------------------------------------------------------------------------
(* mpi_k3_assignment_spmv.rs. The own rows are extracted with `?`.         *)
K3PrepareCase == RootProposal \o <<Fallible("own rows")>> \o HaloCase
(* product; times; error against the replicated product                    *)
K3RunOne == <<Exchange>> \o SpmvAssignment \o <<Exchange, Agree(RankSet)>>
K3Main == <<Agree(RankSet), Agree(RankSet)>> \o K3PrepareCase \o K3RunOne
          \o WriteResults

(* mpi_k5c_large_spmv.rs                                                   *)
K5cPrepareCase == K3PrepareCase
K5cRunOne == K3RunOne
K5cMain == <<Agree(RootSet)>> \o LoadEverywhere \o K5cPrepareCase \o K5cRunOne
           \o WriteResults

-----------------------------------------------------------------------------
(* mpi_k4_assignment_pcg.rs                                                *)
(* curvature; residual; preconditioned residual                            *)
Iteration(product) == product \o <<Agree(RankSet), Agree(RankSet), Agree(RankSet)>>
(* arguments; norm of b; first residual; ...; true residual and error      *)
Pcg(iteration, product) ==
    <<Agree(RankSet), Exchange, Agree(RankSet), Agree(RankSet)>>
    \o iteration \o product \o <<Exchange, Agree(RankSet)>>
K4SolvePcg == Pcg(Iteration(SpmvAssignment), SpmvAssignment)

(* owners; own rows; inverse diagonal; halo                                *)
OwnRowsAndJacobi ==
    RootProposal \o <<Exchange, Agree(RankSet), Agree(RankSet), Exchange>>
    \o HaloCase
(* ... and the right-hand side of a known solution                         *)
ManufacturedRhs == <<Exchange>> \o SpmvAssignment \o <<Exchange>>
K4PrepareCase == OwnRowsAndJacobi \o ManufacturedRhs
K4RunOnce == K4SolvePcg \o <<Exchange>>
(* results exist already; matrix; its size; its SPD surrogate              *)
K4Load == <<Agree(RootSet)>> \o LoadEverywhere \o <<Agree(RankSet), Exchange>>
K4Main == K4Load \o K4PrepareCase \o K4RunOnce
          \o <<Agree(RankSet)>> \o WriteResults

(* mpi_k5_assignment_pcg_profile.rs times what K4 does.                    *)
K5SolvePcg == K4SolvePcg
K5PrepareCase == K4PrepareCase
K5RunOnce == K5SolvePcg \o <<Exchange>>
K5Load == K4Load
K5Main == K5Load \o K5PrepareCase \o K5RunOnce
          \o <<Agree(RankSet)>> \o WriteResults

(* mpi_k5b_assignment_solve_many.rs: many right-hand sides of a case, each *)
(* certified on the reduced maxima; then the time of a checkpoint.         *)
K5bSolvePcg == K4SolvePcg
K5bPrepareCase == OwnRowsAndJacobi
K5bManufactureRhs == ManufacturedRhs
K5bRunMany == <<Exchange>> \o K5bSolvePcg \o <<Agree(RankSet), Exchange>>
K5bLoad == K4Load
K5bMain == K5bLoad \o K5bPrepareCase \o K5bManufactureRhs \o K5bRunMany
           \o WriteResults

(* mpi_k5b_order_rotation.rs: the same in another order of the policies    *)
K5bOrderSolvePcg == K4SolvePcg
K5bOrderPrepareCase == OwnRowsAndJacobi
K5bOrderManufactureRhs == ManufacturedRhs
K5bOrderRunMany == <<Exchange>> \o K5bOrderSolvePcg \o <<Agree(RankSet), Exchange>>
K5bOrderLoad == K4Load
K5bOrderMain ==
    K5bOrderLoad \o K5bOrderPrepareCase \o K5bOrderManufactureRhs
    \o K5bOrderRunMany \o WriteResults
=============================================================================
