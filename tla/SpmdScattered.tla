--------------------------- MODULE SpmdScattered ----------------------------
(***************************************************************************)
(* The drivers of hybit-distributed/examples that read the matrix on the   *)
(* root only and scatter it (K6 to K8), with the conventions of            *)
(* SpmdReplicated. They end with the results of the root and a barrier.    *)
(***************************************************************************)
EXTENDS SpmdReplicated

(* results exist already; matrix; its size; partition                      *)
RootLoad ==
    <<Agree(RootSet), Exchange, Agree(RootSet), Exchange, Agree(RootSet), Exchange>>

RootReport == <<RootFallible("output"), Exchange>>

(* Product on a known vector, its error and that of the ghosts.            *)
CheckedProduct == <<Exchange>> \o SpmvAssignment \o <<Exchange, Agree(RankSet)>>

-----------------------------------------------------------------------------
(* mpi_k6_root_scatter_spmv.rs: each rank compares the length of its halo  *)
(* with its own rows and returns alone.                                    *)
K6Setup ==
    RootLoad \o ScatterAssignment \o <<Exchange>> \o VerifyScatter
    \o <<Exchange>> \o PrepareAssignment \o <<Exchange, Fallible("halo length")>>
K6Main == K6Setup \o CheckedProduct \o RootReport

(* mpi_k7c_sparse_owner_spmv.rs: the same without the global owners        *)
K7cSetup ==
    RootLoad \o ScatterSparse \o <<Exchange>> \o VerifySparseScatter
    \o <<Exchange>> \o PrepareAssignmentSparse \o <<Exchange, Fallible("halo length")>>
K7cMain == K7cSetup \o CheckedProduct \o RootReport

-----------------------------------------------------------------------------
(* mpi_k8a_sparse_pcg.rs                                                   *)
K8aSolvePcg == Pcg(Iteration(SpmvAssignment), SpmvAssignment) \o <<Exchange>>

(* The solution goes to the root, ids and values of a rank after those of  *)
(* the rank before; the root compares it with the original matrix.         *)
K8aVerify ==
    <<Exchange, Agree(RankSet), Exchange>>
    \o ForTargets(LAMBDA t : <<Collect(t, 2)>>)
    \o <<Agree(RootSet), Agree(RootSet)>>

ScatterAndVerify ==
    RootLoad \o ScatterSparse \o <<Exchange>> \o VerifySparseScatter \o <<Exchange>>
K8aSetup ==
    ScatterAndVerify \o <<Agree(RankSet)>> \o PrepareAssignmentSparse
K8aMain == K8aSetup \o ManufacturedRhs \o K8aSolvePcg \o <<Exchange>> \o K8aVerify
           \o <<Exchange>> \o RootReport

-----------------------------------------------------------------------------
(* mpi_k8b_fem_pcg.rs: the true residual is checked during the iteration,  *)
(* the preconditioner may fail on a rank.                                  *)
CheckpointedIteration(product) ==
    product \o <<Agree(RankSet), Agree(RankSet)>>
    \o product \o <<Agree(RankSet), Agree(RankSet)>>
K8bSolvePcg ==
    Pcg(CheckpointedIteration(SpmvAssignment), SpmvAssignment) \o <<Exchange>>
K8bVerify == K8aVerify
K8bSetup ==
    ScatterAndVerify \o PrepareAssignmentSparse
    \o <<Exchange, Agree(RankSet), Exchange>>
K8bMain == K8bSetup \o ManufacturedRhs \o K8bSolvePcg \o <<Exchange>> \o K8bVerify
           \o <<Exchange>> \o RootReport

(* mpi_k8d1_phase_profile.rs times the phases of K8b.                      *)
K8d1SolvePcg == K8bSolvePcg
K8d1Verify == K8aVerify
K8d1Setup == K8bSetup
K8d1Main == K8d1Setup \o ManufacturedRhs \o K8d1SolvePcg \o <<Exchange>> \o K8d1Verify
            \o <<Exchange>> \o RootReport

(* mpi_k8d2_spmv_ab.rs: the layout is validated once, for all products     *)
PrevalidatedPcg(product) ==
    <<Agree(RankSet)>> \o ValidateLayout
    \o Tail(Pcg(CheckpointedIteration(product), product)) \o <<Exchange>>
K8d2SolvePcg == PrevalidatedPcg(SpmvPrevalidated)
K8d2Verify == K8aVerify
K8d2Setup == K8bSetup
K8d2Main == K8d2Setup \o ManufacturedRhs \o K8d2SolvePcg \o <<Exchange>> \o K8d2Verify
            \o <<Exchange>> \o RootReport

(* mpi_k8d3_rank_abba.rs also gathers the phases of all ranks.             *)
K8d3SolvePcg == PrevalidatedPcg(SpmvPrevalidated)
K8d3Verify == K8aVerify
K8d3Setup == K8bSetup
K8d3Main == K8d3Setup \o ManufacturedRhs \o K8d3SolvePcg \o <<Exchange>> \o K8d3Verify
            \o <<Exchange>> \o RootReport

-----------------------------------------------------------------------------
(* mpi_k8d7_prepared_p2p.rs: the product by point-to-point messages; the   *)
(* certificate and the phases of all ranks end a solve.                    *)
K8d7Certify == SpmvP2p \o <<Exchange, Agree(RankSet), Exchange>>
K8d7SolvePcg ==
    <<Agree(RankSet)>> \o ValidateLayout \o <<Exchange, Agree(RankSet), Agree(RankSet)>>
    \o CheckpointedIteration(SpmvP2p) \o K8d7Certify
K8d7Verify == K8aVerify
K8d7Setup == K8bSetup

(* A right-hand side by one product and by the other must be the same.     *)
BothProducts == SpmvAssignment \o ValidateLayout \o SpmvP2p \o <<Agree(RankSet)>>
K8d7ManyRhs == <<Exchange>> \o BothProducts \o <<Exchange>>
K8d7SolveMany == K8d7SolvePcg \o <<Exchange>> \o K8d7Verify \o <<Exchange>>
K8d7ManyReport == RootReport
K8d7Many == K8d7Setup \o K8d7ManyRhs \o K8d7SolveMany \o K8d7ManyReport

K8d7SingleSolve ==
    <<Exchange>> \o SpmvAssignment \o <<Exchange>> \o ValidateLayout \o SpmvP2p
    \o <<Agree(RankSet)>> \o K8d7SolvePcg \o <<Exchange>> \o K8d7Verify \o <<Exchange>>
K8d7Single == K8d7Setup \o K8d7SingleSolve \o RootReport
=============================================================================
