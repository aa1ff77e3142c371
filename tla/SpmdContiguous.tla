--------------------------- MODULE SpmdContiguous ---------------------------
(***************************************************************************)
(* The MPI drivers of hybit/examples, on the contiguous path, with the     *)
(* conventions of SpmdReplicated. The root writes the header and the rows  *)
(* of its results with `?`, next to a barrier of all ranks.                *)
(***************************************************************************)
EXTENDS SpmdPrograms

RootWrite == <<RootFallible("output"), Exchange>>
OwnedSystem == DistributeMtx \o PrepareOwnedRows
(* A solve and its times; the checked ones reduce their verdict.           *)
TimedSolve == <<Exchange>> \o Solve \o <<Exchange>>
CheckedSolve == TimedSolve \o <<Agree(RankSet)>>

-----------------------------------------------------------------------------
(* mpi_mtx_pcg.rs                                                          *)
MtxPcg ==
    RootWrite \o OwnedSystem \o PrepareJacobi \o <<Exchange>> \o CheckedSolve
    \o <<Exchange>> \o RootWrite \o <<Exchange>>

(* mpi_block_pcg.rs: preconditioners in turn, then the summary             *)
BlockPcg ==
    RootWrite \o OwnedSystem \o <<Exchange>> \o PreparePcg \o <<Exchange>>
    \o CheckedSolve \o <<Exchange>> \o RootWrite \o <<Exchange>>
(* mpi_block_sweep.rs                                                      *)
BlockSweep ==
    RootWrite \o OwnedSystem \o <<Exchange>> \o PreparePcg \o <<Exchange>>
    \o CheckedSolve \o RootWrite \o <<Exchange>>
(* mpi_ic0_sweep.rs                                                        *)
Ic0Sweep == BlockSweep
(* mpi_fem_experiment.rs                                                   *)
FemExperiment ==
    RootWrite \o OwnedSystem \o <<Exchange>> \o PreparePcg \o TimedSolve \o RootWrite
(* mpi_fem_profile.rs and mpi_mtx_profile.rs use the Jacobi preconditioner.*)
FemProfile ==
    RootWrite \o DistributeMtx \o <<Exchange>> \o PrepareOwnedRows \o <<Exchange>>
    \o PrepareJacobi \o TimedSolve \o <<Exchange>> \o RootWrite
MtxProfile ==
    RootWrite \o OwnedSystem \o <<Exchange>> \o PrepareJacobi \o TimedSolve
    \o <<Exchange>> \o RootWrite

(* mpi_two_level_experiment.rs: the choices of the arguments, the solve,   *)
(* the traces each rank and the root write, the results                    *)
TwoLevelSetup ==
    RootWrite \o OwnedSystem \o <<Exchange>> \o PreparePcg \o <<Exchange>>
TwoLevelExperiment ==
    TwoLevelSetup \o SolveAdaptive \o <<Exchange, Agree(RankSet), Agree(RootSet)>>
    \o RootWrite

-----------------------------------------------------------------------------
(* Generated matrices: mpi_distributed_pcg.rs, mpi_owned_pcg.rs,           *)
(* mpi_halo_spmv.rs, mpi_overlap_spmv.rs                                   *)
DistributedPcgCase ==
    PrepareJacobi \o Solve \o <<Exchange, Agree(RankSet), Exchange>> \o RootWrite
DistributedPcgMain == RootWrite \o DistributedPcgCase \o <<Exchange>>

OwnedPcgRun ==
    PrepareOwnedRows \o PrepareJacobi \o PrepareOverlap \o OverlapProduct
    \o <<Agree(RankSet)>> \o Solve \o <<Exchange, Agree(RankSet), Exchange>>
    \o RootWrite
OwnedPcgMain == RootWrite \o OwnedPcgRun \o <<Exchange>>

HaloSpmvCase == SpmvLocal \o <<Exchange, Agree(RankSet), Exchange>> \o RootWrite
HaloSpmvMain == RootWrite \o HaloSpmvCase \o <<Exchange>>

(* The volumes of both products are compared on each rank alone.           *)
OverlapSpmvCase ==
    PrepareOverlap \o SpmvLocal \o OverlapProduct \o <<Fallible("volumes")>>
    \o <<Agree(RankSet), Exchange>> \o RootWrite
OverlapSpmvMain == RootWrite \o OverlapSpmvCase \o <<Exchange>>

(* mpi_smoke.rs: sums of a scalar, the ranks and a vector; a ring          *)
Smoke ==
    <<Agree(RankSet), Agree(RankSet), Exchange, Fallible("ring"), Exchange>>
=============================================================================
