---------------------------- MODULE MCSpmdCalls -----------------------------
(***************************************************************************)
(* The programs of hybit-distributed and of its drivers on the ranks of    *)
(* SpmdCalls.                                                              *)
(***************************************************************************)
EXTENDS SpmdCalls
Replicated == INSTANCE SpmdReplicated WITH Ranks <- N
Scattered == INSTANCE SpmdScattered WITH Ranks <- N
Cost == INSTANCE SpmdCostDrivers WITH Ranks <- N
Contiguous == INSTANCE SpmdContiguous WITH Ranks <- N

MCProgram ==
    [k3 |-> Replicated!K3Main, k5c |-> Replicated!K5cMain,
     k4 |-> Replicated!K4Main, k5b |-> Replicated!K5bMain,
     k6 |-> Scattered!K6Main, k7c |-> Scattered!K7cMain,
     k8a |-> Scattered!K8aMain, k8b |-> Scattered!K8bMain,
     k8d2 |-> Scattered!K8d2Main,
     k8d7_many |-> Scattered!K8d7Many, k8d7 |-> Scattered!K8d7Single,
     robust |-> Cost!RobustMain, reuse |-> Cost!ReuseMain,
     ledger |-> Cost!LedgerMain, calibration |-> Cost!CalibrationMain,
     graph |-> Cost!GraphMain, smoke |-> Cost!SmokeMain, guard |-> Cost!GuardMain,
     field_halo |-> Cost!FieldHaloMain, field_mtx |-> Cost!FieldMtxMain,
     mtx_pcg |-> Contiguous!MtxPcg, block_pcg |-> Contiguous!BlockPcg,
     block_sweep |-> Contiguous!BlockSweep, fem |-> Contiguous!FemExperiment,
     profile |-> Contiguous!FemProfile, two_level |-> Contiguous!TwoLevelExperiment,
     pcg |-> Contiguous!DistributedPcgMain, owned |-> Contiguous!OwnedPcgMain,
     halo |-> Contiguous!HaloSpmvMain, overlap |-> Contiguous!OverlapSpmvMain,
     mpi_smoke |-> Contiguous!Smoke]
(* Programs whose calls are a selection of those of another one are left   *)
(* out of the run.                                                         *)
MCRunning ==
    DOMAIN MCProgram
    \ {"k5c", "k5b", "k8a", "reuse", "ledger", "calibration", "block_sweep", "profile"}
=============================================================================
