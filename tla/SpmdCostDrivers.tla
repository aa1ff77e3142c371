-------------------------- MODULE SpmdCostDrivers ---------------------------
(***************************************************************************)
(* The drivers of hybit-distributed/examples for partitions chosen on the  *)
(* root by cost, and for field partitions, with the conventions of         *)
(* SpmdReplicated. Only the runs that are to succeed are modelled, not     *)
(* their negative modes.                                                   *)
(***************************************************************************)
EXTENDS SpmdPrograms

RootMatrix == <<RootFallible("own matrix")>>
SelectAndBroadcast == BroadcastCostSelection

(* The root's graph proposal: its verdict, the time it took, the offsets,  *)
(* and whether they suit every rank's layout.                              *)
GraphProposal ==
    <<BroadcastChecked, Broadcast, Agree(RankSet)>>
TimedGraphProposal ==
    <<BroadcastChecked, Broadcast, Broadcast, Agree(RankSet)>>
(* halo and operator of the own rows; maximum and sums                     *)
PrepareCase == PrepareOwnedRows \o <<Exchange>>
(* a product and its slowest rank                                          *)
MeasureOnce == SpmvLocal \o <<Exchange>>
(* Two cases are prepared and measured in turn; errors and traffic.        *)
Trial == PrepareCase \o PrepareCase \o MeasureOnce \o MeasureOnce \o <<Agree(RankSet)>>
(* The measured scope is captured on the root, then guards its selection.  *)
GuardedSelection == <<BroadcastChecked>> \o SelectAndBroadcast
(* All three are measured again on other data.                             *)
HoldOut ==
    PrepareCase \o MeasureOnce \o MeasureOnce \o MeasureOnce
    \o <<Agree(RankSet), Agree(RankSet), Exchange>>

-----------------------------------------------------------------------------
(* mpi_robust_partition_bench.rs: the ranks also compare whether the       *)
(* evidence admits the graph partition.                                    *)
RobustPrepareCase == PrepareCase
RobustMeasureOnce == MeasureOnce
RobustPropose ==
    RootMatrix \o <<Exchange>> \o SelectAndBroadcast \o TimedGraphProposal
RobustTrial ==
    RobustPrepareCase \o RobustPrepareCase \o RobustMeasureOnce \o RobustMeasureOnce
    \o <<Agree(RankSet), Exchange>>
RobustSelect == <<Compare, Exchange>> \o GuardedSelection \o <<Exchange>>
RobustHoldOut == HoldOut
RobustMain == RobustPropose \o RobustTrial \o RobustSelect \o RobustHoldOut

(* mpi_root_graph_reuse_bench.rs: the selection reuses the proposal        *)
ReusePrepareCase == PrepareCase
ReuseMeasureOnce == MeasureOnce
ReusePropose ==
    RootMatrix \o <<Exchange>> \o SelectAndBroadcast \o TimedGraphProposal
ReuseTrial == RobustTrial
ReuseSelect ==
    <<Compare, Exchange, BroadcastChecked>> \o BroadcastCostSelection \o <<Exchange>>
ReuseHoldOut == HoldOut
ReuseMain == ReusePropose \o ReuseTrial \o ReuseSelect \o ReuseHoldOut

(* mpi_root_cost_ledger_bench.rs                                           *)
LedgerPrepareCase == PrepareCase
LedgerMeasureOnce == MeasureOnce
LedgerPropose == RootMatrix \o <<Exchange>> \o SelectAndBroadcast \o GraphProposal
LedgerTrial == Trial \o <<Exchange>>
LedgerSelect == GuardedSelection \o <<Exchange>>
LedgerHoldOut == HoldOut
LedgerMain == LedgerPropose \o LedgerTrial \o LedgerSelect \o LedgerHoldOut

(* mpi_root_measured_calibration_bench.rs                                  *)
CalibrationPrepareCase == PrepareCase
CalibrationMeasureOnce == MeasureOnce
CalibrationPropose == RootMatrix \o SelectAndBroadcast \o GraphProposal
CalibrationTrial == Trial \o GuardedSelection
CalibrationHoldOut ==
    CalibrationPrepareCase \o CalibrationMeasureOnce \o <<Agree(RankSet), Exchange>>
CalibrationMain == CalibrationPropose \o CalibrationTrial \o CalibrationHoldOut

(* mpi_root_graph_selection_bench.rs                                       *)
GraphPrepareCase == PrepareCase
GraphMeasureOnce == MeasureOnce
GraphSelect == RootMatrix \o SelectAndBroadcast \o BroadcastCostSelection
GraphMeasure == Trial \o <<Exchange>>
GraphMain == GraphSelect \o GraphMeasure

-----------------------------------------------------------------------------
(* mpi_root_cost_partition_smoke.rs                                        *)
SmokeMain ==
    RootMatrix \o SelectAndBroadcast \o PrepareOwnedRows \o SpmvLocal
    \o <<Agree(RankSet), Exchange>>

(* mpi_cost_guard_smoke.rs                                                 *)
GuardMain ==
    VerifyConsensus \o PrepareOwnedRows \o <<Fallible("reference")>> \o SpmvLocal
    \o <<Agree(RankSet), Exchange>>

(* mpi_field_aware_halo.rs and mpi_field_partition_compare.rs: the plan is *)
(* compared with the one from the global matrix, on each rank alone.       *)
FieldHaloMain ==
    PrepareOwnedRows \o <<Fallible("reference")>> \o SpmvLocal
    \o <<Exchange, Agree(RankSet), Exchange, Exchange>>
FieldCompareMain == FieldHaloMain

(* mpi_field_mtx_bench.rs                                                  *)
FieldPrepareCase ==
    <<Exchange>> \o PrepareOwnedRows
    \o <<Exchange, Agree(RankSet), Exchange, Agree(RankSet)>>
FieldRunOne == <<Exchange>> \o SpmvLocal \o <<Exchange, Agree(RankSet)>>
FieldMtxMain ==
    <<Fallible("input file"), Exchange, Fallible("input file"), Exchange>>
    \o FieldPrepareCase \o FieldRunOne \o <<Exchange, RootFallible("output"), Exchange>>
=============================================================================
