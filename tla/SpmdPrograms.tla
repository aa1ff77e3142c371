---------------------------- MODULE SpmdPrograms ----------------------------
(***************************************************************************)
(* The collective calls of hybit-distributed as sequences of stages. Data  *)
(* is reduced to whether a check on it fails; what is kept is which ranks  *)
(* can fail, whether the failure is agreed on (a reduction of local_bad,   *)
(* then Err on every rank) or returned by one rank alone (`?`), and the    *)
(* order of the collectives and the messages.                              *)
(***************************************************************************)
EXTENDS Naturals, Sequences, SequencesExt

CONSTANT Ranks      \* number of ranks

RankSet == 0 .. Ranks - 1
RootSet == {0}
PeerSet == RankSet \ RootSet

Plain(op) ==
    [op |-> op, by |-> {}, vals |-> {}, src |-> 0, to |-> 0, k |-> 0, why |-> ""]
Stop(op, by, vals) == [Plain(op) EXCEPT !.by = by, !.vals = vals]

(* allreduce of local_bad, of the ranks that can be bad                    *)
Agree(by) == Stop("agree", by, {"ok", "bad"})
(* allgather, or allreduce of minimum and maximum: does any rank differ?   *)
Compare == Stop("compare", RankSet, {"ok", "other"})
CompareChecked == Stop("compare", RankSet, {"ok", "other", "bad"})
(* the root's data; the ranks then check it, or do not                     *)
Broadcast == Plain("broadcast")
BroadcastChecked == Stop("broadcast", RootSet, {"ok", "bad"})
(* alltoall, barrier, or a sum that is only used as data                   *)
Exchange == Plain("exchange")
(* k blocking messages of the root to rank t                               *)
Transfer(t, k) == [Plain("transfer") EXCEPT !.to = t, !.k = k]
(* k blocking messages of rank t to the root                               *)
Collect(t, k) == [Plain("transfer") EXCEPT !.src = t, !.k = k]
(* an error returned by one rank alone: any of them, or only the root      *)
Fallible(why) == [Plain("fallible") EXCEPT !.by = RankSet, !.why = why]
RootFallible(why) == [Fallible(why) EXCEPT !.by = RootSet]

(* `for target in 1..size`                                                 *)
ForTargets(Body(_)) == FlattenSeq([t \in 1 .. Ranks - 1 |-> Body(t)])

-----------------------------------------------------------------------------
(* The contiguous path: mpi_mtx, mpi_input, mpi_pcg.                       *)

(* radius; mode; file; sizes; proposal; accepted; offsets; barrier; rows   *)
DistributeMtx ==
    <<Agree(RankSet), Compare, Agree(RootSet), Exchange, Exchange,
      Agree(RootSet), Exchange, Broadcast, Agree(RankSet), Exchange>>
    \o ForTargets(LAMBDA t : <<Transfer(t, 4)>>)
    \o <<Agree(RankSet)>>

(* The request counts fail one rank alone; the sum over total_requests     *)
(* that follows can find nothing wrong any more.                           *)
PrepareOwnedRows ==
    <<Agree(RankSet), Fallible("request count"), Exchange, Exchange,
      Agree(RankSet), Exchange, Agree(RankSet)>>

(* The owned matrix; then the owned counts and the coarse operator, which  *)
(* every rank computes from the same gathered or reduced data.             *)
PrepareTwoLevel == <<Agree(RankSet), Agree(RankSet), Agree(RankSet)>>

(* OverlapSpmv::prepare: layout and reciprocity are checked locally.       *)
PrepareOverlap == <<Fallible("layout"), Exchange, Fallible("layout")>>
(* Local and coarse factors, the agreed verdict on both, the product.      *)
PreparePcg ==
    <<Agree(RankSet)>> \o PrepareTwoLevel \o <<Agree(RankSet)>> \o PrepareOverlap
PrepareJacobi == <<Agree(RankSet)>> \o PrepareOverlap

(* spmv_overlap(..)? compares local.extended_len with the prepared one, on *)
(* one rank alone.                                                         *)
OverlapProduct == <<Fallible("extended_len"), Exchange>>
(* The entry of solve_impl: local_bad is agreed on; then the residual, its *)
(* coarse correction and the dot products.                                 *)
SolveEntry == <<Agree(RankSet)>> \o OverlapProduct \o <<Exchange, Exchange, Exchange>>
(* An iteration stops on reduced values, on all ranks at once.             *)
SolveIteration == OverlapProduct \o <<Exchange, Exchange>>
(* swap or replay; pooled bytes; selected blocks; factors; coarse space    *)
Promotion ==
    <<Agree(RankSet), Agree(RankSet), Exchange, Agree(RankSet)>> \o PrepareTwoLevel
(* The residual is computed anew, after a promotion and at the end.        *)
TrueResidual == OverlapProduct \o <<Exchange>>
Solve == SolveEntry \o SolveIteration \o TrueResidual
SolveAdaptive ==
    SolveEntry \o SolveIteration \o Promotion \o TrueResidual
    \o SolveIteration \o TrueResidual

-----------------------------------------------------------------------------
(* The noncontiguous path: mpi_assignment, its scatter and its checks.     *)

(* mistake: the receiver returns the error of its own validation *)
ScatterTargetUngated(t) ==
    <<Agree(RootSet), Transfer(t, 5), Fallible("own data")>>
(* One destination: chunk built, five messages, verdict of the receiver.   *)
ScatterTarget(t) == <<Agree(RootSet), Transfer(t, 5), Agree({t})>>

(* arguments; preflight; header; owners; nnz counts; rows; root's own      *)
ScatterAssignment ==
    <<Agree(RankSet), Agree(RootSet), BroadcastChecked, Broadcast,
      Agree(RankSet), Broadcast, Agree(RankSet)>>
    \o ForTargets(ScatterTarget)
    \o <<Agree(RootSet), Agree(RankSet)>>

(* Lengths are sent and agreed on before the six arrays.                   *)
ScatterSparseTarget(t) ==
    <<Agree(RootSet), Transfer(t, 1), Agree({t}), Transfer(t, 6), Agree({t})>>

ScatterSparse ==
    <<Agree(RankSet), Agree(RootSet), Broadcast, Broadcast, Broadcast,
      Agree(RankSet)>>
    \o ForTargets(ScatterSparseTarget)
    \o <<Agree(RootSet), Agree(RankSet)>>

(* The reference arrays, a frame each: ids, pointers, columns, bits; and   *)
(* the remote owners of one rank: their number, columns and labels.        *)
VerifyRows(t) == <<Transfer(t, 4), Agree({t})>>
VerifyOwners(t) == <<Transfer(t, 3), Agree({t})>>

VerifyScatter ==
    <<Agree(RankSet), Compare, Broadcast, Agree(PeerSet), Exchange,
      Agree(RootSet), Agree(RootSet)>>
    \o ForTargets(VerifyRows)

VerifySparseScatter ==
    <<Agree(RankSet), Compare, Exchange, Agree(RootSet), Agree(RootSet)>>
    \o ForTargets(VerifyRows) \o ForTargets(VerifyOwners)

(* counts; displacements; alltoall; incoming layout; alltoallv; halo       *)
HaloRequests ==
    <<Agree(RankSet), Agree(RankSet), Exchange, Agree(RankSet), Exchange,
      Agree(RankSet)>>

PrepareAssignment ==
    <<Agree(RankSet), Compare, Broadcast, Agree(PeerSet)>> \o HaloRequests

PrepareAssignmentSparse == <<Agree(RankSet), Compare>> \o HaloRequests

SpmvAssignment == <<Agree(RankSet), Exchange>>

(* One collective validation, then products that skip it.                  *)
ValidateLayout == <<Agree(RankSet)>>
SpmvPrevalidated == <<Fallible("mutated"), Exchange>>
(* Nonblocking messages between all neighbours; every rank is one here.    *)
SpmvP2p == <<Fallible("mutated"), Exchange>>

-----------------------------------------------------------------------------
(* The blocking product of the contiguous path (its messages between peers *)
(* are HaloExchange's); plan and operator are compared locally.            *)
SpmvLocal == <<Fallible("halo"), Exchange>>

-----------------------------------------------------------------------------
(* The cost-guarded selection: cost_distribution, cost_consensus.          *)

(* preflight; keys; root's verdict; header; offsets                        *)
BroadcastCostSelection ==
    <<Agree(RankSet), Compare, BroadcastChecked, Broadcast, Agree(RankSet),
      Broadcast, Agree(RankSet)>>

(* 34 fields, among them the rank count, then checked; the offsets         *)
VerifyConsensus == <<CompareChecked, Compare>>

=============================================================================
