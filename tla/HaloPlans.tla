----------------------------- MODULE HaloPlans ------------------------------
(* What all ranks together know before they communicate: the HaloPlan of   *)
(* each rank (hybit-distributed/src/lib.rs), reduced to who exchanges how  *)
(* many values with whom and whether the rank's own checks accept it.      *)
EXTENDS Integers

CONSTANTS
    N,          \* number of MPI ranks
    MaxEpoch,   \* bound: products each rank asks for
    Plans       \* the halo plans (of all ranks together) to consider

Rank == 0 .. N - 1

(* send[p][q]: values p packs for q; recv[p][q]: ghosts p expects of q.    *)
(* valid[p]: p's plan and operator pass its local checks.                  *)
(* fits[p]: p's vectors have the lengths the product demands.              *)
(* eager: MPI buffers the messages; otherwise a send waits for its receive.*)
PlanType == [send : [Rank -> [Rank -> Nat]], recv : [Rank -> [Rank -> Nat]],
             valid : [Rank -> BOOLEAN], fits : [Rank -> BOOLEAN],
             eager : BOOLEAN]

ASSUME NAssumption == N \in Nat \ {0}
ASSUME MaxEpochAssumption == MaxEpoch \in Nat
ASSUME PlansAssumption == Plans \subseteq PlanType

(* The plans every exchange asks for: what one rank sends is what the      *)
(* other expects, and no rank rejects its own part.                        *)
IsReciprocal(pl) ==
    /\ \A p, q \in Rank : pl.send[p][q] = pl.recv[q][p]
    /\ \A p \in Rank : pl.valid[p] /\ pl.fits[p]
=============================================================================
