----------------------------- MODULE HaloEpochs -----------------------------
(***************************************************************************)
(* What a distributed SpMV promises its caller, whatever the transport:    *)
(* rank p may leave its e-th product only after every rank it imports      *)
(* ghosts from has entered its own e-th product, and the operand it used   *)
(* then holds exactly the epoch-e value of every imported ghost.           *)
(* HaloExchange (blocking Sendrecv) and OverlapSpmv (Isend/Irecv) are both *)
(* shown to implement this specification.                                  *)
(***************************************************************************)
EXTENDS Integers

CONSTANTS
    N,          \* number of MPI ranks
    MaxEpoch    \* bound: calls made by each rank


Rank == 0 .. N - 1

VARIABLES
    deps,       \* deps[p]: the ranks p imports ghosts from (fixed)
    entered,    \* entered[p]: products rank p has entered
    left,       \* left[p]: products rank p has completed
    operand     \* operand[p][q]: epoch of q's values in p's last product, 0 if none

vars == <<deps, entered, left, operand>>

Init ==
    /\ deps \in [Rank -> SUBSET Rank]
    /\ entered = [p \in Rank |-> 0]
    /\ left = [p \in Rank |-> 0]
    /\ operand = [p \in Rank |-> [q \in Rank |-> 0]]

Enter(p) ==
    /\ entered[p] = left[p]
    /\ entered[p] < MaxEpoch
    /\ entered' = [entered EXCEPT ![p] = @ + 1]
    /\ UNCHANGED <<deps, left, operand>>

Leave(p) ==
    /\ entered[p] = left[p] + 1
    /\ \A q \in deps[p] : entered[q] >= entered[p]
    /\ left' = [left EXCEPT ![p] = entered[p]]
    /\ operand' = [operand EXCEPT
           ![p] = [q \in Rank |-> IF q \in deps[p] THEN entered[p] ELSE 0]]
    /\ UNCHANGED <<deps, entered>>

Next == \E p \in Rank : Enter(p) \/ Leave(p)

Spec == Init /\ [][Next]_vars
=============================================================================
