--------------------------- MODULE FieldPartition ---------------------------
(* Contiguous ownership that keeps the degrees of freedom of a field block *)
(* together: field_halo.rs, field_partition.rs and the layout they read    *)
(* (hybit-matrix dof_layout.rs). A layout is its offsets: block b, counted *)
(* from 0, is at[b] .. at[b + 1] - 1. Blocks cuts[r] .. cuts[r + 1] - 1    *)
(* are those of rank r.                                                    *)
EXTENDS HaloConstruction

LayoutOf(sizes) == [b \in 0 .. Len(sizes) |-> SumFunctionOnSet(sizes, 1 .. b)]
Blocks(at) == Cardinality(DOMAIN at) - 1
TotalDofs(at) == at[Blocks(at)]

(* locate: the block of a degree of freedom. *)
BlockOf(at, dof) == Cardinality({b \in DOMAIN at : at[b] <= dof}) - 1

Offsets(at, cuts) == [r \in DOMAIN cuts |-> at[cuts[r]]]
Target(at, ranks, i) == (TotalDofs(at) * i) \div ranks
Distance(a, b) == IF a < b THEN b - a ELSE a - b

(* validate_field_contiguous_partition *)
CutsStartBlocks(at, offsets) ==
    /\ offsets[Cardinality(DOMAIN offsets) - 1] = TotalDofs(at)
    /\ \A r \in RanksOf(offsets) : \E b \in DOMAIN at : offsets[r] = at[b]

(* Each cut is the block boundary on either side of its uniform target     *)
(* that is nearer, kept where all other ranks still get a block.           *)
Place(at, ranks, cuts, i) ==
    LET target == Target(at, ranks, i)
        low == cuts[i - 1] + 1
        high == Blocks(at) - (ranks - i)
        Clamped(b) == IF b < low THEN low ELSE IF b > high THEN high ELSE b
        insertion == Cardinality({b \in DOMAIN at : at[b] < target})
        lower == Clamped(insertion - 1)
        upper == Clamped(insertion)
    IN  [cuts EXCEPT ![i] =
            IF Distance(at[lower], target) <= Distance(at[upper], target) THEN lower ELSE upper]
AlignedCuts(at, ranks) ==
    FoldLeft(LAMBDA cuts, i : Place(at, ranks, cuts, i),
             [r \in 0 .. ranks |-> IF r = 0 THEN 0 ELSE Blocks(at)], [i \in 1 .. ranks - 1 |-> i])

(* Stored entries between blocks on different sides of each boundary. *)
Pressure(matrix, at) ==
    LET of == [i \in Nodes(matrix) |-> BlockOf(at, i)]
        arcs == {a \in Nodes(matrix) \X Nodes(matrix) : a[2] \in Row(matrix, a[1])}
    IN  [b \in DOMAIN at |-> Cardinality({a \in arcs : (of[a[1]] < b) # (of[a[2]] < b)})]

(* The largest rank of the aligned partition, or 115 % of the mean.        *)
MaxOwned(at, aligned) ==
    LET ranks == Cardinality(DOMAIN aligned) - 1
        cap_115 == (TotalDofs(at) * 115 + ranks * 100 - 1) \div (ranks * 100)
    IN  Max({cap_115} \cup {OwnedLen(Offsets(at, aligned), r) : r \in 0 .. ranks - 1})

(* Where cut i may go while its neighbours stay. *)
Reachable(at, cuts, i, start, radius, limit) ==
    {c \in cuts[i - 1] + 1 .. cuts[i + 1] - 1 :
        /\ Distance(c, start) <= radius
        /\ at[c] - at[cuts[i - 1]] <= limit /\ at[cuts[i + 1]] - at[c] <= limit}

(* A cut goes to the boundary of the least pressure, then to the one       *)
(* nearest to its target, then to the first; three times each.             *)
Move(task, cuts, i) ==
    [cuts EXCEPT ![i] =
        Best({@} \cup Reachable(task.at, cuts, i, task.aligned[i], task.radius, task.limit),
             LAMBDA c : <<-task.pressure[c], -Distance(task.at[c], Target(task.at, task.ranks, i)), -c>>)]
Refinement(matrix, at, ranks, radius) ==
    LET aligned == AlignedCuts(at, ranks)
    IN  [at |-> at, ranks |-> ranks, radius |-> radius, aligned |-> aligned,
         limit |-> MaxOwned(at, aligned), pressure |-> Pressure(matrix, at)]
RefinedCuts(matrix, at, ranks, radius) ==
    LET task == Refinement(matrix, at, ranks, radius)
        sweep == [i \in 1 .. ranks - 1 |-> i]
    IN  FoldLeft(LAMBDA cuts, i : Move(task, cuts, i), task.aligned, sweep \o sweep \o sweep)

(* communication_volume, cut_nnz and directional_peer_relations *)
Telemetry(matrix, offsets) ==
    LET owner == [i \in Nodes(matrix) |-> OwnerOf(offsets, i)]
        cut == {a \in Nodes(matrix) \X Nodes(matrix) :
                   a[2] \in Row(matrix, a[1]) /\ owner[a[1]] # owner[a[2]]}
        ghosts == {<<owner[a[1]], a[2]>> : a \in cut}
        wanted == {<<owner[a[1]], owner[a[2]]>> : a \in cut}
        peers == wanted \cup {<<q[2], q[1]>> : q \in wanted}
    IN  <<Cardinality(ghosts), Cardinality(cut), Cardinality(peers)>>

(* No measure regresses and one improves. *)
Improves(found, baseline) ==
    /\ \A k \in DOMAIN baseline : found[k] <= baseline[k]
    /\ found # baseline

FieldGraphCuts(matrix, at, ranks, radius) ==
    LET aligned == AlignedCuts(at, ranks)
        refined == RefinedCuts(matrix, at, ranks, radius)
        Measured(cuts) == Telemetry(matrix, Offsets(at, cuts))
    IN  IF Improves(Measured(refined), Measured(aligned)) THEN refined ELSE aligned
-----------------------------------------------------------------------------
(* What the refined cuts must be, although each was moved while the others *)
(* stood elsewhere: every rank still has a block and no more than it may,  *)
(* no cut left its radius, less is cut in total than before, and an entry  *)
(* that is cut counts at least once in the pressures it was judged by. The *)
(* chosen partition passes the checks the code makes on its own result,    *)
(* splits no block, and its halo plans bring what its rows need.           *)
FieldCutsSound(matrix, at, ranks, radius) ==
    LET aligned == AlignedCuts(at, ranks)
        refined == RefinedCuts(matrix, at, ranks, radius)
        chosen == Offsets(at, FieldGraphCuts(matrix, at, ranks, radius))
        pressure == Pressure(matrix, at)
        Crossing(cuts) == SumFunctionOnSet([r \in DOMAIN cuts |-> pressure[cuts[r]]], 1 .. ranks - 1)
    IN  /\ \A r \in 0 .. ranks - 1 :
              /\ aligned[r] < aligned[r + 1] /\ refined[r] < refined[r + 1]
              /\ OwnedLen(Offsets(at, refined), r) <= MaxOwned(at, aligned)
              /\ Distance(refined[r], aligned[r]) <= radius
        /\ Telemetry(matrix, Offsets(at, refined))[2] <= Crossing(refined)
        /\ Crossing(refined) <= Crossing(aligned)
        /\ IsPartition(chosen, matrix.n) /\ CutsStartBlocks(at, chosen)
        /\ \A b \in 1 .. Blocks(at) : \A i \in at[b - 1] .. at[b] - 1 :
              OwnerOf(chosen, i) = OwnerOf(chosen, at[b - 1])
        /\ ExchangeDelivers(matrix, chosen)
=============================================================================
