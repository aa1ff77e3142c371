--------------------------- MODULE PartitionGraph ---------------------------
(* The graph algorithms the partitioners of hybit-distributed share: views *)
(* of the sparsity pattern, seeds, targets, caps, coarsening and the cut.  *)
(* A pattern is [n |-> rows, cols |-> stored columns of each row]; words   *)
(* and masks of the ABTM topology only serve to enumerate it in ascending  *)
(* order. usize::MAX - x as a tie breaker is -x here.                      *)
EXTENDS Integers, Sequences, FiniteSets, SequencesExt

Nodes(matrix) == 0 .. matrix.n - 1
IsPattern(matrix) == matrix.n \in Nat /\ matrix.cols \in [Nodes(matrix) -> SUBSET Nodes(matrix)]
Row(matrix, i) == matrix.cols[i]
Column(matrix, i) == {k \in Nodes(matrix) : i \in matrix.cols[k]}

(* The elements in order; Before is total on them. *)
Sorted(set, Before(_, _)) ==
    [k \in 1 .. Cardinality(set) |->
        CHOOSE x \in set : Cardinality({y \in set : Before(y, x)}) = k - 1]
Ascending(set) == Sorted(set, <)

(* The part of a sequence that lies in the set. *)
Among(seq, set) ==
    LET kept == Ascending({k \in DOMAIN seq : seq[k] \in set})
    IN  [k \in DOMAIN kept |-> seq[kept[k]]]

(* Neighbours of each node in either direction, without the node itself. *)
UndirectedAdjacency(matrix) ==
    [i \in Nodes(matrix) |-> (Row(matrix, i) \cup Column(matrix, i)) \ {i}]

(* Stored entries in the row plus those in the column, the diagonal twice. *)
NodeDegree(matrix) ==
    [i \in Nodes(matrix) |-> Cardinality(Row(matrix, i)) + Cardinality(Column(matrix, i))]
AdjacencyDegree(adj) == [i \in DOMAIN adj |-> Cardinality(adj[i])]

(* Candidates are compared as tuples, the first difference decides.        *)
Exceeds(a, b) ==
    \E k \in DOMAIN a : a[k] > b[k] /\ \A j \in 1 .. k - 1 : a[j] = b[j]
Best(set, Key(_)) ==
    CHOOSE x \in set : \A y \in set \ {x} : Exceeds(Key(x), Key(y))

(* The free node of the highest degree, the first of them. *)
ChooseSeed(free, degree) == Best(free, LAMBDA i : <<degree[i], -i>>)

(* Breadth-first distance from the seeds; n stands for unreachable. *)
Distances(adj, seeds) ==
    LET n == Cardinality(DOMAIN adj)
        Widen(balls, k) == Append(balls, Last(balls) \cup UNION {adj[i] : i \in Last(balls)})
        within == FoldLeft(Widen, <<seeds>>, [k \in 1 .. n - 1 |-> k])
    IN  [i \in DOMAIN adj |-> Cardinality({k \in 1 .. n : i \notin within[k]})]

(* The first seed has the highest degree; each further one is unreachable  *)
(* from those before it, or else the farthest.                             *)
SpreadSeeds(adj, degree, ranks) ==
    LET n == Cardinality(DOMAIN adj)
        Spread(seeds, k) ==
            LET distance == Distances(adj, ToSet(seeds))
                Rating(i) == IF distance[i] = n THEN <<1, 0, degree[i], -i>>
                             ELSE <<0, distance[i], degree[i], -i>>
            IN  Append(seeds, Best(DOMAIN adj \ ToSet(seeds), Rating))
    IN  FoldLeft(Spread, <<ChooseSeed(DOMAIN adj, degree)>>, [k \in 1 .. ranks - 1 |-> k])

BalancedTargets(n, ranks) ==
    [r \in 0 .. ranks - 1 |-> n \div ranks + (IF r < n % ranks THEN 1 ELSE 0)]

LoadCap(total, ranks, per_mille) == (total * (1000 + per_mille)) \div (ranks * 1000)
MinimumLoad(total, ranks, per_mille) == (total * (1000 - per_mille)) \div (ranks * 1000)

TotalWeight(weights) == SumFunction(weights)

(* What each rank owns; nodes without an owner are owned by NoRank. *)
NoRank == -1
LoadsOf(owners, weights, ranks) ==
    [r \in 0 .. ranks - 1 |-> SumFunctionOnSet(weights, {i \in DOMAIN owners : owners[i] = r})]

(* Pairs of neighbours with different owners. *)
Cut(adj, owners) ==
    Cardinality({pair \in (DOMAIN adj) \X (DOMAIN adj) :
        pair[1] < pair[2] /\ pair[2] \in adj[pair[1]] /\ owners[pair[1]] # owners[pair[2]]})

(* Nodes in order of descending degree take the free neighbour with the    *)
(* most shared neighbours, or stay alone.                                  *)
Unpaired == -1
Pairing(adj) ==
    LET Mates(free, i) ==
            IF free = {} THEN {}
            ELSE {Best(free, LAMBDA j : <<Cardinality(adj[j] \cap adj[i]), -Cardinality(adj[j]), -j>>)}
        Aggregate(done, i) ==
            IF done.of[i] # Unpaired THEN done
            ELSE LET pair == {i} \cup Mates({j \in adj[i] : done.of[j] = Unpaired}, i)
                 IN  [of |-> [j \in DOMAIN adj |-> IF j \in pair THEN done.n ELSE done.of[j]],
                      n |-> done.n + 1]
        order == Sorted(DOMAIN adj, LAMBDA i, j :
            Exceeds(<<Cardinality(adj[i]), -i>>, <<Cardinality(adj[j]), -j>>))
    IN  FoldLeft(Aggregate, [of |-> [j \in DOMAIN adj |-> Unpaired], n |-> 0], order)

(* A mistake: neighbours inside an aggregate are not filtered out. *)
CoarsenKeepsLoops(adj, weights) ==
    LET pairs == Pairing(adj)
        Members(c) == {i \in DOMAIN adj : pairs.of[i] = c}
    IN  [adj |-> [c \in 0 .. pairs.n - 1 |->
                    {pairs.of[j] : j \in UNION {adj[i] : i \in Members(c)}}],
         weights |-> [c \in 0 .. pairs.n - 1 |-> SumFunctionOnSet(weights, Members(c))],
         of |-> pairs.of]

(* The graph of the aggregates, their weights, and where each node went. *)
Coarsen(adj, weights) ==
    LET pairs == Pairing(adj)
        Members(c) == {i \in DOMAIN adj : pairs.of[i] = c}
    IN  [adj |-> [c \in 0 .. pairs.n - 1 |->
                    {pairs.of[j] : j \in UNION {adj[i] : i \in Members(c)}} \ {c}],
         weights |-> [c \in 0 .. pairs.n - 1 |-> SumFunctionOnSet(weights, Members(c))],
         of |-> pairs.of]
=============================================================================
