---------------------------- MODULE Aggregation -----------------------------
(* Aggregates of the two-level preconditioners (hybit-precond): nodes are  *)
(* blocks of rows, grown breadth-first into regions of a target size;      *)
(* small regions are merged into a neighbour and the ids made compact. All *)
(* are functions of the sparsity pattern. Lists give the neighbours of a   *)
(* node in the order they are visited: ascending, or by strength.          *)
EXTENDS PartitionGraph

None == -1

(* build_block_node_adjacency. *)
BlockAdjacency(matrix, width) ==
    [node \in 0 .. matrix.n \div width - 1 |->
        {column \div width : column \in UNION {Row(matrix, node * width + k) : k \in 0 .. width - 1}}
            \ {node}]
AscendingLists(adj) == [node \in DOMAIN adj |-> Ascending(adj[node])]

(* An aggregation under way: the aggregate of each node, and how many.     *)
Nothing(lists) == [of |-> [node \in DOMAIN lists |-> None], count |-> 0]
Members(of, aggregate) == {node \in DOMAIN of : of[node] = aggregate}

(* Up to target nodes from seed, breadth-first, that are not taken.        *)
Region(lists, of, seed, target) ==
    LET grown[k \in 0 .. target] ==
            IF k = 0 THEN [members |-> <<>>, queue |-> <<seed>>]
            ELSE LET before == grown[k - 1]
                     free(node) == of[node] = None /\ node \notin ToSet(before.members)
                     queue == SelectSeq(before.queue, free)
                 IN  IF queue = <<>> THEN before
                     ELSE [members |-> Append(before.members, Head(queue)),
                           queue |-> Tail(queue) \o lists[Head(queue)]]
    IN  grown[target].members

Open(a, nodes) ==
    [of |-> [node \in DOMAIN a.of |-> IF node \in nodes THEN a.count ELSE a.of[node]],
     count |-> a.count + 1]

Numbers(n) == [k \in 1 .. n |-> k - 1]

(* build_piecewise_constant_graph_aggregates: every region is one.         *)
PiecewiseRegions(lists, target) ==
    LET Seed(a, seed) ==
            IF a.of[seed] # None THEN a ELSE Open(a, ToSet(Region(lists, a.of, seed, target)))
    IN  FoldLeft(Seed, Nothing(lists), Numbers(Cardinality(DOMAIN lists)))

(* Tail nodes one after the other: the aggregate of the first neighbour    *)
(* that has one, or the last aggregate.                                    *)
JoinTail(lists, a, tail) ==
    LET marked == Open(a, ToSet(tail)).of
        Join(of, node) ==
            LET joined == SelectSeq(lists[node], LAMBDA j : of[j] \notin {None, a.count})
            IN  [of EXCEPT ![node] = IF joined = <<>> THEN a.count - 1 ELSE of[Head(joined)]]
    IN  [a EXCEPT !.of = FoldLeft(Join, marked, tail)]

SupportsModes(region) == Len(region) >= 3

(* The first phase of build_graph_aggregates; a tail before the first      *)
(* region is an error.                                                     *)
RigidRegions(lists, target) ==
    LET Seed(a, seed) ==
            LET region == Region(lists, a.of, seed, target)
            IN  IF a.count = None \/ a.of[seed] # None THEN a
                ELSE IF SupportsModes(region) THEN Open(a, ToSet(region))
                ELSE IF a.count = 0 THEN [a EXCEPT !.count = None]
                ELSE JoinTail(lists, a, region)
    IN  FoldLeft(Seed, Nothing(lists), Numbers(Cardinality(DOMAIN lists)))

(* Edges from an aggregate into the others, which are not empty then; the  *)
(* replacement has the most, then the fewest nodes, then the lowest id.    *)
EdgesInto(lists, of, small, other) ==
    SumFunctionOnSet([node \in Members(of, small) |->
                         Len(SelectSeq(lists[node], LAMBDA j : of[j] = other))],
                     Members(of, small))
Touched(lists, of, small) ==
    {of[j] : j \in UNION {ToSet(lists[node]) : node \in Members(of, small)}} \ {small}
Replacement(lists, of, small) ==
    Best(Touched(lists, of, small),
         LAMBDA other : <<EdgesInto(lists, of, small, other),
                          -Cardinality(Members(of, other)), -other>>)

Undersized(of, aggregate, floor) == Cardinality(Members(of, aggregate)) \in 1 .. floor - 1

Absorbable(lists, of, small, floor) ==
    Undersized(of, small, floor) /\ Touched(lists, of, small) # {}

(* Sweeps until one merges nothing: at most as many as aggregates.         *)
Merged(lists, a, floor) ==
    LET Absorb(of, small) ==
            IF ~Absorbable(lists, of, small, floor) THEN of
            ELSE LET replacement == Replacement(lists, of, small)
                 IN  [node \in DOMAIN of |-> IF of[node] = small THEN replacement ELSE of[node]]
        Sweep(of, k) ==
            IF \E small \in 0 .. a.count - 1 : Absorbable(lists, of, small, floor)
            THEN FoldLeft(Absorb, of, Numbers(a.count)) ELSE of
    IN  FoldLeft(Sweep, a.of, Numbers(a.count))

(* Ids in the order of the first node of each aggregate.                   *)
Compact(of) ==
    LET first == {node \in DOMAIN of : \A j \in DOMAIN of : of[j] = of[node] => node <= j}
        Leader(node) == CHOOSE j \in first : of[j] = of[node]
    IN  [node \in DOMAIN of |-> Cardinality({j \in first : j < Leader(node)})]

AtLeast(floor, x) == IF x < floor THEN floor ELSE x
PiecewiseFloor(target) == AtLeast(1, target \div 4)
RigidFloor(target) == AtLeast(3, target \div 4)
TooSmall == <<>>

PiecewiseAggregates(lists, target) ==
    Compact(Merged(lists, PiecewiseRegions(lists, target), PiecewiseFloor(target)))

GraphAggregates(lists, target) ==
    LET regions == RigidRegions(lists, target)
    IN  IF regions.count = None \/ Cardinality(DOMAIN lists) < 3 THEN TooSmall
        ELSE Compact(Merged(lists, regions, RigidFloor(target)))

(* recommend_algebraic_aggregate_nodes and, for contiguous aggregates,     *)
(* recommend_rigid_body_aggregate_nodes: a power of two, then larger until *)
(* no tail of one or two nodes is left.                                    *)
CeilDiv(a, b) == (a + b - 1) \div b
RecommendAlgebraic(nodes, most) == AtLeast(1, CeilDiv(nodes, AtLeast(1, most)))

LeastPowerOfTwo(x) == CHOOSE p \in {2^k : k \in 0 .. 10} : x <= p /\ (p = 1 \/ p \div 2 < x)
RigidCount(nodes, dimension) ==
    LET most == AtLeast(1, nodes \div 3)
        wanted == AtLeast(1, dimension \div 6)
    IN  IF wanted < most THEN wanted ELSE most
RecommendRigid(nodes, dimension) ==
    LET power == LeastPowerOfTwo(CeilDiv(nodes, RigidCount(nodes, dimension)))
        start == AtLeast(3, IF power < nodes THEN power ELSE nodes)
    IN  CHOOSE size \in start .. nodes :
            /\ size = nodes \/ nodes % size \notin {1, 2}
            /\ \A less \in start .. size - 1 : nodes % less \in {1, 2}
-----------------------------------------------------------------------------
Reach(adj, set, node) ==
    LET inside == [i \in DOMAIN adj |-> IF i \in set THEN adj[i] \cap set ELSE {}]
        distance == Distances(inside, {node})
    IN  {i \in set : distance[i] < Cardinality(DOMAIN adj)}
Connected(adj, set) == \A node \in set : Reach(adj, set, node) = set

Ids(of) == {of[node] : node \in DOMAIN of}
CompactIds(of) == Ids(of) = 0 .. Cardinality(Ids(of)) - 1
Isolated(adj, set) == \A node \in set : adj[node] \subseteq set

(* A small aggregate is left only where there is no edge to merge across.  *)
SmallOnlyIfIsolated(adj, of, floor) ==
    \A aggregate \in Ids(of) :
        Undersized(of, aggregate, floor) => Isolated(adj, Members(of, aggregate))

PiecewiseSound(adj, of, target) ==
    /\ DOMAIN of = DOMAIN adj /\ CompactIds(of)
    /\ SmallOnlyIfIsolated(adj, of, PiecewiseFloor(target))
    /\ \A aggregate \in Ids(of) :
          /\ Connected(adj, Members(of, aggregate))
          /\ PiecewiseFloor(target) = 1 => Cardinality(Members(of, aggregate)) <= target
RigidSound(adj, of, target) ==
    /\ DOMAIN of = DOMAIN adj /\ CompactIds(of)
    /\ SmallOnlyIfIsolated(adj, of, RigidFloor(target))
    /\ \A aggregate \in Ids(of) : Cardinality(Members(of, aggregate)) >= 3
RecommendationsSound(nodes) ==
    \A dimension \in 6 .. 40 :
        LET size == RecommendRigid(nodes, dimension)
        IN  /\ nodes % size \notin {1, 2} /\ 6 * CeilDiv(nodes, size) <= dimension
            /\ CeilDiv(nodes, RecommendAlgebraic(nodes, dimension)) <= dimension

(* Aggregates of any target size, with neighbours in ascending or reversed *)
(* order, for nodes of one or two rows: all nodes are in one aggregate,    *)
(* ids are compact, only isolated aggregates stay below the floor. Those   *)
(* of the piecewise space are connected, and of at most the target size    *)
(* if none are merged; those of the rigid-body space have at least three   *)
(* nodes. Recommended sizes keep the number of aggregates within the       *)
(* coarse dimension and leave no tail of one or two nodes.                 *)
Orders(adj) == {AscendingLists(adj), [node \in DOMAIN adj |-> Reverse(AscendingLists(adj)[node])]}
SoundOn(matrix) ==
    /\ \A width \in {1, 2}, target \in {1, 3, 8, 16} :
          LET adj == BlockAdjacency(matrix, width)
          IN  \A lists \in Orders(adj) :
                /\ PiecewiseSound(adj, PiecewiseAggregates(lists, target), target)
                /\ target >= 3 => LET of == GraphAggregates(lists, target)
                                  IN  of = TooSmall \/ RigidSound(adj, of, target)
    /\ \A nodes \in 3 .. 3 * matrix.n : RecommendationsSound(nodes)
=============================================================================
