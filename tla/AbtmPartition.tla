--------------------------- MODULE AbtmPartition ----------------------------
(* The three ABTM partitioners of hybit-distributed: region growth one     *)
(* rank after the other, simultaneous growth from spread seeds             *)
(* (partition.rs), and the multilevel scheme with cut refinement and pair  *)
(* swaps (multilevel.rs). One step is one iteration of their loops.        *)
(* Telemetry, counters and timing are left out.                            *)
EXTENDS PartitionGraph

CONSTANT Inputs   \* the calls to consider: method, matrix, ranks and options

Methods == {"region", "multisource", "multilevel"}
ASSUME InputAssumption ==
    \A it \in Inputs :
        /\ it.method \in Methods /\ IsPattern(it.matrix) /\ it.ranks \in Nat
        /\ it.imbalance_per_mille \in Nat /\ it.max_levels \in Nat
        /\ it.coarse_vertices_per_rank \in Nat /\ it.refinement_passes \in Nat

VARIABLES
    input,      \* the call
    phase,      \* the loop it is in, or how it ended
    levels,     \* finer levels of the hierarchy, the finest first
    adj,        \* graph being partitioned ...
    weights,    \* ... and the rows each of its nodes stands for
    owners,     \* owner of each node, NoRank before it has one
    loads,      \* what the code believes each rank owns
    frontiers,  \* queue of candidates of each rank
    rank,       \* rank whose turn it is to grow
    node,       \* node whose turn it is to be refined
    pass,       \* refinement passes finished
    changed,    \* whether this sweep or pass changed anything
    proposals,  \* swaps still to be tried in this pass
    used        \* nodes swapped in this pass

vars == <<input, phase, levels, adj, weights, owners, loads, frontiers, rank, node, pass,
          changed, proposals, used>>
graphVars == <<input, levels, adj, weights>>
refineVars == <<node, pass, proposals, used>>

Ranks == input.ranks
RankSet == 0 .. Ranks - 1
Size == Cardinality(DOMAIN adj)
Targets == BalancedTargets(input.matrix.n, Ranks)
Cap == LoadCap(TotalWeight(weights), Ranks, input.imbalance_per_mille)
Floor == MinimumLoad(TotalWeight(weights), Ranks, input.imbalance_per_mille)
Free == {i \in DOMAIN owners : owners[i] = NoRank}

Failures == {"invalid rank count", "invalid options", "aggregate exceeds cap", "no capacity",
             "empty rank"}
Done == phase = "done" \/ phase \in Failures

Init ==
    /\ input \in Inputs
    /\ phase = "enter" /\ levels = <<>>
    /\ adj = UndirectedAdjacency(input.matrix)
    /\ weights = [i \in Nodes(input.matrix) |-> 1]
    /\ owners = [i \in Nodes(input.matrix) |-> NoRank]
    /\ loads = [r \in RankSet |-> 0]
    /\ frontiers = [r \in RankSet |-> <<>>]
    /\ rank = 0 /\ node = 0 /\ pass = 0 /\ changed = FALSE /\ proposals = <<>> /\ used = {}

(* Node i becomes rank r's; its queue is extended by the nodes in seq. *)
Claim(r, i, queue) ==
    /\ owners' = [owners EXCEPT ![i] = r]
    /\ loads' = [loads EXCEPT ![r] = @ + weights[i]]
    /\ frontiers' = [frontiers EXCEPT ![r] = queue]

(* The seeds are claimed first, then each rank queues their neighbours. *)
PlantSeeds(degree, neighbours) ==
    LET seeds == SpreadSeeds(adj, degree, Ranks)
    IN  /\ owners' = [i \in DOMAIN owners |->
                         IF i \in ToSet(seeds) THEN (CHOOSE k \in DOMAIN seeds : seeds[k] = i) - 1
                         ELSE NoRank]
        /\ loads' = [r \in RankSet |-> weights[seeds[r + 1]]]
        /\ frontiers' = [r \in RankSet |->
               Among(neighbours[seeds[r + 1]], DOMAIN adj \ ToSet(seeds))]
        /\ rank' = 0 /\ changed' = FALSE

(* A node's row, then its column: a neighbour in both comes twice. *)
RowThenColumn(i) ==
    Ascending(Row(input.matrix, i) \ {i}) \o Ascending(Column(input.matrix, i) \ {i})

OptionsValid ==
    /\ input.max_levels # 0 /\ input.coarse_vertices_per_rank # 0
    /\ input.refinement_passes # 0 /\ input.imbalance_per_mille <= 500

Enter ==
    /\ phase = "enter"
    /\ phase' = IF input.method = "multilevel" /\ ~OptionsValid THEN "invalid options"
                ELSE IF Ranks = 0 \/ Ranks > input.matrix.n THEN "invalid rank count"
                ELSE IF input.method = "multilevel" THEN "coarsen" ELSE input.method
    /\ IF phase' = "multisource"
       THEN PlantSeeds(NodeDegree(input.matrix), [i \in Nodes(input.matrix) |-> RowThenColumn(i)])
       ELSE UNCHANGED <<owners, loads, frontiers, rank, changed>>
    /\ UNCHANGED <<graphVars, refineVars>>
-----------------------------------------------------------------------------
(* abtm_region_grow_partition: one rank is filled after the other.         *)
RegionSeed ==
    /\ phase = "region" /\ rank < Ranks
    /\ loads[rank] < Targets[rank] /\ frontiers[rank] = <<>>
    /\ LET seed == ChooseSeed(Free, NodeDegree(input.matrix))
       IN  Claim(rank, seed, <<seed>>)
    /\ UNCHANGED <<graphVars, refineVars, phase, rank, changed>>

(* The free neighbours of the first node in the queue, up to the target. *)
RegionExpand ==
    /\ phase = "region" /\ rank < Ranks
    /\ loads[rank] < Targets[rank] /\ frontiers[rank] # <<>>
    /\ LET head == Head(frontiers[rank])
           row == Row(input.matrix, head) \cap Free
           column == (Column(input.matrix, head) \cap Free) \ row
           found == Ascending(row) \o Ascending(column)
           room == Targets[rank] - loads[rank]
           claimed == IF Len(found) <= room THEN found ELSE SubSeq(found, 1, room)
       IN  /\ owners' = [i \in DOMAIN owners |-> IF i \in ToSet(claimed) THEN rank ELSE owners[i]]
           /\ loads' = [loads EXCEPT ![rank] = @ + Len(claimed)]
           /\ frontiers' = [frontiers EXCEPT ![rank] = Tail(@) \o claimed]
    /\ UNCHANGED <<graphVars, refineVars, phase, rank, changed>>

RegionNext ==
    /\ phase = "region" /\ rank < Ranks /\ loads[rank] = Targets[rank]
    /\ rank' = rank + 1
    /\ phase' = IF rank + 1 = Ranks THEN "done" ELSE phase
    /\ UNCHANGED <<graphVars, refineVars, owners, loads, frontiers, changed>>
-----------------------------------------------------------------------------
(* abtm_balanced_multisource_partition: every rank below its target claims *)
(* one node per sweep, from its queue or as a restart. As the targets add  *)
(* up to the rows, neither can fail, and no sweep is idle.                 *)
MultisourceClaim ==
    /\ phase = "multisource" /\ rank < Ranks
    /\ IF loads[rank] >= Targets[rank] THEN UNCHANGED <<owners, loads, frontiers, changed>>
       ELSE LET queue == frontiers[rank]
                open == {k \in DOMAIN queue : queue[k] \in Free}
                first == IF open = {} THEN Len(queue) ELSE CHOOSE k \in open : \A j \in open : k <= j
                claimed == IF open = {} THEN ChooseSeed(Free, NodeDegree(input.matrix)) ELSE queue[first]
                fresh == Among(RowThenColumn(claimed), Free)
            IN  Claim(rank, claimed, SubSeq(queue, first + 1, Len(queue)) \o fresh) /\ changed' = TRUE
    /\ rank' = rank + 1
    /\ UNCHANGED <<graphVars, refineVars, phase>>

MultisourceSweep ==
    /\ phase = "multisource" /\ rank = Ranks
    /\ phase' = IF Free = {} THEN "done" ELSE phase
    /\ rank' = 0 /\ changed' = FALSE
    /\ UNCHANGED <<graphVars, refineVars, owners, loads, frontiers>>
-----------------------------------------------------------------------------
(* abtm_multilevel_partition: pairs are merged until the graph is small.   *)
StopVertices == Ranks * input.coarse_vertices_per_rank
Shrinks(coarse) ==
    /\ Len(levels) < input.max_levels /\ Size > StopVertices
    /\ Cardinality(DOMAIN coarse.adj) < Size

CoarsenOnce ==
    /\ phase = "coarsen"
    /\ LET coarse == Coarsen(adj, weights)
       IN  /\ Shrinks(coarse)
           /\ levels' = Append(levels, [adj |-> adj, weights |-> weights, of |-> coarse.of])
           /\ adj' = coarse.adj /\ weights' = coarse.weights
           /\ owners' = [c \in DOMAIN coarse.adj |-> NoRank]
    /\ UNCHANGED <<refineVars, input, phase, loads, frontiers, rank, changed>>

(* weighted_multisource_partition up to its loop. *)
StartGrowth ==
    /\ phase = "coarsen" /\ ~Shrinks(Coarsen(adj, weights))
    /\ phase' = IF \E i \in DOMAIN weights : weights[i] > Cap THEN "aggregate exceeds cap"
                ELSE IF Size < Ranks THEN "invalid rank count" ELSE "grow"
    /\ IF phase' = "grow" THEN PlantSeeds(AdjacencyDegree(adj), [i \in DOMAIN adj |-> Ascending(adj[i])])
       ELSE UNCHANGED <<owners, loads, frontiers, rank, changed>>
    /\ UNCHANGED <<graphVars, refineVars>>

Fits(r, i) == i \in Free /\ loads[r] + weights[i] <= Cap
Adjacent(i) == Among(Ascending(adj[i]), Free)

(* One rank's turn: the first queued node that fits, else any that fits.   *)
(* Free nodes that are too heavy go to the end of the queue.               *)
GrowthClaim ==
    /\ phase = "grow" /\ rank < Ranks
    /\ LET queue == frontiers[rank]
           open == {k \in DOMAIN queue : Fits(rank, queue[k])}
           first == IF open = {} THEN Len(queue) + 1 ELSE CHOOSE k \in open : \A j \in open : k <= j
           deferred == Among(SubSeq(queue, 1, first - 1), Free)
           kept == SubSeq(queue, first + 1, Len(queue)) \o deferred
           fitting == {i \in Free : Fits(rank, i)}
           claimed == IF open # {} THEN queue[first] ELSE ChooseSeed(fitting, AdjacencyDegree(adj))
       IN  IF fitting = {}
           THEN frontiers' = [frontiers EXCEPT ![rank] = kept] /\ UNCHANGED <<owners, loads, changed>>
           ELSE Claim(rank, claimed, kept \o Adjacent(claimed)) /\ changed' = TRUE
    /\ rank' = rank + 1
    /\ UNCHANGED <<graphVars, refineVars, phase>>

(* After a sweep: on to refinement, another sweep, or, when no rank could  *)
(* claim anything, the lightest rank that still fits something (it never   *)
(* does: such a sweep has just tried every free node on every rank).       *)
GrowthSweep ==
    /\ phase = "grow" /\ rank = Ranks
    /\ LET fallback == {c \in RankSet \X Free : Fits(c[1], c[2])}
           best == Best(fallback, LAMBDA c : <<-loads[c[1]], Cardinality(adj[c[2]]), -c[2], -c[1]>>)
           stuck == Free # {} /\ ~changed
       IN  /\ phase' = IF Free = {} THEN "refine"
                       ELSE IF stuck /\ fallback = {} THEN "no capacity" ELSE phase
           /\ IF stuck /\ fallback # {}
              THEN Claim(best[1], best[2], frontiers[best[1]] \o Adjacent(best[2]))
              ELSE UNCHANGED <<owners, loads, frontiers>>
    /\ rank' = 0 /\ changed' = FALSE
    /\ UNCHANGED <<graphVars, refineVars>>
-----------------------------------------------------------------------------
(* refine_by_cut: a node moves to the rank it has the most links to, if    *)
(* more than to its own and if both loads stay in bounds.                  *)
Links(i, r) == Cardinality({j \in adj[i] : owners[j] = r})
(* A mistake: the load of the target is not looked at. *)
MoveTargetsAnyLoad(i) == {r \in RankSet \ {owners[i]} : Links(i, r) > Links(i, owners[i])}
MoveTargets(i) ==
    {r \in RankSet \ {owners[i]} :
        Links(i, r) > Links(i, owners[i]) /\ loads[r] + weights[i] <= Cap}
MayLeave(i) == loads[owners[i]] - weights[i] >= Floor

RefineNode ==
    /\ phase = "refine" /\ node < Size
    /\ IF MayLeave(node) /\ MoveTargets(node) # {}
       THEN LET target == Best(MoveTargets(node), LAMBDA r : <<Links(node, r), -r>>)
            IN  /\ owners' = [owners EXCEPT ![node] = target]
                /\ loads' = [loads EXCEPT ![owners[node]] = @ - weights[node],
                                          ![target] = @ + weights[node]]
                /\ changed' = TRUE
       ELSE UNCHANGED <<owners, loads, changed>>
    /\ node' = node + 1
    /\ UNCHANGED <<graphVars, phase, frontiers, rank, pass, proposals, used>>

RefinePass ==
    /\ phase = "refine" /\ node = Size
    /\ changed /\ pass + 1 < input.refinement_passes
    /\ node' = 0 /\ pass' = pass + 1 /\ changed' = FALSE
    /\ UNCHANGED <<graphVars, phase, owners, loads, frontiers, rank, proposals, used>>

(* The passes of a level are over: from_owners, then the next finer level, *)
(* whose loads are counted anew, or the swaps on the finest.               *)
EmptyRank == \E r \in RankSet : \A i \in DOMAIN owners : owners[i] # r
RefineEnd ==
    /\ phase = "refine" /\ node = Size
    /\ ~(changed /\ pass + 1 < input.refinement_passes)
    /\ node' = 0 /\ pass' = 0 /\ changed' = FALSE
    /\ IF levels = <<>> \/ EmptyRank
       THEN /\ phase' = IF EmptyRank THEN "empty rank" ELSE "score"
            /\ UNCHANGED <<levels, adj, weights, owners, loads>>
       ELSE LET finer == Last(levels)
            IN  /\ levels' = Front(levels)
                /\ adj' = finer.adj /\ weights' = finer.weights
                /\ owners' = [i \in DOMAIN finer.adj |-> owners[finer.of[i]]]
                /\ loads' = LoadsOf(owners', weights', Ranks)
                /\ UNCHANGED phase
    /\ UNCHANGED <<input, frontiers, rank, proposals, used>>
-----------------------------------------------------------------------------
(* refine_fine_pair_swaps: scores of the whole pass are taken at its start.*)
Gain(i, r) == Links(i, r) - Links(i, owners[i])
Candidates(a, b) ==
    LET order == Sorted({i \in DOMAIN adj : owners[i] = a /\ Links(i, b) > 0},
                    LAMBDA i, j : Exceeds(<<Gain(i, b), -i>>, <<Gain(j, b), -j>>))
    IN  ToSet(SubSeq(order, 1, IF Len(order) < 8 THEN Len(order) ELSE 8))
Net(c) == Gain(c[1], owners[c[2]]) + Gain(c[2], owners[c[1]]) - (IF c[2] \in adj[c[1]] THEN 2 ELSE 0)
PairProposals(a, b) ==
    Sorted({c \in Candidates(a, b) \X Candidates(b, a) : Net(c) > 0},
        LAMBDA c, d : Exceeds(<<Net(c), -c[1], -c[2]>>, <<Net(d), -d[1], -d[2]>>))
RankPairs ==
    Sorted({p \in RankSet \X RankSet : p[1] < p[2]},
        LAMBDA p, q : Exceeds(<<-p[1], -p[2]>>, <<-q[1], -q[2]>>))

Score ==
    /\ phase = "score"
    /\ proposals' = FlattenSeq([k \in DOMAIN RankPairs |->
           LET a == RankPairs[k][1]  b == RankPairs[k][2]
               pairs == PairProposals(a, b)
           IN  [j \in DOMAIN pairs |-> [a |-> a, b |-> b, x |-> pairs[j][1], y |-> pairs[j][2]]]])
    /\ used' = {} /\ changed' = FALSE /\ phase' = "swap"
    /\ UNCHANGED <<graphVars, owners, loads, frontiers, rank, node, pass>>

(* A mistake: the score of the start of the pass is taken as it was. *)
ScoredGain(c) == 1

(* The gain against the ownership of now, the pair's own edge left aside. *)
ExactGain(c) ==
    LET Side(i, other, from, to) ==
            Cardinality({j \in adj[i] \ {other} : owners[j] = to})
          - Cardinality({j \in adj[i] \ {other} : owners[j] = from})
    IN  Side(c.x, c.y, c.a, c.b) + Side(c.y, c.x, c.b, c.a)
InBounds(r) == loads[r] >= Floor /\ loads[r] <= Cap
Accepted(c) ==
    /\ c.x \notin used /\ c.y \notin used
    /\ owners[c.x] = c.a /\ owners[c.y] = c.b
    /\ ExactGain(c) > 0
    /\ InBounds(c.a) /\ InBounds(c.b)

Swap ==
    /\ phase = "swap" /\ proposals # <<>>
    /\ LET c == Head(proposals)
       IN  IF Accepted(c)
           THEN /\ owners' = [owners EXCEPT ![c.x] = c.b, ![c.y] = c.a]
                /\ used' = used \cup {c.x, c.y}
                /\ changed' = TRUE
           ELSE UNCHANGED <<owners, used, changed>>
    /\ proposals' = Tail(proposals)
    /\ UNCHANGED <<graphVars, phase, loads, frontiers, rank, node, pass>>

(* The multilevel scheme asks for four times as many passes of swaps. *)
SwapPass ==
    /\ phase = "swap" /\ proposals = <<>>
    /\ LET again == changed /\ pass + 1 < 4 * input.refinement_passes
       IN  /\ phase' = IF again THEN "score" ELSE "done"
           /\ pass' = IF again THEN pass + 1 ELSE pass
    /\ UNCHANGED <<graphVars, owners, loads, frontiers, rank, node, changed, proposals, used>>

Finished == Done /\ UNCHANGED vars

Next ==
    \/ Enter
    \/ RegionSeed \/ RegionExpand \/ RegionNext
    \/ MultisourceClaim \/ MultisourceSweep
    \/ CoarsenOnce \/ StartGrowth \/ GrowthClaim \/ GrowthSweep
    \/ RefineNode \/ RefinePass \/ RefineEnd
    \/ Score \/ Swap \/ SwapPass
    \/ Finished

Spec == Init /\ [][Next]_vars
-----------------------------------------------------------------------------
NodeSet == DOMAIN adj
Growing == {"region", "multisource", "grow"}
Refining == {"refine", "score", "swap"}

TypeOK ==
    /\ input \in Inputs
    /\ phase \in {"enter", "coarsen", "done"} \cup Growing \cup Refining \cup Failures
    /\ \A i \in NodeSet : adj[i] \subseteq NodeSet \ {i} /\ \A j \in adj[i] : i \in adj[j]
    /\ weights \in [NodeSet -> 1 .. input.matrix.n]
    /\ TotalWeight(weights) = input.matrix.n
    /\ owners \in [NodeSet -> RankSet \cup {NoRank}]
    /\ \A r \in RankSet : ToSet(frontiers[r]) \subseteq Nodes(input.matrix)
    /\ rank \in 0 .. Ranks /\ node \in 0 .. Size
    /\ changed \in BOOLEAN /\ used \subseteq NodeSet

(* The loads decisions are made on are those the owners really have, and   *)
(* stay in the tolerance: never above the cap, exactly the targets for the *)
(* growers. A partition that is returned gives every row to one rank and   *)
(* every rank a row; refinement empties a rank only if the minimum load    *)
(* is rounded down to nothing.                                             *)
Balanced ==
    /\ phase \in Growing \cup Refining \cup {"done"} => loads = LoadsOf(owners, weights, Ranks)
    /\ phase \in Refining \cup {"grow"} => \A r \in RankSet : loads[r] <= Cap
    /\ phase \in Refining \cup {"done"} => Free = {}
    /\ phase = "empty rank" => Floor = 0
    /\ phase = "done" =>
          IF input.method = "multilevel"
          THEN \A r \in RankSet : loads[r] \in 1 .. Cap
          ELSE loads = Targets

(* Refinement only ever improves: each move and each swap lowers the       *)
(* number of cut edges of the graph it works on, although swaps were       *)
(* scored before others of the same pass; and going to the finer level     *)
(* changes no load.                                                        *)
CutDecreases ==
    [][/\ phase \in {"refine", "swap"} /\ levels' = levels /\ owners' # owners
          => Cut(adj, owners') < Cut(adj, owners)
       /\ levels' # levels /\ phase = "refine" => loads' = loads]_vars

(* "Capacity exists globally, but coarse aggregate granularity can leave   *)
(* the round-robin frontier unable to fit the last item": when a sweep     *)
(* of weighted_multisource_partition changed nothing, the caps of all      *)
(* ranks together hold all rows.                                           *)
CapacityExists == phase = "no capacity" => Ranks * Cap >= input.matrix.n
=============================================================================
