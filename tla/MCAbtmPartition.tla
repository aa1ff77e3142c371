-------------------------- MODULE MCAbtmPartition ---------------------------
(* Calls of the partitioners on small patterns; the halo plans of every    *)
(* contiguous partition and the aggregates of the same patterns. The same  *)
(* run explores CostSelection, with the other at rest in each behaviour.   *)
EXTENDS AbtmPartition, CostSelection, Aggregation

(* The pattern with these arcs, with or without a diagonal. *)
Pattern(n, arcs, diagonal) ==
    [n |-> n, cols |-> [i \in 0 .. n - 1 |-> {j \in 0 .. n - 1 : <<i, j>> \in arcs}
                                         \cup (IF diagonal THEN {i} ELSE {})]]
Both(edges) == edges \cup {<<e[2], e[1]>> : e \in edges}

(* Four rows: a directed square with arcs across, any of them missing. *)
Arcs == {<<0, 1>>, <<1, 2>>, <<2, 3>>, <<3, 0>>, <<0, 2>>, <<1, 0>>, <<3, 1>>}
SmallPatterns == {Pattern(4, arcs, TRUE) : arcs \in SUBSET Arcs}

(* Six rows: two triangles with three edges between, any of them missing. *)
Prism == {<<0, 1>>, <<1, 2>>, <<0, 2>>, <<3, 4>>, <<4, 5>>, <<3, 5>>, <<0, 3>>, <<1, 4>>, <<2, 5>>}
PrismPatterns == {Pattern(6, Both(edges), FALSE) : edges \in SUBSET Prism}

(* Eight rows: a ring, and any of eight chords. *)
Circle == {<<i, i + 1>> : i \in 0 .. 6} \cup {<<0, 7>>}
Chords == {<<0, 2>>, <<0, 5>>, <<1, 4>>, <<1, 6>>, <<2, 7>>, <<3, 5>>, <<3, 6>>, <<4, 7>>}
RingPatterns == {Pattern(8, Both(Circle \cup edges), FALSE) : edges \in SUBSET Chords}

Call(method, matrix, ranks, imbalance, depth, coarse, passes) ==
    [method |-> method, matrix |-> matrix, ranks |-> ranks,
     imbalance_per_mille |-> imbalance, max_levels |-> depth,
     coarse_vertices_per_rank |-> coarse, refinement_passes |-> passes]

Growers ==
    {Call(method, matrix, ranks, 30, 12, 64, 2) :
        method \in {"region", "multisource"}, matrix \in SmallPatterns, ranks \in {2, 3}}
Multilevel ==
    {Call("multilevel", matrix, 2, 500, 2, 1, 2) : matrix \in PrismPatterns}
    \cup {Call("multilevel", matrix, 4, 500, 2, 64, 2) : matrix \in PrismPatterns}
    \cup {Call("multilevel", matrix, 2, imbalance, 3, coarse, 2) :
             matrix \in RingPatterns, imbalance \in {30, 500}, coarse \in {2, 64}}
    \cup {Call("multilevel", matrix, 3, 500, 3, 1, 1) : matrix \in RingPatterns}
Rejected ==
    {Call("region", Pattern(2, {}, TRUE), 3, 30, 12, 64, 2),
     Call("multilevel", Pattern(2, {}, TRUE), 0, 30, 12, 64, 2),
     Call("multilevel", Pattern(4, {}, TRUE), 2, 501, 12, 64, 2),
     Call("multilevel", Pattern(4, Both({<<0, 1>>, <<2, 3>>}), TRUE), 3, 500, 12, 1, 2),
     Call("multilevel", Pattern(3, Both({<<0, 1>>, <<1, 2>>}), TRUE), 2, 30, 12, 64, 2)}

(* Large enough for regions that are merged: a hub with 15 spokes, some of *)
(* which have a path of one to three nodes at their end.                   *)
Hub(tails) ==
    Pattern(20, Both({<<0, i>> : i \in 1 .. 15} \cup tails), FALSE)
Hubs ==
    {Call("multilevel", Hub(tails), 3, 500, 3, 1, 1) :
        tails \in {{<<1, 16>>, <<16, 17>>, <<17, 18>>, <<2, 19>>, <<3, 19>>},
                   {<<15, 16>>, <<14, 17>>, <<17, 18>>, <<18, 19>>, <<15, 18>>},
                   {<<16, 17>>, <<17, 18>>, <<18, 19>>}}}
(* Two regions of three nodes, and a tail that hangs on the first by its   *)
(* second node.                                                            *)
Fork ==
    Call("multilevel", Pattern(8, Both({<<0, 1>>, <<1, 2>>, <<2, 3>>, <<3, 4>>, <<4, 5>>, <<1, 7>>,
                                        <<6, 7>>}), FALSE), 3, 500, 3, 1, 1)
MCInputs == Growers \cup Multilevel \cup Rejected \cup Hubs \cup {Fork}

(* The plans of every contiguous partition of the pattern at hand deliver; *)
(* the balanced one is among them.                                         *)
PlansDeliver ==
    phase = "enter" /\ input.method = "region" =>
        /\ \A offsets \in AllOffsets(input.matrix.n) : ExchangeDelivers(input.matrix, offsets)
        /\ Ranks <= input.matrix.n =>
              BalancedOffsets(input.matrix.n, Ranks) \in AllOffsets(input.matrix.n)

(* Uneven field blocks over four and over eight rows. *)
Layouts ==
    {LayoutOf(sizes) : sizes \in
        {<<1, 1, 1, 1>>, <<2, 1, 1>>, <<1, 1, 2>>, <<1, 3>>,
         <<1, 3, 1, 1, 1, 1>>, <<2, 1, 1, 2, 2>>, <<1, 1, 1, 1, 4>>}}

(* The field-aligned partition of a pattern and its refinement. *)
FieldCuts ==
    phase = "enter" /\ (input.method = "region" \/ input.ranks = 3) =>
        \A at \in Layouts, radius \in 1 .. 2 :
            TotalDofs(at) = input.matrix.n /\ Blocks(at) >= Ranks
                => FieldCutsSound(input.matrix, at, Ranks, radius)

(* Aggregation sees the pattern of a call, once for each pattern.          *)
AggregatesSound ==
    phase = "enter" /\ input.method = "multilevel" /\ input.ranks > 2 => SoundOn(input.matrix)

-----------------------------------------------------------------------------
(* Problems that differ in one part of the identity, or lead to another    *)
(* decision, with policies and timings on both sides of every check.       *)
PathAnd(chords) == Pattern(8, Both({<<i, i + 1>> : i \in 0 .. 6} \cup chords), TRUE)
AtHand ==
    [matrix |-> PathAnd({<<0, 2>>, <<3, 6>>}), values |-> 1, at |-> LayoutOf(<<1, 1, 1, 1, 1, 1, 1, 1>>),
     fields |-> 1, ranks |-> 2, radius |-> 1, environment |-> "here"]
MCProblems ==
    {AtHand, [AtHand EXCEPT !.values = 2], [AtHand EXCEPT !.environment = "there"],
     [AtHand EXCEPT !.matrix = PathAnd({<<0, 2>>, <<0, 5>>, <<3, 6>>}),
                    !.at = LayoutOf(<<2, 1, 1, 2, 2>>), !.ranks = 3],
     [AtHand EXCEPT !.ranks = 3], [AtHand EXCEPT !.ranks = 3, !.radius = 2],
     [AtHand EXCEPT !.at = LayoutOf(<<1, 3, 1, 1, 1, 1>>), !.ranks = 3],
     [AtHand EXCEPT !.ranks = 1], [AtHand EXCEPT !.ranks = 9], [AtHand EXCEPT !.radius = 0]}
Policy(calls, cap, minimum) == [calls |-> calls, caps |-> <<cap, cap>>, minimum |-> minimum]
MCPolicies ==
    {Policy(10, 1300, 0), Policy(10, 1000, 0), Policy(0, 2000, 0), Policy(10, 999, 0), Policy(4, 2000, 7)}
MCTimings ==
    {[baseline |-> 10, graph |-> 7, prepare |-> 5], [baseline |-> 7, graph |-> 7, prepare |-> 0],
     [baseline |-> 10, graph |-> 0, prepare |-> 0]}

CostAtRest == problem = AtHand /\ calibration = NoEvidence /\ candidate = NoEvidence /\ answer = NoEvidence
PartitionAtRest ==
    /\ input = Fork /\ phase = "at rest" /\ levels = <<>> /\ adj = UndirectedAdjacency(Fork.matrix)
    /\ weights = [i \in Nodes(Fork.matrix) |-> 1] /\ owners = [i \in Nodes(Fork.matrix) |-> NoRank]
    /\ loads = [r \in 0 .. 2 |-> 0] /\ frontiers = [r \in 0 .. 2 |-> <<>>]
    /\ rank = 0 /\ node = 0 /\ pass = 0 /\ changed = FALSE /\ proposals = <<>> /\ used = {}
Init2 == (Init /\ CostAtRest) \/ (PartitionAtRest /\ CostInit)
Next2 ==
    \/ phase # "at rest" /\ Next /\ UNCHANGED costVars
    \/ phase = "at rest" /\ CostNext /\ UNCHANGED vars
Spec2 == Init2 /\ [][Next2]_<<vars, costVars>>

(* Admission on inputs around each of its thresholds, looked at once. *)
Epochs ==
    [1 .. 3 -> {[baseline |-> p[1], graph |-> p[2]] : p \in {<<5, 2>>, <<3, 1>>, <<2, 1>>, <<1, 2>>, <<0, 1>>}}]
RobustInputs ==
    [epochs : Epochs \cup {<<>>}, calls : {0, 1, 2, 5, 7}, probe : {0, 3}, selector : {1, 7},
     graph_setup : {0, 2}, baseline_setup : {0, 6}, minimum : {0, 1}]
RobustAdmission ==
    CostAtRest /\ phase = "at rest" => \A it \in RobustInputs : RobustCostSound(8, it)

(* What is built from the same patterns: halo plans of the contiguous      *)
(* partitions that deliver, cuts that split no block of fields and are no  *)
(* worse for their refinement, and sound aggregates; and a robust          *)
(* admission announces what it takes to pay.                               *)
PatternsServed == PlansDeliver /\ FieldCuts /\ AggregatesSound /\ RobustAdmission
=============================================================================
