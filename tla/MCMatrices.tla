----------------------------- MODULE MCMatrices -----------------------------
(* PreparedRegions on matrices of seven dofs, words of four bits: the last *)
(* word is partial, and so is the last dense block of three.  The same run *)
(* explores Preconditioners, with the other at rest in each behaviour: the *)
(* two share nothing but the arithmetic.                                   *)
EXTENDS PreparedRegions, Preconditioners

Rows(n, list) ==    \* list: <<row, column, value>>, in storage order per row
    [n |-> n,
     cols |-> [i \in 0 .. n - 1 |-> LET r == SelectSeq(list, LAMBDA e : e[1] = i)
                                    IN  [k \in DOMAIN r |-> r[k][2]]],
     vals |-> [i \in 0 .. n - 1 |-> LET r == SelectSeq(list, LAMBDA e : e[1] = i)
                                    IN  [k \in DOMAIN r |-> r[k][3]]]]

(* A directed chain over word boundaries with unsorted rows, duplicates    *)
(* that add up or cancel, and explicit zeros.                              *)
Chain == Rows(7, <<<<0, 4, 0>>, <<0, 0, 2>>, <<1, 1, 1>>, <<1, 0, 2>>, <<1, 1, 2>>, <<2, 2, 4>>,
    <<2, 3, 1>>, <<3, 3, 1>>, <<3, 1, 2>>, <<3, 1, -2>>, <<4, 5, 1>>, <<4, 4, 3>>, <<5, 5, 2>>,
    <<6, 2, 1>>, <<6, 6, 1>>, <<6, 0, 1>>>>)
(* Rows dense enough for every kind of tile, the last word included, with  *)
(* pivots that vanish during elimination.                                  *)
Filled7 == Rows(7, <<<<0, 0, 1>>, <<0, 1, 2>>, <<0, 3, 1>>, <<0, 5, 1>>, <<1, 0, 1>>, <<1, 1, 2>>,
    <<1, 2, 3>>, <<1, 4, 1>>, <<2, 0, 1>>, <<2, 1, 1>>, <<2, 2, 2>>, <<2, 3, 1>>, <<2, 4, 1>>, <<2, 5, 1>>,
    <<2, 6, 1>>, <<3, 3, 2>>, <<3, 6, 1>>, <<4, 4, 1>>, <<4, 6, 2>>, <<5, 4, 2>>, <<5, 5, 0>>,
    <<5, 6, 1>>, <<6, 4, 1>>, <<6, 5, 3>>, <<6, 6, 1>>>>)
(* Decoupled dofs, and a row without a diagonal. *)
Loose == Rows(7, <<<<0, 0, 1>>, <<1, 1, 1>>, <<1, 6, 2>>, <<2, 2, 1>>, <<3, 3, 1>>, <<5, 3, 1>>,
    <<5, 5, 1>>, <<6, 6, 1>>>>)
MCMatrix == {Chain, Filled7, Loose}

Block(entity, field, components) ==
    [entity |-> entity, field |-> field, components |-> components]
Straddling == <<Block(1, 1, 3), Block(1, 2, 2), Block(2, 1, 1), Block(2, 2, 1)>>
OneWide == <<Block(1, 1, 1), Block(2, 1, 5), Block(3, 7, 1)>>
Scalar == [k \in 1 .. 7 |-> Block(k, 1, 1)]
Short == <<Block(1, 1, 6)>>
MCLayouts == {Straddling, OneWide, Scalar, Short}

Seed(set) == [len |-> 7, set |-> set]
MCSeedLists ==
    {<<Seed({0}), Seed({6}), Seed({})>>, <<Seed({3, 5})>>, <<Seed({2}), Seed({4})>>,
     <<Seed({1}), [len |-> 6, set |-> {1}]>>, <<Seed({1, 4, 6})>>}
(* Nodes of three dofs in a chain, coupled inside and to their neighbours. *)
Frame(n) ==
    LET Value(i, j) == IF i = j THEN 5 + (i % 2) ELSE IF i \div 3 = j \div 3 THEN 1
                       ELSE IF i - j = 3 \/ j - i = 3 THEN -1 ELSE 0
        kept(i) == Ascending({j \in 0 .. n - 1 : Value(i, j) # 0})
    IN  [n |-> n, cols |-> [i \in 0 .. n - 1 |-> kept(i)],
         vals |-> [i \in 0 .. n - 1 |-> [k \in DOMAIN kept(i) |-> Value(i, kept(i)[k])]]]
(* Duplicates and an explicit zero, in any order; the last node decoupled. *)
Twice == Rows(7, <<<<0, 1, -1>>, <<0, 0, 1>>, <<0, 0, 2>>, <<1, 0, -2>>, <<1, 1, 4>>, <<1, 0, 1>>, <<1, 2, -1>>,
    <<2, 2, 3>>, <<2, 1, -1>>, <<2, 3, -1>>, <<3, 2, -1>>, <<3, 3, 3>>, <<3, 4, -1>>, <<4, 3, -1>>,
    <<4, 4, 4>>, <<4, 5, 0>>, <<5, 5, 2>>, <<5, 4, 0>>, <<6, 6, 3>>>>)
(* A block that is not symmetric, and a diagonal that is negative. *)
Skewed == Rows(6, <<<<0, 0, 2>>, <<0, 1, 1>>, <<1, 1, 3>>, <<2, 2, -1>>, <<3, 3, 1>>, <<4, 4, 2>>, <<5, 5, 1>>>>)
MCOperators == {Frame(18), Frame(9), Twice, Skewed}

TwoLevelCall(width, nodes, of, smoothed, storage, policy, workers) ==
    [kind |-> "two level", width |-> width, nodes |-> nodes, of |-> of, smoothed |-> smoothed,
     omega |-> 3, storage |-> storage, policy |-> policy, workers |-> workers]
Rigid(nodes, of, points, balanced, parallel) ==
    [kind |-> "rigid body", nodes |-> nodes, of |-> of, points |-> points,
     balanced |-> balanced, parallel |-> parallel]
Triangle(x) == <<<<x, 0, 0>>, <<x + 1, 0, 0>>, <<x, 1, 0>>>>
Mixed == <<<<0, 0, 0>>, <<2, 0, 0>>, <<1, 0, 0>>, <<3, 0, 0>>, <<0, 1, 0>>, <<2, 1, 0>>>>
Hybrids(regions) == [kind |-> "hybrid", regions |-> regions]
MCRequests ==
    {[kind |-> "identity"], [kind |-> "jacobi"], [kind |-> "block", width |-> 3],
     [kind |-> "block", width |-> 2], [kind |-> "block", width |-> 0],
     TwoLevelCall(1, 2, <<>>, FALSE, "Wide", "Auto", 0), TwoLevelCall(3, 2, <<>>, FALSE, "Wide", "Auto", 0),
     TwoLevelCall(3, 1, <<0, 1, 0, 1, 0, 1>>, TRUE, "Auto", "ExplicitInverse", 3),
     TwoLevelCall(1, 3, <<>>, TRUE, "Compact", "FactorSolve", 2), TwoLevelCall(0, 2, <<>>, FALSE, "Wide", "Auto", 0),
     TwoLevelCall(1, 1, <<>>, TRUE, "Compact", "Auto", 0), TwoLevelCall(1, 3, <<>>, TRUE, "Auto", "Auto", 4),
     Rigid(3, <<>>, Triangle(0) \o Triangle(2), FALSE, FALSE), Rigid(3, <<>>, Triangle(0) \o Triangle(2), FALSE, TRUE),
     Rigid(3, <<0, 1, 0, 1, 0, 1>>, Mixed, TRUE, FALSE), Rigid(2, <<>>, Triangle(0), FALSE, FALSE),
     Rigid(3, <<>>, Triangle(0), TRUE, FALSE), Rigid(3, <<>>, <<<<1, 1, 1>>, <<1, 1, 1>>, <<1, 1, 1>>>>, FALSE, FALSE),
     Hybrids(<<<<0, 1, 2, 3, 4, 5, 6>>>>), Hybrids(<<<<3, 0, 3, 1>>, <<>>, <<1, 4, 5>>>>),
     Hybrids(<<<<5, 4, 3>>, <<3, 2, 4>>, <<3, 0>>>>), Hybrids(<<<<>>>>), Hybrids(<<<<0, 20>>>>)}

RegionsAtRest ==
    /\ matrix = Loose /\ layout = Short /\ call = [seeds |-> <<>>, hops |-> 0]
    /\ topology = None /\ phase = "at rest" /\ region = {} /\ frontier = {} /\ hop = 0
    /\ prepared = <<>> /\ forms = None /\ source = None /\ updates = 0
PrecondAtRest ==
    /\ operator = Skewed /\ request = [kind |-> "identity"] /\ factors = NoFactor /\ stage = "at rest"
    /\ residual = <<>> /\ output = <<>> /\ solutions = <<>> /\ buffers = <<>> /\ finished = {} /\ applied = 0
Init2 == (Init /\ PrecondAtRest) \/ (RegionsAtRest /\ PrecondInit)
Next2 == (Next /\ UNCHANGED precondVars) \/ (PrecondNext /\ UNCHANGED vars)
Spec2 == Init2 /\ [][Next2]_<<vars, precondVars>>

=============================================================================
