------------------------- MODULE MCRegionDiscovery --------------------------
(* Five rows: a path, a ring, a star and two pieces, with diagonals that   *)
(* make all, some or none of the rows risky; limits at, below and above    *)
(* the sizes of the components.                                            *)
EXTENDS RegionDiscovery

Edges(name) ==
    CASE name = "path" -> {<<0, 1>>, <<1, 2>>, <<2, 3>>, <<3, 4>>}
      [] name = "ring" -> {<<0, 1>>, <<1, 2>>, <<2, 3>>, <<3, 4>>, <<0, 4>>}
      [] name = "star" -> {<<0, 2>>, <<1, 2>>, <<2, 3>>, <<2, 4>>}
      [] name = "pieces" -> {<<0, 1>>, <<1, 4>>, <<2, 3>>}
Linked(edges, i) == {j \in 0 .. 4 : <<i, j>> \in edges \/ <<j, i>> \in edges}
Pattern(name) == [n |-> 5, cols |-> [i \in 0 .. 4 |-> {i} \cup Linked(Edges(name), i)]]

Numbered(seq) == [i \in 0 .. 4 |-> seq[i + 1]]
Diagonals ==
    {Numbered(<<2, 2, 2, 2, 2>>), Numbered(<<4, 4, 4, 4, 4>>), Numbered(<<1, 1, 8, 4, 1>>)}

Settings(halves, size, regions, layers, policy, bytes) ==
    [coupling_risk_threshold |-> 1, scale_jump_threshold |-> 3, residual_seed_halves |-> halves,
     max_local_region_size |-> size, max_local_regions |-> regions, overlap_layers |-> layers,
     local_factor_selection |-> policy, max_local_factor_bytes |-> bytes]

(* A region of one row takes 40 bytes, of two 88, of three 144.            *)
MCOptions ==
    {Settings(halves, size, 2, layers, "CandidateOrder", 200) :
        halves \in {1, 2}, size \in {1, 2, 3}, layers \in {0, 1}}
    \cup {Settings(1, size, 8, layers, policy, bytes) :
        size \in {2, 3}, layers \in {1, 2}, bytes \in {140, 240},
        policy \in {"BenefitPerByte", "JacobiEnergyPerByte"}}
    \cup {Settings(2, 5, 1, 8, "BenefitPerByte", 9)}

MCSystems ==
    {[matrix |-> Pattern(name), diagonal |-> diagonal, options |-> options] :
        name \in {"path", "ring", "star", "pieces"}, diagonal \in Diagonals, options \in MCOptions}

MCResiduals ==
    {Numbered(seq) : seq \in {<<0, 0, 0, 0, 0>>, <<2, 1, 0, 1, 2>>, <<0, 1, 2, 0, 1>>,
                              <<1, 1, 1, 1, 1>>, <<0, 0, 0, 2, 1>>, <<2, 0, 1, 1, 0>>}}
=============================================================================
