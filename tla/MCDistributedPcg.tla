--------------------------- MODULE MCDistributedPcg -------------------------
(* Two ranks with two blocks each, of unequal size. Budgets for none, one  *)
(* rank's or all blocks; windows that end at, before and after the last    *)
(* iteration; swaps and masks that fit, do not fit and are malformed.      *)
EXTENDS DistributedPcg

MCRanks == {0, 1}
MCBlocks == {0, 1}
MCBytes == [q \in MCRanks |-> [i \in MCBlocks |-> IF i = 1 THEN 1 ELSE 2 + q]]

Fixed(max) ==
    [adaptive |-> FALSE, mode |-> "score", max_iterations |-> max, probe_iterations |-> 1,
     budget |-> 1, target |-> 0, remove |-> 0, add |-> 1, masks |-> [q \in MCRanks |-> {}]]
Adaptive(mode, max, probe, budget) ==
    [Fixed(max) EXCEPT !.adaptive = TRUE, !.mode = mode, !.probe_iterations = probe,
                       !.budget = budget]
Masks == {[q \in MCRanks |-> {0}], [q \in MCRanks |-> {q}],
          [q \in MCRanks |-> {0, 1 + q}], [q \in MCRanks |-> {0, 1}],
          [q \in MCRanks |-> IF q = 0 THEN {0, 1} ELSE {0}],
          [q \in MCRanks |-> IF q = 0 THEN {0} ELSE {}]}

MCCalls ==
    {Fixed(0), Fixed(3)}
    \cup {Adaptive("score", max, probe, budget) :
              max \in {1, 4}, probe \in {0, 1, 2, 3}, budget \in {0, 1, 3, 5, 8}}
    \cup {[Adaptive("swap", 3, 2, budget) EXCEPT !.target = t, !.remove = r, !.add = 1 - r] :
              budget \in {2, 5, 8}, t \in 0 .. 2, r \in MCBlocks}
    \cup {[Adaptive(mode, 3, 1, budget) EXCEPT !.masks = masks] :
              mode \in {"replay", "replay_no_coarse", "replay_pooled"},
              budget \in {3, 5, 8}, masks \in Masks}
=============================================================================
