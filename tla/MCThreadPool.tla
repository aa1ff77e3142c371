---------------------------- MODULE MCThreadPool ----------------------------
(* Two threads of a host race for the pool, early and late, and use one    *)
(* handle of each kind meanwhile: two matrices of one structure, one of    *)
(* which no solver takes, and layouts of their size and of another.        *)
EXTENDS CInterface, TLC

CONSTANTS a, b
MCCallers == {a, b}
MCSizes == {2, 4}
(* Up to a renaming of the two sizes, all environments.                    *)
MCEnvironments == {[rayon |-> r, omp |-> o] : r, o \in {None, 2}} \cup {[rayon |-> 2, omp |-> 4]}
Good == [rows |-> 1, cols |-> 1, structure |-> 1, values |-> 1, spd |-> TRUE]
MCMatrices == {Good, [Good EXCEPT !.values = 2, !.spd = FALSE]}
MCLayoutSizes == {1, 2}
MCTolerances == {<<1, 0>>, <<0, 0>>, <<1, -1>>}
MCFaults == {"NumericalBreakdown"}
CallerSymmetry == Permutations(MCCallers)
=============================================================================
