------------------------------ MODULE MCPlans -------------------------------
(* A handful of peer graphs on three and four ranks, reciprocal and not.   *)
EXTENDS HaloPlans

(* The plan on which <<p, q>> \in edges means that p has a value for q. *)
Traffic(edges) == [p \in Rank |-> [q \in Rank |-> IF <<p, q>> \in edges THEN 1 ELSE 0]]
Both(edges) == edges \cup {<<e[2], e[1]>> : e \in edges}
ReciprocalPlan(edges) ==
    [send |-> Traffic(edges),
     recv |-> Traffic({<<e[2], e[1]>> : e \in edges}),
     valid |-> [p \in Rank |-> TRUE], fits |-> [p \in Rank |-> TRUE],
     eager |-> FALSE]

Triangle == ReciprocalPlan(Both({<<0, 1>>, <<1, 2>>, <<0, 2>>}))
Path == ReciprocalPlan({<<0, 1>>, <<1, 0>>, <<1, 2>>})
OneWayTriangle == ReciprocalPlan({<<0, 1>>, <<1, 2>>, <<2, 0>>})

(* Four ranks, where waiting cycles longer than a triangle could form. *)
Ring == ReciprocalPlan(Both({<<0, 1>>, <<1, 2>>, <<2, 3>>, <<0, 3>>}))
Star == ReciprocalPlan({<<0, 3>>, <<1, 3>>, <<3, 2>>})
OneWayRing == ReciprocalPlan({<<0, 2>>, <<2, 1>>, <<1, 3>>, <<3, 0>>, <<0, 1>>})
FourRankPlans == {Ring, Star, OneWayRing}

(* Plans the ranks disagree on: a wrong length, a missing peer, a rank     *)
(* that refuses its own plan, one that refuses its output vector.          *)
WrongLength == [Triangle EXCEPT !.recv[1][0] = 2]
WrongPath == [Path EXCEPT !.recv[1][0] = 2]
MissingPeer == [Triangle EXCEPT !.recv[2][0] = 0, !.send[2][0] = 0]
RefusedPlan == [Triangle EXCEPT !.valid[1] = FALSE]
RefusedOutput == [Triangle EXCEPT !.fits[0] = FALSE]
ThreeRankPlans ==
    {Triangle, OneWayTriangle, WrongLength, WrongPath, MissingPeer, RefusedPlan, RefusedOutput}

(* The same plans under a transport that buffers messages. *)
Eager(plans) == {[pl EXCEPT !.eager = TRUE] : pl \in plans}
ExchangePlans ==
    FourRankPlans \cup {Triangle, WrongLength, MissingPeer} \cup Eager(ThreeRankPlans \cup {Star})
=============================================================================
