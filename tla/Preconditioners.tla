-------------------------- MODULE Preconditioners ---------------------------
(***************************************************************************)
(* The preconditioners of hybit-precond for symmetric systems: how each is *)
(* made of a matrix, and how it is applied, again and again, by a Krylov   *)
(* method.  Numbers are residues modulo P, as in Ilu0, so that a factor    *)
(* times its solution is exact; a zero pivot stands for a non-positive one.*)
(* Cholesky factors are root-free: the pivot stays on the diagonal, and    *)
(* the two divisions by its root are one by the pivot.  Vectors are        *)
(* functions of dofs; a list of a matrix row or of nodes is a sequence.    *)
(***************************************************************************)
EXTENDS Ilu0

CONSTANTS
    Operators,        \* the matrices preconditioners are made of
    Requests,         \* the constructors' arguments, see Construct
    CompactMax,       \* the largest column of a compact transfer (u16::MAX)
    InverseFrom,      \* coarse dimension of explicit inverses (1024)
    MaxApplications   \* bound: applications of one preconditioner

ASSUME OperatorsAssumption == \A m \in Operators : ValidCsr(m)

VARIABLES
    operator,     \* the matrix
    request,      \* the constructor call
    factors,      \* the preconditioner, NoFactor before and if refused
    stage,        \* "new", "refused", "ready", "restrict", "returned"
    residual,     \* r, the argument of the application
    output,       \* z, its result
    buffers,      \* restriction_buffers, one per worker
    finished,     \* the workers that have filled theirs
    solutions,    \* the coarse solution, or those of the local regions
    applied       \* applications so far

precondVars ==
    <<operator, request, factors, stage, residual, output, buffers, finished, solutions, applied>>

Divide(a, b) == IF b % P = 0 THEN 0 ELSE Quotient(a, b)
Root(a) == CHOOSE w \in 0 .. P - 1 : (w * w) % P = a % P    \* where there is one
Vector(n, At(_)) == [d \in 0 .. n - 1 |-> At(d) % P]
Upward(n) == [k \in 1 .. n |-> k - 1]
Product(m, x) == Vector(m.n, LAMBDA i : DotRow(m, i, x))
-----------------------------------------------------------------------------
(* Cholesky factors, packed by rows (packed_lower_index, from 1).          *)
Slot(row, col) == (row * (row + 1)) \div 2 + col + 1
Positions(n) == FlattenSeq([i \in 1 .. n |-> [j \in 1 .. i |-> <<i - 1, j - 1>>]])
Cholesky(a, n) ==
    LET Rest(l, i, j) == (a[i, j] - Total(LAMBDA k :
                              l[Slot(i, k)] * l[Slot(j, k)] * l[Slot(k, k)], 0 .. j - 1)) % P
        Extend(l, at) ==
            Append(l, IF at[1] = at[2] THEN Rest(l, at[1], at[1])
                      ELSE Divide(Rest(l, at[1], at[2]), l[Slot(at[2], at[2])]))
    IN  FoldLeft(Extend, <<>>, Positions(n))
Breakdown(l, n) == \E i \in 0 .. n - 1 : l[Slot(i, i)] = 0
Symmetric(a, n) == \A i, j \in 0 .. n - 1 : a[i, j] = a[j, i]

(* Forward with the rows L(i, k), backward with the rows U(i, k) of the    *)
(* transpose.                                                              *)
Substitute(n, L(_, _), U(_, _), b) ==
    LET Forward(y, i) == Append(y, (b[i] - Total(LAMBDA k : L(i, k) * y[k + 1], 0 .. i - 1)) % P)
        y == FoldLeft(Forward, <<>>, Upward(n))
        Backward(x, i) == <<(Divide(y[i + 1], U(i, i))
                             - Total(LAMBDA k : U(i, k) * x[k - i], i + 1 .. n - 1)) % P>> \o x
    IN  FoldLeft(Backward, <<>>, Reverse(Upward(n)))
SolveLower(l, n, b) ==
    Substitute(n, LAMBDA i, k : l[Slot(i, k)], LAMBDA i, k : l[Slot(k, i)], b)
-----------------------------------------------------------------------------
(* Jacobi.  A missing, zero or negative diagonal is refused.               *)
Diagonal(m) == Vector(m.n, LAMBDA i : Entry(m, i, i))
BadDiagonal(m) == MissingDiagonal(m) \/ \E i \in Dofs(m) : Entry(m, i, i) <= 0
Jacobi(m) ==
    IF BadDiagonal(m) THEN NoFactor
    ELSE [kind |-> "jacobi", inverse |-> Vector(m.n, LAMBDA i : Divide(1, Entry(m, i, i)))]
ApplyJacobi(f, r) == [d \in DOMAIN r |-> (f.inverse[d] * r[d]) % P]

(* Block Jacobi.  The last block may be short. *)
BlockSize(n, width, b) == IF n - b * width < width THEN n - b * width ELSE width
BlockOf(m, width, b) ==
    [i, j \in 0 .. BlockSize(m.n, width, b) - 1 |-> Entry(m, b * width + i, b * width + j)]
BlockJacobi(m, width) ==
    LET blocks == 0 .. (m.n - 1) \div width
        size(b) == BlockSize(m.n, width, b)
        lower == [b \in blocks |-> Cholesky(BlockOf(m, width, b), size(b))]
    IN  IF \/ width = 0
           \/ \E b \in blocks : ~Symmetric(BlockOf(m, width, b), size(b)) \/ Breakdown(lower[b], size(b))
        THEN NoFactor
        ELSE [kind |-> "block", n |-> m.n, width |-> width, lower |-> lower]
ApplyBlocks(f, r) ==
    LET size(b) == BlockSize(f.n, f.width, b)
        solved == FlattenSeq([k \in 1 .. Cardinality(DOMAIN f.lower) |->
            SolveLower(f.lower[k - 1], size(k - 1),
                       [i \in 0 .. size(k - 1) - 1 |-> r[(k - 1) * f.width + i]])])
    IN  [d \in DOMAIN r |-> solved[d + 1]]
-----------------------------------------------------------------------------
(* Coarse spaces.  A transfer gives each dof its coarse modes and weights. *)
(* An assignment of nodes to aggregates is empty if they are contiguous.   *)
AggregateOf(q, node) == IF q.of = <<>> THEN node \div q.nodes ELSE q.of[node + 1]
Aggregates(q, nodes) ==
    IF q.of = <<>> THEN (nodes + q.nodes - 1) \div q.nodes
    ELSE 1 + CHOOSE a \in ToSet(q.of) : \A b \in ToSet(q.of) : b <= a
PiecewiseIndex(q, d) == AggregateOf(q, d \div q.width) * q.width + (d % q.width)
Weighted(list) == SelectSeq(list, LAMBDA e : e.weight # 0)
Mode(to, weight) == [to |-> to, weight |-> weight % P]
WeightTo(row, c) == Total(LAMBDA k : IF row[k].to = c THEN row[k].weight ELSE 0, DOMAIN row)

(* One damped Jacobi step on the piecewise-constant modes; the damping     *)
(* comes from a spectral estimate, here a number of the request.           *)
SmoothedRow(m, q, d) ==
    LET own == PiecewiseIndex(q, d)
        touched == Ascending({own} \cup {PiecewiseIndex(q, c) : c \in Pattern(m, d)})
        Gathered(c) == Total(LAMBDA k : m.vals[d][k],
                             {k \in DOMAIN m.cols[d] : PiecewiseIndex(q, m.cols[d][k]) = c})
        Weight(c) == (IF c = own THEN 1 ELSE 0) - q.omega * Divide(Gathered(c), Entry(m, d, d))
    IN  Weighted([k \in DOMAIN touched |-> Mode(touched[k], Weight(touched[k]))])
Transfer(m, q) ==
    [d \in Dofs(m) |-> IF q.smoothed THEN SmoothedRow(m, q, d)
                       ELSE <<Mode(PiecewiseIndex(q, d), 1)>>]

(* The Galerkin operator, one fine row after the other: its product with   *)
(* the transfer, then weighted into the rows of its own modes; and         *)
(* symmetrised.                                                            *)
RowTimes(m, t, row, c) ==
    Total(LAMBDA p : m.vals[row][p] * WeightTo(t[m.cols[row][p]], c), DOMAIN m.cols[row])
Galerkin(m, t, n) ==
    LET E(i, j) == Total(LAMBDA row : WeightTo(t[row], i) * RowTimes(m, t, row, j), Dofs(m))
    IN  [i, j \in 0 .. n - 1 |-> Divide(E(i, j) + E(j, i), 2)]

(* The factor, or the explicit inverse of a large operator: row i of it is *)
(* the solution for the unit vector i.  Factors keep L by rows and L^T by  *)
(* rows, packed one after the other.                                       *)
RowStart(n, i) == i * n - (i * (i - 1)) \div 2
UpperRows(l, n) == FlattenSeq([i \in 1 .. n |-> [k \in 1 .. n - i + 1 |-> l[Slot(i + k - 2, i - 1)]]])
SolvePacked(f, b) ==
    Substitute(f.n, LAMBDA i, k : f.lower[Slot(i, k)],
               LAMBDA i, k : f.upper[(RowStart(f.n, i) + k - i) + 1], b)
InverseRows(f) ==
    LET rows == [i \in 0 .. f.n - 1 |-> SolvePacked(f, [j \in 0 .. f.n - 1 |-> IF i = j THEN 1 ELSE 0])]
    IN  [i, j \in 0 .. f.n - 1 |-> Divide(rows[i][j + 1] + rows[j][i + 1], 2)]
Explicit(policy, n) == policy = "ExplicitInverse" \/ (policy = "Auto" /\ n >= InverseFrom)
CoarseFactor(e, n, policy) ==
    LET lower == Cholesky(e, n)
        packed == [n |-> n, explicit |-> FALSE, lower |-> lower, upper |-> UpperRows(lower, n)]
    IN  IF Breakdown(lower, n) THEN NoFactor
        ELSE IF Explicit(policy, n) THEN [n |-> n, explicit |-> TRUE, inverse |-> InverseRows(packed)]
        ELSE packed
SolveCoarse(f, b) ==
    LET s == SolvePacked(f, b)
    IN  IF f.explicit
           THEN Vector(f.n, LAMBDA i : Total(LAMBDA j : f.inverse[i, j] * b[j], 0 .. f.n - 1))
           ELSE [i \in 0 .. f.n - 1 |-> s[i + 1]]

(* TwoLevelTransferStoragePolicy: compact columns must fit. *)
Compact(policy, n) == policy = "Compact" \/ (policy = "Auto" /\ n <= CompactMax + 1)
TooWide(t) == \E d \in DOMAIN t : \E k \in DOMAIN t[d] : t[d][k].to > CompactMax

TwoLevel(m, q) ==
    LET n == Aggregates(q, m.n \div q.width) * q.width
        base == BlockJacobi(m, q.width)
        transfer == Transfer(m, q)
        coarse == CoarseFactor(Galerkin(m, transfer, n), n, q.policy)
    IN  IF q.width = 0 \/ q.nodes = 0 THEN NoFactor
        ELSE IF m.n % q.width # 0 \/ base = NoFactor THEN NoFactor
        ELSE IF q.smoothed /\ BadDiagonal(m) THEN NoFactor
        ELSE IF q.smoothed /\ Compact(q.storage, n) /\ TooWide(transfer) THEN NoFactor
        ELSE IF coarse = NoFactor THEN NoFactor
        ELSE [kind |-> "additive", base |-> base, transfer |-> transfer, coarse |-> coarse]
-----------------------------------------------------------------------------
(* Rigid-body modes: three translations and three rotations of the nodes   *)
(* of an aggregate about its centroid, in units of its radius.             *)
Members(q, a) == {node \in 0 .. Len(q.points) - 1 : AggregateOf(q, node) = a}
Offset3(q, node) ==
    LET inside == Members(q, AggregateOf(q, node))
        Centre(k) == Divide(Total(LAMBDA j : q.points[j + 1][k], inside), Cardinality(inside))
        FromCentre(j, k) == q.points[j + 1][k] - Centre(k)
        square == Divide(Total(LAMBDA j : Total(LAMBDA k : FromCentre(j, k) * FromCentre(j, k), 1 .. 3),
                               inside), Cardinality(inside))
    IN  [k \in 1 .. 3 |-> Divide(FromCentre(node, k), Root(square)) % P]
ActiveModes(a, component, x) ==
    CASE component = 0 -> <<Mode(6 * a, 1), Mode(6 * a + 4, x[3]), Mode(6 * a + 5, -x[2])>>
      [] component = 1 -> <<Mode(6 * a + 1, 1), Mode(6 * a + 3, -x[3]), Mode(6 * a + 5, x[1])>>
      [] OTHER -> <<Mode(6 * a + 2, 1), Mode(6 * a + 3, x[2]), Mode(6 * a + 4, -x[1])>>
ZeroRadius(q, a) == Cardinality({q.points[node + 1] : node \in Members(q, a)}) = 1

RigidCoarse(m, t, n) == CoarseFactor(Galerkin(m, t, n), n, "FactorSolve")
RigidBody(m, q) ==
    LET count == Aggregates(q, Len(q.points))
        offsets == [node \in 0 .. Len(q.points) - 1 |-> Offset3(q, node)]
        transfer == [d \in Dofs(m) |->
            ActiveModes(AggregateOf(q, d \div 3), d % 3, offsets[d \div 3])]
        coarse == RigidCoarse(m, transfer, 6 * count)
        base == BlockJacobi(m, 3)
    IN  IF q.nodes = 0 \/ Len(q.points) * 3 # m.n THEN NoFactor
        ELSE IF \E a \in 0 .. count - 1 : Cardinality(Members(q, a)) < 3 \/ ZeroRadius(q, a) THEN NoFactor
        ELSE IF base = NoFactor \/ coarse = NoFactor THEN NoFactor
        ELSE [kind |-> IF q.balanced THEN "balanced" ELSE "additive", base |-> base,
              transfer |-> transfer, coarse |-> coarse, offsets |-> offsets]
-----------------------------------------------------------------------------
(* Transfers of vectors, over all rows or over those of one worker.        *)
RestrictRows(f, rows, r) ==
    Vector(f.coarse.n, LAMBDA c : Total(LAMBDA d : WeightTo(f.transfer[d], c) * r[d], rows))
ToCoarse(f, r) == RestrictRows(f, DOMAIN r, r)
Prolongate(f, s) ==
    [d \in DOMAIN f.transfer |->
        Total(LAMBDA k : f.transfer[d][k].weight * s[f.transfer[d][k].to], DOMAIN f.transfer[d]) % P]
Plus(x, y) == [d \in DOMAIN x |-> (x[d] + y[d]) % P]
Minus(x, y) == [d \in DOMAIN x |-> (x[d] - y[d]) % P]

(* mistake: chunks of equal size, the remaining rows in none *)
WorkerRowsEqual(n, w, count) == (n \div count) * (w - 1) .. (n \div count) * w - 1
WorkerRows(n, w, count) == (n * (w - 1)) \div count .. (n * w) \div count - 1

(* ParallelRigidBodyTwoLevelPreconditioner: one worker sums the nodes of an*)
(* aggregate, one moves those of a node.                                   *)
ParallelRestrict(q, f, r) ==
    LET X(node, k) == f.offsets[node][k]
        R(node, k) == r[3 * node + k - 1]
        Part(node, mode) ==
            CASE mode = 0 -> R(node, 1) [] mode = 1 -> R(node, 2) [] mode = 2 -> R(node, 3)
              [] mode = 3 -> X(node, 2) * R(node, 3) - X(node, 3) * R(node, 2)
              [] mode = 4 -> X(node, 3) * R(node, 1) - X(node, 1) * R(node, 3)
              [] mode = 5 -> X(node, 1) * R(node, 2) - X(node, 2) * R(node, 1)
    IN  Vector(f.coarse.n, LAMBDA c : Total(LAMBDA node : Part(node, c % 6), Members(q, c \div 6)))
ParallelProlongate(q, f, s) ==
    LET C(node, k) == s[6 * AggregateOf(q, node) + k]
        X(node, k) == f.offsets[node][k]
        Moved(node) ==
            <<C(node, 0) + X(node, 3) * C(node, 4) - X(node, 2) * C(node, 5),
              C(node, 1) - X(node, 3) * C(node, 3) + X(node, 1) * C(node, 5),
              C(node, 2) + X(node, 2) * C(node, 3) - X(node, 1) * C(node, 4)>>
    IN  Vector(Cardinality(DOMAIN f.transfer), LAMBDA d : Moved(d \div 3)[1 + (d % 3)])
-----------------------------------------------------------------------------
(* Local regions.  Each has the Cholesky factor of its principal submatrix,*)
(* in ascending order of its dofs; a dof in m regions is weighted by the   *)
(* inverse root of m in each, before the solve and after it.               *)
LocalCholesky(m, dofs) ==
    LET at == Ascending(dofs)
        n == Cardinality(dofs)
        a == [i, j \in 0 .. n - 1 |-> Entry(m, at[i + 1], at[j + 1])]
        lower == Cholesky(a, n)
    IN  IF ~Symmetric(a, n) \/ Breakdown(lower, n) THEN NoFactor
        ELSE [dofs |-> at, lower |-> lower]
Hybrid(m, q) ==
    LET regions == SelectSeq([k \in DOMAIN q.regions |-> ToSet(q.regions[k])], LAMBDA set : set # {})
        multiplicity == [d \in Dofs(m) |-> Cardinality({k \in DOMAIN regions : d \in regions[k]})]
        local == [k \in DOMAIN regions |-> LocalCholesky(m, regions[k])]
    IN  IF BadDiagonal(m) \/ regions = <<>> THEN NoFactor
        ELSE IF \E k \in DOMAIN regions : ~(regions[k] \subseteq Dofs(m)) THEN NoFactor
        ELSE IF \E k \in DOMAIN regions : local[k] = NoFactor THEN NoFactor
        ELSE [kind |-> "hybrid", jacobi |-> Jacobi(m), local |-> local,
              multiplicity |-> multiplicity]
HalfWeight(f, d) == Divide(1, Root(f.multiplicity[d]))
(* solve_local for every region, then the weighted sum. *)
LocalSolutions(f, r) ==
    [k \in DOMAIN f.local |->
        LET at == f.local[k].dofs
        IN  SolveLower(f.local[k].lower, Len(at),
                       [i \in 0 .. Len(at) - 1 |-> HalfWeight(f, at[i + 1]) * r[at[i + 1]]])]
AddLocal(f, solved, z) ==
    LET Of(k, d) == Total(LAMBDA i : IF f.local[k].dofs[i] = d THEN solved[k][i] ELSE 0,
                          DOMAIN f.local[k].dofs)
    IN  [d \in DOMAIN z |-> (z[d] + (IF f.multiplicity[d] = 0 THEN 0 ELSE HalfWeight(f, d))
                                    * Total(LAMBDA k : Of(k, d), DOMAIN f.local)) % P]
OutsideRegions(f, r) ==
    [d \in DOMAIN r |-> IF f.multiplicity[d] = 0 THEN (f.jacobi.inverse[d] * r[d]) % P ELSE 0]
-----------------------------------------------------------------------------
Construct(m, q) ==
    CASE q.kind = "identity" -> [kind |-> "identity"]
      [] q.kind = "jacobi" -> Jacobi(m)
      [] q.kind = "block" -> BlockJacobi(m, q.width)
      [] q.kind = "two level" -> TwoLevel(m, q)
      [] q.kind = "rigid body" -> RigidBody(m, q)
      [] q.kind = "hybrid" -> Hybrid(m, q)

Workers == IF request.kind = "two level" /\ request.smoothed THEN request.workers ELSE 0
Zero(n) == [d \in 0 .. n - 1 |-> 0]
PrecondInit ==
    /\ operator \in Operators /\ request \in Requests
    /\ factors = NoFactor /\ stage = "new"
    /\ residual = <<>> /\ output = <<>> /\ solutions = <<>>
    /\ buffers = <<>> /\ finished = {} /\ applied = 0

Make ==
    /\ stage = "new"
    /\ factors' = Construct(operator, request)
    /\ IF factors' = NoFactor
       THEN stage' = "refused" /\ UNCHANGED buffers
       ELSE stage' = "ready" /\ buffers' = [w \in 1 .. Workers |-> Zero(factors'.coarse.n)]
    /\ UNCHANGED <<operator, request, residual, output, finished, solutions, applied>>

(* A coarse correction alone: apply_coarse_only. *)
CoarseOnly(r) == Prolongate(factors, SolveCoarse(factors.coarse, ToCoarse(factors, r)))
(* z = C r + (I - C A) B^-1 (I - A C) r, with the matrix itself. *)
Balanced(r) ==
    LET q == CoarseOnly(r)
        fine == ApplyBlocks(factors.base, Minus(r, Product(operator, q)))
    IN  Plus(q, Minus(fine, CoarseOnly(Product(operator, fine))))

Residuals(n) == {[d \in 0 .. n - 1 |-> (d * d + 1) % P], [d \in 0 .. n - 1 |-> IF d = n - 1 THEN 1 ELSE 0]}

(* apply, up to the coarse correction of the additive methods. *)
Begin ==
    /\ stage \in {"ready", "returned"} /\ applied < MaxApplications
    /\ \E r \in Residuals(operator.n) :
          /\ residual' = r
          /\ solutions' = IF factors.kind = "hybrid" THEN LocalSolutions(factors, r) ELSE <<>>
          /\ output' = CASE factors.kind = "identity" -> r
                         [] factors.kind = "jacobi" -> ApplyJacobi(factors, r)
                         [] factors.kind = "block" -> ApplyBlocks(factors, r)
                         [] factors.kind = "additive" -> ApplyBlocks(factors.base, r)
                         [] factors.kind = "balanced" -> Balanced(r)
                         [] factors.kind = "hybrid" ->
                               AddLocal(factors, solutions', OutsideRegions(factors, r))
    /\ stage' = IF factors.kind = "additive" THEN "restrict" ELSE "returned"
    /\ finished' = {} /\ applied' = applied + 1
    /\ UNCHANGED <<operator, request, factors, buffers>>

(* restrict_parallel: a worker clears its buffer and fills it from its rows.*)
RestrictPart(w) ==
    /\ stage = "restrict" /\ w \notin finished
    /\ buffers' = [v \in DOMAIN buffers |->
          IF v = w THEN RestrictRows(factors, WorkerRows(operator.n, w, Workers), residual)
          ELSE buffers[v]]
    /\ finished' = finished \cup {w}
    /\ UNCHANGED <<operator, request, factors, stage, residual, output, solutions, applied>>

CoarseRight ==
    IF Workers > 0 THEN Vector(factors.coarse.n, LAMBDA c :
                            Total(LAMBDA w : buffers[w][c], DOMAIN buffers))
    ELSE IF request.kind = "rigid body" /\ request.parallel
         THEN ParallelRestrict(request, factors, residual) ELSE ToCoarse(factors, residual)
Correct ==
    /\ stage = "restrict" /\ finished = 1 .. Workers
    /\ solutions' = SolveCoarse(factors.coarse, CoarseRight)
    /\ output' = Plus(output, IF request.kind = "rigid body" /\ request.parallel
                              THEN ParallelProlongate(request, factors, solutions')
                              ELSE Prolongate(factors, solutions'))
    /\ stage' = "returned"
    /\ UNCHANGED <<operator, request, factors, residual, buffers, finished, applied>>

PrecondNext == Make \/ Begin \/ (\E w \in 1 .. Workers : RestrictPart(w)) \/ Correct
-----------------------------------------------------------------------------
(* The coarse basis as the documentation defines it: the piecewise-constant*)
(* modes, once smoothed by I - omega D^-1 A, or the rigid motions          *)
(* u = t + w x offset.                                                     *)
Tentative(d, c) == IF PiecewiseIndex(request, d) = c THEN 1 ELSE 0
Smooth(d, c) == Tentative(d, c) - request.omega * Divide(
    Total(LAMBDA e : Entry(operator, d, e) * Tentative(e, c), Pattern(operator, d)), Entry(operator, d, d))
Motion(d, c) ==
    LET x == factors.offsets[d \div 3]
        k == c % 6
        axis == [j \in 1 .. 3 |-> IF k = j + 2 THEN 1 ELSE 0]
        cross == <<axis[2] * x[3] - axis[3] * x[2], axis[3] * x[1] - axis[1] * x[3],
                   axis[1] * x[2] - axis[2] * x[1]>>
    IN  IF c \div 6 # AggregateOf(request, d \div 3) THEN 0
        ELSE (IF k = d % 3 THEN 1 ELSE 0) + cross[1 + (d % 3)]
Basis(d, c) == IF request.kind = "rigid body" THEN Motion(d, c)
               ELSE IF request.smoothed THEN Smooth(d, c) ELSE Tentative(d, c)
Coarse == 0 .. factors.coarse.n - 1
Spanned(s) == Vector(operator.n, LAMBDA d : Total(LAMBDA c : Basis(d, c) * s[c], Coarse))
OnCoarse(x) == Vector(factors.coarse.n, LAMBDA c : Total(LAMBDA d : Basis(d, c) * x[d], Dofs(operator)))

SolvesBlocks(width, x, r) ==
    \A d \in Dofs(operator) :
        Total(LAMBDA e : IF e \div width = d \div width THEN Entry(operator, d, e) * x[e] ELSE 0,
              Dofs(operator)) % P = r[d]
SolvesRegions ==
    \A k \in DOMAIN factors.local :
        LET at == factors.local[k].dofs
        IN  \A i \in DOMAIN at :
              (HalfWeight(factors, at[i]) * residual[at[i]]) % P
                = Total(LAMBDA j : Entry(operator, at[i], at[j]) * solutions[k][j], DOMAIN at) % P

(* Whatever the storage, the policies, the number of workers, the order    *)
(* they finish in and the applications before, an application returns what *)
(* its definition says of this residual: block solves are exact; the       *)
(* coarse correction solves P^T A P s = P^T r for the documented basis P,  *)
(* and adds P s; the balanced method leaves a residual that is orthogonal  *)
(* to the coarse space; local regions are solved exactly, and a region no  *)
(* other overlaps gets just its solution.  Automatic storage never refuses *)
(* what wide storage takes.                                                *)
AppliedExact ==
    /\ stage = "returned" =>
          /\ factors.kind = "identity" => output = residual
          /\ factors.kind = "jacobi" => \A d \in Dofs(operator) :
                (Entry(operator, d, d) * output[d]) % P = residual[d]
          /\ factors.kind = "block" => SolvesBlocks(factors.width, output, residual)
          /\ factors.kind = "additive" =>
                /\ OnCoarse(Product(operator, Spanned(solutions))) = OnCoarse(residual)
                /\ SolvesBlocks(factors.base.width, Minus(output, Spanned(solutions)), residual)
          /\ factors.kind = "balanced" =>
                OnCoarse(Minus(residual, Product(operator, output))) = OnCoarse(Zero(operator.n))
          /\ factors.kind = "hybrid" =>
                /\ SolvesRegions
                /\ \A d \in Dofs(operator) :
                      LET m == factors.multiplicity[d]
                          Term(k) == Total(LAMBDA i : IF factors.local[k].dofs[i] = d
                                                      THEN solutions[k][i] ELSE 0,
                                           DOMAIN factors.local[k].dofs)
                      IN  IF m = 0 THEN (Entry(operator, d, d) * output[d]) % P = residual[d]
                          ELSE (Root(m) * output[d]) % P = Total(Term, DOMAIN factors.local) % P
    /\ (stage = "refused" /\ request.kind = "two level") =>
          (request.storage = "Auto" => Construct(operator, [request EXCEPT !.storage = "Wide"]) = NoFactor)
=============================================================================
