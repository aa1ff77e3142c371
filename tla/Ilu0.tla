------------------------------- MODULE Ilu0 --------------------------------
(***************************************************************************)
(* Ilu0Preconditioner (hybit-precond/src/lib.rs): the incomplete LU        *)
(* factors without fill of a general square matrix, computed by binary     *)
(* search in CSR rows or by intersecting words of the ABTM topology.       *)
(* Numbers are residues modulo the prime P instead of floats, so that the  *)
(* eliminations are exact; a pivot at or below the floor is a zero pivot,  *)
(* and Floor the number it is replaced by.  What needs a NaN or an         *)
(* infinity is left out.                                                   *)
(***************************************************************************)
EXTENDS MatrixForms

CONSTANT P      \* the prime modulus of the arithmetic
ASSUME PrimeAssumption == P \in Nat /\ P > 2 /\ \A d \in 2 .. P - 1 : P % d # 0

Floor == 1
NoFactor == [refused |-> TRUE]     \* the constructor returned Err
Quotient(a, b) == CHOOSE q \in 0 .. P - 1 : (q * b) % P = a % P
Residue(m, i, j) == Entry(m, i, j) % P

(* The canonical rows: columns ascending, duplicates summed, zeros off the *)
(* diagonal dropped.                                                       *)
CanonicalCols(m, i) == Ascending({j \in Pattern(m, i) : j = i \/ Residue(m, i, j) # 0})
Canonical(m) ==
    LET cols == [i \in Dofs(m) |-> CanonicalCols(m, i)]
    IN  [cols |-> cols, adjusted |-> {},
         lu |-> [i \in Dofs(m) |-> [k \in DOMAIN cols[i] |-> Residue(m, i, cols[i][k])]],
         diag |-> [i \in Dofs(m) |-> 1 + Below(ToSet(cols[i]), i)]]

(* Refused: a row without a stored diagonal, or with nothing but zeros. *)
MissingDiagonal(m) == \E i \in Dofs(m) : i \notin Pattern(m, i)
ZeroRow(m) == \E i \in Dofs(m) : \A j \in Pattern(m, i) : Residue(m, i, j) = 0
Refused(m) == MissingDiagonal(m) \/ ZeroRow(m)

(* Entry p of row i becomes a multiplier, and the row loses that multiple  *)
(* of the pivot row: Updates are the pairs of positions <<target, source>>.*)
Eliminate(f, i, row, p, pairs) ==
    LET lower == f.cols[i][p]
        multiplier == Quotient(row[p], f.lu[lower][f.diag[lower]])
        Less(t) == multiplier * f.lu[lower][(CHOOSE u \in pairs : u[1] = t)[2]]
    IN  [t \in DOMAIN row |->
            IF t = p THEN multiplier
            ELSE IF \E u \in pairs : u[1] = t THEN (row[t] - Less(t)) % P ELSE row[t]]

(* A pivot at the floor is replaced and counted. *)
Stabilize(f, i, row) ==
    LET vanished == row[f.diag[i]] = 0
        pivoted == [t \in DOMAIN row |-> IF vanished /\ t = f.diag[i] THEN Floor ELSE row[t]]
    IN  [cols |-> f.cols, diag |-> f.diag,
         lu |-> [r \in DOMAIN f.lu |-> IF r = i THEN pivoted ELSE f.lu[r]],
         adjusted |-> IF vanished THEN f.adjusted \cup {i} ELSE f.adjusted]

FactorWith(m, Updates(_, _, _)) ==
    LET Row(f, i) == Stabilize(f, i,
            FoldLeft(LAMBDA row, p : Eliminate(f, i, row, p, Updates(f, i, p)), f.lu[i],
                     [p \in 1 .. f.diag[i] - 1 |-> p]))
    IN  IF Refused(m) THEN NoFactor ELSE FoldLeft(Row, Canonical(m), Ascending(Dofs(m)))

(* from_csr32_general: each entry right of the pivot is looked up by       *)
(* binary search in the rest of the row.                                   *)
CsrUpdates(f, i, p) ==
    LET lower == f.cols[i][p]
    IN  {<<t, q>> \in (p + 1 .. Len(f.cols[i])) \X (f.diag[lower] + 1 .. Len(f.cols[lower])) :
            f.cols[i][t] = f.cols[lower][q]}
FactorCsr(m) == FactorWith(m, CsrUpdates)

(* mistake: the bits are cut in the words right of the pivot's, too *)
MaskCutEverywhere(mask, w, pivot) ==
    IF w < WordOf(pivot) THEN {} ELSE {b \in mask : b > BitOf(pivot)}
(* ilu0_abtm_mask_strictly_above: the bits of columns right of the pivot. *)
MaskStrictlyAbove(mask, w, pivot) ==
    IF w < WordOf(pivot) THEN {} ELSE IF w > WordOf(pivot) THEN mask
    ELSE {b \in mask : b > BitOf(pivot)}
(* Ilu0AbtmPreparedWords: the prefix count of the word plus the bit's rank.*)
Position(words, k, b) ==
    Total(LAMBDA l : Cardinality(words[l].mask), 1 .. k - 1) + Below(words[k].mask, b) + 1
(* from_csr32_general_abtm: the common bits of the words of both rows.     *)
AbtmUpdates(f, i, p) ==
    LET lower == f.cols[i][p]
        row == TopologyRow(f.cols[i])
        pivots == TopologyRow(f.cols[lower])
        Common(a, b) == MaskStrictlyAbove(row[a].mask \cap pivots[b].mask, row[a].word, lower)
    IN  UNION {{<<Position(row, pair[1], bit), Position(pivots, pair[2], bit)>> :
                   bit \in Common(pair[1], pair[2])} :
               pair \in {ab \in (DOMAIN row) \X (DOMAIN pivots) : row[ab[1]].word = pivots[ab[2]].word}}
FactorAbtm(m) == FactorWith(m, AbtmUpdates)

(* apply: forward substitution with unit lower part, then backward. *)
ApplyIlu(f, r) ==
    LET Others(z, i, set) == Total(LAMBDA p : f.lu[i][p] * z[f.cols[i][p]], set)
        Forward(z, i) == [z EXCEPT ![i] = (@ - Others(z, i, 1 .. f.diag[i] - 1)) % P]
        Backward(z, i) == [z EXCEPT ![i] =
            Quotient(@ - Others(z, i, f.diag[i] + 1 .. Len(f.cols[i])), f.lu[i][f.diag[i]])]
        order == Ascending(DOMAIN f.cols)
    IN  FoldLeft(Backward, FoldLeft(Forward, r, order), Reverse(order))
-----------------------------------------------------------------------------
(* What the factors stand for: L has ones on the diagonal. *)
Lower(f, i, j) == IF i = j THEN 1 ELSE IF j > i \/ j \notin ToSet(f.cols[i]) THEN 0
                  ELSE f.lu[i][1 + Below(ToSet(f.cols[i]), j)]
Upper(f, i, j) == IF j < i \/ j \notin ToSet(f.cols[i]) THEN 0
                  ELSE f.lu[i][1 + Below(ToSet(f.cols[i]), j)]
ProductLU(f, i, j) == Total(LAMBDA k : Lower(f, i, k) * Upper(f, k, j), DOMAIN f.cols) % P
=============================================================================
