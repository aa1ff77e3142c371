---------------------------- MODULE MatrixForms ----------------------------
(***************************************************************************)
(* The storage forms of hybit-matrix and what each computes: CSR, the word *)
(* masks of AbtmTopology and their transpose, the packed values of the     *)
(* metadata-first reference, the tiles of AbtmMatrix, dense block CSR and  *)
(* the prepared restrictions.  A square CSR matrix is                      *)
(*   [n |-> order, cols |-> stored columns of each row, in storage order,  *)
(*    vals |-> their values];                                              *)
(* columns may repeat, come in any order and hold explicit zeros, as in    *)
(* Csr32Matrix.  Values are integers, so sums are exact.  Bit sets stand   *)
(* for the u64 masks; dof sets for DofMask, cut into words by MaskWord.    *)
(***************************************************************************)
EXTENDS Integers, Sequences, FiniteSets, SequencesExt

CONSTANTS
    W,          \* bits of a mask word and columns of a tile (64 in the code)
    SparseMax,  \* a tile of at most so many entries is sparse (8)
    DenseMin,   \* a tile of at least so many is dense (40)
    BlockWidth  \* rows and columns of a dense block (3 or 6)

ASSUME WordAssumption == W \in Nat \ {0} /\ BlockWidth \in Nat \ {0}
ASSUME ThresholdAssumption == 0 < SparseMax /\ SparseMax < DenseMin /\ DenseMin <= W

Dofs(m) == 0 .. m.n - 1
Bits == 0 .. W - 1
Ascending(set) ==
    [k \in 1 .. Cardinality(set) |->
        CHOOSE x \in set : Cardinality({y \in set : y < x}) = k - 1]
Below(set, x) == Cardinality({y \in set : y < x})
Total(Term(_), set) == MapThenSumSet(Term, set)
-----------------------------------------------------------------------------
(* CSR.  The entry the matrix stands for: the sum of what is stored there. *)
Stored(m, i, j) == {k \in DOMAIN m.cols[i] : m.cols[i][k] = j}
Entry(m, i, j) == Total(LAMBDA k : m.vals[i][k], Stored(m, i, j))
Pattern(m, i) == ToSet(m.cols[i])
(* Csr32Matrix::validate, for the square matrices considered here. *)
ValidCsr(m) ==
    /\ DOMAIN m.cols = Dofs(m) /\ DOMAIN m.vals = Dofs(m)
    /\ \A i \in Dofs(m) : Len(m.cols[i]) = Len(m.vals[i]) /\ Pattern(m, i) \subseteq Dofs(m)

DotRow(m, i, x) == Total(LAMBDA k : m.vals[i][k] * x[m.cols[i][k]], DOMAIN m.cols[i])
CsrProduct(m, x) == [i \in Dofs(m) |-> DotRow(m, i, x)]

(* apply_parallel_with_tasks: contiguous chunks of rows, one per task. *)
RowChunk(n, tasks) == n \div tasks + (IF n % tasks = 0 THEN 0 ELSE 1)
TaskRows(n, tasks) ==
    LET chunk == RowChunk(n, tasks)
    IN  [c \in 0 .. (n - 1) \div chunk |->
            {c * chunk + offset : offset \in 0 .. chunk - 1} \cap 0 .. n - 1]
-----------------------------------------------------------------------------
(* AbtmTopology.  A row is a sequence of nonempty words in ascending order.*)
WordOf(c) == c \div W
BitOf(c) == c % W

(* mistake: the word is appended without looking for its place *)
AddColumnAtEnd(words, c) == Append(words, [word |-> WordOf(c), mask |-> {BitOf(c)}])

(* One stored column: into the last word if it is that one, else into the  *)
(* word found by binary search, else into a new word at its place.         *)
AddColumn(words, c) ==
    LET place == 1 + Cardinality({k \in DOMAIN words : words[k].word < WordOf(c)})
    IN  IF words # <<>> /\ Last(words).word = WordOf(c)
           THEN [words EXCEPT ![Len(words)].mask = @ \cup {BitOf(c)}]
        ELSE IF place <= Len(words) /\ words[place].word = WordOf(c)
           THEN [words EXCEPT ![place].mask = @ \cup {BitOf(c)}]
        ELSE InsertAt(words, place, [word |-> WordOf(c), mask |-> {BitOf(c)}])
TopologyRow(cols) == FoldLeft(AddColumn, <<>>, cols)

Columns(words) == UNION {{words[k].word * W + b : b \in words[k].mask} : k \in DOMAIN words}
Popcount(words) == Total(LAMBDA k : Cardinality(words[k].mask), DOMAIN words)

RowContains(words, c) ==
    \E k \in DOMAIN words : words[k].word = WordOf(c) /\ BitOf(c) \in words[k].mask
(* Structural entries left of column c, which may be one past the last. *)
RowRank(words, c) ==
    Total(LAMBDA k : IF words[k].word < WordOf(c) THEN Cardinality(words[k].mask)
                     ELSE IF words[k].word = WordOf(c) THEN Below(words[k].mask, BitOf(c))
                     ELSE 0, DOMAIN words)
(* The word the ordinal falls into, then the bit of that rank in it. *)
RowSelect(words, ordinal) ==
    LET before(k) == Total(LAMBDA l : Cardinality(words[l].mask), 1 .. k - 1)
        k == CHOOSE l \in DOMAIN words :
                before(l) <= ordinal /\ ordinal < before(l) + Cardinality(words[l].mask)
    IN  words[k].word * W + Ascending(words[k].mask)[ordinal - before(k) + 1]

(* combine: the words of both rows merged, empty results dropped. *)
Combine(a, b, Op(_, _)) ==
    LET Mask(words, w) == UNION {words[k].mask : k \in {l \in DOMAIN words : words[l].word = w}}
        All == {a[k].word : k \in DOMAIN a} \cup {b[k].word : k \in DOMAIN b}
        Result(w) == Op(Mask(a, w), Mask(b, w))
        kept == Ascending({w \in All : Result(w) # {}})
    IN  [k \in DOMAIN kept |-> [word |-> kept[k], mask |-> Result(kept[k])]]
Intersection(a, b) == Combine(a, b, LAMBDA s, t : s \cap t)
Union(a, b) == Combine(a, b, LAMBDA s, t : s \cup t)
AndNot(a, b) == Combine(a, b, LAMBDA s, t : s \ t)
Xor(a, b) == Combine(a, b, LAMBDA s, t : (s \ t) \cup (t \ s))
(* validate: ascending nonempty words within the columns. *)
ValidRow(words, n) ==
    \A k \in DOMAIN words :
        /\ words[k].mask # {}
        /\ k > 1 => words[k - 1].word < words[k].word
        /\ \A b \in words[k].mask : words[k].word * W + b < n

(* The counting sort of AbtmDualTopology: row i once per entry of column j.*)
TransposedRow(m, j) ==
    FoldLeft(LAMBDA done, i : done \o [k \in 1 .. Cardinality(Stored(m, i, j)) |-> i],
             <<>>, Ascending(Dofs(m)))
DualTopology(m) ==
    [rows |-> [i \in Dofs(m) |-> TopologyRow(m.cols[i])],
     columns |-> [j \in Dofs(m) |-> TopologyRow(TransposedRow(m, j))]]
NonzerosOf(rows) == Total(LAMBDA i : Popcount(rows[i]), DOMAIN rows)
ValidDual(t, n) ==
    /\ \A i \in DOMAIN t.rows : ValidRow(t.rows[i], n)
    /\ \A j \in DOMAIN t.columns : ValidRow(t.columns[j], n)
    /\ NonzerosOf(t.rows) = NonzerosOf(t.columns)
-----------------------------------------------------------------------------
(* DofMask: its words, and or_word, which trims the tail of the last word. *)
MaskWord(set, w) == {b \in Bits : w * W + b \in set}
OrWord(set, n, w, bits) == set \cup ({w * W + b : b \in bits} \cap 0 .. n - 1)
OrWords(set, n, words) ==
    FoldLeft(LAMBDA s, word : OrWord(s, n, word.word, word.mask), set, words)
-----------------------------------------------------------------------------
(* AbtmMatrix.  Zeros are dropped, before and after summing duplicates; a  *)
(* tile keeps its values packed in bit order, or all W of them if dense.   *)
Nonzero(m, i) == {k \in DOMAIN m.vals[i] : m.vals[i][k] # 0}
TileValue(m, i, w, b) ==
    Total(LAMBDA k : m.vals[i][k], {k \in Nonzero(m, i) : m.cols[i][k] = w * W + b})
TileMask(m, i, w) ==
    {b \in {BitOf(m.cols[i][k]) : k \in {l \in Nonzero(m, i) : WordOf(m.cols[i][l]) = w}} :
        TileValue(m, i, w, b) # 0}
TileKind(count) ==
    IF count <= SparseMax THEN "Sparse" ELSE IF count >= DenseMin THEN "Dense" ELSE "Bitmap"
Tile(m, i, w) ==
    LET mask == TileMask(m, i, w)
        kind == TileKind(Cardinality(mask))
        packed == Ascending(IF kind = "Dense" THEN Bits ELSE mask)
    IN  [word |-> w, mask |-> mask, kind |-> kind,
         values |-> [p \in DOMAIN packed |-> TileValue(m, i, w, packed[p])]]
RowTiles(m, i) ==
    LET words == Ascending({w \in 0 .. WordOf(m.n - 1) : TileMask(m, i, w) # {}})
    IN  [t \in DOMAIN words |-> Tile(m, i, words[t])]
Tiles(m) == [i \in Dofs(m) |-> RowTiles(m, i)]

(* A packed tile is walked bit by bit, its next value with each bit; a     *)
(* dense one column by column up to the last column of the matrix.         *)
TileDot(tile, n, x) ==
    LET base == tile.word * W
        bits == Ascending(tile.mask)
        limit == IF n - base < W THEN n - base ELSE W
    IN  IF tile.kind = "Dense"
           THEN Total(LAMBDA b : tile.values[b + 1] * x[base + b], 0 .. limit - 1)
           ELSE Total(LAMBDA p : tile.values[p] * x[base + bits[p]], DOMAIN bits)
AbtmProduct(tiles, n, x) ==
    [i \in DOMAIN tiles |-> Total(LAMBDA t : TileDot(tiles[i][t], n, x), DOMAIN tiles[i])]

(* expand_mask_one_hop: along the rows only, and only to nonzero entries.  *)
ExpandOneHop(tiles, n, set) ==
    FoldLeft(LAMBDA s, i : OrWords(s, n, tiles[i]), set, Ascending(set))
-----------------------------------------------------------------------------
(* AbtmMetadataFirstMatrix: one value per structural bit, zeros included;  *)
(* a row times a sparse vector reads only values in its support.           *)
PackedRow(m, i) ==
    LET cols == Ascending(Pattern(m, i)) IN [p \in DOMAIN cols |-> Entry(m, i, cols[p])]
SparseDotRow(words, packed, active, x) ==
    LET before(k) == Total(LAMBDA l : Cardinality(words[l].mask), 1 .. k - 1)
        live(k) == words[k].mask \cap MaskWord(active, words[k].word)
        product(k, b) == packed[before(k) + Below(words[k].mask, b) + 1] * x[words[k].word * W + b]
    IN  [sum |-> Total(LAMBDA k : Total(LAMBDA b : product(k, b), live(k)), DOMAIN words),
         candidates |-> Popcount(words),
         executed |-> Total(LAMBDA k : Cardinality(live(k)), DOMAIN words)]
-----------------------------------------------------------------------------
(* DenseBlockCsrOperator: the blocks of a block row in ascending order of  *)
(* their column, each with all its slots; duplicates share a slot.         *)
BlockRow(m, r) ==
    LET rows == {r * BlockWidth + l : l \in 0 .. BlockWidth - 1} \cap Dofs(m)
        cols == Ascending(UNION {{j \div BlockWidth : j \in Pattern(m, i)} : i \in rows})
        Slot(c, l, k) ==
            IF r * BlockWidth + l \in rows
               THEN Entry(m, r * BlockWidth + l, c * BlockWidth + k) ELSE 0
    IN  [p \in DOMAIN cols |-> [col |-> cols[p],
            slots |-> [l, k \in 0 .. BlockWidth - 1 |-> Slot(cols[p], l, k)]]]
BlockRows(m) == [r \in 0 .. (m.n - 1) \div BlockWidth |-> BlockRow(m, r)]

(* In a full block row only the last block can be the partial one; every   *)
(* other block reads BlockWidth entries of x.  The last, partial block row *)
(* bounds every block.                                                     *)
BlockDot(m, blocks, l, full, x) ==
    LET fullCols == m.n \div BlockWidth
        tail == m.n % BlockWidth
        IsTail(p) == tail # 0 /\ p = Len(blocks) /\ blocks[p].col = fullCols
        Limit(p) == IF full THEN IF IsTail(p) THEN tail ELSE BlockWidth
                    ELSE LET rest == m.n - blocks[p].col * BlockWidth
                         IN  IF rest < BlockWidth THEN rest ELSE BlockWidth
    IN  Total(LAMBDA p : Total(LAMBDA k : blocks[p].slots[l, k] * x[blocks[p].col * BlockWidth + k],
                               0 .. Limit(p) - 1), DOMAIN blocks)
BlockProduct(m, rows, x) ==
    [i \in Dofs(m) |->
        BlockDot(m, rows[i \div BlockWidth], i % BlockWidth, i \div BlockWidth < m.n \div BlockWidth, x)]
-----------------------------------------------------------------------------
(* PreparedColumnRestrictedCsrOperator: the stored entries of the active   *)
(* columns, or, from an AbtmMatrix, its packed nonzeros found by rank.     *)
RestrictColumns(m, active) ==
    LET Kept(i) == SelectSeq([k \in DOMAIN m.cols[i] |-> k], LAMBDA k : m.cols[i][k] \in active)
    IN  [n |-> m.n,
         cols |-> [i \in Dofs(m) |-> [k \in DOMAIN Kept(i) |-> m.cols[i][Kept(i)[k]]]],
         vals |-> [i \in Dofs(m) |-> [k \in DOMAIN Kept(i) |-> m.vals[i][Kept(i)[k]]]]]

(* Where a tile keeps the value of bit b. *)
TileSlot(tile, b) == IF tile.kind = "Dense" THEN b + 1 ELSE Below(tile.mask, b) + 1
RestrictTiles(tiles, n, active) ==
    LET Live(tile) == Ascending(tile.mask \cap MaskWord(active, tile.word))
        Row(i, Part(_, _)) == FoldLeft(LAMBDA done, tile : done \o
            [p \in DOMAIN Live(tile) |-> Part(tile, Live(tile)[p])], <<>>, tiles[i])
    IN  [n |-> n,
         cols |-> [i \in DOMAIN tiles |-> Row(i, LAMBDA tile, b : tile.word * W + b)],
         vals |-> [i \in DOMAIN tiles |-> Row(i, LAMBDA tile, b : tile.values[TileSlot(tile, b)])]]

(* PreparedLocalCsrOperator: rows and columns of the region, renumbered in *)
(* ascending order; gather_input picks the entries of a global vector.     *)
LocalOf(nodes, g) == CHOOSE l \in 0 .. Len(nodes) - 1 : nodes[l + 1] = g
RestrictLocal(m, region) ==
    LET nodes == Ascending(region)
        r == RestrictColumns(m, region)
        At(l) == nodes[l + 1]
    IN  [n |-> Len(nodes),
         cols |-> [l \in 0 .. Len(nodes) - 1 |->
                      [k \in DOMAIN r.cols[At(l)] |-> LocalOf(nodes, r.cols[At(l)][k])]],
         vals |-> [l \in 0 .. Len(nodes) - 1 |-> r.vals[At(l)]]]
GatherInput(region, x) == [l \in 0 .. Cardinality(region) - 1 |-> x[Ascending(region)[l + 1]]]
-----------------------------------------------------------------------------
(* Matrix Market files: write_matrix_market_general writes the stored      *)
(* entries, read_matrix_market_from_reader mirrors a symmetric file, sums  *)
(* duplicates after sorting and drops the zeros.  Indices are from 1.      *)
WriteCoordinates(m) ==
    FlattenSeq([k \in 1 .. m.n |->
        [p \in DOMAIN m.cols[k - 1] |-> <<k, m.cols[k - 1][p] + 1, m.vals[k - 1][p]>>]])
Unreadable == [n |-> 0, cols |-> <<>>, vals |-> <<>>]     \* Err
ReadCoordinates(n, declared, entries, symmetric) ==
    LET Mirrored(e) == IF symmetric /\ e[1] # e[2] THEN <<e, <<e[2], e[1], e[3]>>>> ELSE <<e>>
        all == FlattenSeq([k \in DOMAIN entries |-> Mirrored(entries[k])])
        At(i, j) == {k \in DOMAIN all : all[k][1] = i + 1 /\ all[k][2] = j + 1}
        Sum(i, j) == Total(LAMBDA k : all[k][3], At(i, j))
        cols == [i \in 0 .. n - 1 |-> Ascending({j \in 0 .. n - 1 : Sum(i, j) # 0})]
        bad == \E k \in DOMAIN entries : ~(entries[k][1] \in 1 .. n /\ entries[k][2] \in 1 .. n)
    IN  IF Len(entries) # declared \/ bad THEN Unreadable
        ELSE [n |-> n, cols |-> cols,
              vals |-> [i \in 0 .. n - 1 |-> [p \in DOMAIN cols[i] |-> Sum(i, cols[i][p])]]]
=============================================================================
