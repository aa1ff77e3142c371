-------------------------- MODULE PreparedRegions --------------------------
(***************************************************************************)
(* The life of prepared regions in hybit-matrix: a dual topology is built  *)
(* once, regions are grown from seeds one structural hop at a time and     *)
(* closed over field blocks, and each gets a plan that gathers its local   *)
(* values.  The caller then changes matrix values at will: plans are used  *)
(* with the values of the moment, whereas the other forms (tiles, blocks,  *)
(* packed values, restricted copies, ILU(0) factors) keep those of the     *)
(* moment they were made.                                                  *)
(***************************************************************************)
EXTENDS Ilu0

(* FieldAwareDofLayout (hybit-matrix/src/dof_layout.rs) and what is done   *)
(* with it word by word: closing a selection over whole field blocks and   *)
(* the mask of a field.  A layout is the sequence of its blocks,           *)
(* [entity |-> .., field |-> .., components |-> ..].                       *)

(* FieldAwareDofLayout::new: at least one block, none empty, none twice. *)
ValidLayout(blocks) ==
    /\ blocks # <<>>
    /\ \A k \in DOMAIN blocks :
          /\ blocks[k].components > 0
          /\ \A l \in 1 .. k - 1 :
                <<blocks[l].entity, blocks[l].field>> # <<blocks[k].entity, blocks[k].field>>

Offset(blocks, k) == Total(LAMBDA l : blocks[l].components, 1 .. k - 1)
TotalDofs(blocks) == Offset(blocks, Len(blocks) + 1)
BlockRange(blocks, k) == Offset(blocks, k) .. Offset(blocks, k + 1) - 1

(* locate: the offsets not above dof are those of the blocks up to its own.*)
Locate(blocks, dof) ==
    LET k == Cardinality({l \in 1 .. Len(blocks) + 1 : Offset(blocks, l) <= dof})
    IN  [block |-> k, component |-> dof - Offset(blocks, k)]

(* The words from start's to the last one and, in each, its bits. *)
WordsOf(start, end) == WordOf(start) .. WordOf(end - 1)
RangeBits(start, end, w) ==
    {b \in Bits : /\ w = WordOf(start) => b >= BitOf(start)
                  /\ w = WordOf(end - 1) /\ BitOf(end) # 0 => b < BitOf(end)}
FillRange(set, n, start, end) ==
    FoldLeft(LAMBDA s, w : OrWord(s, n, w, RangeBits(start, end, w)), set,
             Ascending(WordsOf(start, end)))

(* close_to_field_blocks: every block with a selected dof, whole. *)
CloseToBlocks(blocks, selected) ==
    LET n == TotalDofs(blocks)
        Close(set, k) ==
            LET start == Offset(blocks, k) end == Offset(blocks, k + 1)
            IN  IF \E w \in WordsOf(start, end) :
                      MaskWord(selected, w) \cap RangeBits(start, end, w) # {}
                   THEN FillRange(set, n, start, end) ELSE set
    IN  FoldLeft(Close, {}, [k \in DOMAIN blocks |-> k])

FieldMask(blocks, field) ==
    FoldLeft(LAMBDA set, k : IF blocks[k].field = field
                 THEN FillRange(set, TotalDofs(blocks), Offset(blocks, k), Offset(blocks, k + 1))
                 ELSE set, {}, [k \in DOMAIN blocks |-> k])

(* field_block_owners refuses an assignment that splits a block. *)
OwnersAccepted(blocks, owners, ranks) ==
    /\ DOMAIN owners = 0 .. TotalDofs(blocks) - 1 /\ ranks > 0
    /\ \A k \in DOMAIN blocks :
          LET owner == owners[Offset(blocks, k)]
          IN  owner < ranks /\ \A d \in BlockRange(blocks, k) : owners[d] = owner
-----------------------------------------------------------------------------

CONSTANTS
    Matrices,    \* the matrices to consider
    Layouts,     \* the layouts to consider
    SeedLists,   \* lists of seed masks, [len |-> .., set |-> ..] each
    MaxHops,     \* bound: hops asked for
    MaxUpdates   \* bound: value changes by the caller

ASSUME MatrixAssumption == \A m \in Matrices : ValidCsr(m)

VARIABLES
    matrix,      \* the caller's matrix, its values as they are now
    layout,      \* its field blocks
    topology,    \* the AbtmDualTopology, None before it is built
    call,        \* prepare_regions: the seed masks and the hops asked for
    phase,       \* "new", "seed", "grow", "ready", or "rejected" (Err)
    region,      \* the region being grown
    frontier,    \* the dofs its last hop added
    hop,         \* hops it has completed
    prepared,    \* the regions finished so far, with their plans
    forms,       \* the other forms made of the matrix, None before
    source,      \* the matrix they were made from
    updates      \* value changes so far

vars == <<matrix, layout, topology, call, phase, region, frontier, hop, prepared, forms,
          source, updates>>

None == [none |-> TRUE]

Init ==
    /\ matrix \in Matrices /\ layout \in Layouts
    /\ call \in [seeds : SeedLists, hops : 0 .. MaxHops]
    /\ topology = None /\ phase = "new"
    /\ region = {} /\ frontier = {} /\ hop = 0
    /\ prepared = <<>> /\ forms = None /\ source = None /\ updates = 0

(* PreparedFieldAwareTopology::new: the layout must cover the matrix. *)
Build ==
    /\ phase = "new"
    /\ \/ /\ ValidLayout(layout) /\ TotalDofs(layout) = matrix.n
          /\ topology' = DualTopology(matrix)
          /\ phase' = "seed"
       \/ /\ ~(ValidLayout(layout) /\ TotalDofs(layout) = matrix.n)
          /\ phase' = "rejected" /\ UNCHANGED topology
    /\ UNCHANGED <<matrix, layout, call, region, frontier, hop, prepared, forms, source, updates>>

Mask == call.seeds[Len(prepared) + 1]

(* The next seed mask, closed; a mask of the wrong length fails the whole  *)
(* call, which then returns no region at all.                              *)
CloseSeeds ==
    /\ phase = "seed" /\ Len(prepared) < Len(call.seeds)
    /\ \/ /\ Mask.len = matrix.n
          /\ region' = CloseToBlocks(layout, Mask.set)
          /\ frontier' = region'
          /\ hop' = 0 /\ phase' = "grow" /\ UNCHANGED prepared
       \/ /\ Mask.len # matrix.n
          /\ phase' = "rejected" /\ prepared' = <<>>
          /\ UNCHANGED <<region, frontier, hop>>
    /\ UNCHANGED <<matrix, layout, topology, call, forms, source, updates>>

(* grow_undirected_region, one hop: the row and the column of each node. *)
Neighbours(set) ==
    FoldLeft(LAMBDA next, i : OrWords(OrWords(next, matrix.n, topology.rows[i]),
                                      matrix.n, topology.columns[i]), {}, Ascending(set))

(* One turn of the loop of grow_field_aware_region; it starts from the     *)
(* last frontier alone, and ends early when that is empty.                 *)
Hop ==
    /\ phase = "grow" /\ hop < call.hops /\ frontier # {}
    /\ frontier' = CloseToBlocks(layout, frontier \cup Neighbours(frontier)) \ region
    /\ region' = region \cup frontier'
    /\ hop' = hop + 1
    /\ UNCHANGED <<matrix, layout, topology, call, phase, prepared, forms, source, updates>>

(* extract_local_submatrix_pattern: the structural columns of a row that   *)
(* lie in the region, word by word, in local numbering.                    *)
LocalPattern(set) ==
    LET nodes == Ascending(set)
        Kept(i) == UNION {{w.word * W + b : b \in w.mask \cap MaskWord(set, w.word)} :
                              w \in ToSet(topology.rows[i])}
    IN  [l \in DOMAIN nodes |-> [k \in 1 .. Cardinality(Kept(nodes[l])) |->
            LocalOf(nodes, Ascending(Kept(nodes[l]))[k])]]

(* mistake: every entry is bound to the last stored value of its column *)
SourcesLast(m, i, j) == Ascending({CHOOSE k \in Stored(m, i, j) : \A l \in Stored(m, i, j) : l <= k})
(* Where row i stores values of column j. *)
Sources(m, i, j) == Ascending(Stored(m, i, j))

(* prepare_local_numeric_plan binds every local entry to its sources. *)
NumericPlan(set) ==
    LET nodes == Ascending(set)
        pattern == LocalPattern(set)
        bound == [l \in DOMAIN nodes |-> [k \in DOMAIN pattern[l] |->
                     Sources(matrix, nodes[l], nodes[pattern[l][k] + 1])]]
    IN  [nodes |-> nodes, pattern |-> pattern, sources |-> bound,
         direct |-> \A l \in DOMAIN nodes : \A k \in DOMAIN bound[l] : Len(bound[l][k]) = 1]
(* gather_values: a copy when every entry has one source, else the sums. *)
GatherValues(plan, vals) ==
    LET At(l, k) == vals[plan.nodes[l]][k]
    IN  [l \in DOMAIN plan.nodes |-> [k \in DOMAIN plan.pattern[l] |->
            IF plan.direct THEN At(l, plan.sources[l][k][1])
            ELSE Total(LAMBDA s : At(l, plan.sources[l][k][s]), DOMAIN plan.sources[l][k])]]

(* The region is complete: prepare_region returns it with its plan. *)
FinishRegion ==
    /\ phase = "grow" /\ (hop = call.hops \/ frontier = {})
    /\ prepared' = Append(prepared, [region |-> region, plan |-> NumericPlan(region)])
    /\ phase' = IF Len(prepared') = Len(call.seeds) THEN "ready" ELSE "seed"
    /\ UNCHANGED <<matrix, layout, topology, call, region, frontier, hop, forms, source, updates>>

(* The forms that copy values, of the whole matrix and of the last region. *)
MakeForms ==
    /\ phase = "ready" /\ source # matrix
    /\ source' = matrix
    /\ forms' = [tiles |-> Tiles(matrix), blocks |-> BlockRows(matrix),
                 packed |-> [i \in Dofs(matrix) |-> PackedRow(matrix, i)],
                 columns |-> RestrictColumns(matrix, region),
                 pruned |-> RestrictTiles(Tiles(matrix), matrix.n, region),
                 local |-> RestrictLocal(matrix, region),
                 ilu |-> FactorCsr(matrix), iluAbtm |-> FactorAbtm(matrix)]
    /\ UNCHANGED <<matrix, layout, topology, call, phase, region, frontier, hop, prepared, updates>>

(* The caller assembles new values into the same structure. *)
Update ==
    /\ phase = "ready" /\ updates < MaxUpdates
    /\ updates' = updates + 1
    /\ \E scale \in {0, 3} :
          matrix' = [matrix EXCEPT !.vals =
              [i \in Dofs(matrix) |-> [k \in DOMAIN @[i] |-> scale * @[i][k] + (k % 2)]]]
    /\ UNCHANGED <<layout, topology, call, phase, region, frontier, hop, prepared, forms, source>>

Next == Build \/ CloseSeeds \/ Hop \/ FinishRegion \/ MakeForms \/ Update
Spec == Init /\ [][Next]_vars
-----------------------------------------------------------------------------
(* The reference: whole blocks, and the dofs within h structural edges of  *)
(* the seeds when moving inside a block is free.                           *)
Filled(set) == UNION {r \in {BlockRange(layout, k) : k \in DOMAIN layout} : r \cap set # {}}
Reached(set) == {j \in Dofs(matrix) :
    \E i \in set : j \in Pattern(matrix, i) \/ i \in Pattern(matrix, j)}
Ball(set, hops) ==
    FoldLeft(LAMBDA b, h : b \cup Filled(Reached(b)), Filled(set), [h \in 1 .. hops |-> h])

(* The layout's tables against the ranges of its blocks: every dof is found*)
(* in its block, the mask of a field is its blocks, and an assignment of   *)
(* dofs is taken exactly when it moves blocks whole.                       *)
LayoutAgrees ==
    /\ \A d \in Dofs(matrix) :
          LET place == Locate(layout, d)
          IN  /\ d \in BlockRange(layout, place.block)
              /\ d = Offset(layout, place.block) + place.component
    /\ \A k \in DOMAIN layout :
          FieldMask(layout, layout[k].field) =
              UNION {BlockRange(layout, l) : l \in {b \in DOMAIN layout : layout[b].field = layout[k].field}}
    /\ \A cut \in Dofs(matrix) :
          LET owners == [d \in Dofs(matrix) |-> IF d < cut THEN 0 ELSE 1]
          IN  OwnersAccepted(layout, owners, 2) <=> \E k \in DOMAIN layout : Offset(layout, k) = cut

(* region_multiplicity: how many of the regions hold a dof, and the sum of  *)
(* the pairwise overlaps, counted dof by dof.                              *)
Multiplicity(regions, d) == Cardinality({k \in DOMAIN regions : d \in regions[k]})
PairOverlap(regions) ==
    Total(LAMBDA d : (Multiplicity(regions, d) * (Multiplicity(regions, d) - 1)) \div 2,
          Dofs(matrix))
-----------------------------------------------------------------------------
(* "A hop means one structural matrix edge, followed by a free block       *)
(* closure": although each hop looks only at the last frontier, and stops  *)
(* when that is empty, the region is the full ball around its seeds, the   *)
(* frontier its outermost layer, and no field of another block is pulled   *)
(* in.  A call that fails returns none of its regions.  The multiplicities *)
(* count exactly the pairwise overlaps of the regions.                     *)
RegionExact ==
    /\ phase = "grow" =>
          /\ region = Ball(Mask.set, hop)
          /\ frontier = IF hop = 0 THEN region ELSE region \ Ball(Mask.set, hop - 1)
    /\ \A k \in DOMAIN prepared :
          prepared[k].region = Ball(call.seeds[k].set, call.hops)
    /\ LET regions == [k \in DOMAIN prepared |-> prepared[k].region]
       IN  PairOverlap(regions) =
               Total(LAMBDA pair : Cardinality(regions[pair[1]] \cap regions[pair[2]]),
                     {pair \in (DOMAIN regions) \X (DOMAIN regions) : pair[1] < pair[2]})
    /\ phase = "rejected" => prepared = <<>>
    /\ topology # None => LayoutAgrees

(* Whatever the caller has stored since, in duplicate, as a zero or in any *)
(* order, a plan gathers exactly the entries of A[R,R] as they are now.    *)
LocalValues ==
    \A n \in DOMAIN prepared :
        LET plan == prepared[n].plan
            nodes == Ascending(prepared[n].region)
            local == GatherValues(plan, matrix.vals)
        IN  /\ plan.nodes = nodes
            /\ \A l \in DOMAIN nodes :
                  LET cols == Ascending(Pattern(matrix, nodes[l]) \cap prepared[n].region)
                  IN  /\ [k \in DOMAIN plan.pattern[l] |-> nodes[plan.pattern[l][k] + 1]] = cols
                      /\ local[l] = [k \in DOMAIN cols |-> Entry(matrix, nodes[l], cols[k])]

(* A prepared region is the right set of dofs, with the right values.      *)
RegionsExact == RegionExact /\ LocalValues

Probes == {[j \in Dofs(matrix) |-> IF j = d THEN 1 ELSE 0] : d \in Dofs(matrix)}
Only(x, set) == [j \in DOMAIN x |-> IF j \in set THEN x[j] ELSE 0]

(* Word arithmetic against plain sets: rank and select invert each other,  *)
(* merging rows is set algebra, columns are the transposed rows, and the   *)
(* contiguous tasks cover every row once and are no more than asked for.   *)
TopologyAgrees == topology # None =>
    /\ ValidDual(topology, matrix.n)
    /\ \A i \in Dofs(matrix) :
          LET words == topology.rows[i]
              cols == Ascending(Pattern(matrix, i))
              Next1 == topology.rows[(i + 1) % matrix.n]
          IN  /\ Columns(words) = Pattern(matrix, i)
              /\ \A k \in DOMAIN cols : RowSelect(words, k - 1) = cols[k]
              /\ \A c \in 0 .. matrix.n : RowRank(words, c) = Below(Pattern(matrix, i), c)
              /\ \A c \in Dofs(matrix) :
                    /\ RowContains(words, c) <=> c \in Pattern(matrix, i)
                    /\ c \in Pattern(matrix, i) <=> i \in Columns(topology.columns[c])
              /\ LET other == Columns(Next1)
                 IN  /\ Columns(Intersection(words, Next1)) = Columns(words) \cap other
                     /\ Columns(Union(words, Next1)) = Columns(words) \cup other
                     /\ Columns(AndNot(words, Next1)) = Columns(words) \ other
                     /\ Columns(Xor(words, Next1)) =
                           Columns(Union(words, Next1)) \ Columns(Intersection(words, Next1))
              /\ ValidRow(Intersection(words, Next1), matrix.n)
    /\ \A tasks \in 1 .. matrix.n + 1 :
          LET rows == TaskRows(matrix.n, tasks)
          IN  /\ UNION {rows[c] : c \in DOMAIN rows} = Dofs(matrix)
              /\ Cardinality(DOMAIN rows) <= tasks

(* Every form multiplies like the matrix it was made from, and stays so    *)
(* after the caller's updates; the restricted ones like that matrix on a   *)
(* vector that is zero elsewhere.  No product is counted that is skipped.  *)
ProductsAgree == forms # None =>
    \A x \in Probes :
        LET y == CsrProduct(source, x)
            masked == CsrProduct(source, Only(x, region))
            Sparse(i) == SparseDotRow(topology.rows[i], forms.packed[i], region, x)
            local == CsrProduct(forms.local, GatherInput(region, x))
            file == WriteCoordinates(source)
            lower == SelectSeq(file, LAMBDA e : e[1] >= e[2])
            Sym(i, j) == IF i < j THEN Entry(source, j, i) ELSE Entry(source, i, j)
            mirrored == ReadCoordinates(source.n, Len(lower), lower, TRUE)
        IN  /\ AbtmProduct(forms.tiles, source.n, x) = y
            /\ BlockProduct(source, forms.blocks, x) = y
            /\ CsrProduct(forms.columns, x) = masked
            /\ CsrProduct(forms.pruned, x) = masked
            /\ local = GatherInput(region, masked)
            /\ CsrProduct(ReadCoordinates(source.n, Len(file), file, FALSE), x) = y
            /\ \A i \in Dofs(source) :
                  CsrProduct(mirrored, x)[i] = Total(LAMBDA j : Sym(i, j) * x[j], Dofs(source))
            /\ ExpandOneHop(forms.tiles, source.n, region) =
                  region \cup {j \in Dofs(source) : \E i \in region : Entry(source, i, j) # 0}
            /\ \A i \in Dofs(source) :
                  /\ Sparse(i).sum = masked[i]
                  /\ Sparse(i).executed = Cardinality(Pattern(source, i) \cap region)
                  /\ Sparse(i).candidates = Cardinality(Pattern(source, i))

(* The compressed forms lose nothing: neither the structure, explicit      *)
(* zeros and duplicates included, nor any product.                         *)
FormsAgree == TopologyAgrees /\ ProductsAgree

(* Both eliminations give the same factors, and L U equals the matrix on   *)
(* its pattern except on the diagonal where a pivot was replaced; applying *)
(* them solves L U z = r.  The factors keep the values they were made of.  *)
FactorExact == forms # None =>
    /\ forms.ilu = forms.iluAbtm
    /\ (forms.ilu = NoFactor) = Refused(source)
    /\ forms.ilu # NoFactor =>
          /\ \A i \in Dofs(source) : \A j \in ToSet(forms.ilu.cols[i]) :
                ProductLU(forms.ilu, i, j) = (Residue(source, i, j)
                    + (IF i = j /\ i \in forms.ilu.adjusted THEN Floor ELSE 0)) % P
          /\ \A r \in Probes :
                LET z == ApplyIlu(forms.ilu, r)
                IN  \A i \in Dofs(source) :
                      Total(LAMBDA j : ProductLU(forms.ilu, i, j) * z[j], Dofs(source)) % P = r[i]
=============================================================================
