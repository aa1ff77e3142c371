-------------------------- MODULE HaloConstruction --------------------------
(* Contiguous ownership, the halo plans built for it, the rank-local       *)
(* operators and the simulated exchange of hybit-distributed/src/lib.rs.   *)
(* offsets[r] .. offsets[r + 1] - 1 are the rows of rank r. A vector holds *)
(* the global index of the value in each slot, so that a product is right  *)
(* exactly if every stored column meets its own index.                     *)
EXTENDS PartitionGraph

RanksOf(offsets) == 0 .. Cardinality(DOMAIN offsets) - 2
OwnedRange(offsets, r) == offsets[r] .. offsets[r + 1] - 1
OwnedLen(offsets, r) == offsets[r + 1] - offsets[r]
OwnerOf(offsets, global) == Cardinality({k \in DOMAIN offsets : offsets[k] <= global}) - 1

BalancedOffsets(n, ranks) ==
    LET size == BalancedTargets(n, ranks)
    IN  [r \in 0 .. ranks |-> SumFunctionOnSet(size, 0 .. r - 1)]

(* What from_offsets accepts as a partition of n rows. *)
IsPartition(offsets, n) ==
    LET ranks == Cardinality(DOMAIN offsets) - 1
    IN  /\ offsets[0] = 0 /\ offsets[ranks] = n
        /\ \A r \in 1 .. ranks : offsets[r - 1] < offsets[r]
AllOffsets(n) ==
    UNION {{o \in [0 .. ranks -> 0 .. n] : IsPartition(o, n)} : ranks \in 1 .. n}

(* Columns of r's rows that q owns, each once. *)
Requests(matrix, offsets, r, q) ==
    IF q = r THEN {}
    ELSE {c \in UNION {Row(matrix, i) : i \in OwnedRange(offsets, r)} : OwnerOf(offsets, c) = q}

RecvGlobals(matrix, offsets, r, q) == Ascending(Requests(matrix, offsets, r, q))
SendGlobals(matrix, offsets, r, q) == Ascending(Requests(matrix, offsets, q, r))
Peers(matrix, offsets, r) ==
    {q \in RanksOf(offsets) :
        Requests(matrix, offsets, r, q) # {} \/ Requests(matrix, offsets, q, r) # {}}

(* Ghosts in the order of owner, then of global index. *)
GhostGlobals(matrix, offsets, r) ==
    FlattenSeq([k \in 1 .. Cardinality(RanksOf(offsets)) |->
                  RecvGlobals(matrix, offsets, r, k - 1)])
ExtendedLen(matrix, offsets, r) == OwnedLen(offsets, r) + Len(GhostGlobals(matrix, offsets, r))

(* A mistake: ghosts numbered by global index within their owner only. *)
ExtendedIndexPerOwner(matrix, offsets, r, global) ==
    LET ghosts == RecvGlobals(matrix, offsets, r, OwnerOf(offsets, global))
    IN  OwnedLen(offsets, r) + (CHOOSE k \in DOMAIN ghosts : ghosts[k] = global) - 1

(* The slot of a ghost in [owned | ghosts]. *)
ExtendedIndex(matrix, offsets, r, global) ==
    LET ghosts == GhostGlobals(matrix, offsets, r)
    IN  OwnedLen(offsets, r) + (CHOOSE k \in DOMAIN ghosts : ghosts[k] = global) - 1

(* The plan of r for its peer q. *)
PeerPlan(matrix, offsets, r, q) ==
    LET send == SendGlobals(matrix, offsets, r, q)
        recv == RecvGlobals(matrix, offsets, r, q)
    IN  [send_globals |-> send, recv_globals |-> recv,
         send_owned_indices |-> [k \in DOMAIN send |-> send[k] - offsets[r]],
         recv_extended_indices |-> [k \in DOMAIN recv |-> ExtendedIndex(matrix, offsets, r, recv[k])]]

(* The column of r's local operator for a stored global column. *)
LocalColumn(matrix, offsets, r, global) ==
    IF global \in OwnedRange(offsets, r) THEN global - offsets[r]
    ELSE ExtendedIndex(matrix, offsets, r, global)

(* simulate_halo_exchange: slots in the order the messages fill them,      *)
(* through the indices of the sender's and the receiver's plan.            *)
Received(matrix, offsets, r, s) ==
    LET sender == PeerPlan(matrix, offsets, s, r)
        receiver == PeerPlan(matrix, offsets, r, s)
    IN  [k \in DOMAIN sender.send_owned_indices |->
            [slot |-> receiver.recv_extended_indices[k],
             value |-> offsets[s] + sender.send_owned_indices[k]]]
Extended(matrix, offsets, r) ==
    LET filled == UNION {ToSet(Received(matrix, offsets, r, s)) : s \in Peers(matrix, offsets, r)}
    IN  {[slot |-> k, value |-> offsets[r] + k] : k \in 0 .. OwnedLen(offsets, r) - 1} \cup filled
-----------------------------------------------------------------------------
(* What the plans of all ranks together must achieve: every send is of a   *)
(* row the sender owns and matches a receive, the exchange fills each slot *)
(* of [owned | ghosts] once, and every stored entry of every row then      *)
(* multiplies the value of its own global column.                          *)
ExchangeDelivers(matrix, offsets) ==
    \A r \in RanksOf(offsets) :
        LET slots == Extended(matrix, offsets, r)
        IN  /\ {s.slot : s \in slots} = 0 .. ExtendedLen(matrix, offsets, r) - 1
            /\ Cardinality(slots) = ExtendedLen(matrix, offsets, r)
            /\ \A i \in OwnedRange(offsets, r) : \A c \in Row(matrix, i) :
                  [slot |-> LocalColumn(matrix, offsets, r, c), value |-> c] \in slots
            /\ \A q \in Peers(matrix, offsets, r) :
                  /\ PeerPlan(matrix, offsets, r, q).send_globals
                        = PeerPlan(matrix, offsets, q, r).recv_globals
                  /\ ToSet(SendGlobals(matrix, offsets, r, q)) \subseteq OwnedRange(offsets, r)
=============================================================================
