---------------------------- MODULE HaloExchange ----------------------------
(***************************************************************************)
(* MpiRuntime::exchange_halo and MpiRuntime::spmv_local                    *)
(* (hybit-distributed/src/mpi_backend.rs): every rank visits its halo      *)
(* peers in ascending rank order and performs two blocking Sendrecv calls  *)
(* with each, first the value count, then the values.                      *)
(*                                                                         *)
(* MPI is external: one FIFO channel per ordered pair of ranks (same       *)
(* communicator, same tag), a receive takes the head of its channel, and a *)
(* Sendrecv returns when its message has arrived and, unless the transport *)
(* buffers eagerly, its own message was taken by the peer.                 *)
(***************************************************************************)
EXTENDS HaloPlans, Sequences

VARIABLES
    plan,       \* the plan in use
    status,     \* "idle" between calls, "exchanging", or "err" (returned Err)
    epoch,      \* calls entered
    todo,       \* peers this call has not finished with
    stage,      \* which Sendrecv of the current peer: "count" or "payload"
    half,       \* progress of that Sendrecv: "post", "wait", "drain"
    got,        \* the message the current Sendrecv received
    chan,       \* chan[p][q]: messages in flight from p to q
    ext,        \* ext[p][q]: epoch of the ghosts of q in `extended`, 0 is NaN
    operand     \* operand[p]: ext as read by p's last apply_extended

vars == <<plan, status, epoch, todo, stage, half, got, chan, ext, operand>>

(* Plausible mistakes, one per property, are defined beside the operators   *)
(* they alter: here, visiting only the peers something is sent to.         *)
PeersSentTo(p) == {q \in Rank \ {p} : plan.send[p][q] > 0}
Peers(p) == {q \in Rank \ {p} : plan.send[p][q] > 0 \/ plan.recv[p][q] > 0}

Message == [kind : {"count", "payload"}, epoch : Nat, len : Nat]
NoMessage == [kind |-> "count", epoch |-> 0, len |-> 0]

(* mistake: odd ranks visit their peers in descending order *)
CurrentUnsorted(p, q) ==
    q \in todo[p] /\ \A r \in todo[p] : IF p % 2 = 0 THEN q <= r ELSE r <= q

(* The plan lists the peers in ascending order. *)
Current(p, q) == q \in todo[p] /\ \A r \in todo[p] : q <= r

NoGhosts == [q \in Rank |-> 0]

Init ==
    /\ plan \in Plans
    /\ status = [p \in Rank |-> "idle"]
    /\ epoch = [p \in Rank |-> 0]
    /\ todo = [p \in Rank |-> {}]
    /\ stage = [p \in Rank |-> "count"]
    /\ half = [p \in Rank |-> "post"]
    /\ got = [p \in Rank |-> NoMessage]
    /\ chan = [p \in Rank |-> [q \in Rank |-> <<>>]]
    /\ ext = [p \in Rank |-> NoGhosts]
    /\ operand = [p \in Rank |-> NoGhosts]

(* mistake: calls are not counted against the bound *)
EnterUnbounded(p) ==
    /\ status[p] = "idle" /\ plan.valid[p]
    /\ epoch' = [epoch EXCEPT ![p] = @ + 1]
    /\ todo' = [todo EXCEPT ![p] = Peers(p)]
    /\ status' = [status EXCEPT ![p] = "exchanging"]
    /\ ext' = [ext EXCEPT ![p] = NoGhosts]
    /\ UNCHANGED <<plan, stage, half, got, chan, operand>>

(* The whole local validation precedes the first peer operation: a call it *)
(* rejects sends nothing and leaves `extended` alone.                      *)
Enter(p) ==
    /\ status[p] = "idle" /\ epoch[p] < MaxEpoch
    /\ epoch' = [epoch EXCEPT ![p] = @ + 1]
    /\ todo' = [todo EXCEPT ![p] = Peers(p)]
    /\ \/ /\ plan.valid[p]
          /\ status' = [status EXCEPT ![p] = "exchanging"]
          /\ ext' = [ext EXCEPT ![p] = NoGhosts]
       \/ /\ ~plan.valid[p]
          /\ status' = [status EXCEPT ![p] = "err"]
          /\ UNCHANGED ext
    /\ UNCHANGED <<plan, stage, half, got, chan, operand>>

(* A Sendrecv starts: its message (the count, or the packed values of this *)
(* call's vector) is on its way.                                           *)
Post(p, q) ==
    /\ status[p] = "exchanging" /\ Current(p, q) /\ half[p] = "post"
    /\ chan' = [chan EXCEPT ![p][q] = Append(@,
           [kind |-> stage[p], epoch |-> epoch[p], len |-> plan.send[p][q]])]
    /\ half' = [half EXCEPT ![p] = "wait"]
    /\ UNCHANGED <<plan, status, epoch, todo, stage, got, ext, operand>>

(* mistake: the message stays in the channel *)
ReceivePeek(p, q) ==
    /\ status[p] = "exchanging" /\ Current(p, q) /\ half[p] = "wait"
    /\ chan[q][p] # <<>>
    /\ got' = [got EXCEPT ![p] = Head(chan[q][p])]
    /\ half' = [half EXCEPT ![p] = "drain"]
    /\ UNCHANGED <<plan, status, epoch, todo, stage, chan, ext, operand>>

(* mistake: nothing is awaited from a peer that sends no values *)
ReceiveExpected(p, q) ==
    /\ status[p] = "exchanging" /\ Current(p, q) /\ half[p] = "wait"
    /\ half' = [half EXCEPT ![p] = "drain"]
    /\ IF plan.recv[p][q] = 0
          THEN got' = [got EXCEPT ![p] = NoMessage] /\ UNCHANGED chan
          ELSE /\ chan[q][p] # <<>>
               /\ got' = [got EXCEPT ![p] = Head(chan[q][p])]
               /\ chan' = [chan EXCEPT ![q][p] = Tail(@)]
    /\ UNCHANGED <<plan, status, epoch, todo, stage, ext, operand>>

(* Its receive matches the oldest message from the peer, whatever it is. *)
Receive(p, q) ==
    /\ status[p] = "exchanging" /\ Current(p, q) /\ half[p] = "wait"
    /\ chan[q][p] # <<>>
    /\ got' = [got EXCEPT ![p] = Head(chan[q][p])]
    /\ chan' = [chan EXCEPT ![q][p] = Tail(@)]
    /\ half' = [half EXCEPT ![p] = "drain"]
    /\ UNCHANGED <<plan, status, epoch, todo, stage, ext, operand>>

SendComplete(p, q) == plan.eager \/ chan[p][q] = <<>>

(* mistake: no handshake *)
FinishCountUnchecked(p, q) ==
    /\ status[p] = "exchanging" /\ Current(p, q) /\ half[p] = "drain"
    /\ stage[p] = "count" /\ SendComplete(p, q)
    /\ stage' = [stage EXCEPT ![p] = "payload"]
    /\ half' = [half EXCEPT ![p] = "post"]
    /\ UNCHANGED <<plan, status, epoch, todo, got, chan, ext, operand>>

(* mistake: a mismatched peer is skipped instead of failing the call *)
FinishCountSkip(p, q) ==
    /\ status[p] = "exchanging" /\ Current(p, q) /\ half[p] = "drain"
    /\ stage[p] = "count" /\ SendComplete(p, q)
    /\ half' = [half EXCEPT ![p] = "post"]
    /\ IF got[p].len = plan.recv[p][q]
          THEN stage' = [stage EXCEPT ![p] = "payload"] /\ UNCHANGED todo
          ELSE todo' = [todo EXCEPT ![p] = @ \ {q}] /\ UNCHANGED stage
    /\ UNCHANGED <<plan, status, epoch, got, chan, ext, operand>>

(* The count handshake: an unexpected count makes this rank return Err. *)
FinishCount(p, q) ==
    /\ status[p] = "exchanging" /\ Current(p, q) /\ half[p] = "drain"
    /\ stage[p] = "count" /\ SendComplete(p, q)
    /\ \/ /\ got[p].len = plan.recv[p][q]
          /\ stage' = [stage EXCEPT ![p] = "payload"]
          /\ half' = [half EXCEPT ![p] = "post"]
          /\ UNCHANGED status
       \/ /\ got[p].len # plan.recv[p][q]
          /\ status' = [status EXCEPT ![p] = "err"]
          /\ UNCHANGED <<stage, half>>
    /\ UNCHANGED <<plan, epoch, todo, got, chan, ext, operand>>

(* mistake: values are scattered for the peers this rank sends to *)
FinishPayloadSent(p, q) ==
    /\ status[p] = "exchanging" /\ Current(p, q) /\ half[p] = "drain"
    /\ stage[p] = "payload" /\ SendComplete(p, q)
    /\ ext' = [ext EXCEPT ![p][q] =
           IF plan.send[p][q] > 0 THEN got[p].epoch ELSE @]
    /\ todo' = [todo EXCEPT ![p] = @ \ {q}]
    /\ stage' = [stage EXCEPT ![p] = "count"]
    /\ half' = [half EXCEPT ![p] = "post"]
    /\ UNCHANGED <<plan, status, epoch, got, chan, operand>>

(* The received values are scattered to the ghost slots of this peer. *)
FinishPayload(p, q) ==
    /\ status[p] = "exchanging" /\ Current(p, q) /\ half[p] = "drain"
    /\ stage[p] = "payload" /\ SendComplete(p, q)
    /\ ext' = [ext EXCEPT ![p][q] =
           IF plan.recv[p][q] > 0 THEN got[p].epoch ELSE @]
    /\ todo' = [todo EXCEPT ![p] = @ \ {q}]
    /\ stage' = [stage EXCEPT ![p] = "count"]
    /\ half' = [half EXCEPT ![p] = "post"]
    /\ UNCHANGED <<plan, status, epoch, got, chan, operand>>

(* mistake: the product starts before all peers are done with *)
ApplyEarly(p) ==
    /\ status[p] = "exchanging"
    /\ status' = [status EXCEPT ![p] = "idle"]
    /\ operand' = [operand EXCEPT ![p] = ext[p]]
    /\ UNCHANGED <<plan, epoch, todo, stage, half, got, chan, ext>>

(* apply_extended reads `extended`, unless the output vector is refused. *)
Apply(p) ==
    /\ status[p] = "exchanging" /\ todo[p] = {}
    /\ \/ /\ plan.fits[p]
          /\ status' = [status EXCEPT ![p] = "idle"]
          /\ operand' = [operand EXCEPT ![p] = ext[p]]
       \/ /\ ~plan.fits[p]
          /\ status' = [status EXCEPT ![p] = "err"]
          /\ UNCHANGED operand
    /\ UNCHANGED <<plan, epoch, todo, stage, half, got, chan, ext>>

Step(p) ==
    \/ Enter(p)
    \/ \E q \in Rank :
          Post(p, q) \/ Receive(p, q) \/ FinishCount(p, q) \/ FinishPayload(p, q)
    \/ Apply(p)

Finished(p) == status[p] = "idle" /\ epoch[p] = MaxEpoch

(* All calls returned: the program goes on to something else. *)
AllFinished == (\A p \in Rank : Finished(p)) /\ UNCHANGED vars

Next == (\E p \in Rank : Step(p)) \/ AllFinished

Spec == Init /\ [][Next]_vars
(* Every MPI process keeps running; MPI makes progress on matched calls. *)
FairSpec == Spec /\ \A p \in Rank : WF_vars(Step(p))
-----------------------------------------------------------------------------
Reciprocal == IsReciprocal(plan)

(* Types of all the state of the exchange (plan, call state, channels). *)
TypeOK ==
    /\ plan \in PlanType
    /\ status \in [Rank -> {"idle", "exchanging", "err"}]
    /\ epoch \in [Rank -> 0 .. MaxEpoch]
    /\ todo \in [Rank -> SUBSET Rank]
    /\ stage \in [Rank -> {"count", "payload"}]
    /\ half \in [Rank -> {"post", "wait", "drain"}]
    /\ got \in [Rank -> Message]
    /\ chan \in [Rank -> [Rank -> Seq(Message)]]
    /\ ext \in [Rank -> [Rank -> Nat]]
    /\ operand \in [Rank -> [Rank -> Nat]]

(* A Sendrecv never receives a message of another epoch, nor a payload     *)
(* where it waits for a count: exchange_halo gives counts, values and all  *)
(* epochs the same tag and relies on the order of calls alone. Holds for   *)
(* non-reciprocal plans and after errors too.                              *)
MatchedMessages ==
    \A p \in Rank : half[p] = "drain" =>
        got[p].kind = stage[p] /\ got[p].epoch = epoch[p]

(* "A count handshake rejects incompatible receive lengths before data":   *)
(* the values that arrive fill the receive buffer exactly, even when the   *)
(* ranks' plans disagree.                                                  *)
PayloadFits ==
    \A p, q \in Rank :
        Current(p, q) /\ stage[p] = "payload" /\ half[p] = "drain" =>
            got[p].len = plan.recv[p][q]

(* apply_extended reads values of this very call in every ghost slot: no   *)
(* NaN left from the poisoning, nothing of an earlier or later product.    *)
GhostsCurrent ==
    \A p \in Rank : status[p] = "exchanging" /\ todo[p] = {} =>
        \A q \in Rank \ {p} : plan.recv[p][q] > 0 => ext[p][q] = epoch[p]

(* No rank runs more than one product ahead of a peer, although no barrier *)
(* separates the products; so two channel slots per pair always suffice.   *)
NeighbourSkew ==
    Reciprocal => \A p \in Rank : \A q \in Peers(p) :
        epoch[p] <= epoch[q] + 1 /\ Len(chan[p][q]) <= 2

(* The messages p has sent q and received from q since the start: two of   *)
(* each kind per completed visit, plus those of the visit under way.       *)
Visited(p, q) ==
    2 * epoch[p] - (IF q \in todo[p] THEN 2 ELSE 0)
                 + (IF Current(p, q) /\ stage[p] = "payload" THEN 1 ELSE 0)
Sent(p, q) == IF q \notin Peers(p) THEN 0 ELSE
    Visited(p, q) + (IF Current(p, q) /\ half[p] # "post" THEN 1 ELSE 0)
Rcvd(p, q) == IF q \notin Peers(p) THEN 0 ELSE
    Visited(p, q) + (IF Current(p, q) /\ half[p] = "drain" THEN 1 ELSE 0)

(* The place of a message in the traffic of its channel, from 1. *)
Position(m) == 2 * m.epoch - (IF m.kind = "count" THEN 1 ELSE 0)

(* Nothing is lost, duplicated or left behind: what is in flight from p to *)
(* q is exactly what p's progress is ahead of q's, in order.               *)
ChannelAccounting ==
    \A p, q \in Rank :
        /\ Len(chan[p][q]) = Sent(p, q) - Rcvd(q, p)
        /\ \A i \in 1 .. Len(chan[p][q]) :
              /\ Position(chan[p][q][i]) = Rcvd(q, p) + i
              /\ chan[p][q][i].len = plan.send[p][q]

(* Rank p has a step: the disjunction of the guards of Step(p). *)
CanMove(p) ==
    \/ status[p] = "idle" /\ epoch[p] < MaxEpoch
    \/ status[p] = "exchanging" /\ todo[p] = {}
    \/ /\ status[p] = "exchanging"
       /\ \E q \in Rank : Current(p, q) /\
            \/ half[p] = "post"
            \/ half[p] = "wait" /\ chan[q][p] # <<>>
            \/ half[p] = "drain" /\ SendComplete(p, q)

(* "For a correct reciprocal undirected peer graph, the common order       *)
(* avoids a blocking wait cycle": unless all ranks have finished all their *)
(* products, some rank can take a step.                                    *)
NoWaitCycle ==
    Reciprocal => (\A p \in Rank : Finished(p)) \/ (\E p \in Rank : CanMove(p))

(* With reciprocal plans every rank completes every product. *)
EveryCallReturns == Reciprocal => \A p \in Rank : <>Finished(p)

(* What HaloEpochs sees: whose ghosts each rank needs, and how many of its *)
(* products a rank has completed.                                          *)
GhostOwners == [p \in Rank |-> {q \in Rank \ {p} : plan.recv[p][q] > 0}]
Completed ==
    [p \in Rank |-> IF status[p] = "idle" THEN epoch[p] ELSE epoch[p] - 1]
Epochs == INSTANCE HaloEpochs WITH
    deps <- GhostOwners, entered <- epoch, left <- Completed
(* The blocking exchange implements the promise of HaloEpochs. *)
ImplementsEpochs == Epochs!Spec
=============================================================================
