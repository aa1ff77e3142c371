---------------------------- MODULE OverlapSpmv -----------------------------
(***************************************************************************)
(* OverlapSpmv (hybit-distributed/src/mpi_overlap.rs): the nonblocking     *)
(* product. prepare exchanges the message lengths in one Alltoall; then    *)
(* each spmv_overlap posts its receives and sends, computes the interior   *)
(* rows while they are in flight, waits for all of them, scatters the      *)
(* ghosts and computes the boundary rows. Its buffers are reused.          *)
(*                                                                         *)
(* MPI is external: a posted send refers to the send buffer until MPI has  *)
(* copied or delivered it, at any time of MPI's choosing, and a delivered  *)
(* message is written to the receive buffer of the posted receive.         *)
(***************************************************************************)
EXTENDS HaloPlans, Sequences

VARIABLES
    plan,       \* the plan in use
    status,     \* "new", "alltoall", "idle", "interior", "wait", "err"
    epoch,      \* products entered
    sendBuf,    \* sendBuf[p]: epoch of the values packed in send_buffer
    recvBuf,    \* recvBuf[p][q]: epoch of q's chunk of p's recv_buffer
    posted,     \* posted[p]: ranks p has an incomplete receive from
    chan,       \* chan[p][q]: sends not yet delivered; an entry is the epoch
                \* of a copied message, or InBuffer while it is not copied
    ext,        \* ext[p][q]: epoch of the ghosts of q in `extended`, 0 is NaN
    operand     \* operand[p][q]: epoch of q's ghosts the last product used

vars == <<plan, status, epoch, sendBuf, recvBuf, posted, chan, ext, operand>>

InBuffer == 0
NoEpochs == [q \in Rank |-> 0]
Reciprocal == IsReciprocal(plan)

Sources(p) == {q \in Rank \ {p} : plan.recv[p][q] > 0}
(* mistake: sends are posted to ranks values also come from, only *)
TargetsMutual(p) == {q \in Sources(p) : plan.send[p][q] > 0}
Targets(p) == {q \in Rank \ {p} : plan.send[p][q] > 0}

(* mistake: only ghosts of higher ranks make a row a boundary row *)
BoundaryUpper(p, q) == q \in Sources(p) /\ q > p
(* partition_rows: the rows of p that read ghosts of q are boundary rows.  *)
Boundary(p, q) == q \in Sources(p)

Init ==
    /\ plan \in Plans
    /\ status = [p \in Rank |-> "new"]
    /\ epoch = [p \in Rank |-> 0]
    /\ sendBuf = [p \in Rank |-> 0]
    /\ recvBuf = [p \in Rank |-> NoEpochs]
    /\ posted = [p \in Rank |-> {}]
    /\ chan = [p \in Rank |-> [q \in Rank |-> <<>>]]
    /\ ext = [p \in Rank |-> NoEpochs]
    /\ operand = [p \in Rank |-> NoEpochs]

(* prepare: check_layout fails on this rank alone, or it enters Alltoall. *)
Prepare(p) ==
    /\ status[p] = "new"
    /\ status' = [status EXCEPT ![p] = IF plan.valid[p] THEN "alltoall" ELSE "err"]
    /\ UNCHANGED <<plan, epoch, sendBuf, recvBuf, posted, chan, ext, operand>>

(* The lengths advertised to a rank must be those it expects. *)
Alltoall ==
    /\ \A p \in Rank : status[p] = "alltoall"
    /\ status' = [p \in Rank |->
           IF \A q \in Rank \ {p} : plan.send[q][p] = plan.recv[p][q]
           THEN "idle" ELSE "err"]
    /\ UNCHANGED <<plan, epoch, sendBuf, recvBuf, posted, chan, ext, operand>>

(* mistake: calls are not counted against the bound *)
EnterUnbounded(p) ==
    /\ status[p] = "idle" /\ plan.fits[p]
    /\ status' = [status EXCEPT ![p] = "interior"]
    /\ epoch' = [epoch EXCEPT ![p] = @ + 1]
    /\ UNCHANGED <<plan, sendBuf, recvBuf, posted, chan, ext, operand>>

(* spmv_overlap up to the posts: poison the ghosts, pack, post all receives *)
(* and all sends of nonempty chunks. Wrong dimensions fail this rank alone. *)
Enter(p) ==
    /\ status[p] = "idle" /\ epoch[p] < MaxEpoch
    /\ \/ /\ plan.fits[p]
          /\ status' = [status EXCEPT ![p] = "interior"]
          /\ epoch' = [epoch EXCEPT ![p] = @ + 1]
          /\ ext' = [ext EXCEPT ![p] = NoEpochs]
          /\ sendBuf' = [sendBuf EXCEPT ![p] = epoch[p] + 1]
          /\ posted' = [posted EXCEPT ![p] = Sources(p)]
          /\ chan' = [chan EXCEPT ![p] = [q \in Rank |->
                 IF q \in Targets(p) THEN Append(@[q], InBuffer) ELSE @[q]]]
       \/ /\ ~plan.fits[p]
          /\ status' = [status EXCEPT ![p] = "err"]
          /\ UNCHANGED <<epoch, ext, sendBuf, posted, chan>>
    /\ UNCHANGED <<plan, recvBuf, operand>>

(* Interior rows are computed while messages are in flight. *)
Interior(p) ==
    /\ status[p] = "interior"
    /\ operand' = [operand EXCEPT ![p] = [q \in Rank |->
           IF Boundary(p, q) THEN @[q] ELSE ext[p][q]]]
    /\ status' = [status EXCEPT ![p] = "wait"]
    /\ UNCHANGED <<plan, epoch, sendBuf, recvBuf, posted, chan, ext>>

SendsComplete(p) ==
    \A q \in Rank : \A i \in 1 .. Len(chan[p][q]) : chan[p][q][i] # InBuffer

(* A mistake: the sends are not waited for. *)
FinishUnsent(p) ==
    /\ status[p] = "wait" /\ posted[p] = {}
    /\ ext' = [ext EXCEPT ![p] = [q \in Rank |->
           IF q \in Sources(p) THEN recvBuf[p][q] ELSE @[q]]]
    /\ operand' = [operand EXCEPT ![p] = [q \in Rank |->
           IF Boundary(p, q) THEN ext'[p][q] ELSE @[q]]]
    /\ status' = [status EXCEPT ![p] = "idle"]
    /\ UNCHANGED <<plan, epoch, sendBuf, recvBuf, posted, chan>>

(* All requests waited for: scatter the ghosts, compute the boundary rows. *)
Finish(p) ==
    /\ status[p] = "wait" /\ posted[p] = {} /\ SendsComplete(p)
    /\ ext' = [ext EXCEPT ![p] = [q \in Rank |->
           IF q \in Sources(p) THEN recvBuf[p][q] ELSE @[q]]]
    /\ operand' = [operand EXCEPT ![p] = [q \in Rank |->
           IF Boundary(p, q) THEN ext'[p][q] ELSE @[q]]]
    /\ status' = [status EXCEPT ![p] = "idle"]
    /\ UNCHANGED <<plan, epoch, sendBuf, recvBuf, posted, chan>>

(* MPI copies the newest message from p to q out of the send buffer ... *)
Buffer(p, q) ==
    /\ chan[p][q] # <<>> /\ chan[p][q][Len(chan[p][q])] = InBuffer
    /\ chan' = [chan EXCEPT ![p][q][Len(chan[p][q])] = sendBuf[p]]
    /\ UNCHANGED <<plan, status, epoch, sendBuf, recvBuf, posted, ext, operand>>

(* ... or delivers the oldest one to the receive q has posted for p. *)
Deliver(p, q) ==
    /\ chan[p][q] # <<>> /\ p \in posted[q]
    /\ recvBuf' = [recvBuf EXCEPT ![q][p] =
           IF Head(chan[p][q]) = InBuffer THEN sendBuf[p] ELSE Head(chan[p][q])]
    /\ chan' = [chan EXCEPT ![p][q] = Tail(@)]
    /\ posted' = [posted EXCEPT ![q] = @ \ {p}]
    /\ UNCHANGED <<plan, status, epoch, sendBuf, ext, operand>>

Step(p) == Prepare(p) \/ Enter(p) \/ Interior(p) \/ Finish(p)
Transport == \E p, q \in Rank : Buffer(p, q) \/ Deliver(p, q)

Next == (\E p \in Rank : Step(p)) \/ Alltoall \/ Transport

Spec == Init /\ [][Next]_vars
(* Ranks keep running; collectives complete; MPI delivers matched messages. *)
FairSpec ==
    /\ Spec /\ WF_vars(Alltoall)
    /\ \A p \in Rank : WF_vars(Step(p))
    /\ \A p, q \in Rank : WF_vars(Deliver(p, q))
-----------------------------------------------------------------------------
InCall(p) == status[p] \in {"interior", "wait"}

(* Types of the state of all ranks and of the messages in flight. *)
TypeOK ==
    /\ plan \in PlanType
    /\ status \in [Rank -> {"new", "alltoall", "idle", "interior", "wait", "err"}]
    /\ epoch \in [Rank -> 0 .. MaxEpoch]
    /\ sendBuf \in [Rank -> 0 .. MaxEpoch]
    /\ recvBuf \in [Rank -> [Rank -> 0 .. MaxEpoch]]
    /\ posted \in [Rank -> SUBSET Rank]
    /\ chan \in [Rank -> [Rank -> Seq(0 .. MaxEpoch)]]
    /\ ext \in [Rank -> [Rank -> 0 .. MaxEpoch]]
    /\ operand \in [Rank -> [Rank -> 0 .. MaxEpoch]]

(* The chunk a delivered message is written to is its product's: a rank    *)
(* that runs ahead never overwrites, in place or in flight, what a slower  *)
(* peer has yet to receive. "All nonblocking requests are completed before *)
(* returning": outside a call MPI may neither read send_buffer nor write   *)
(* recv_buffer.                                                            *)
DeliveredInEpoch ==
    \A p \in Rank :
        IF InCall(p)
        THEN \A q \in Sources(p) \ posted[p] : recvBuf[p][q] = epoch[p]
        ELSE posted[p] = {} /\ SendsComplete(p)

(* With reciprocal plans every rank completes every product. *)
EveryCallReturns ==
    Reciprocal => \A p \in Rank : <>(status[p] = "idle" /\ epoch[p] = MaxEpoch)

(* The overlapped product gives the same promise as the blocking one:      *)
(* interior rows never wait for ghosts and boundary rows never miss them.  *)
GhostOwners == [p \in Rank |-> Sources(p)]
Completed == [p \in Rank |-> IF InCall(p) THEN epoch[p] - 1 ELSE epoch[p]]
Epochs == INSTANCE HaloEpochs WITH
    deps <- GhostOwners, entered <- epoch, left <- Completed
ImplementsEpochs == Epochs!Spec
=============================================================================
