------------------------- MODULE OverlapSpmvProofs -------------------------
(***************************************************************************)
(* Theorems about OverlapSpmv, for every number of ranks, every bound on   *)
(* the number of products and every set of plans, reciprocal or not.       *)
(*                                                                         *)
(* A rank may run any number of products ahead of a peer it only sends to, *)
(* so the argument counts messages: what is in flight from p to q is       *)
(* exactly the products p entered less those q has received, oldest first, *)
(* and only the newest message of a rank inside its call may still be read *)
(* from send_buffer.                                                       *)
(***************************************************************************)
EXTENDS OverlapSpmv, TLAPS, SequenceTheorems

(* The products of p of which q's chunk has arrived. *)
Got(q, p) == IF p \in posted[q] THEN epoch[q] - 1 ELSE epoch[q]

(* The state of one rank's call. Products only start once the Alltoall has *)
(* found that the peers send exactly what this rank expects.               *)
CallInv(p) ==
    /\ posted[p] \subseteq Sources(p)
    /\ ~InCall(p) => posted[p] = {}
    /\ InCall(p) => epoch[p] >= 1
    /\ sendBuf[p] = epoch[p]
    /\ status[p] = "idle" \/ epoch[p] >= 1 =>
          \A q \in Rank \ {p} : plan.send[q][p] = plan.recv[p][q]

(* What is in flight from p to q, and what q has of it. *)
FlightInv(p, q) ==
    /\ q \notin Targets(p) => chan[p][q] = <<>>
    /\ q \in Targets(p) => Len(chan[p][q]) = epoch[p] - Got(q, p)
    /\ \A i \in 1 .. Len(chan[p][q]) :
          \/ chan[p][q][i] = Got(q, p) + i
          \/ chan[p][q][i] = InBuffer /\ i = Len(chan[p][q]) /\ InCall(p)
    /\ p \in Sources(q) => recvBuf[q][p] = Got(q, p)

(* No rank holds ghosts of a rank it does not import from. *)
GhostInv(p) ==
    \A q \in Rank \ Sources(p) : ext[p][q] = 0 /\ operand[p][q] = 0

(* The inductive invariant. *)
IInv ==
    /\ TypeOK
    /\ \A p \in Rank : CallInv(p) /\ GhostInv(p)
    /\ \A p, q \in Rank : FlightInv(p, q)
-----------------------------------------------------------------------------
(* The state keeps its types through every step. *)
LEMMA TypeStep == TypeOK /\ [Next]_vars => TypeOK'
<1> SUFFICES ASSUME TypeOK, [Next]_vars PROVE TypeOK'
  OBVIOUS
<1> USE NAssumption, MaxEpochAssumption
<1>1. ASSUME NEW p \in Rank, Prepare(p) PROVE TypeOK'
  BY <1>1 DEF TypeOK, Prepare
<1>2. ASSUME NEW p \in Rank, Enter(p) PROVE TypeOK'
  <2>1. CASE ~plan.fits[p]
    BY <1>2, <2>1 DEF TypeOK, Enter
  <2>2. CASE plan.fits[p]
    <3>1. epoch[p] + 1 \in 0 .. MaxEpoch
      BY <1>2 DEF TypeOK, Enter
    <3>2. epoch' \in [Rank -> 0 .. MaxEpoch] /\ sendBuf' \in [Rank -> 0 .. MaxEpoch]
      <4>1. /\ epoch' = [epoch EXCEPT ![p] = epoch[p] + 1]
            /\ sendBuf' = [sendBuf EXCEPT ![p] = epoch[p] + 1]
        BY <1>2, <2>2 DEF Enter
      <4> QED
        BY <3>1, <4>1 DEF TypeOK
    <3>3. ext' \in [Rank -> [Rank -> 0 .. MaxEpoch]]
      <4>1. NoEpochs \in [Rank -> 0 .. MaxEpoch]
        BY DEF NoEpochs
      <4>2. ext' = [ext EXCEPT ![p] = NoEpochs]
        BY <1>2, <2>2 DEF Enter
      <4> QED
        BY <4>1, <4>2 DEF TypeOK
    <3>4. posted' \in [Rank -> SUBSET Rank]
      <4>1. posted' = [posted EXCEPT ![p] = Sources(p)] /\ Sources(p) \subseteq Rank
        BY <1>2, <2>2 DEF Enter, Sources
      <4> QED
        BY <4>1 DEF TypeOK
    <3>5. chan' \in [Rank -> [Rank -> Seq(0 .. MaxEpoch)]]
      <4> DEFINE new == [q \in Rank |-> IF q \in Targets(p)
                            THEN Append(chan[p][q], InBuffer) ELSE chan[p][q]]
      <4>1. new \in [Rank -> Seq(0 .. MaxEpoch)]
        <5>1. ASSUME NEW q \in Rank
              PROVE  /\ chan[p][q] \in Seq(0 .. MaxEpoch)
                     /\ Append(chan[p][q], InBuffer) \in Seq(0 .. MaxEpoch)
          <6>1. chan[p][q] \in Seq(0 .. MaxEpoch)
            BY DEF TypeOK
          <6> QED
            BY <6>1 DEF InBuffer
        <5> QED
          BY <5>1
      <4>2. chan' = [chan EXCEPT ![p] = new]
        BY <1>2, <2>2 DEF Enter
      <4> HIDE DEF new
      <4> QED
        BY <4>1, <4>2 DEF TypeOK
    <3>6. status' \in [Rank -> {"new", "alltoall", "idle", "interior", "wait", "err"}]
      BY <1>2, <2>2 DEF TypeOK, Enter
    <3> QED
      BY <1>2, <3>2, <3>3, <3>4, <3>5, <3>6 DEF TypeOK, Enter
  <2> QED
    BY <2>1, <2>2
<1>3. ASSUME NEW p \in Rank, Interior(p) PROVE TypeOK'
  <2>1. operand' \in [Rank -> [Rank -> 0 .. MaxEpoch]]
    BY <1>3 DEF TypeOK, Interior
  <2>2. status' \in [Rank -> {"new", "alltoall", "idle", "interior", "wait", "err"}]
    BY <1>3 DEF TypeOK, Interior
  <2> QED
    BY <1>3, <2>1, <2>2 DEF TypeOK, Interior
<1>4. ASSUME NEW p \in Rank, Finish(p) PROVE TypeOK'
  <2>1. ext' \in [Rank -> [Rank -> 0 .. MaxEpoch]]
    BY <1>4 DEF TypeOK, Finish
  <2>2. operand' \in [Rank -> [Rank -> 0 .. MaxEpoch]]
    BY <1>4, <2>1 DEF TypeOK, Finish
  <2>3. status' \in [Rank -> {"new", "alltoall", "idle", "interior", "wait", "err"}]
    BY <1>4 DEF TypeOK, Finish
  <2> QED
    BY <1>4, <2>1, <2>2, <2>3 DEF TypeOK, Finish
<1>5. ASSUME Alltoall PROVE TypeOK'
  BY <1>5 DEF TypeOK, Alltoall
<1>6. ASSUME NEW p \in Rank, NEW q \in Rank, Buffer(p, q) PROVE TypeOK'
  <2> DEFINE n == Len(chan[p][q])
             new == [chan[p][q] EXCEPT ![n] = sendBuf[p]]
  <2>1. new \in Seq(0 .. MaxEpoch)
    <3>1. /\ chan[p][q] \in Seq(0 .. MaxEpoch) /\ chan[p][q] # <<>>
          /\ sendBuf[p] \in 0 .. MaxEpoch
      BY <1>6 DEF TypeOK, Buffer
    <3>2. n \in 1 .. Len(chan[p][q])
      BY <3>1, EmptySeq
    <3> QED
      BY <3>1, <3>2, ExceptSeq
  <2>2. chan' = [chan EXCEPT ![p][q] = new]
    BY <1>6 DEF Buffer, TypeOK
  <2> HIDE DEF new
  <2>3. chan' \in [Rank -> [Rank -> Seq(0 .. MaxEpoch)]]
    BY <2>1, <2>2 DEF TypeOK
  <2> QED
    BY <1>6, <2>3 DEF TypeOK, Buffer
<1>7. ASSUME NEW p \in Rank, NEW q \in Rank, Deliver(p, q) PROVE TypeOK'
  <2>1. Head(chan[p][q]) \in 0 .. MaxEpoch /\ Tail(chan[p][q]) \in Seq(0 .. MaxEpoch)
    <3>1. chan[p][q] \in Seq(0 .. MaxEpoch) /\ chan[p][q] # <<>>
      BY <1>7 DEF TypeOK, Deliver
    <3> QED
      BY <3>1, HeadTailProperties
  <2>2. recvBuf' \in [Rank -> [Rank -> 0 .. MaxEpoch]]
    BY <1>7, <2>1 DEF TypeOK, Deliver
  <2>3. chan' \in [Rank -> [Rank -> Seq(0 .. MaxEpoch)]]
    BY <1>7, <2>1 DEF TypeOK, Deliver
  <2>4. posted' \in [Rank -> SUBSET Rank]
    BY <1>7 DEF TypeOK, Deliver
  <2> QED
    BY <1>7, <2>2, <2>3, <2>4 DEF TypeOK, Deliver
<1>8. CASE UNCHANGED vars
  BY <1>8 DEF TypeOK, vars
<1> QED
  BY <1>1, <1>2, <1>3, <1>4, <1>5, <1>6, <1>7, <1>8 DEF Next, Step, Transport

(* The state of the ranks and of the messages in flight has its types. *)
THEOREM TypeCorrect == Spec => []TypeOK
<1>1. Init => TypeOK
  BY NAssumption, MaxEpochAssumption, PlansAssumption DEF Init, TypeOK, NoEpochs
<1> QED
  BY <1>1, TypeStep, PTL DEF Spec
-----------------------------------------------------------------------------
(* A rank's plan is fixed, and so are its peers. *)
LEMMA PlanFixed ==
  ASSUME [Next]_vars
  PROVE  /\ plan' = plan
         /\ \A p \in Rank : Sources(p)' = Sources(p) /\ Targets(p)' = Targets(p)
<1>1. plan' = plan
  BY DEF Next, Step, Transport, Prepare, Enter, Interior, Finish, Alltoall,
         Buffer, Deliver, vars
<1> QED
  BY <1>1 DEF Sources, Targets

(* The numbers behind a channel are integers. *)
LEMMA Numbers ==
  ASSUME TypeOK, NEW p \in Rank, NEW q \in Rank
  PROVE  /\ epoch[p] \in Nat /\ Got(q, p) \in Int /\ Len(chan[p][q]) \in Nat
         /\ chan[p][q] \in Seq(0 .. MaxEpoch) /\ sendBuf[p] \in 0 .. MaxEpoch
<1>1. epoch[p] \in Nat /\ epoch[q] \in Nat
  BY MaxEpochAssumption DEF TypeOK
<1>2. chan[p][q] \in Seq(0 .. MaxEpoch) /\ sendBuf[p] \in 0 .. MaxEpoch
  BY DEF TypeOK
<1> QED
  BY <1>1, <1>2, LenProperties DEF Got

(* A rank that has entered a product receives from exactly those that send *)
(* to it.                                                                  *)
LEMMA Counterparts ==
  ASSUME TypeOK, NEW p \in Rank, NEW q \in Rank, CallInv(q),
         status[q] = "idle" \/ epoch[q] >= 1
  PROVE  p \in Sources(q) <=> q \in Targets(p)
<1>1. p # q => plan.send[p][q] = plan.recv[q][p]
  BY DEF CallInv
<1> QED
  BY <1>1 DEF Sources, Targets

(* What a step of neither rank nor of their channel leaves as it is. *)
LEMMA FlightKeep ==
  ASSUME NEW p \in Rank, NEW q \in Rank, FlightInv(p, q),
         Sources(q)' = Sources(q), Targets(p)' = Targets(p),
         chan'[p][q] = chan[p][q], epoch'[p] = epoch[p],
         q \in Targets(p) \/ p \in Sources(q) \/ chan[p][q] # <<>>
            => Got(q, p)' = Got(q, p),
         recvBuf'[q][p] = recvBuf[q][p],
         InCall(p) => InCall(p)' \/ SendsComplete(p)
  PROVE  FlightInv(p, q)'
<1> DEFINE c == chan[p][q]
<1>1. (q \notin Targets(p) => c = <<>>)'
  BY DEF FlightInv
<1>2. (q \in Targets(p) => Len(c) = epoch[p] - Got(q, p))'
  BY DEF FlightInv
<1>3. ASSUME NEW i \in 1 .. Len(c)
      PROVE  \/ c[i] = Got(q, p)'  + i
             \/ c[i] = InBuffer /\ i = Len(c) /\ InCall(p)'
  <2>1. c # <<>>
    BY <1>3
  <2>2. SendsComplete(p) => c[i] # InBuffer
    BY DEF SendsComplete
  <2> QED
    BY <1>3, <2>1, <2>2 DEF FlightInv
<1>4. (p \in Sources(q) => recvBuf[q][p] = Got(q, p))'
  BY DEF FlightInv
<1> QED
  BY <1>1, <1>2, <1>3, <1>4 DEF FlightInv, InBuffer
-----------------------------------------------------------------------------
(* Every step preserves the state of each rank's call. *)
LEMMA CallStep ==
  ASSUME IInv, [Next]_vars, NEW r \in Rank
  PROVE  CallInv(r)' /\ GhostInv(r)'
<1> USE DEF IInv
<1>0. TypeOK /\ CallInv(r) /\ GhostInv(r)
  OBVIOUS
<1>1. plan' = plan /\ Sources(r)' = Sources(r)
  BY PlanFixed
<1>2. ASSUME status'[r] = status[r], epoch'[r] = epoch[r], sendBuf'[r] = sendBuf[r],
             posted'[r] = posted[r], ext'[r] = ext[r], operand'[r] = operand[r]
      PROVE  CallInv(r)' /\ GhostInv(r)'
  BY <1>0, <1>1, <1>2 DEF CallInv, GhostInv, InCall
<1>3. ASSUME NEW p \in Rank, Prepare(p) PROVE CallInv(r)' /\ GhostInv(r)'
  <2>1. CASE p # r
    BY <1>2, <1>3, <2>1 DEF Prepare, TypeOK
  <2>2. CASE p = r
    <3>1. /\ status[r] = "new" /\ status'[r] \in {"alltoall", "err"}
          /\ UNCHANGED <<epoch, sendBuf, posted, ext, operand>>
      BY <1>3, <2>2 DEF Prepare, TypeOK
    <3> QED
      BY <1>0, <1>1, <3>1 DEF CallInv, GhostInv, InCall
  <2> QED
    BY <2>1, <2>2
<1>4. ASSUME NEW p \in Rank, Enter(p) PROVE CallInv(r)' /\ GhostInv(r)'
  <2>1. CASE p # r
    BY <1>2, <1>4, <2>1 DEF Enter, TypeOK
  <2>2. CASE p = r /\ plan.fits[r]
    <3>1. /\ status[r] = "idle" /\ status'[r] = "interior"
          /\ epoch'[r] = epoch[r] + 1 /\ sendBuf'[r] = epoch[r] + 1
          /\ posted'[r] = Sources(r) /\ ext'[r] = NoEpochs /\ operand' = operand
      BY <1>4, <2>2 DEF Enter, TypeOK
    <3>2. epoch[r] \in Nat
      BY Numbers
    <3>3. CallInv(r)'
      BY <1>0, <1>1, <3>1, <3>2 DEF CallInv, InCall
    <3>4. GhostInv(r)'
      BY <1>0, <1>1, <3>1 DEF GhostInv, NoEpochs
    <3> QED
      BY <3>3, <3>4
  <2>3. CASE p = r /\ ~plan.fits[r]
    <3>1. /\ status[r] = "idle" /\ status'[r] = "err"
          /\ UNCHANGED <<epoch, sendBuf, posted, ext, operand>>
      BY <1>4, <2>3 DEF Enter, TypeOK
    <3> QED
      BY <1>0, <1>1, <3>1 DEF CallInv, GhostInv, InCall
  <2> QED
    BY <2>1, <2>2, <2>3
<1>5. ASSUME NEW p \in Rank, Interior(p) PROVE CallInv(r)' /\ GhostInv(r)'
  <2>1. CASE p # r
    BY <1>2, <1>5, <2>1 DEF Interior, TypeOK
  <2>2. CASE p = r
    <3>1. /\ status[r] = "interior" /\ status'[r] = "wait"
          /\ UNCHANGED <<epoch, sendBuf, posted, ext>>
          /\ operand'[r] = [q \in Rank |-> IF Boundary(r, q) THEN operand[r][q]
                                           ELSE ext[r][q]]
      BY <1>5, <2>2 DEF Interior, TypeOK
    <3> QED
      BY <1>0, <1>1, <3>1 DEF CallInv, GhostInv, InCall, Boundary
  <2> QED
    BY <2>1, <2>2
<1>6. ASSUME NEW p \in Rank, Finish(p) PROVE CallInv(r)' /\ GhostInv(r)'
  <2>1. CASE p # r
    BY <1>2, <1>6, <2>1 DEF Finish, TypeOK
  <2>2. CASE p = r
    <3>1. /\ status[r] = "wait" /\ posted[r] = {} /\ status'[r] = "idle"
          /\ UNCHANGED <<epoch, sendBuf, posted>>
          /\ ext'[r] = [q \in Rank |-> IF q \in Sources(r) THEN recvBuf[r][q]
                                       ELSE ext[r][q]]
          /\ operand'[r] = [q \in Rank |-> IF Boundary(r, q) THEN ext'[r][q]
                                           ELSE operand[r][q]]
      BY <1>6, <2>2 DEF Finish, TypeOK
    <3> QED
      BY <1>0, <1>1, <3>1 DEF CallInv, GhostInv, InCall, Boundary
  <2> QED
    BY <2>1, <2>2
<1>7. ASSUME Alltoall PROVE CallInv(r)' /\ GhostInv(r)'
  <2>1. /\ status[r] = "alltoall" /\ status'[r] \in {"idle", "err"}
        /\ UNCHANGED <<epoch, sendBuf, posted, ext, operand>>
        /\ status'[r] = "idle" =>
              \A q \in Rank \ {r} : plan.send[q][r] = plan.recv[r][q]
    BY <1>7 DEF Alltoall
  <2> QED
    BY <1>0, <1>1, <2>1 DEF CallInv, GhostInv, InCall
<1>8. ASSUME NEW p \in Rank, NEW q \in Rank, Deliver(p, q)
      PROVE  CallInv(r)' /\ GhostInv(r)'
  <2>1. /\ UNCHANGED <<status, epoch, sendBuf, ext, operand>>
        /\ posted'[r] \subseteq posted[r]
    BY <1>8 DEF Deliver, TypeOK
  <2> QED
    BY <1>0, <1>1, <2>1 DEF CallInv, GhostInv, InCall
<1>9. CASE (\E p, q \in Rank : Buffer(p, q)) \/ UNCHANGED vars
  BY <1>2, <1>9 DEF Buffer, vars
<1> QED
  BY <1>3, <1>4, <1>5, <1>6, <1>7, <1>8, <1>9 DEF Next, Step, Transport
-----------------------------------------------------------------------------
(* A rank enters a product: it owes one more message to each of its peers  *)
(* and expects one more of each.                                           *)
LEMMA EnterFlight ==
  ASSUME IInv, NEW e \in Rank, Enter(e), NEW p \in Rank, NEW q \in Rank
  PROVE  FlightInv(p, q)'
<1>0. TypeOK /\ CallInv(e) /\ CallInv(p) /\ CallInv(q) /\ FlightInv(p, q)
  BY DEF IInv
<1>1. plan' = plan /\ Sources(q)' = Sources(q) /\ Targets(p)' = Targets(p)
  BY DEF Enter, Sources, Targets
<1>2. status[e] = "idle" /\ ~InCall(e) /\ posted[e] = {} /\ recvBuf' = recvBuf
  BY <1>0 DEF Enter, InCall, CallInv
<1>3. CASE ~plan.fits[e]
  <2>1. /\ UNCHANGED <<epoch, posted, chan>>
        /\ status' = [status EXCEPT ![e] = "err"]
    BY <1>3 DEF Enter
  <2>2. InCall(p) => InCall(p)'
    BY <1>0, <1>2, <2>1 DEF InCall, TypeOK
  <2> QED
    BY <1>0, <1>1, <1>2, <2>1, <2>2, FlightKeep DEF Got
<1>4. CASE plan.fits[e]
  <2>1. /\ epoch' = [epoch EXCEPT ![e] = epoch[e] + 1]
        /\ posted' = [posted EXCEPT ![e] = Sources(e)]
        /\ status' = [status EXCEPT ![e] = "interior"]
        /\ chan' = [chan EXCEPT ![e] = [t \in Rank |->
                      IF t \in Targets(e) THEN Append(chan[e][t], InBuffer)
                      ELSE chan[e][t]]]
    BY <1>4 DEF Enter
  <2>2. epoch[e] \in Nat
    BY <1>0, Numbers
  <2>3. \A t \in Rank \ {e} :
           /\ epoch'[t] = epoch[t] /\ posted'[t] = posted[t] /\ chan'[t] = chan[t]
           /\ InCall(t)' = InCall(t)
    BY <1>0, <2>1 DEF TypeOK, InCall
  <2>4. epoch'[e] = epoch[e] + 1 /\ posted'[e] = Sources(e) /\ InCall(e)'
    BY <1>0, <2>1 DEF TypeOK, InCall
  <2>5. CASE p # e
    <3>1. q # e => Got(q, p)' = Got(q, p)
      BY <2>3 DEF Got
    <3>2. p \in Sources(e) => Got(e, p)' = Got(e, p)
      BY <1>2, <2>2, <2>4 DEF Got
    <3>3. q = e => (p \in Sources(e) <=> e \in Targets(p))
      BY <1>0, <1>2, Counterparts
    <3>4. e \notin Targets(p) /\ q = e => chan[p][q] = <<>>
      BY <1>0 DEF FlightInv
    <3> QED
      BY <1>0, <1>1, <1>2, <2>3, <2>5, <3>1, <3>2, <3>3, <3>4, FlightKeep
  <2>6. CASE p = e /\ q \notin Targets(e)
    <3>1. chan'[p][q] = chan[p][q] /\ chan[p][q] = <<>>
      BY <1>0, <2>1, <2>6 DEF TypeOK, FlightInv
    <3>2. p \in Sources(q) => Got(q, p)' = Got(q, p)
      BY <2>3, <2>6 DEF Got, Sources
    <3> QED
      BY <1>0, <1>1, <1>2, <2>6, <3>1, <3>2 DEF FlightInv
  <2>7. CASE p = e /\ q \in Targets(e)
    <3>1. q # e /\ Got(q, p)' = Got(q, p)
      BY <2>3, <2>7 DEF Got, Targets
    <3>2. chan'[p][q] = Append(chan[p][q], InBuffer)
      BY <1>0, <2>1, <2>7 DEF TypeOK
    <3> DEFINE c == chan[p][q]
    <3>3. c \in Seq(0 .. MaxEpoch) /\ Len(c) \in Nat /\ Got(q, p) \in Int
      BY <1>0, Numbers
    <3>4. /\ Len(c') = Len(c) + 1 /\ c'[Len(c) + 1] = InBuffer
          /\ \A i \in 1 .. Len(c) : c'[i] = c[i]
      BY <3>2, <3>3, AppendProperties
    <3>5. Len(c) = epoch[p] - Got(q, p)
      BY <1>0, <2>7 DEF FlightInv
    <3>6. \A i \in 1 .. Len(c) : c[i] = Got(q, p) + i
      BY <1>0, <1>2, <2>7 DEF FlightInv
    <3>7. Len(c') = epoch'[p] - Got(q, p)'
      BY <2>2, <2>4, <2>7, <3>1, <3>3, <3>4, <3>5
    <3>8. ASSUME NEW i \in 1 .. Len(c')
          PROVE  c'[i] = Got(q, p) + i \/ (c'[i] = InBuffer /\ i = Len(c'))
      <4>1. i \in 1 .. Len(c) \/ i = Len(c) + 1
        BY <3>3, <3>4, <3>8
      <4> QED
        BY <3>4, <3>6, <4>1
    <3>9. p \in Sources(q) => recvBuf'[q][p] = Got(q, p)'
      BY <1>0, <1>2, <3>1 DEF FlightInv
    <3> QED
      BY <1>1, <2>4, <2>7, <3>1, <3>7, <3>8, <3>9 DEF FlightInv, InBuffer
  <2> QED
    BY <2>5, <2>6, <2>7
<1> QED
  BY <1>3, <1>4

(* MPI copies a message: its value is that of the call its sender is in. *)
LEMMA BufferFlight ==
  ASSUME IInv, NEW a \in Rank, NEW b \in Rank, Buffer(a, b),
         NEW p \in Rank, NEW q \in Rank
  PROVE  FlightInv(p, q)'
<1>0. TypeOK /\ CallInv(p) /\ FlightInv(p, q)
  BY DEF IInv
<1>1. /\ plan' = plan /\ Sources(q)' = Sources(q) /\ Targets(p)' = Targets(p)
      /\ UNCHANGED <<status, epoch, recvBuf, posted>>
      /\ Got(q, p)' = Got(q, p) /\ InCall(p)' = InCall(p)
  BY DEF Buffer, Sources, Targets, Got, InCall
<1> DEFINE n == Len(chan[a][b])
<1>2. chan' = [chan EXCEPT ![a][b] = [chan[a][b] EXCEPT ![n] = sendBuf[a]]]
  BY <1>0 DEF Buffer, TypeOK
<1>3. CASE p # a \/ q # b
  <2>1. chan'[p][q] = chan[p][q]
    BY <1>0, <1>2, <1>3 DEF TypeOK
  <2> QED
    BY <1>0, <1>1, <2>1, FlightKeep
<1>4. CASE p = a /\ q = b
  <2> DEFINE c == chan[p][q]
  <2>1. c \in Seq(0 .. MaxEpoch) /\ sendBuf[p] \in 0 .. MaxEpoch /\ c # <<>>
    BY <1>0, <1>4, Numbers DEF Buffer
  <2>2. n \in 1 .. Len(c)
    BY <1>4, <2>1, EmptySeq
  <2>3. chan'[p][q] = [c EXCEPT ![n] = sendBuf[p]]
    BY <1>0, <1>2, <1>4 DEF TypeOK
  <2>4. Len(c') = Len(c) /\ \A i \in 1 .. Len(c) : c'[i] = IF i = n THEN sendBuf[p] ELSE c[i]
    BY <2>1, <2>2, <2>3, ExceptSeq
  <2>5. sendBuf[p] = Got(q, p) + n
    <3>1. q \in Targets(p)
      BY <1>0, <2>1 DEF FlightInv
    <3>2. epoch[p] \in Nat /\ Got(q, p) \in Int /\ Len(c) \in Nat
      BY <1>0, Numbers
    <3> QED
      BY <1>0, <1>4, <3>1, <3>2 DEF FlightInv, CallInv
  <2>6. ASSUME NEW i \in 1 .. Len(c')
        PROVE  c'[i] = Got(q, p) + i \/ (c'[i] = InBuffer /\ i = Len(c') /\ InCall(p))
    BY <1>0, <2>4, <2>5, <2>6 DEF FlightInv
  <2>7. c' # <<>> /\ q \in Targets(p)
    BY <1>0, <2>1, <2>2, <2>4 DEF FlightInv
  <2> QED
    BY <1>0, <1>1, <2>4, <2>6, <2>7 DEF FlightInv, InBuffer
<1> QED
  BY <1>3, <1>4

(* The oldest message is received: it is that of the receiver's product. *)
LEMMA HeadCurrent ==
  ASSUME IInv, NEW p \in Rank, NEW q \in Rank, Deliver(p, q)
  PROVE  /\ q \in Targets(p) /\ p \in Sources(q)
         /\ (IF Head(chan[p][q]) = InBuffer THEN sendBuf[p] ELSE Head(chan[p][q]))
              = Got(q, p) + 1
<1>0. TypeOK /\ CallInv(p) /\ FlightInv(p, q)
  BY DEF IInv
<1> DEFINE c == chan[p][q]
<1>1. c \in Seq(0 .. MaxEpoch) /\ c # <<>> /\ p \in posted[q]
  BY <1>0, Numbers DEF Deliver
<1>2. /\ Len(c) \in Nat \ {0} /\ Head(c) = c[1] /\ 1 \in 1 .. Len(c)
      /\ epoch[p] \in Nat /\ Got(q, p) \in Int
  BY <1>0, <1>1, EmptySeq, Numbers
<1>3. q \in Targets(p) /\ p \in Sources(q)
  BY <1>0, <1>1 DEF FlightInv, CallInv, IInv
<1>4. Got(q, p) + 1 # InBuffer
  <2>1. epoch[q] >= 1 /\ epoch[q] \in Nat
    BY <1>0, <1>1, Numbers DEF CallInv, IInv
  <2> QED
    BY <1>1, <2>1 DEF Got, InBuffer
<1>5. CASE c[1] = Got(q, p) + 1
  BY <1>2, <1>3, <1>4, <1>5
<1>6. CASE c[1] = InBuffer /\ Len(c) = 1
  BY <1>0, <1>2, <1>3, <1>6 DEF FlightInv, CallInv
<1> QED
  BY <1>0, <1>2, <1>5, <1>6 DEF FlightInv

LEMMA DeliverFlight ==
  ASSUME IInv, NEW a \in Rank, NEW b \in Rank, Deliver(a, b),
         NEW p \in Rank, NEW q \in Rank
  PROVE  FlightInv(p, q)'
<1>0. TypeOK /\ FlightInv(p, q)
  BY DEF IInv
<1>1. /\ plan' = plan /\ Sources(q)' = Sources(q) /\ Targets(p)' = Targets(p)
      /\ UNCHANGED <<status, epoch>> /\ InCall(p)' = InCall(p)
  BY DEF Deliver, Sources, Targets, InCall
<1>2. /\ chan' = [chan EXCEPT ![a][b] = Tail(chan[a][b])]
      /\ posted' = [posted EXCEPT ![b] = posted[b] \ {a}]
      /\ recvBuf' = [recvBuf EXCEPT ![b][a] = Got(b, a) + 1]
  BY <1>0, HeadCurrent DEF Deliver, TypeOK
<1>3. CASE p # a \/ q # b
  <2>1. chan'[p][q] = chan[p][q] /\ recvBuf'[q][p] = recvBuf[q][p]
    BY <1>0, <1>2, <1>3 DEF TypeOK
  <2>2. Got(q, p)' = Got(q, p)
    BY <1>0, <1>1, <1>2, <1>3 DEF TypeOK, Got
  <2> QED
    BY <1>0, <1>1, <2>1, <2>2, FlightKeep
<1>4. CASE p = a /\ q = b
  <2> DEFINE c == chan[p][q]
  <2>1. c \in Seq(0 .. MaxEpoch) /\ c # <<>> /\ p \in posted[q]
    BY <1>0, <1>4, Numbers DEF Deliver
  <2>2. c' = Tail(c)
    BY <1>0, <1>2, <1>4 DEF TypeOK
  <2>3. Len(c') = Len(c) - 1 /\ \A i \in 1 .. Len(c') : c'[i] = c[i + 1]
    BY <2>1, <2>2, HeadTailProperties
  <2>4. epoch[p] \in Nat /\ epoch[q] \in Nat /\ Got(q, p) \in Int /\ Len(c) \in Nat
    BY <1>0, Numbers
  <2>5. Got(q, p)' = Got(q, p) + 1
    <3>1. p \notin posted'[q] /\ epoch'[q] = epoch[q]
      BY <1>0, <1>1, <1>2, <1>4 DEF TypeOK
    <3> QED
      BY <2>1, <2>4, <3>1 DEF Got
  <2>6. q \in Targets(p) /\ Len(c) = epoch[p] - Got(q, p)
    BY <1>0, <1>4, HeadCurrent DEF FlightInv
  <2>7. ASSUME NEW i \in 1 .. Len(c')
        PROVE  \/ c'[i] = Got(q, p)' + i
               \/ c'[i] = InBuffer /\ i = Len(c') /\ InCall(p)
    <3>1. i + 1 \in 1 .. Len(c) /\ c'[i] = c[i + 1]
      BY <2>3, <2>4, <2>7
    <3>2. (i + 1 = Len(c)) => i = Len(c')
      BY <2>3, <2>4
    <3>3. Got(q, p) + (i + 1) = Got(q, p)' + i
      BY <2>4, <2>5
    <3> QED
      BY <1>0, <3>1, <3>2, <3>3 DEF FlightInv
  <2>8. recvBuf'[q][p] = Got(q, p)'
    BY <1>0, <1>2, <1>4, <2>5 DEF TypeOK
  <2>9. Len(c') = epoch'[p] - Got(q, p)'
    BY <1>1, <2>3, <2>4, <2>5, <2>6
  <2> QED
    BY <1>1, <2>6, <2>7, <2>8, <2>9 DEF FlightInv, InBuffer
<1> QED
  BY <1>3, <1>4
-----------------------------------------------------------------------------
LEMMA FlightStep ==
  ASSUME IInv, [Next]_vars, NEW p \in Rank, NEW q \in Rank
  PROVE  FlightInv(p, q)'
<1>0. TypeOK /\ FlightInv(p, q)
  BY DEF IInv
<1>1. Sources(q)' = Sources(q) /\ Targets(p)' = Targets(p)
  BY PlanFixed
<1>2. ASSUME UNCHANGED <<epoch, recvBuf, posted, chan>>,
             InCall(p) => InCall(p)' \/ SendsComplete(p)
      PROVE  FlightInv(p, q)'
  BY <1>0, <1>1, <1>2, FlightKeep DEF Got
<1>3. ASSUME NEW r \in Rank, Prepare(r) PROVE FlightInv(p, q)'
  <2>1. InCall(p) => InCall(p)'
    BY <1>0, <1>3 DEF Prepare, InCall, TypeOK
  <2> QED
    BY <1>2, <1>3, <2>1 DEF Prepare
<1>4. ASSUME NEW r \in Rank, Interior(r) PROVE FlightInv(p, q)'
  <2>1. InCall(p) => InCall(p)'
    BY <1>0, <1>4 DEF Interior, InCall, TypeOK
  <2> QED
    BY <1>2, <1>4, <2>1 DEF Interior
<1>5. ASSUME NEW r \in Rank, Finish(r) PROVE FlightInv(p, q)'
  <2>1. InCall(p) => InCall(p)' \/ SendsComplete(p)
    BY <1>0, <1>5 DEF Finish, InCall, TypeOK
  <2> QED
    BY <1>2, <1>5, <2>1 DEF Finish
<1>6. CASE Alltoall
  <2>1. ~InCall(p)
    BY <1>6 DEF Alltoall, InCall
  <2> QED
    BY <1>2, <1>6, <2>1 DEF Alltoall
<1>7. CASE UNCHANGED vars
  BY <1>2, <1>7 DEF vars, InCall
<1> QED
  BY <1>3, <1>4, <1>5, <1>6, <1>7, EnterFlight, BufferFlight, DeliverFlight
  DEF Next, Step, Transport

LEMMA IInvInit == Init => IInv
<1> SUFFICES ASSUME Init PROVE IInv
  OBVIOUS
<1>1. TypeOK
  BY NAssumption, MaxEpochAssumption, PlansAssumption DEF Init, TypeOK, NoEpochs
<1>2. ASSUME NEW p \in Rank PROVE CallInv(p) /\ GhostInv(p)
  BY DEF Init, CallInv, GhostInv, InCall, NoEpochs
<1>3. ASSUME NEW p \in Rank, NEW q \in Rank PROVE FlightInv(p, q)
  <2>1. /\ chan[p][q] = <<>> /\ epoch[p] = 0 /\ Got(q, p) = 0 /\ recvBuf[q][p] = 0
        /\ Len(chan[p][q]) = 0
    BY EmptySeq DEF Init, Got, NoEpochs
  <2> QED
    BY <2>1 DEF FlightInv
<1> QED
  BY <1>1, <1>2, <1>3 DEF IInv

LEMMA IInvStep == IInv /\ [Next]_vars => IInv'
<1> SUFFICES ASSUME IInv, [Next]_vars PROVE IInv'
  OBVIOUS
<1>1. TypeOK'
  BY TypeStep DEF IInv
<1>2. Rank' = Rank
  BY DEF Rank
<1> QED
  BY <1>1, <1>2, CallStep, FlightStep DEF IInv

(* The message counts are an invariant for all plans. *)
THEOREM Inductive == Spec => []IInv
BY IInvInit, IInvStep, PTL DEF Spec

(* What a rank has received of its current product belongs to it, and no   *)
(* transfer touches the buffers of a rank that is not inside a product.    *)
THEOREM DeliveredIsCurrent == Spec => []DeliveredInEpoch
<1>1. IInv => DeliveredInEpoch
  <2> SUFFICES ASSUME IInv, NEW p \in Rank
               PROVE  IF InCall(p)
                      THEN \A q \in Sources(p) \ posted[p] : recvBuf[p][q] = epoch[p]
                      ELSE posted[p] = {} /\ SendsComplete(p)
    BY DEF DeliveredInEpoch
  <2>1. CASE InCall(p)
    <3>1. ASSUME NEW q \in Sources(p) \ posted[p] PROVE recvBuf[p][q] = epoch[p]
      <4>1. q \in Rank /\ FlightInv(q, p)
        BY DEF IInv, Sources
      <4> QED
        BY <4>1 DEF FlightInv, Got
    <3> QED
      BY <2>1, <3>1
  <2>2. CASE ~InCall(p)
    <3>1. ASSUME NEW q \in Rank, NEW i \in 1 .. Len(chan[p][q])
          PROVE  chan[p][q][i] # InBuffer
      <4>1. TypeOK /\ FlightInv(p, q) /\ CallInv(q)
        BY DEF IInv
      <4>2. chan[p][q][i] = Got(q, p) + i
        BY <2>2, <4>1 DEF FlightInv
      <4>3. Got(q, p) >= 0 /\ Got(q, p) \in Int
        <5>1. epoch[q] \in Nat /\ (p \in posted[q] => epoch[q] >= 1)
          BY <4>1, Numbers DEF CallInv
        <5> QED
          BY <5>1 DEF Got
      <4>4. Len(chan[p][q]) \in Nat
        BY <4>1, Numbers
      <4> QED
        BY <4>2, <4>3, <4>4 DEF InBuffer
    <3>2. CallInv(p)
      BY DEF IInv
    <3> QED
      BY <2>2, <3>1, <3>2 DEF CallInv, SendsComplete
  <2> QED
    BY <2>1, <2>2
<1> QED
  BY <1>1, Inductive, PTL
-----------------------------------------------------------------------------
(* Refinement of HaloEpochs: Enter maps to Enter, Finish to Leave, and all *)
(* other steps, a rank that fails among them, are stutters.                *)
LEMMA Stutter ==
  ASSUME plan' = plan, epoch' = epoch, operand' = operand,
         \A r \in Rank : InCall(r)' = InCall(r)
  PROVE  UNCHANGED Epochs!vars
<1>1. GhostOwners' = GhostOwners
  BY DEF GhostOwners, Sources
<1>2. Completed' = Completed
  BY DEF Completed
<1> QED
  BY <1>1, <1>2 DEF Epochs!vars

LEMMA EnterEpochs ==
  ASSUME IInv, NEW p \in Rank, Enter(p), plan.fits[p]
  PROVE  Epochs!Enter(p)
<1>0. TypeOK
  BY DEF IInv
<1>1. /\ plan' = plan /\ operand' = operand /\ epoch' = [epoch EXCEPT ![p] = epoch[p] + 1]
      /\ epoch[p] < MaxEpoch /\ ~InCall(p)
      /\ status' = [status EXCEPT ![p] = "interior"]
  BY DEF Enter, InCall
<1>2. epoch \in [Rank -> Int]
  BY <1>0, MaxEpochAssumption DEF TypeOK
<1>3. GhostOwners' = GhostOwners
  BY <1>1 DEF GhostOwners, Sources
<1>4. InCall(p)' /\ \A r \in Rank \ {p} : InCall(r)' = InCall(r)
  BY <1>0, <1>1 DEF InCall, TypeOK
<1>5. ASSUME NEW r \in Rank PROVE Completed'[r] = Completed[r]
  <2>1. CASE r = p
    BY <1>1, <1>2, <1>4, <2>1 DEF Completed
  <2>2. CASE r # p
    BY <1>1, <1>2, <1>4, <2>2 DEF Completed
  <2> QED
    BY <2>1, <2>2
<1>6. Completed' = Completed
  BY <1>5 DEF Completed
<1>7. epoch[p] = Completed[p]
  BY <1>1 DEF Completed
<1> QED
  BY <1>1, <1>3, <1>6, <1>7 DEF Epochs!Enter

(* Whoever a rank has received from has entered the same product. *)
LEMMA OwnersEntered ==
  ASSUME IInv, NEW p \in Rank, InCall(p), posted[p] = {}, NEW q \in Sources(p)
  PROVE  epoch[q] >= epoch[p] /\ recvBuf[p][q] = epoch[p]
<1>0. q \in Rank /\ TypeOK /\ CallInv(p) /\ FlightInv(q, p)
  BY DEF IInv, Sources
<1>1. p \in Targets(q)
  BY <1>0, Counterparts DEF CallInv
<1>2. Got(p, q) = epoch[p]
  BY DEF Got
<1>3. epoch[q] \in Nat /\ epoch[p] \in Nat /\ Len(chan[q][p]) \in Nat
  BY <1>0, Numbers
<1>4. Len(chan[q][p]) = epoch[q] - epoch[p]
  BY <1>0, <1>1, <1>2 DEF FlightInv
<1> QED
  BY <1>0, <1>2, <1>3, <1>4 DEF FlightInv

LEMMA FinishEpochs ==
  ASSUME IInv, NEW p \in Rank, Finish(p)
  PROVE  Epochs!Leave(p)
<1>0. TypeOK /\ GhostInv(p)
  BY DEF IInv
<1>1. /\ plan' = plan /\ epoch' = epoch /\ InCall(p) /\ posted[p] = {}
      /\ status' = [status EXCEPT ![p] = "idle"]
      /\ operand' = [operand EXCEPT ![p] = [q \in Rank |->
            IF q \in Sources(p) THEN ext'[p][q] ELSE operand[p][q]]]
      /\ ext' = [ext EXCEPT ![p] = [q \in Rank |->
            IF q \in Sources(p) THEN recvBuf[p][q] ELSE ext[p][q]]]
  BY DEF Finish, InCall, Boundary
<1>2. epoch \in [Rank -> Int]
  BY <1>0, MaxEpochAssumption DEF TypeOK
<1>3. GhostOwners' = GhostOwners /\ GhostOwners[p] = Sources(p)
  BY <1>1 DEF GhostOwners, Sources
<1>4. epoch[p] = Completed[p] + 1
  BY <1>1, <1>2 DEF Completed
<1>5. \A q \in GhostOwners[p] : epoch[q] >= epoch[p]
  BY <1>1, <1>3, OwnersEntered
<1>6. Completed' = [Completed EXCEPT ![p] = epoch[p]]
  <2>1. ~InCall(p)' /\ \A r \in Rank \ {p} : InCall(r)' = InCall(r)
    BY <1>0, <1>1 DEF InCall, TypeOK
  <2>2. \A r \in Rank : Completed'[r] = IF r = p THEN epoch[p] ELSE Completed[r]
    BY <1>1, <2>1 DEF Completed
  <2> QED
    BY <2>2 DEF Completed
<1>7. operand' = [operand EXCEPT ![p] = [q \in Rank |->
                     IF q \in GhostOwners[p] THEN epoch[p] ELSE 0]]
  <2>1. ASSUME NEW q \in Rank
        PROVE  (IF q \in Sources(p) THEN ext'[p][q] ELSE operand[p][q])
                  = IF q \in GhostOwners[p] THEN epoch[p] ELSE 0
    <3>1. q \in Sources(p) => ext'[p][q] = recvBuf[p][q]
      BY <1>0, <1>1 DEF TypeOK
    <3> QED
      BY <1>0, <1>1, <1>3, <3>1, OwnersEntered DEF GhostInv
  <2> QED
    BY <1>1, <2>1
<1>8. Epochs!Rank = Rank
  BY DEF Rank, Epochs!Rank
<1> QED
  BY <1>1, <1>3, <1>4, <1>5, <1>6, <1>7, <1>8 DEF Epochs!Leave

(* A status that is set neither begins nor ends a product. *)
LEMMA CallKept ==
  ASSUME DOMAIN status = Rank, NEW p \in Rank, NEW s,
         status' = [status EXCEPT ![p] = s],
         InCall(p) <=> s \in {"interior", "wait"}
  PROVE  \A r \in Rank : InCall(r)' = InCall(r)
<1> TAKE r \in Rank
<1>1. status'[r] = IF r = p THEN s ELSE status[r]
  BY Zenon
<1> QED
  BY <1>1 DEF InCall

LEMMA EpochsStep == IInv /\ [Next]_vars => [Epochs!Next]_(Epochs!vars)
<1> SUFFICES ASSUME IInv, [Next]_vars PROVE [Epochs!Next]_(Epochs!vars)
  OBVIOUS
<1>0. Epochs!Rank = Rank /\ TypeOK
  BY DEF Rank, Epochs!Rank, IInv
<1>9. DOMAIN status = Rank
  BY <1>0 DEF TypeOK
<1>1. ASSUME NEW p \in Rank, Enter(p), plan.fits[p] PROVE Epochs!Next
  BY <1>0, <1>1, EnterEpochs DEF Epochs!Next
<1>2. ASSUME NEW p \in Rank, Finish(p) PROVE Epochs!Next
  BY <1>0, <1>2, FinishEpochs DEF Epochs!Next
<1>3. ASSUME NEW p \in Rank, Enter(p), ~plan.fits[p] PROVE UNCHANGED Epochs!vars
  <2>1. \A r \in Rank : InCall(r)' = InCall(r)
    <3>1. status[p] = "idle" /\ status' = [status EXCEPT ![p] = "err"]
      BY <1>3 DEF Enter
    <3>2. InCall(p) <=> "err" \in {"interior", "wait"}
      BY <3>1 DEF InCall
    <3> QED
      BY <1>9, <3>1, <3>2, CallKept
  <2> QED
    BY <1>3, <2>1, Stutter DEF Enter
<1>4. ASSUME NEW p \in Rank, Prepare(p) PROVE UNCHANGED Epochs!vars
  <2>1. \A r \in Rank : InCall(r)' = InCall(r)
    <3> DEFINE s == IF plan.valid[p] THEN "alltoall" ELSE "err"
    <3>1. status[p] = "new" /\ status' = [status EXCEPT ![p] = s]
      BY <1>4 DEF Prepare
    <3>2. InCall(p) <=> s \in {"interior", "wait"}
      BY <3>1 DEF InCall
    <3> HIDE DEF s
    <3> QED
      BY <1>9, <3>1, <3>2, CallKept
  <2> QED
    BY <1>4, <2>1, Stutter DEF Prepare
<1>5. ASSUME NEW p \in Rank, Interior(p) PROVE UNCHANGED Epochs!vars
  <2>1. ASSUME NEW q \in Rank
        PROVE  (IF Boundary(p, q) THEN operand[p][q] ELSE ext[p][q]) = operand[p][q]
    BY DEF Boundary, IInv, GhostInv
  <2>2. operand' = operand
    BY <1>0, <1>5, <2>1 DEF Interior, TypeOK
  <2>3. \A r \in Rank : InCall(r)' = InCall(r)
    <3>1. status[p] = "interior" /\ status' = [status EXCEPT ![p] = "wait"]
      BY <1>5 DEF Interior
    <3>2. InCall(p) <=> "wait" \in {"interior", "wait"}
      BY <3>1 DEF InCall
    <3> QED
      BY <1>9, <3>1, <3>2, CallKept
  <2> QED
    BY <1>5, <2>2, <2>3, Stutter DEF Interior
<1>6. ASSUME Alltoall PROVE UNCHANGED Epochs!vars
  BY <1>6, Stutter DEF Alltoall, InCall
<1>7. ASSUME NEW p \in Rank, NEW q \in Rank, Buffer(p, q) \/ Deliver(p, q)
      PROVE  UNCHANGED Epochs!vars
  BY <1>7, Stutter DEF Buffer, Deliver, InCall
<1>8. ASSUME UNCHANGED vars PROVE UNCHANGED Epochs!vars
  BY <1>8, Stutter DEF vars, InCall
<1> QED
  BY <1>1, <1>2, <1>3, <1>4, <1>5, <1>6, <1>7, <1>8 DEF Next, Step, Transport

(* The overlapped product implements HaloEpochs for all plans: rows that   *)
(* run while messages are in flight read no ghost, and a product that      *)
(* returns has used its owners' values of that product.                    *)
THEOREM Implements == Spec => ImplementsEpochs
<1>1. Init => Epochs!Init
  <2> SUFFICES ASSUME Init PROVE Epochs!Init
    OBVIOUS
  <2>1. Completed = [p \in Rank |-> 0] /\ operand = [p \in Rank |-> [q \in Rank |-> 0]]
        /\ epoch = [p \in Rank |-> 0]
    BY DEF Init, Completed, NoEpochs, InCall
  <2>2. GhostOwners \in [Rank -> SUBSET Rank]
    BY DEF GhostOwners, Sources
  <2>3. Epochs!Rank = Rank
    BY DEF Rank, Epochs!Rank
  <2> QED
    BY <2>1, <2>2, <2>3 DEF Epochs!Init
<1> QED
  BY <1>1, EpochsStep, Inductive, PTL DEF Spec, ImplementsEpochs, Epochs!Spec
=============================================================================
