------------------------- MODULE HaloExchangeProofs -------------------------
(***************************************************************************)
(* Theorems about HaloExchange, for every number of ranks, every bound on  *)
(* the number of products, eager or rendezvous sends and every set of      *)
(* plans, reciprocal or not.                                               *)
(***************************************************************************)
EXTENDS HaloExchange, TLAPS, WellFoundedInduction

(* The state of one rank's call. *)
CallInv(p) ==
    /\ todo[p] \subseteq Peers(p)
    /\ status[p] = "idle" => todo[p] = {}
    /\ status[p] = "exchanging" => epoch[p] >= 1
    /\ todo[p] # {} => epoch[p] >= 1
    /\ todo[p] = {} => stage[p] = "count" /\ half[p] = "post"

(* What the current Sendrecv has received, and what the handshake settled. *)
ReceiptInv(p) ==
    /\ half[p] = "drain" => got[p].kind = stage[p] /\ got[p].epoch = epoch[p]
    /\ \A q \in Rank : Current(p, q) =>
          /\ half[p] = "drain" => got[p].len = plan.send[q][p]
          /\ stage[p] = "payload" => plan.send[q][p] = plan.recv[p][q]

(* Ghosts are current for the peers done with, and never anyone else's. *)
GhostInv(p) ==
    \A q \in Rank :
        /\ p = q \/ plan.recv[p][q] = 0 => ext[p][q] = 0
        /\ status[p] = "exchanging" /\ q # p /\ plan.recv[p][q] > 0
             /\ q \notin todo[p] => ext[p][q] = epoch[p]

RankInv(p) == CallInv(p) /\ ReceiptInv(p) /\ GhostInv(p)

(* The inductive invariant. *)
IInv ==
    /\ TypeOK
    /\ ChannelAccounting
    /\ \A p \in Rank : RankInv(p)
    /\ Reciprocal => \A p \in Rank : status[p] # "err"
-----------------------------------------------------------------------------
(* A rank's fields stay in their types through every step it takes. *)
LEMMA TypeStep == TypeOK /\ [Next]_vars => TypeOK'
<1> SUFFICES ASSUME TypeOK, [Next]_vars PROVE TypeOK'
  OBVIOUS
<1> USE NAssumption, MaxEpochAssumption
<1>1. ASSUME NEW p \in Rank, Enter(p) PROVE TypeOK'
  <2>1. epoch' \in [Rank -> 0 .. MaxEpoch]
    BY <1>1 DEF TypeOK, Enter
  <2>2. todo' \in [Rank -> SUBSET Rank]
    BY <1>1 DEF TypeOK, Enter, Peers
  <2>3. ext' \in [Rank -> [Rank -> Nat]]
    <3>1. NoGhosts \in [Rank -> Nat]
      BY DEF NoGhosts
    <3> QED
      BY <1>1, <3>1 DEF TypeOK, Enter
  <2>4. status' \in [Rank -> {"idle", "exchanging", "err"}]
    BY <1>1 DEF TypeOK, Enter
  <2> QED
    BY <1>1, <2>1, <2>2, <2>3, <2>4 DEF TypeOK, Enter
<1>2. ASSUME NEW p \in Rank, NEW q \in Rank, Post(p, q) PROVE TypeOK'
  <2> DEFINE m == [kind |-> stage[p], epoch |-> epoch[p], len |-> plan.send[p][q]]
  <2>1. m \in Message
    BY DEF TypeOK, PlanType, Message
  <2>2. chan' = [chan EXCEPT ![p][q] = Append(@, m)]
    BY <1>2 DEF Post
  <2>3. Append(chan[p][q], m) \in Seq(Message)
    BY <2>1 DEF TypeOK
  <2> HIDE DEF m
  <2>4. chan' \in [Rank -> [Rank -> Seq(Message)]]
    BY <2>2, <2>3 DEF TypeOK
  <2> QED
    BY <1>2, <2>4 DEF TypeOK, Post
<1>3. ASSUME NEW p \in Rank, NEW q \in Rank, Receive(p, q) PROVE TypeOK'
  <2>1. Head(chan[q][p]) \in Message /\ Tail(chan[q][p]) \in Seq(Message)
    BY <1>3 DEF TypeOK, Receive
  <2> QED
    BY <1>3, <2>1 DEF TypeOK, Receive
<1>4. ASSUME NEW p \in Rank, NEW q \in Rank, FinishCount(p, q) PROVE TypeOK'
  <2>1. status' \in [Rank -> {"idle", "exchanging", "err"}]
    BY <1>4 DEF TypeOK, FinishCount
  <2>2. stage' \in [Rank -> {"count", "payload"}]
    BY <1>4 DEF TypeOK, FinishCount
  <2>3. half' \in [Rank -> {"post", "wait", "drain"}]
    BY <1>4 DEF TypeOK, FinishCount
  <2> QED
    BY <1>4, <2>1, <2>2, <2>3 DEF TypeOK, FinishCount
<1>5. ASSUME NEW p \in Rank, NEW q \in Rank, FinishPayload(p, q) PROVE TypeOK'
  <2>1. got[p].epoch \in Nat
    BY DEF TypeOK, Message
  <2>2. ext' \in [Rank -> [Rank -> Nat]]
    BY <1>5, <2>1 DEF TypeOK, FinishPayload
  <2>3. todo' \in [Rank -> SUBSET Rank]
    BY <1>5 DEF TypeOK, FinishPayload
  <2> QED
    BY <1>5, <2>2, <2>3 DEF TypeOK, FinishPayload
<1>6. ASSUME NEW p \in Rank, Apply(p) PROVE TypeOK'
  <2>1. ext[p] \in [Rank -> Nat]
    BY DEF TypeOK
  <2>2. operand' \in [Rank -> [Rank -> Nat]]
    BY <1>6, <2>1 DEF TypeOK, Apply
  <2>3. status' \in [Rank -> {"idle", "exchanging", "err"}]
    BY <1>6 DEF TypeOK, Apply
  <2> QED
    BY <1>6, <2>2, <2>3 DEF TypeOK, Apply
<1>7. CASE UNCHANGED vars
  BY <1>7 DEF TypeOK, vars
<1> QED
  BY <1>1, <1>2, <1>3, <1>4, <1>5, <1>6, <1>7 DEF Next, Step, AllFinished

(* The state of the exchange always has its type. *)
THEOREM TypeCorrect == Spec => []TypeOK
<1>1. Init => TypeOK
  BY NAssumption, MaxEpochAssumption, PlansAssumption
  DEF Init, TypeOK, NoMessage, Message, NoGhosts
<1> QED
  BY <1>1, TypeStep, PTL DEF Spec
-----------------------------------------------------------------------------
(* A rank is engaged with one peer at a time. *)
LEMMA CurrentUnique ==
  ASSUME TypeOK, NEW p \in Rank, NEW q \in Rank, NEW r \in Rank,
         Current(p, q), Current(p, r)
  PROVE  q = r
  BY NAssumption DEF Current, Rank

(* The message counters are integers. *)
LEMMA CounterTypes ==
  ASSUME TypeOK, NEW p \in Rank, NEW q \in Rank
  PROVE  Visited(p, q) \in Int /\ Sent(p, q) \in Int /\ Rcvd(p, q) \in Int
<1>1. epoch[p] \in Int
  BY MaxEpochAssumption DEF TypeOK
<1> QED
  BY <1>1 DEF Visited, Sent, Rcvd

(* A step of one rank leaves every other rank's counters alone. *)
LEMMA OthersKeep ==
  ASSUME TypeOK, NEW p \in Rank, NEW r \in Rank, NEW s \in Rank, plan' = plan,
         todo'[r] = todo[r], epoch'[r] = epoch[r], stage'[r] = stage[r],
         half'[r] = half[r]
  PROVE  /\ Current(r, s)' = Current(r, s) /\ Peers(r)' = Peers(r)
         /\ Sent(r, s)' = Sent(r, s) /\ Rcvd(r, s)' = Rcvd(r, s)
<1>1. Peers(r)' = Peers(r)
  BY DEF Peers
<1>2. Current(r, s)' = Current(r, s)
  BY DEF Current
<1>3. Visited(r, s)' = Visited(r, s)
  BY <1>2 DEF Visited
<1> QED
  BY <1>1, <1>2, <1>3 DEF Sent, Rcvd
(* What each action does to the counters of the rank that takes it: only    *)
(* posting and receiving a message count, everything else regroups.         *)
LEMMA EnterCounters ==
  ASSUME TypeOK, NEW p \in Rank, CallInv(p), Enter(p), NEW s \in Rank
  PROVE  Sent(p, s)' = Sent(p, s) /\ Rcvd(p, s)' = Rcvd(p, s)
<1>1. todo[p] = {} /\ stage[p] = "count" /\ half[p] = "post"
  BY DEF Enter, CallInv
<1>2. todo'[p] = Peers(p) /\ epoch'[p] = epoch[p] + 1 /\ plan' = plan
      /\ stage'[p] = "count" /\ half'[p] = "post"
  BY <1>1 DEF Enter, TypeOK
<1>3. Peers(p)' = Peers(p)
  BY <1>2 DEF Peers
<1>4. epoch[p] \in Int
  BY MaxEpochAssumption DEF TypeOK
<1>5. s \in Peers(p) => Visited(p, s)' = Visited(p, s)
  BY <1>1, <1>2, <1>4 DEF Visited
<1> QED
  BY <1>1, <1>2, <1>3, <1>5 DEF Sent, Rcvd

LEMMA PostCounters ==
  ASSUME TypeOK, NEW p \in Rank, NEW q \in Rank, CallInv(p), Post(p, q), NEW s \in Rank
  PROVE  /\ Sent(p, s)' = Sent(p, s) + (IF s = q THEN 1 ELSE 0)
         /\ Rcvd(p, s)' = Rcvd(p, s)
<1>1. /\ Current(p, q) /\ q \in Peers(p) /\ half[p] = "post" /\ half'[p] = "wait"
      /\ todo' = todo /\ epoch' = epoch /\ plan' = plan /\ stage' = stage
  BY DEF Post, TypeOK, CallInv, Current
<1>2. Peers(p)' = Peers(p) /\ Current(p, s)' = Current(p, s)
  BY <1>1 DEF Peers, Current
<1>3. Visited(p, s)' = Visited(p, s)
  BY <1>1, <1>2 DEF Visited
<1>4. Current(p, s) <=> s = q
  BY <1>1, CurrentUnique
<1> QED
  BY <1>1, <1>2, <1>3, <1>4, CounterTypes DEF Sent, Rcvd

LEMMA ReceiveCounters ==
  ASSUME TypeOK, NEW p \in Rank, NEW q \in Rank, CallInv(p), Receive(p, q), NEW s \in Rank
  PROVE  /\ Sent(p, s)' = Sent(p, s)
         /\ Rcvd(p, s)' = Rcvd(p, s) + (IF s = q THEN 1 ELSE 0)
<1>1. /\ Current(p, q) /\ q \in Peers(p) /\ half[p] = "wait" /\ half'[p] = "drain"
      /\ todo' = todo /\ epoch' = epoch /\ plan' = plan /\ stage' = stage
  BY DEF Receive, TypeOK, CallInv, Current
<1>2. Peers(p)' = Peers(p) /\ Current(p, s)' = Current(p, s)
  BY <1>1 DEF Peers, Current
<1>3. Visited(p, s)' = Visited(p, s)
  BY <1>1, <1>2 DEF Visited
<1>4. Current(p, s) <=> s = q
  BY <1>1, CurrentUnique
<1> QED
  BY <1>1, <1>2, <1>3, <1>4, CounterTypes DEF Sent, Rcvd

LEMMA CountCounters ==
  ASSUME TypeOK, NEW p \in Rank, NEW q \in Rank, CallInv(p), FinishCount(p, q),
         NEW s \in Rank
  PROVE  Sent(p, s)' = Sent(p, s) /\ Rcvd(p, s)' = Rcvd(p, s)
<1>1. /\ Current(p, q) /\ q \in Peers(p) /\ half[p] = "drain" /\ stage[p] = "count"
      /\ todo' = todo /\ epoch' = epoch /\ plan' = plan
      /\ \/ half'[p] = "post" /\ stage'[p] = "payload"
         \/ half'[p] = "drain" /\ stage'[p] = "count"
  BY DEF FinishCount, TypeOK, CallInv, Current
<1>2. Peers(p)' = Peers(p) /\ Current(p, s)' = Current(p, s)
  BY <1>1 DEF Peers, Current
<1>3. Current(p, s) <=> s = q
  BY <1>1, CurrentUnique
<1>4. epoch[p] \in Int
  BY MaxEpochAssumption DEF TypeOK
<1> QED
  BY <1>1, <1>2, <1>3, <1>4 DEF Sent, Rcvd, Visited

LEMMA PayloadCounters ==
  ASSUME TypeOK, NEW p \in Rank, NEW q \in Rank, CallInv(p), FinishPayload(p, q),
         NEW s \in Rank
  PROVE  Sent(p, s)' = Sent(p, s) /\ Rcvd(p, s)' = Rcvd(p, s)
<1>1. /\ Current(p, q) /\ q \in Peers(p) /\ half[p] = "drain" /\ stage[p] = "payload"
      /\ todo'[p] = todo[p] \ {q} /\ epoch' = epoch /\ plan' = plan
      /\ half'[p] = "post" /\ stage'[p] = "count"
  BY DEF FinishPayload, TypeOK, CallInv, Current
<1>2. Peers(p)' = Peers(p) /\ q \in todo[p]
  BY <1>1 DEF Peers, Current
<1>3. Current(p, s) <=> s = q
  BY <1>1, CurrentUnique
<1>4. epoch[p] \in Int
  BY MaxEpochAssumption DEF TypeOK
<1>5. Visited(p, s)' = IF s = q THEN 2 * epoch[p]
                       ELSE 2 * epoch[p] - (IF s \in todo[p] THEN 2 ELSE 0)
  BY <1>1, <1>4 DEF Visited
<1>6. Visited(p, s) = IF s = q THEN 2 * epoch[p] - 1
                      ELSE 2 * epoch[p] - (IF s \in todo[p] THEN 2 ELSE 0)
  BY <1>1, <1>2, <1>3, <1>4 DEF Visited
<1> QED
  BY <1>1, <1>2, <1>3, <1>4, <1>5, <1>6 DEF Sent, Rcvd

LEMMA ApplyCounters ==
  ASSUME TypeOK, NEW p \in Rank, Apply(p), NEW s \in Rank
  PROVE  Sent(p, s)' = Sent(p, s) /\ Rcvd(p, s)' = Rcvd(p, s)
BY OthersKeep DEF Apply
-----------------------------------------------------------------------------
(* A step that sends and receives nothing keeps the accounting. *)
LEMMA QuietStep ==
  ASSUME TypeOK, ChannelAccounting, NEW p \in Rank, plan' = plan, chan' = chan,
         \A r, s \in Rank : Sent(r, s)' = Sent(r, s) /\ Rcvd(r, s)' = Rcvd(r, s)
  PROVE  ChannelAccounting'
<1> SUFFICES ASSUME NEW r \in Rank, NEW s \in Rank
             PROVE  /\ Len(chan'[r][s]) = Sent(r, s)' - Rcvd(s, r)'
                    /\ \A i \in 1 .. Len(chan'[r][s]) :
                          /\ Position(chan'[r][s][i]) = Rcvd(s, r)' + i
                          /\ chan'[r][s][i].len = plan'.send[r][s]
  BY DEF ChannelAccounting, Position
<1> QED
  BY DEF ChannelAccounting

(* All ranks but p keep their fields in a step of p. *)
LEMMA OnlyOneMoves ==
  ASSUME TypeOK, NEW p \in Rank, NEW r \in Rank, r # p,
         \/ Enter(p) \/ Apply(p)
         \/ \E q \in Rank : Post(p, q) \/ Receive(p, q) \/ FinishCount(p, q)
                            \/ FinishPayload(p, q)
  PROVE  /\ plan' = plan /\ status'[r] = status[r] /\ todo'[r] = todo[r]
         /\ epoch'[r] = epoch[r] /\ stage'[r] = stage[r] /\ half'[r] = half[r]
         /\ got'[r] = got[r] /\ ext'[r] = ext[r] /\ operand'[r] = operand[r]
<1>1. CASE Enter(p)
  BY <1>1 DEF Enter, TypeOK
<1>2. CASE Apply(p)
  BY <1>2 DEF Apply, TypeOK
<1>3. CASE \E q \in Rank : Post(p, q) \/ Receive(p, q)
  BY <1>3 DEF Post, Receive, TypeOK
<1>4. CASE \E q \in Rank : FinishCount(p, q)
  BY <1>4 DEF FinishCount, TypeOK
<1>5. CASE \E q \in Rank : FinishPayload(p, q)
  BY <1>5 DEF FinishPayload, TypeOK
<1> QED
  BY <1>1, <1>2, <1>3, <1>4, <1>5
(* Posting appends the message the peer is to receive next but one. *)
LEMMA PostAccounting ==
  ASSUME TypeOK, ChannelAccounting, NEW p \in Rank, NEW q \in Rank, CallInv(p),
         Post(p, q)
  PROVE  ChannelAccounting'
<1> DEFINE m == [kind |-> stage[p], epoch |-> epoch[p], len |-> plan.send[p][q]]
<1>1. /\ plan' = plan /\ chan' = [chan EXCEPT ![p][q] = Append(@, m)]
      /\ Current(p, q) /\ half[p] = "post" /\ q \in Peers(p) /\ q \in todo[p]
  BY DEF Post, CallInv, Current
<1>2. ASSUME NEW r \in Rank, NEW s \in Rank
      PROVE  /\ Sent(r, s)' = Sent(r, s) + (IF r = p /\ s = q THEN 1 ELSE 0)
             /\ Rcvd(r, s)' = Rcvd(r, s)
  <2>1. CASE r = p
    BY <2>1, PostCounters
  <2>2. CASE r # p
    <3>1. /\ todo'[r] = todo[r] /\ epoch'[r] = epoch[r] /\ stage'[r] = stage[r]
          /\ half'[r] = half[r]
      BY <2>2, OnlyOneMoves
    <3> QED
      BY <1>1, <2>2, <3>1, OthersKeep, CounterTypes
  <2> QED
    BY <2>1, <2>2
<1>3. Position(m) = Sent(p, q) + 1
  <2>1. epoch[p] \in Int /\ stage[p] \in {"count", "payload"}
    BY MaxEpochAssumption DEF TypeOK
  <2> QED
    BY <1>1, <2>1 DEF Position, Sent, Visited
<1>4. m.len = plan.send[p][q]
  OBVIOUS
<1>5. m \in Message
  BY MaxEpochAssumption DEF TypeOK, PlanType, Message
<1> HIDE DEF m
<1> SUFFICES ASSUME NEW r \in Rank, NEW s \in Rank
             PROVE  /\ Len(chan'[r][s]) = Sent(r, s)' - Rcvd(s, r)'
                    /\ \A i \in 1 .. Len(chan'[r][s]) :
                          /\ Position(chan'[r][s][i]) = Rcvd(s, r)' + i
                          /\ chan'[r][s][i].len = plan'.send[r][s]
  BY DEF ChannelAccounting, Position
<1>6. CASE r = p /\ s = q
  <2>1. chan'[p][q] = Append(chan[p][q], m) /\ chan[p][q] \in Seq(Message)
    BY <1>1 DEF TypeOK
  <2>2. Len(chan'[p][q]) = Len(chan[p][q]) + 1
    BY <1>5, <2>1
  <2>3. Len(chan[p][q]) = Sent(p, q) - Rcvd(q, p)
    BY DEF ChannelAccounting
  <2>4. ASSUME NEW i \in 1 .. Len(chan'[p][q])
        PROVE  /\ Position(chan'[p][q][i]) = Rcvd(q, p) + i
               /\ chan'[p][q][i].len = plan.send[p][q]
    <3>1. CASE i = Len(chan[p][q]) + 1
      <4>1. chan'[p][q][i] = m
        BY <1>5, <2>1, <3>1
      <4>2. Sent(p, q) \in Int /\ Rcvd(q, p) \in Int
        BY CounterTypes
      <4>3. Sent(p, q) + 1 = Rcvd(q, p) + i
        BY <4>2, <2>3, <3>1
      <4> QED
        BY <4>1, <1>3, <1>4, <4>3
    <3>2. CASE i # Len(chan[p][q]) + 1
      <4>1. i \in 1 .. Len(chan[p][q])
        BY <2>1, <2>2, <3>2
      <4>2. chan'[p][q][i] = chan[p][q][i]
        BY <1>5, <2>1, <4>1
      <4> QED
        BY <4>1, <4>2 DEF ChannelAccounting
    <3> QED
      BY <3>1, <3>2
  <2>5. Sent(p, q)' = Sent(p, q) + 1 /\ Rcvd(q, p)' = Rcvd(q, p) /\ plan' = plan
    BY <1>1, <1>2
  <2>6. Len(chan'[p][q]) = Sent(p, q)' - Rcvd(q, p)'
    <3>1. Sent(p, q) \in Int /\ Rcvd(q, p) \in Int
      BY CounterTypes
    <3> QED
      BY <2>2, <2>3, <2>5, <3>1
  <2>7. Rcvd(s, r)' = Rcvd(q, p) /\ Sent(r, s)' = Sent(p, q)'
        /\ Rcvd(s, r)' = Rcvd(q, p)'
    BY <1>6, <2>5
  <2>8. chan'[r][s] = chan'[p][q] /\ plan'.send[r][s] = plan.send[p][q]
    BY <1>6, <2>5
  <2> QED
    BY <2>4, <2>6, <2>7, <2>8
<1>7. CASE ~(r = p /\ s = q)
  <2>1. chan'[r][s] = chan[r][s]
    BY <1>1, <1>7 DEF TypeOK
  <2>2. Sent(r, s)' = Sent(r, s) /\ Rcvd(s, r)' = Rcvd(s, r)
    BY <1>2, <1>7, CounterTypes
  <2>3. plan' = plan
    BY <1>1
  <2> QED
    BY <2>1, <2>2, <2>3 DEF ChannelAccounting
<1> QED
  BY <1>6, <1>7

(* Receiving takes the one message that is due. *)
LEMMA ReceiveAccounting ==
  ASSUME TypeOK, ChannelAccounting, NEW p \in Rank, NEW q \in Rank, CallInv(p),
         Receive(p, q)
  PROVE  /\ ChannelAccounting'
         /\ Position(got'[p]) = Rcvd(p, q) + 1 /\ got'[p].len = plan.send[q][p]
<1>1. /\ plan' = plan /\ chan' = [chan EXCEPT ![q][p] = Tail(@)]
      /\ got'[p] = Head(chan[q][p]) /\ chan[q][p] # <<>>
  BY DEF Receive, TypeOK
<1>2. chan[q][p] \in Seq(Message) /\ Len(chan[q][p]) \in Nat /\ Len(chan[q][p]) >= 1
  BY <1>1 DEF TypeOK
<1>3. Position(got'[p]) = Rcvd(p, q) + 1 /\ got'[p].len = plan.send[q][p]
  <2>1. got'[p] = chan[q][p][1] /\ 1 \in 1 .. Len(chan[q][p])
    BY <1>1, <1>2
  <2> QED
    BY <2>1 DEF ChannelAccounting
<1>4. ASSUME NEW r \in Rank, NEW s \in Rank
      PROVE  /\ Sent(r, s)' = Sent(r, s)
             /\ Rcvd(r, s)' = Rcvd(r, s) + (IF r = p /\ s = q THEN 1 ELSE 0)
  <2>1. CASE r = p
    BY <2>1, ReceiveCounters
  <2>2. CASE r # p
    <3>1. /\ todo'[r] = todo[r] /\ epoch'[r] = epoch[r] /\ stage'[r] = stage[r]
          /\ half'[r] = half[r]
      BY <2>2, OnlyOneMoves
    <3> QED
      BY <1>1, <2>2, <3>1, OthersKeep, CounterTypes
  <2> QED
    BY <2>1, <2>2
<1>5. ASSUME NEW r \in Rank, NEW s \in Rank
      PROVE  /\ Len(chan'[r][s]) = Sent(r, s)' - Rcvd(s, r)'
             /\ \A i \in 1 .. Len(chan'[r][s]) :
                   /\ Position(chan'[r][s][i]) = Rcvd(s, r)' + i
                   /\ chan'[r][s][i].len = plan'.send[r][s]
  <2>1. CASE r = q /\ s = p
    <3>1. chan'[q][p] = Tail(chan[q][p])
      BY <1>1 DEF TypeOK
    <3>2. Len(chan'[q][p]) = Len(chan[q][p]) - 1
      BY <1>2, <3>1
    <3>3. Len(chan[q][p]) = Sent(q, p) - Rcvd(p, q)
      BY DEF ChannelAccounting
    <3>4. ASSUME NEW i \in 1 .. Len(chan'[q][p])
          PROVE  /\ Position(chan'[q][p][i]) = Rcvd(p, q) + 1 + i
                 /\ chan'[q][p][i].len = plan.send[q][p]
      <4>1. chan'[q][p][i] = chan[q][p][i + 1] /\ i + 1 \in 1 .. Len(chan[q][p])
        BY <1>2, <3>1, <3>2
      <4>2. Position(chan[q][p][i + 1]) = Rcvd(p, q) + (i + 1)
            /\ chan[q][p][i + 1].len = plan.send[q][p]
        BY <4>1 DEF ChannelAccounting
      <4>3. Rcvd(p, q) \in Int /\ i \in Int
        BY CounterTypes
      <4>4. Rcvd(p, q) + (i + 1) = Rcvd(p, q) + 1 + i
        BY <4>3
      <4> QED
        BY <4>1, <4>2, <4>4
    <3>5. Rcvd(p, q)' = Rcvd(p, q) + 1 /\ Sent(q, p)' = Sent(q, p) /\ plan' = plan
      BY <1>1, <1>4
    <3>6. Len(chan'[q][p]) = Sent(q, p)' - Rcvd(p, q)'
      <4>1. Sent(q, p) \in Int /\ Rcvd(p, q) \in Int
        BY CounterTypes
      <4> QED
        BY <3>2, <3>3, <3>5, <4>1
    <3>7. Rcvd(s, r)' = Rcvd(p, q) + 1 /\ Sent(r, s)' = Sent(q, p)'
          /\ Rcvd(s, r)' = Rcvd(p, q)'
      BY <2>1, <3>5
    <3>8. chan'[r][s] = chan'[q][p] /\ plan'.send[r][s] = plan.send[q][p]
      BY <2>1, <3>5
    <3> QED
      BY <3>4, <3>6, <3>7, <3>8
  <2>2. CASE ~(r = q /\ s = p)
    <3>1. chan'[r][s] = chan[r][s]
      BY <1>1, <2>2 DEF TypeOK
    <3>2. Sent(r, s)' = Sent(r, s) /\ Rcvd(s, r)' = Rcvd(s, r)
      BY <1>4, <2>2, CounterTypes
    <3>3. plan' = plan
      BY <1>1
    <3> QED
      BY <3>1, <3>2, <3>3 DEF ChannelAccounting
  <2> QED
    BY <2>1, <2>2
<1>6. ChannelAccounting'
  BY <1>5 DEF ChannelAccounting, Position
<1> QED
  BY <1>3, <1>6
(* Every step keeps the accounting. *)
LEMMA AccountingStep ==
  ASSUME TypeOK, ChannelAccounting, \A p \in Rank : CallInv(p), [Next]_vars
  PROVE  ChannelAccounting'
<1>1. ASSUME NEW p \in Rank, NEW q \in Rank, Post(p, q) PROVE ChannelAccounting'
  BY <1>1, PostAccounting
<1>2. ASSUME NEW p \in Rank, NEW q \in Rank, Receive(p, q) PROVE ChannelAccounting'
  BY <1>2, ReceiveAccounting
<1>3. ASSUME NEW p \in Rank, plan' = plan, chan' = chan,
             \/ Enter(p) \/ Apply(p)
             \/ \E q \in Rank : FinishCount(p, q) \/ FinishPayload(p, q)
      PROVE  ChannelAccounting'
  <2>1. ASSUME NEW r \in Rank, NEW s \in Rank
        PROVE  Sent(r, s)' = Sent(r, s) /\ Rcvd(r, s)' = Rcvd(r, s)
    <3>1. CASE r = p
      BY <3>1, <1>3, EnterCounters, ApplyCounters, CountCounters, PayloadCounters
    <3>2. CASE r # p
      <4>1. /\ todo'[r] = todo[r] /\ epoch'[r] = epoch[r] /\ stage'[r] = stage[r]
            /\ half'[r] = half[r]
        BY <1>3, <3>2, OnlyOneMoves
      <4> QED
        BY <1>3, <4>1, OthersKeep
    <3> QED
      BY <3>1, <3>2
  <2> QED
    BY <2>1, <1>3, QuietStep
<1>4. ASSUME NEW p \in Rank, Enter(p) PROVE ChannelAccounting'
  <2>1. plan' = plan /\ chan' = chan
    BY <1>4 DEF Enter
  <2> QED
    BY <1>3, <1>4, <2>1
<1>5. ASSUME NEW p \in Rank, Apply(p) PROVE ChannelAccounting'
  <2>1. plan' = plan /\ chan' = chan
    BY <1>5 DEF Apply
  <2> QED
    BY <1>3, <1>5, <2>1
<1>6. ASSUME NEW p \in Rank, NEW q \in Rank, FinishCount(p, q) PROVE ChannelAccounting'
  <2>1. plan' = plan /\ chan' = chan
    BY <1>6 DEF FinishCount
  <2> QED
    BY <1>3, <1>6, <2>1
<1>7. ASSUME NEW p \in Rank, NEW q \in Rank, FinishPayload(p, q) PROVE ChannelAccounting'
  <2>1. plan' = plan /\ chan' = chan
    BY <1>7 DEF FinishPayload
  <2> QED
    BY <1>3, <1>7, <2>1
<1>8. CASE UNCHANGED vars
  <2>1. ASSUME NEW r \in Rank, NEW s \in Rank
        PROVE  Sent(r, s)' = Sent(r, s) /\ Rcvd(r, s)' = Rcvd(r, s)
    BY <1>8, OthersKeep DEF vars
  <2>2. 0 \in Rank /\ plan' = plan /\ chan' = chan
    BY <1>8, NAssumption DEF vars, Rank
  <2> QED
    BY <2>1, <2>2, QuietStep
<1> QED
  BY <1>1, <1>2, <1>4, <1>5, <1>6, <1>7, <1>8 DEF Next, Step, AllFinished
-----------------------------------------------------------------------------
(* A rank that does not move keeps its part of the invariant. *)
LEMMA RankInvKeep ==
  ASSUME TypeOK, NEW r \in Rank, RankInv(r),
         plan' = plan, status'[r] = status[r], todo'[r] = todo[r],
         epoch'[r] = epoch[r], stage'[r] = stage[r], half'[r] = half[r],
         got'[r] = got[r], ext'[r] = ext[r]
  PROVE  RankInv(r)'
<1>1. Peers(r)' = Peers(r) /\ \A q \in Rank : Current(r, q)' = Current(r, q)
  BY DEF Peers, Current
<1>2. CallInv(r)'
  BY <1>1 DEF RankInv, CallInv
<1>3. ReceiptInv(r)'
  BY <1>1 DEF RankInv, ReceiptInv
<1>4. GhostInv(r)'
  BY DEF RankInv, GhostInv
<1> QED
  BY <1>2, <1>3, <1>4 DEF RankInv

(* The five kinds of step a rank takes, each against its own part. *)
LEMMA EnterRank ==
  ASSUME TypeOK, NEW p \in Rank, RankInv(p), Enter(p)
  PROVE  RankInv(p)'
<1>1. /\ todo[p] = {} /\ stage[p] = "count" /\ half[p] = "post"
  BY DEF Enter, RankInv, CallInv
<1>2. /\ plan' = plan /\ todo'[p] = Peers(p) /\ epoch'[p] = epoch[p] + 1
      /\ stage'[p] = "count" /\ half'[p] = "post"
      /\ \/ status'[p] = "exchanging" /\ ext'[p] = NoGhosts
         \/ status'[p] = "err" /\ ext'[p] = ext[p]
  BY <1>1 DEF Enter, TypeOK
<1>3. Peers(p)' = Peers(p)
  BY <1>2 DEF Peers
<1>4. epoch[p] \in Nat
  BY MaxEpochAssumption DEF TypeOK
<1>5. CallInv(p)'
  BY <1>2, <1>3, <1>4 DEF CallInv
<1>6. ReceiptInv(p)'
  BY <1>2 DEF ReceiptInv
<1>7. \A q \in Rank : q # p /\ plan.recv[p][q] > 0 => q \in Peers(p)
  BY DEF Peers
<1>8. GhostInv(p)'
  BY <1>2, <1>7 DEF GhostInv, NoGhosts, RankInv
<1> QED
  BY <1>5, <1>6, <1>8 DEF RankInv

LEMMA PostRank ==
  ASSUME TypeOK, NEW p \in Rank, NEW q \in Rank, RankInv(p), Post(p, q)
  PROVE  RankInv(p)'
<1>1. /\ plan' = plan /\ status' = status /\ todo' = todo /\ epoch' = epoch
      /\ stage' = stage /\ got' = got /\ ext' = ext /\ half'[p] = "wait"
      /\ Current(p, q)
  BY DEF Post, TypeOK
<1>2. Peers(p)' = Peers(p) /\ \A r \in Rank : Current(p, r)' = Current(p, r)
  BY <1>1 DEF Peers, Current
<1>3. todo[p] # {}
  BY <1>1 DEF Current
<1>4. CallInv(p)'
  BY <1>1, <1>2, <1>3 DEF RankInv, CallInv
<1>5. ReceiptInv(p)'
  BY <1>1, <1>2 DEF RankInv, ReceiptInv
<1>6. GhostInv(p)'
  BY <1>1 DEF RankInv, GhostInv
<1> QED
  BY <1>4, <1>5, <1>6 DEF RankInv

(* A position determines the epoch and the kind. *)
LEMMA PositionUnique ==
  ASSUME NEW a \in Int, NEW b \in Int, NEW i \in {0, 1}, NEW j \in {0, 1},
         2 * a - i = 2 * b - j
  PROVE  a = b /\ i = j
OBVIOUS

LEMMA ReceiveRank ==
  ASSUME TypeOK, ChannelAccounting, NEW p \in Rank, NEW q \in Rank, RankInv(p),
         Receive(p, q)
  PROVE  RankInv(p)'
<1>1. /\ plan' = plan /\ status' = status /\ todo' = todo /\ epoch' = epoch
      /\ stage' = stage /\ ext' = ext /\ half'[p] = "drain" /\ half[p] = "wait"
      /\ Current(p, q) /\ got'[p] \in Message
  <2>1. Head(chan[q][p]) \in Message
    BY DEF Receive, TypeOK
  <2> QED
    BY <2>1 DEF Receive, TypeOK
<1>2. Peers(p)' = Peers(p) /\ \A r \in Rank : Current(p, r)' = Current(p, r)
  BY <1>1 DEF Peers, Current
<1>3. todo[p] # {} /\ q \in todo[p] /\ q \in Peers(p)
  BY <1>1 DEF Current, RankInv, CallInv
<1>4. CallInv(p)'
  BY <1>1, <1>2, <1>3 DEF RankInv, CallInv
<1>5. Position(got'[p]) = Rcvd(p, q) + 1 /\ got'[p].len = plan.send[q][p]
  BY ReceiveAccounting DEF RankInv
<1>6. got'[p].kind = stage[p] /\ got'[p].epoch = epoch[p]
  <2>1. epoch[p] \in Int /\ stage[p] \in {"count", "payload"}
    BY MaxEpochAssumption DEF TypeOK
  <2>2. got'[p].epoch \in Int /\ got'[p].kind \in {"count", "payload"}
    BY <1>1 DEF Message
  <2>3. Rcvd(p, q) = 2 * epoch[p] - 2 + (IF stage[p] = "payload" THEN 1 ELSE 0)
    BY <1>1, <1>3, <2>1 DEF Rcvd, Visited
  <2>4. 2 * got'[p].epoch - (IF got'[p].kind = "count" THEN 1 ELSE 0)
        = 2 * epoch[p] - 1 + (IF stage[p] = "payload" THEN 1 ELSE 0)
    BY <1>5, <2>1, <2>2, <2>3 DEF Position
  <2> DEFINE i == IF got'[p].kind = "count" THEN 1 ELSE 0
             j == IF stage[p] = "payload" THEN 0 ELSE 1
  <2>5. i \in {0, 1} /\ j \in {0, 1}
    OBVIOUS
  <2>6. 2 * got'[p].epoch - i = 2 * epoch[p] - j
    BY <2>1, <2>4
  <2>7. got'[p].epoch = epoch[p] /\ i = j
    <3> HIDE DEF i, j
    <3> QED
      BY <2>1, <2>2, <2>5, <2>6, PositionUnique
  <2> QED
    BY <2>1, <2>2, <2>7
<1>7. \A r \in Rank : Current(p, r) => r = q
  BY <1>1, CurrentUnique
<1>8. ReceiptInv(p)'
  BY <1>1, <1>2, <1>5, <1>6, <1>7 DEF RankInv, ReceiptInv
<1>9. GhostInv(p)'
  BY <1>1 DEF RankInv, GhostInv
<1> QED
  BY <1>4, <1>8, <1>9 DEF RankInv

LEMMA CountRank ==
  ASSUME TypeOK, NEW p \in Rank, NEW q \in Rank, RankInv(p), FinishCount(p, q)
  PROVE  RankInv(p)'
<1>1. /\ plan' = plan /\ todo' = todo /\ epoch' = epoch /\ got' = got /\ ext' = ext
      /\ Current(p, q) /\ half[p] = "drain" /\ stage[p] = "count"
      /\ \/ /\ status' = status /\ half'[p] = "post" /\ stage'[p] = "payload"
            /\ got[p].len = plan.recv[p][q]
         \/ status'[p] = "err" /\ half'[p] = "drain" /\ stage'[p] = "count"
  BY DEF FinishCount, TypeOK
<1>2. Peers(p)' = Peers(p) /\ \A r \in Rank : Current(p, r)' = Current(p, r)
  BY <1>1 DEF Peers, Current
<1>3. todo[p] # {}
  BY <1>1 DEF Current
<1>4. CallInv(p)'
  BY <1>1, <1>2, <1>3 DEF RankInv, CallInv
<1>5. \A r \in Rank : Current(p, r) => r = q
  BY <1>1, CurrentUnique
<1>6. ReceiptInv(p)'
  BY <1>1, <1>2, <1>5 DEF RankInv, ReceiptInv
<1>7. GhostInv(p)'
  BY <1>1 DEF RankInv, GhostInv
<1> QED
  BY <1>4, <1>6, <1>7 DEF RankInv

LEMMA PayloadRank ==
  ASSUME TypeOK, NEW p \in Rank, NEW q \in Rank, RankInv(p), FinishPayload(p, q)
  PROVE  RankInv(p)'
<1>1. /\ plan' = plan /\ status' = status /\ todo'[p] = todo[p] \ {q}
      /\ epoch' = epoch /\ got' = got
      /\ Current(p, q) /\ half[p] = "drain" /\ stage[p] = "payload"
      /\ half'[p] = "post" /\ stage'[p] = "count" /\ status[p] = "exchanging"
      /\ ext'[p] = [ext[p] EXCEPT ![q] =
             IF plan.recv[p][q] > 0 THEN got[p].epoch ELSE ext[p][q]]
  BY DEF FinishPayload, TypeOK
<1>2. Peers(p)' = Peers(p) /\ got[p].epoch = epoch[p] /\ q \in Peers(p)
  BY <1>1 DEF Peers, RankInv, ReceiptInv, CallInv, Current
<1>3. CallInv(p)'
  BY <1>1, <1>2 DEF RankInv, CallInv
<1>4. ReceiptInv(p)'
  BY <1>1 DEF ReceiptInv
<1>5. \A r \in Rank : ext'[p][r] = IF r = q /\ plan.recv[p][q] > 0
                                   THEN epoch[p] ELSE ext[p][r]
  <2>1. ext[p] \in [Rank -> Nat]
    BY DEF TypeOK
  <2> QED
    BY <1>1, <1>2, <2>1
<1>6. q # p /\ (plan.recv[p][q] = 0 => ~(plan.recv[p][q] > 0))
  BY <1>2 DEF Peers
<1>7. GhostInv(p)'
  BY <1>1, <1>5, <1>6 DEF RankInv, GhostInv
<1> QED
  BY <1>3, <1>4, <1>7 DEF RankInv

LEMMA ApplyRank ==
  ASSUME TypeOK, NEW p \in Rank, RankInv(p), Apply(p)
  PROVE  RankInv(p)'
<1>1. /\ plan' = plan /\ todo' = todo /\ epoch' = epoch /\ stage' = stage
      /\ half' = half /\ got' = got /\ ext' = ext /\ todo[p] = {}
      /\ status'[p] \in {"idle", "err"}
  BY DEF Apply, TypeOK
<1>2. Peers(p)' = Peers(p) /\ \A r \in Rank : Current(p, r)' = Current(p, r)
  BY <1>1 DEF Peers, Current
<1>3. CallInv(p)'
  BY <1>1, <1>2 DEF RankInv, CallInv
<1>4. ReceiptInv(p)'
  BY <1>1, <1>2 DEF RankInv, ReceiptInv
<1>5. GhostInv(p)'
  BY <1>1 DEF RankInv, GhostInv
<1> QED
  BY <1>3, <1>4, <1>5 DEF RankInv
-----------------------------------------------------------------------------
LEMMA IInvInit == Init => IInv
<1> SUFFICES ASSUME Init PROVE IInv
  OBVIOUS
<1>1. TypeOK
  BY NAssumption, MaxEpochAssumption, PlansAssumption
  DEF Init, TypeOK, NoMessage, Message, NoGhosts
<1>2. \A p, q \in Rank : Sent(p, q) = 0 /\ Rcvd(p, q) = 0
  BY DEF Init, Sent, Rcvd, Visited, Current
<1>3. ChannelAccounting
  <2>1. \A p, q \in Rank : chan[p][q] = <<>>
    BY DEF Init
  <2> QED
    BY <1>2, <2>1 DEF ChannelAccounting
<1>4. ASSUME NEW p \in Rank PROVE RankInv(p)
  BY DEF Init, RankInv, CallInv, ReceiptInv, GhostInv, NoGhosts, Current
<1>5. \A p \in Rank : status[p] # "err"
  BY DEF Init
<1> QED
  BY <1>1, <1>3, <1>4, <1>5 DEF IInv

(* With reciprocal plans no check of a step of p fails. *)
LEMMA NoError ==
  ASSUME TypeOK, Reciprocal, NEW p \in Rank, RankInv(p), status[p] # "err",
         \/ Enter(p) \/ Apply(p)
         \/ \E q \in Rank : Post(p, q) \/ Receive(p, q) \/ FinishCount(p, q)
                            \/ FinishPayload(p, q)
  PROVE  status'[p] # "err"
<1>1. CASE Enter(p)
  BY <1>1 DEF Enter, Reciprocal, IsReciprocal, TypeOK
<1>2. CASE Apply(p)
  BY <1>2 DEF Apply, Reciprocal, IsReciprocal, TypeOK
<1>3. ASSUME NEW q \in Rank, FinishCount(p, q) PROVE status'[p] # "err"
  <2>1. got[p].len = plan.recv[p][q]
    BY <1>3 DEF FinishCount, RankInv, ReceiptInv, Reciprocal,
          IsReciprocal
  <2> QED
    BY <1>3, <2>1 DEF FinishCount
<1>4. ASSUME NEW q \in Rank, Post(p, q) \/ Receive(p, q) \/ FinishPayload(p, q)
      PROVE  status'[p] # "err"
  BY <1>4 DEF Post, Receive, FinishPayload
<1> QED
  BY <1>1, <1>2, <1>3, <1>4

LEMMA IInvStep == IInv /\ [Next]_vars => IInv'
<1> SUFFICES ASSUME IInv, [Next]_vars PROVE IInv'
  OBVIOUS
<1>1. TypeOK'
  BY TypeStep DEF IInv
<1>2. ChannelAccounting'
  BY AccountingStep DEF IInv, RankInv
<1>3. ASSUME NEW p \in Rank, NEW r \in Rank,
             \/ Enter(p) \/ Apply(p)
             \/ \E q \in Rank : Post(p, q) \/ Receive(p, q) \/ FinishCount(p, q)
                                \/ FinishPayload(p, q)
      PROVE  RankInv(r)' /\ plan' = plan
             /\ (Reciprocal => status'[r] # "err")
  <2>1. CASE r = p
    <3>1. RankInv(p)'
      BY <1>3, EnterRank, PostRank, ReceiveRank, CountRank, PayloadRank, ApplyRank
      DEF IInv
    <3>2. plan' = plan
      BY <1>3 DEF Enter, Apply, Post, Receive, FinishCount, FinishPayload
    <3>3. Reciprocal => status'[p] # "err"
      BY <1>3, NoError DEF IInv
    <3> QED
      BY <2>1, <3>1, <3>2, <3>3
  <2>2. CASE r # p
    <3>1. /\ plan' = plan /\ status'[r] = status[r] /\ todo'[r] = todo[r]
          /\ epoch'[r] = epoch[r] /\ stage'[r] = stage[r] /\ half'[r] = half[r]
          /\ got'[r] = got[r] /\ ext'[r] = ext[r]
      BY <1>3, <2>2, OnlyOneMoves DEF IInv
    <3> QED
      BY <3>1, RankInvKeep DEF IInv
  <2> QED
    BY <2>1, <2>2
<1>4. ASSUME NEW r \in Rank, UNCHANGED vars
      PROVE  RankInv(r)' /\ plan' = plan /\ (Reciprocal => status'[r] # "err")
  BY <1>4, RankInvKeep DEF IInv, vars
<1>5. ASSUME NEW r \in Rank
      PROVE  RankInv(r)' /\ plan' = plan /\ (Reciprocal => status'[r] # "err")
  <2>1. CASE \E p \in Rank : Step(p)
    BY <2>1, <1>3 DEF Step
  <2> QED
    BY <2>1, <1>4 DEF Next, AllFinished
<1>6. plan' = plan
  <2>1. 0 \in Rank
    BY NAssumption DEF Rank
  <2> QED
    BY <2>1, <1>5
<1>7. Reciprocal' = Reciprocal
  BY <1>6 DEF Reciprocal
<1> QED
  BY <1>1, <1>2, <1>5, <1>7 DEF IInv

(* The invariant every theorem below rests on. *)
THEOREM Inductive == Spec => []IInv
  BY IInvInit, IInvStep, PTL DEF Spec

(* What is in flight between two ranks is exactly the difference of their  *)
(* progress, in order: no message of exchange_halo is lost, duplicated or  *)
(* left over, whatever the plans.                                          *)
THEOREM Accounting == Spec => []ChannelAccounting
<1>1. IInv => ChannelAccounting
  BY DEF IInv
<1> QED
  BY <1>1, Inductive, PTL

(* A Sendrecv of exchange_halo only ever receives the count, or the values, *)
(* of its own epoch, for all plans.                                         *)
THEOREM Matched == Spec => []MatchedMessages
<1>1. IInv => MatchedMessages
  BY DEF IInv, RankInv, ReceiptInv, MatchedMessages
<1> QED
  BY <1>1, Inductive, PTL

(* The count handshake keeps values of an unexpected length from arriving, *)
(* for all plans.                                                          *)
THEOREM Fits == Spec => []PayloadFits
<1>1. IInv => PayloadFits
  BY DEF IInv, RankInv, ReceiptInv, PayloadFits
<1> QED
  BY <1>1, Inductive, PTL

(* apply_extended reads current ghosts only, for all plans. *)
THEOREM GhostsAreCurrent == Spec => []GhostsCurrent
<1>1. IInv => GhostsCurrent
  BY DEF IInv, RankInv, GhostInv, GhostsCurrent
<1> QED
  BY <1>1, Inductive, PTL
-----------------------------------------------------------------------------
(* What a rank has posted and received of the current visit. *)
LEMMA CounterBounds ==
  ASSUME TypeOK, NEW p \in Rank, NEW q \in Rank, q \in Peers(p)
  PROVE  /\ Rcvd(p, q) <= Sent(p, q) /\ Sent(p, q) <= Rcvd(p, q) + 1
         /\ 2 * epoch[p] - 2 <= Rcvd(p, q) /\ Sent(p, q) <= 2 * epoch[p]
<1>1. epoch[p] \in Int
  BY MaxEpochAssumption DEF TypeOK
<1>2. Visited(p, q) \in Int
  BY CounterTypes
<1>3. 2 * epoch[p] - 2 <= Visited(p, q) /\ Visited(p, q) <= 2 * epoch[p]
      /\ (Current(p, q) => Visited(p, q) <= 2 * epoch[p] - 1)
  BY <1>1 DEF Visited, Current
<1>4. half[p] \in {"post", "wait", "drain"}
  BY DEF TypeOK
<1> QED
  BY <1>1, <1>2, <1>3, <1>4 DEF Sent, Rcvd

(* No peer can have received more than was posted. *)
LEMMA NeverAhead ==
  ASSUME IInv, NEW p \in Rank, NEW q \in Rank
  PROVE  /\ Len(chan[p][q]) = Sent(p, q) - Rcvd(q, p) /\ Len(chan[p][q]) \in Nat
         /\ Sent(p, q) \in Int /\ Rcvd(q, p) \in Int /\ Rcvd(q, p) <= Sent(p, q)
         /\ (chan[p][q] = <<>> <=> Sent(p, q) = Rcvd(q, p))
<1>1. chan[p][q] \in Seq(Message)
  BY DEF IInv, TypeOK
<1>2. Len(chan[p][q]) \in Nat /\ (chan[p][q] = <<>> <=> Len(chan[p][q]) = 0)
  BY <1>1
<1>3. Len(chan[p][q]) = Sent(p, q) - Rcvd(q, p)
  BY DEF IInv, ChannelAccounting
<1>4. Sent(p, q) \in Int /\ Rcvd(q, p) \in Int
  BY CounterTypes DEF IInv
<1> QED
  BY <1>2, <1>3, <1>4

LEMMA PeersSymmetric ==
  ASSUME Reciprocal, NEW p \in Rank, NEW q \in Rank, q \in Peers(p)
  PROVE  p \in Peers(q)
BY DEF Reciprocal, IsReciprocal, Peers

(* With reciprocal plans a rank is at most one product ahead of its peers  *)
(* and at most two of its messages to one peer are in flight: exchange_halo *)
(* needs no barrier between products.                                      *)
THEOREM Skew == Spec => []NeighbourSkew
<1>1. ASSUME IInv, Reciprocal, NEW p \in Rank, NEW q \in Rank, q \in Peers(p)
      PROVE  epoch[p] <= epoch[q] + 1 /\ Len(chan[p][q]) <= 2
  <2>1. p \in Peers(q)
    BY <1>1, PeersSymmetric
  <2>2. /\ Rcvd(p, q) <= Sent(p, q) /\ Sent(p, q) <= Rcvd(p, q) + 1
        /\ 2 * epoch[p] - 2 <= Rcvd(p, q)
    BY <1>1, CounterBounds DEF IInv
  <2>3. /\ Rcvd(q, p) <= Sent(q, p) /\ Sent(q, p) <= Rcvd(q, p) + 1
        /\ Sent(q, p) <= 2 * epoch[q]
    BY <1>1, <2>1, CounterBounds DEF IInv
  <2>4. Rcvd(p, q) <= Sent(q, p) /\ Sent(q, p) \in Int /\ Rcvd(p, q) \in Int
    BY <1>1, NeverAhead
  <2>5. Len(chan[p][q]) = Sent(p, q) - Rcvd(q, p)
        /\ Sent(p, q) \in Int /\ Rcvd(q, p) \in Int
    BY <1>1, NeverAhead
  <2>6. epoch[p] \in Int /\ epoch[q] \in Int
    BY <1>1, MaxEpochAssumption DEF IInv, TypeOK
  <2>7. epoch[p] <= epoch[q] + 1
    BY <2>2, <2>3, <2>4, <2>6
  <2>8. Len(chan[p][q]) <= 2
    BY <2>2, <2>3, <2>4, <2>5
  <2> QED
    BY <2>7, <2>8
<1>2. IInv => NeighbourSkew
  BY <1>1 DEF NeighbourSkew, Peers
<1> QED
  BY <1>2, Inductive, PTL
-----------------------------------------------------------------------------
(* A nonempty set of naturals has a least element. *)
LEMMA LeastNat ==
  ASSUME NEW T \in SUBSET Nat, T # {}
  PROVE  \E m \in T : \A n \in T : m <= n
<1> DEFINE R == OpToRel(<, Nat)
<1>1. IsWellFoundedOn(R, Nat)
  BY NatLessThanWellFounded, Zenon
<1>2. ASSUME NEW m \in Nat, NEW n \in Nat, n < m
      PROVE  <<n, m>> \in R
  BY <1>2, Zenon DEF OpToRel
<1> HIDE DEF R
<1>3. PICK m \in T : \A n \in T : ~ (<<n, m>> \in R)
  BY <1>1, WFMin
<1>4. ASSUME NEW n \in T PROVE m <= n
  <2>1. m \in Nat /\ n \in Nat /\ ~(n < m)
    BY <1>2, <1>3, <1>4
  <2> QED
    BY <2>1
<1> QED
  BY <1>4

(* A rank inside a call with peers left is at one of them. *)
LEMMA HasCurrent ==
  ASSUME TypeOK, NEW p \in Rank, todo[p] # {}
  PROVE  \E q \in Rank : Current(p, q)
<1>1. todo[p] \in SUBSET Nat /\ todo[p] \subseteq Rank
  <2>1. todo[p] \subseteq Rank
    BY DEF TypeOK
  <2> QED
    BY <2>1, NAssumption DEF Rank
<1>2. PICK q \in todo[p] : \A r \in todo[p] : q <= r
  BY <1>1, LeastNat
<1> QED
  BY <1>1, <1>2 DEF Current

Stuck == Reciprocal /\ \A p \in Rank : ~CanMove(p)

(* A stuck rank waits for a peer that is not at it. *)
LEMMA StuckWaits ==
  ASSUME IInv, Stuck, NEW p \in Rank, NEW q \in Rank, Current(p, q)
  PROVE  /\ half[p] = "wait" /\ ~Current(q, p)
         /\ \/ epoch[q] = epoch[p] /\ p \in todo[q]
            \/ epoch[q] < epoch[p]
PROOF
<1>1. status[p] = "exchanging" /\ q \in Peers(p) /\ p \in Peers(q)
  <2>1. status[p] # "err"
    BY DEF IInv, Stuck
  <2>2. todo[p] # {} /\ q \in Peers(p) /\ status[p] # "idle"
    BY DEF IInv, RankInv, CallInv, Current
  <2> QED
    BY <2>1, <2>2, PeersSymmetric DEF IInv, TypeOK, Stuck
<1>2. Current(q, p) => status[q] = "exchanging"
  BY DEF IInv, RankInv, CallInv, Current, Stuck, TypeOK
<1>3. half[p] # "post" /\ (Current(q, p) => half[q] # "post")
  BY <1>1, <1>2 DEF Stuck, CanMove
<1>4. half[p] \in {"post", "wait", "drain"} /\ half[q] \in {"post", "wait", "drain"}
  BY DEF IInv, TypeOK
<1>5. /\ Rcvd(p, q) <= Sent(q, p) /\ Rcvd(q, p) <= Sent(p, q)
      /\ (chan[q][p] = <<>> <=> Sent(q, p) = Rcvd(p, q))
      /\ (chan[p][q] = <<>> <=> Sent(p, q) = Rcvd(q, p))
      /\ Sent(p, q) \in Int /\ Rcvd(q, p) \in Int
      /\ Sent(q, p) \in Int /\ Rcvd(p, q) \in Int
  BY NeverAhead
<1>6. /\ Sent(p, q) = Visited(p, q) + 1
      /\ half[p] = "wait" => Rcvd(p, q) = Visited(p, q)
      /\ half[p] = "drain" => Rcvd(p, q) = Visited(p, q) + 1
      /\ Visited(p, q) \in Int /\ Visited(q, p) \in Int
  BY <1>1, <1>3, CounterTypes DEF Sent, Rcvd, IInv
<1>7. /\ Current(q, p) => Sent(q, p) = Visited(q, p) + 1
      /\ Current(q, p) /\ half[q] = "wait" => Rcvd(q, p) = Visited(q, p)
      /\ Current(q, p) /\ half[q] = "drain" => Rcvd(q, p) = Visited(q, p) + 1
      /\ ~Current(q, p) => Sent(q, p) = Visited(q, p) /\ Rcvd(q, p) = Visited(q, p)
  BY <1>1, <1>3, CounterTypes DEF Sent, Rcvd, IInv
<1>8. /\ half[p] = "wait" => chan[q][p] = <<>>
      /\ half[p] = "drain" => chan[p][q] # <<>>
      /\ Current(q, p) /\ half[q] = "wait" => chan[p][q] = <<>>
      /\ Current(q, p) /\ half[q] = "drain" => chan[q][p] # <<>>
  BY <1>1, <1>2 DEF Stuck, CanMove, SendComplete
<1>9. half[p] = "wait" /\ ~Current(q, p)
  BY <1>3, <1>4, <1>5, <1>6, <1>7, <1>8
<1>10. Visited(q, p) = Visited(p, q)
  BY <1>5, <1>6, <1>7, <1>8, <1>9
<1>11. epoch[p] \in Int /\ epoch[q] \in Int /\ stage[p] \in {"count", "payload"}
  BY MaxEpochAssumption DEF IInv, TypeOK
<1>12. q \in todo[p]
  BY DEF Current
<1> QED
  BY <1>9, <1>10, <1>11, <1>12 DEF Visited

(* The documented claim of exchange_halo: with reciprocal plans the        *)
(* ascending peer order never lets the ranks wait on each other in a cycle, *)
(* for any number of ranks and any peer graph.                             *)
THEOREM NoCycle == Spec => []NoWaitCycle
<1>1. ASSUME IInv, Stuck, NEW o \in Rank, ~Finished(o)
      PROVE  FALSE
  <2>1. ASSUME NEW p \in Rank, ~Finished(p)
        PROVE  todo[p] # {}
    <3>1. status[p] \in {"idle", "exchanging"} /\ epoch[p] \in 0 .. MaxEpoch
      BY <1>1 DEF IInv, Stuck, TypeOK
    <3> QED
      BY <1>1, <2>1, <3>1, MaxEpochAssumption DEF Finished, Stuck, CanMove
  <2>2. \A p \in Rank : todo[p] # {} => ~Finished(p)
    BY <1>1 DEF IInv, RankInv, CallInv, Finished
  <2> DEFINE E == {epoch[p] : p \in {r \in Rank : todo[r] # {}}}
  <2>3. E \in SUBSET Nat /\ E # {}
    BY <1>1, <2>1, MaxEpochAssumption DEF IInv, TypeOK
  <2>4. PICK e \in E : \A n \in E : e <= n
    <3> HIDE DEF E
    <3> QED BY <2>3, LeastNat
  <2>5. \A p \in Rank : todo[p] # {} => e <= epoch[p]
    BY <2>4
  <2> DEFINE T == {q \in Rank : \E p \in Rank : epoch[p] = e /\ Current(p, q)}
  <2>6. T \in SUBSET Nat /\ T # {}
    <3>1. PICK p \in Rank : todo[p] # {} /\ epoch[p] = e
      BY <2>4
    <3>2. \E q \in Rank : Current(p, q)
      BY <1>1, <3>1, HasCurrent DEF IInv
    <3> QED
      BY <3>1, <3>2, NAssumption DEF Rank
  <2>7. PICK q \in T : \A n \in T : q <= n
    <3> HIDE DEF T
    <3> QED BY <2>6, LeastNat
  <2>8. PICK p \in Rank : q \in Rank /\ epoch[p] = e /\ Current(p, q)
    BY <2>7
  <2>9. ASSUME NEW r \in Rank, NEW s \in Rank, epoch[r] = e, Current(r, s)
        PROVE  epoch[s] = e /\ r \in todo[s] /\ ~Current(s, r)
    <3>1. /\ ~Current(s, r)
          /\ \/ epoch[s] = epoch[r] /\ r \in todo[s]
             \/ epoch[s] < epoch[r]
      BY <1>1, <2>9, StuckWaits
    <3>2. epoch[s] \in 0 .. MaxEpoch /\ epoch[r] \in 0 .. MaxEpoch
      BY <1>1 DEF IInv, TypeOK
    <3>3. ~(epoch[s] < epoch[r])
      <4> SUFFICES ASSUME epoch[s] < epoch[r] PROVE FALSE
        OBVIOUS
      <4>1. ~Finished(s)
        BY <3>2, MaxEpochAssumption DEF Finished
      <4>2. e <= epoch[s]
        BY <2>1, <2>5, <4>1
      <4> QED
        BY <2>9, <3>2, <4>2, MaxEpochAssumption
    <3> QED
      BY <2>9, <3>1, <3>3
  <2>10. epoch[q] = e /\ p \in todo[q] /\ ~Current(q, p)
    BY <2>8, <2>9
  <2>11. PICK s \in Rank : Current(q, s)
    BY <1>1, <2>8, <2>10, HasCurrent DEF IInv
  <2>12. epoch[s] = e /\ q \in todo[s] /\ ~Current(s, q)
    BY <2>8, <2>9, <2>10, <2>11
  <2>13. PICK t \in Rank : Current(s, t)
    BY <1>1, <2>12, HasCurrent DEF IInv
  <2>14. t \in T /\ q <= t
    BY <2>7, <2>12, <2>13
  <2>15. t <= q /\ t # q
    BY <2>12, <2>13 DEF Current
  <2> QED
    BY <2>8, <2>13, <2>14, <2>15, NAssumption DEF Rank
<1>2. IInv => NoWaitCycle
  BY <1>1 DEF NoWaitCycle, Stuck
<1> QED
  BY <1>2, Inductive, PTL
-----------------------------------------------------------------------------
(* HaloExchange implements HaloEpochs: entering and completing a product   *)
(* map to its two actions, every other step changes nothing it sees.       *)
(* A completed product had every ghost owner in the same or a later one. *)
LEMMA OwnersEntered ==
  ASSUME IInv, NEW p \in Rank, status[p] = "exchanging", todo[p] = {},
         NEW q \in GhostOwners[p]
  PROVE  epoch[q] >= epoch[p]
<1>1. q \in Rank /\ q \in Peers(p)
  BY DEF GhostOwners, Peers
<1>2. epoch[p] \in Int /\ epoch[q] \in Int /\ epoch[p] >= 1 /\ epoch[q] >= 0
  BY <1>1, MaxEpochAssumption DEF IInv, TypeOK, RankInv, CallInv
<1>3. Rcvd(p, q) = 2 * epoch[p]
  BY <1>1, <1>2 DEF Rcvd, Visited, Current
<1>4. Rcvd(p, q) <= Sent(q, p)
  BY <1>1, NeverAhead
<1>5. Sent(q, p) <= 2 * epoch[q]
  <2>1. CASE p \in Peers(q)
    BY <1>1, <2>1, CounterBounds DEF IInv
  <2>2. CASE p \notin Peers(q)
    BY <1>2, <2>2 DEF Sent
  <2> QED
    BY <2>1, <2>2
<1>6. Sent(q, p) \in Int
  BY <1>1, CounterTypes DEF IInv
<1> QED
  BY <1>2, <1>3, <1>4, <1>5, <1>6

(* A step that leaves the plan, the epochs, the operands and who is idle   *)
(* alone is a stutter of HaloEpochs.                                       *)
LEMMA Stutter ==
  ASSUME plan' = plan, epoch' = epoch, operand' = operand,
         \A r \in Rank : (status'[r] = "idle") <=> (status[r] = "idle")
  PROVE  UNCHANGED Epochs!vars
<1>1. GhostOwners' = GhostOwners
  BY DEF GhostOwners
<1>2. Completed' = Completed
  BY DEF Completed
<1> QED
  BY <1>1, <1>2 DEF Epochs!vars

LEMMA EnterEpochs ==
  ASSUME IInv, NEW p \in Rank, Enter(p)
  PROVE  Epochs!Enter(p)
<1>1. /\ plan' = plan /\ operand' = operand /\ epoch' = [epoch EXCEPT ![p] = @ + 1]
      /\ epoch[p] < MaxEpoch /\ status[p] = "idle" /\ status'[p] # "idle"
      /\ \A r \in Rank \ {p} : status'[r] = status[r]
  BY DEF Enter, IInv, TypeOK
<1>2. epoch \in [Rank -> Int]
  BY MaxEpochAssumption DEF IInv, TypeOK
<1>3. GhostOwners' = GhostOwners
  BY <1>1 DEF GhostOwners
<1>4. ASSUME NEW r \in Rank PROVE Completed'[r] = Completed[r]
  BY <1>1, <1>2 DEF Completed
<1>5. Completed' = Completed
  BY <1>4 DEF Completed
<1>6. epoch[p] = Completed[p]
  BY <1>1 DEF Completed
<1> QED
  BY <1>1, <1>3, <1>5, <1>6 DEF Epochs!Enter

LEMMA ApplyEpochs ==
  ASSUME IInv, NEW p \in Rank, Apply(p), plan.fits[p]
  PROVE  Epochs!Leave(p)
<1>1. /\ plan' = plan /\ epoch' = epoch /\ operand' = [operand EXCEPT ![p] = ext[p]]
      /\ status[p] = "exchanging" /\ todo[p] = {}
      /\ status' = [status EXCEPT ![p] = "idle"]
  BY DEF Apply
<1>2. epoch \in [Rank -> Int]
  BY MaxEpochAssumption DEF IInv, TypeOK
<1>3. GhostOwners' = GhostOwners
  BY <1>1 DEF GhostOwners
<1>4. epoch[p] = Completed[p] + 1
  BY <1>1, <1>2 DEF Completed
<1>5. \A q \in GhostOwners[p] : epoch[q] >= epoch[p]
  BY <1>1, OwnersEntered
<1>6. Completed' = [Completed EXCEPT ![p] = epoch[p]]
  <2>1. \A r \in Rank : Completed'[r] = IF r = p THEN epoch[p] ELSE Completed[r]
    BY <1>1 DEF Completed, IInv, TypeOK
  <2> QED
    BY <2>1 DEF Completed
<1>7. ext[p] = [q \in Rank |-> IF q \in GhostOwners[p] THEN epoch[p] ELSE 0]
  <2>1. ext[p] \in [Rank -> Nat] /\ plan.recv[p] \in [Rank -> Nat]
    BY DEF IInv, TypeOK, PlanType
  <2>2. ASSUME NEW q \in Rank
        PROVE  ext[p][q] = IF q \in GhostOwners[p] THEN epoch[p] ELSE 0
    <3>1. p = q \/ plan.recv[p][q] = 0 \/ (q # p /\ plan.recv[p][q] > 0)
      BY <2>1
    <3> QED
      BY <1>1, <3>1 DEF IInv, RankInv, GhostInv, GhostOwners
  <2> QED
    BY <2>1, <2>2
<1>8. Epochs!Rank = Rank
  BY DEF Rank, Epochs!Rank
<1> QED
  BY <1>1, <1>3, <1>4, <1>5, <1>6, <1>7, <1>8 DEF Epochs!Leave

LEMMA EpochsStep == IInv /\ [Next]_vars => [Epochs!Next]_(Epochs!vars)
<1> SUFFICES ASSUME IInv, [Next]_vars PROVE [Epochs!Next]_(Epochs!vars)
  OBVIOUS
<1>0. Epochs!Rank = Rank
  BY DEF Rank, Epochs!Rank
<1>1. ASSUME NEW p \in Rank, Enter(p) PROVE Epochs!Next
  BY <1>0, <1>1, EnterEpochs DEF Epochs!Next
<1>2. ASSUME NEW p \in Rank, Apply(p), plan.fits[p] PROVE Epochs!Next
  BY <1>0, <1>2, ApplyEpochs DEF Epochs!Next
<1>3. ASSUME NEW p \in Rank, Apply(p), ~plan.fits[p] PROVE UNCHANGED Epochs!vars
  <2>1. /\ plan' = plan /\ epoch' = epoch /\ operand' = operand
        /\ \A r \in Rank : (status'[r] = "idle") <=> (status[r] = "idle")
    BY <1>3 DEF Apply, IInv, TypeOK
  <2> QED
    BY <2>1, Stutter
<1>4. ASSUME NEW p \in Rank, NEW q \in Rank, FinishCount(p, q)
      PROVE  UNCHANGED Epochs!vars
  <2>1. /\ plan' = plan /\ epoch' = epoch /\ operand' = operand
        /\ \A r \in Rank : (status'[r] = "idle") <=> (status[r] = "idle")
    BY <1>4 DEF FinishCount, IInv, TypeOK
  <2> QED
    BY <2>1, Stutter
<1>5. ASSUME NEW p \in Rank, NEW q \in Rank,
             Post(p, q) \/ Receive(p, q) \/ FinishPayload(p, q)
      PROVE  UNCHANGED Epochs!vars
  <2>1. plan' = plan /\ epoch' = epoch /\ operand' = operand /\ status' = status
    BY <1>5 DEF Post, Receive, FinishPayload
  <2> QED
    BY <2>1, Stutter
<1>6. ASSUME UNCHANGED vars PROVE UNCHANGED Epochs!vars
  BY <1>6, Stutter DEF vars
<1> QED
  BY <1>1, <1>2, <1>3, <1>4, <1>5, <1>6 DEF Next, Step, AllFinished

(* The blocking halo exchange implements HaloEpochs: a product leaves only *)
(* after the owners of its ghosts entered it, with their values of it.     *)
THEOREM Implements == Spec => ImplementsEpochs
<1>1. Init => Epochs!Init
  <2> SUFFICES ASSUME Init PROVE Epochs!Init
    OBVIOUS
  <2>1. Completed = [p \in Rank |-> 0] /\ operand = [p \in Rank |-> [q \in Rank |-> 0]]
        /\ epoch = [p \in Rank |-> 0]
    BY DEF Init, Completed, NoGhosts
  <2>2. GhostOwners \in [Rank -> SUBSET Rank]
    BY DEF GhostOwners
  <2>3. Epochs!Rank = Rank
    BY DEF Rank, Epochs!Rank
  <2> QED
    BY <2>1, <2>2, <2>3 DEF Epochs!Init
<1> QED
  BY <1>1, EpochsStep, Inductive, PTL DEF Spec, ImplementsEpochs, Epochs!Spec
=============================================================================
