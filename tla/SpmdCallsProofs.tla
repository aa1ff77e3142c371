-------------------------- MODULE SpmdCallsProofs ---------------------------
(***************************************************************************)
(* Theorems about SpmdCalls, for any number of ranks and any program whose *)
(* local checks do not fail (Agreed): no rank is stranded, all ranks get   *)
(* the same verdict, no failure is lost and no message is left over.       *)
(*                                                                         *)
(* The invariant says what the position of a rank tells about the others:  *)
(* a rank past a collective knows that the ranks it needed took part and   *)
(* that it was not rejected; a rank that failed did so at a collective     *)
(* that was rejected. A rejection is the same for all ranks, so no rank is *)
(* past the collective another one failed at.                              *)
(***************************************************************************)
EXTENDS SpmdCalls, TLAPS

(* No stage fails on one rank alone.                                       *)
Agreed ==
    \A s \in Running : \A i \in DOMAIN Program[s] :
        Program[s][i].op = "fallible" => Program[s][i].why \notin Causes

S(i) == Program[session][i]
IsCollective(i) == S(i).op \in Collectives
IsTransfer(i) == S(i).op = "transfer"

(* What a rank has contributed follows from where it is.                   *)
GivenInv ==
    \A p \in Rank : \A i \in Stages :
        given[p][i] # "none" <=>
            /\ IsCollective(i)
            /\ \/ pc[p] > i
               \/ pc[p] = i /\ (inside[p] \/ result[p] = "err")

(* Only ranks that can fail report a failure.                              *)
OwnInv == \A p \in Rank : \A i \in Stages : given[p][i] = "bad" => p \in S(i).by

Complete(i) == \A q \in Needs(i) : given[q][i] # "none"

PassedInv ==
    \A p \in Rank : \A i \in Stages :
        pc[p] > i /\ IsCollective(i) => Complete(i) /\ ~Rejected(p, i)

FailedInv ==
    \A p \in Rank : result[p] = "err" =>
        /\ pc[p] \in Stages /\ IsCollective(pc[p]) /\ ~inside[p]
        /\ Complete(pc[p]) /\ Rejected(p, pc[p])

EndedInv ==
    \A p \in Rank : result[p] = "ok" => pc[p] \notin Stages

InsideInv ==
    \A p \in Rank : inside[p] =>
        /\ pc[p] \in Stages
        /\ IsCollective(pc[p]) \/ (IsTransfer(pc[p]) /\ p = S(pc[p]).src)

(* Only the two ranks of a transfer count its messages.                    *)
TakesPart(p, i) == IsTransfer(i) /\ (p = S(i).src \/ p = S(i).to)
CountInv ==
    \A p \in Rank :
        IF pc[p] \in Stages /\ TakesPart(p, pc[p]) THEN count[p] < S(pc[p]).k
        ELSE count[p] = 0

(* Messages of transfer i that rank q is done with.                        *)
Done(q, i) ==
    IF pc[q] > i THEN S(i).k ELSE IF pc[q] = i THEN count[q] ELSE 0
Sent(i) == Done(S(i).src, i) + (IF pc[S(i).src] = i /\ inside[S(i).src] THEN 1 ELSE 0)
Received(i) == Done(S(i).to, i)

ChanInv ==
    \A i \in Stages :
        IF IsTransfer(i) THEN chan[i] + Received(i) = Sent(i) ELSE chan[i] = 0

Inv ==
    /\ TypeOK /\ GivenInv /\ OwnInv /\ PassedInv /\ FailedInv /\ EndedInv
    /\ InsideInv /\ CountInv /\ ChanInv

-----------------------------------------------------------------------------
LEMMA RankFacts == Rank \subseteq Nat /\ Root \in Rank
  BY SizeAssumption DEF Rank, Root

(* The stages of a session and their fields.                               *)
LEMMA StageFacts ==
  ASSUME TypeOK
  PROVE  /\ Len(Program[session]) \in Nat
         /\ Stages = 1 .. Len(Program[session])
         /\ \A i \in Stages :
              /\ S(i).by \subseteq Rank /\ S(i).vals \subseteq Values
              /\ S(i).src \in Rank /\ S(i).to \in Rank /\ S(i).k \in Nat
              /\ IsTransfer(i) => S(i).to # S(i).src /\ S(i).k > 0 /\ ~IsCollective(i)
              /\ S(i).op = "fallible" => ~IsCollective(i) /\ ~IsTransfer(i)
              /\ S(i).op = "broadcast" => S(i).by \subseteq {Root}
  <1>1. session \in Running
    BY DEF TypeOK
  <1>2. Program[session] \in Seq(StageType)
    BY <1>1, ProgramAssumption
  <1>3. \A i \in Stages : S(i) \in StageType
    BY <1>2 DEF Stages, S
  <1>4. \A i \in Stages :
          /\ IsTransfer(i) => S(i).to # S(i).src /\ S(i).k > 0
          /\ S(i).op = "broadcast" => S(i).by \subseteq {Root}
    BY <1>1, ProgramAssumption DEF Stages, S, IsTransfer
  <1>5. \A i \in Stages :
          /\ S(i).by \subseteq Rank /\ S(i).vals \subseteq Values
          /\ S(i).src \in Rank /\ S(i).to \in Rank /\ S(i).k \in Nat
    BY <1>3 DEF StageType
  <1>6. \A i \in Stages :
          /\ IsTransfer(i) => ~IsCollective(i)
          /\ S(i).op = "fallible" => ~IsCollective(i) /\ ~IsTransfer(i)
    BY DEF IsTransfer, IsCollective, Collectives
  <1> QED
    BY <1>2, <1>4, <1>5, <1>6 DEF Stages

(* A collective that is rejected on one rank is rejected on all.           *)
LEMMA RejectedByAll ==
  ASSUME NEW p \in Rank, NEW q \in Rank, NEW i \in Stages, Rejected(p, i)
  PROVE  Rejected(q, i)
  BY DEF Rejected

(* No rank is past the stage at which another one failed.                  *)
LEMMA NotPastFailure ==
  ASSUME Inv, NEW p \in Rank, NEW q \in Rank, result[q] = "err"
  PROVE  pc[q] \in Stages /\ pc[p] <= pc[q] /\ pc[p] \in Nat /\ pc[q] \in Nat
  <1>1. /\ pc[q] \in Stages /\ IsCollective(pc[q]) /\ Rejected(q, pc[q])
    BY DEF Inv, FailedInv
  <1>2. Rejected(p, pc[q])
    BY <1>1, RejectedByAll
  <1>3. ~(pc[p] > pc[q])
    BY <1>1, <1>2 DEF Inv, PassedInv
  <1>4. pc[p] \in Nat /\ pc[q] \in Nat
    BY StageFacts DEF Inv, TypeOK
  <1> QED
    BY <1>1, <1>3, <1>4

-----------------------------------------------------------------------------
LEMMA InitInv == Init => Inv
  <1> SUFFICES ASSUME Init PROVE Inv
    OBVIOUS
  <1>1. TypeOK
    <2>1. session \in Running /\ Program[session] \in Seq(StageType)
      BY ProgramAssumption DEF Init
    <2>2. Len(Program[session]) \in Nat
      BY <2>1
    <2>3. pc \in [Rank -> 1 .. Len(Program[session]) + 1]
      BY <2>2 DEF Init
    <2> QED
      BY <2>1, <2>3 DEF Init, TypeOK
  <1>2. \A p \in Rank : \A i \in Stages : pc[p] = 1 /\ i \in Nat /\ i >= 1 /\ given[p][i] = "none"
    BY <1>1, StageFacts DEF Init
  <1>3. GivenInv /\ OwnInv
    BY <1>2 DEF GivenInv, OwnInv, Init
  <1>4. PassedInv /\ FailedInv /\ EndedInv /\ InsideInv
    BY <1>2 DEF PassedInv, FailedInv, EndedInv, InsideInv, Init
  <1>5. CountInv
    <2> SUFFICES ASSUME NEW p \in Rank
                 PROVE  IF pc[p] \in Stages /\ TakesPart(p, pc[p])
                        THEN count[p] < S(pc[p]).k ELSE count[p] = 0
      BY DEF CountInv
    <2>1. count[p] = 0
      BY DEF Init
    <2>2. pc[p] \in Stages /\ TakesPart(p, pc[p]) => S(pc[p]).k > 0 /\ S(pc[p]).k \in Nat
      BY <1>1, StageFacts DEF TakesPart
    <2> QED
      BY <2>1, <2>2
  <1>6. ChanInv
    <2> SUFFICES ASSUME NEW i \in Stages
                 PROVE  chan[i] = 0 /\ Received(i) = 0 /\ Sent(i) = 0
      BY DEF ChanInv
    <2>1. S(i).to \in Rank /\ S(i).src \in Rank
      BY <1>1, StageFacts, RankFacts
    <2> QED
      BY <1>2, <2>1 DEF Init, Received, Sent, Done
  <1> QED
    BY <1>1, <1>3, <1>4, <1>5, <1>6 DEF Inv

(* A step keeps the program.                                               *)
LEMMA SameStages ==
  ASSUME session' = session
  PROVE  /\ Stages' = Stages
         /\ \A i : S(i)' = S(i) /\ IsCollective(i)' = IsCollective(i)
                   /\ IsTransfer(i)' = IsTransfer(i) /\ Needs(i)' = Needs(i)
                   /\ \A q : TakesPart(q, i)' = TakesPart(q, i)
  BY DEF Stages, S, IsCollective, IsTransfer, Needs, TakesPart

(* A rank goes past a stage in which it has no part.                       *)
LEMMA SkipInv ==
  ASSUME Inv, NEW p \in Rank, result[p] = "run", pc[p] \in Stages,
         ~IsCollective(pc[p]), ~inside[p], count[p] = 0,
         IsTransfer(pc[p]) => p # S(pc[p]).src /\ p # S(pc[p]).to,
         Proceed(p), UNCHANGED <<session, inside, given, count, chan>>
  PROVE  Inv'
  <1> USE SameStages
  <1>0. /\ session' = session /\ inside' = inside /\ given' = given
        /\ count' = count /\ chan' = chan /\ result' = result
        /\ pc' = [pc EXCEPT ![p] = @ + 1]
    BY DEF Proceed
  <1>1. TypeOK /\ pc[p] \in 1 .. Len(Program[session]) /\ Len(Program[session]) \in Nat
        /\ Stages = 1 .. Len(Program[session])
    BY StageFacts DEF Inv
  <1>2. TypeOK'
    <2>1. pc' \in [Rank -> 1 .. Len(Program[session]) + 1]
      BY <1>0, <1>1 DEF TypeOK
    <2>2. Stages' = Stages
      BY <1>0
    <2> QED
      BY <1>0, <1>1, <2>1, <2>2 DEF TypeOK
  <1>3. /\ pc'[p] = pc[p] + 1
        /\ \A q \in Rank : q # p => pc'[q] = pc[q]
        /\ \A q \in Rank : pc[q] \in Nat
    BY <1>0, <1>1 DEF TypeOK
  <1>4. \A i \in Stages : (pc'[p] > i <=> (pc[p] > i \/ pc[p] = i))
    BY <1>1, <1>3
  <1>4a. \A i \in Stages : i # pc[p] => (pc'[p] = i => ~inside[p] /\ result[p] # "err")
    OBVIOUS
  <1>5. GivenInv'
    <2> SUFFICES ASSUME NEW q \in Rank, NEW i \in Stages
                 PROVE  given[q][i] # "none" <=>
                          /\ IsCollective(i)
                          /\ \/ pc'[q] > i
                             \/ pc'[q] = i /\ (inside[q] \/ result[q] = "err")
      BY <1>0 DEF GivenInv
    <2>1. given[q][i] # "none" <=>
            /\ IsCollective(i)
            /\ \/ pc[q] > i
               \/ pc[q] = i /\ (inside[q] \/ result[q] = "err")
      BY DEF Inv, GivenInv
    <2>2. CASE q # p
      BY <1>3, <2>1, <2>2
    <2>3. CASE q = p
      BY <1>4, <2>1, <2>3
    <2> QED
      BY <2>2, <2>3
  <1>6. OwnInv'
    BY <1>0 DEF Inv, OwnInv
  <1>7. \A q \in Rank : \A i \in Stages :
          (Complete(i)' <=> Complete(i)) /\ (Rejected(q, i)' <=> Rejected(q, i))
    BY <1>0 DEF Complete, Rejected, Needs
  <1>8. PassedInv'
    <2> SUFFICES ASSUME NEW q \in Rank, NEW i \in Stages, pc'[q] > i, IsCollective(i)
                 PROVE  Complete(i) /\ ~Rejected(q, i)
      BY <1>0, <1>7 DEF PassedInv
    <2>1. pc[q] > i
      BY <1>3, <1>4
    <2> QED
      BY <2>1 DEF Inv, PassedInv
  <1>9. FailedInv' /\ EndedInv' /\ InsideInv'
    <2>1. \A q \in Rank : (result[q] # "run" \/ inside[q]) => q # p
      OBVIOUS
    <2>2. FailedInv'
      BY <1>0, <1>3, <1>7, <2>1 DEF Inv, FailedInv
    <2>3. EndedInv'
      BY <1>0, <1>3, <2>1 DEF Inv, EndedInv
    <2>4. InsideInv'
      BY <1>0, <1>3, <2>1 DEF Inv, InsideInv
    <2> QED
      BY <2>2, <2>3, <2>4
  <1>10. CountInv'
    <2> SUFFICES ASSUME NEW q \in Rank
                 PROVE  IF pc'[q] \in Stages /\ TakesPart(q, pc'[q])
                        THEN count[q] < S(pc'[q]).k ELSE count[q] = 0
      BY <1>0 DEF CountInv
    <2>1. CASE q # p
      BY <1>3, <2>1 DEF Inv, CountInv
    <2>2. CASE q = p
      <3>1. pc'[q] \in Stages /\ TakesPart(q, pc'[q]) => S(pc'[q]).k > 0
        BY <1>1, StageFacts DEF TakesPart
      <3>2. count[q] = 0
        BY <2>2
      <3> QED
        BY <3>1, <3>2
    <2> QED
      BY <2>1, <2>2
  <1>11. ChanInv'
    <2> SUFFICES ASSUME NEW i \in Stages
                 PROVE  IF IsTransfer(i) THEN chan[i] + Received(i)' = Sent(i)' ELSE chan[i] = 0
      BY <1>0 DEF ChanInv
    <2>1. IF IsTransfer(i) THEN chan[i] + Received(i) = Sent(i) ELSE chan[i] = 0
      BY DEF Inv, ChanInv
    <2>2. S(i).to \in Rank /\ S(i).src \in Rank
      BY <1>1, StageFacts, RankFacts
    <2>3. CASE IsTransfer(i)
      <3>1. i = pc[p] => p # S(i).src /\ p # S(i).to
        BY <2>3
      <3>2. Sent(i)' = Sent(i)
        <4>1. CASE S(i).src # p
          BY <1>0, <1>3, <2>2, <4>1 DEF Sent, Done
        <4>2. CASE S(i).src = p
          <5>1. count[S(i).src] = 0 /\ ~inside[S(i).src] /\ i # pc[S(i).src]
            BY <3>1, <4>2
          <5>2. pc'[S(i).src] > i <=> pc[S(i).src] > i
            BY <1>4, <4>2, <5>1
          <5> QED
            BY <1>0, <5>1, <5>2 DEF Sent, Done
        <4> QED
          BY <4>1, <4>2
      <3>3. Received(i)' = Received(i)
        <4>1. CASE S(i).to # p
          BY <1>0, <1>3, <2>2, <4>1 DEF Received, Done
        <4>2. CASE S(i).to = p
          <5>1. count[S(i).to] = 0 /\ i # pc[S(i).to]
            BY <3>1, <4>2
          <5>2. pc'[S(i).to] > i <=> pc[S(i).to] > i
            BY <1>4, <4>2, <5>1
          <5> QED
            BY <1>0, <5>1, <5>2 DEF Received, Done
        <4> QED
          BY <4>1, <4>2
      <3> QED
        BY <2>1, <2>3, <3>2, <3>3
    <2>4. CASE ~IsTransfer(i)
      BY <2>1, <2>4
    <2> QED
      BY <2>3, <2>4
  <1> QED
    BY <1>2, <1>5, <1>6, <1>8, <1>9, <1>10, <1>11 DEF Inv

(* What every step's proof starts from.                                    *)
LEMMA Facts ==
  ASSUME Inv
  PROVE  /\ Len(Program[session]) \in Nat
         /\ Stages = 1 .. Len(Program[session])
         /\ \A q \in Rank : pc[q] \in Nat /\ pc[q] \in 1 .. Len(Program[session]) + 1
         /\ \A q \in Rank : count[q] \in Nat /\ inside[q] \in BOOLEAN
         /\ \A i \in Stages : /\ chan[i] \in Nat /\ S(i).k \in Nat
                               /\ S(i).src \in Rank /\ S(i).to \in Rank
  <1>1. TypeOK
    BY DEF Inv
  <1>2. /\ Len(Program[session]) \in Nat
        /\ Stages = 1 .. Len(Program[session])
        /\ \A i \in Stages : S(i).k \in Nat /\ S(i).src \in Rank /\ S(i).to \in Rank
    BY <1>1, StageFacts
  <1>3. \A q \in Rank : pc[q] \in 1 .. Len(Program[session]) + 1
    BY <1>1 DEF TypeOK
  <1>4. \A q \in Rank : pc[q] \in Nat
    BY <1>2, <1>3
  <1>5. \A q \in Rank : count[q] \in Nat /\ inside[q] \in BOOLEAN
    BY <1>1 DEF TypeOK
  <1>6. \A i \in Stages : chan[i] \in Nat
    BY <1>1 DEF TypeOK
  <1> QED
    BY <1>2, <1>3, <1>4, <1>5, <1>6

(* A rank enters a collective with one of its contributions.               *)
LEMMA EnterInv ==
  ASSUME Inv, NEW p \in Rank, Enter(p)
  PROVE  Inv'
  <1>0. /\ session' = session /\ pc' = pc /\ count' = count /\ chan' = chan
        /\ result' = result
    BY DEF Enter
  <1> USE SameStages
  <1>1. /\ result[p] = "run" /\ pc[p] \in Stages /\ IsCollective(pc[p]) /\ ~inside[p]
    BY DEF Enter, At, Stage, IsCollective, S
  <1>2. PICK v \in Contributions(p) : given' = [given EXCEPT ![p][pc[p]] = v]
    BY DEF Enter
  <1>3. inside' = [inside EXCEPT ![p] = TRUE]
    BY DEF Enter
  <1>t. TypeOK /\ given \in [Rank -> [Stages -> Values \cup {"none"}]]
        /\ inside \in [Rank -> BOOLEAN]
    BY DEF Inv, TypeOK
  <1>4. v \in Values /\ v # "none" /\ (v = "bad" => p \in S(pc[p]).by)
    <2>1. Stage(p) = S(pc[p]) /\ S(pc[p]).vals \subseteq Values
      BY <1>1, <1>t, StageFacts DEF Stage, S
    <2> QED
      BY <1>2, <2>1 DEF Contributions, Values
  <1>5. /\ given'[p][pc[p]] = v
        /\ \A q \in Rank : \A i \in Stages :
             (q # p \/ i # pc[p]) => given'[q][i] = given[q][i]
        /\ given' \in [Rank -> [Stages -> Values \cup {"none"}]]
    BY <1>1, <1>2, <1>4, <1>t
  <1>6. /\ inside'[p] = TRUE /\ \A q \in Rank : q # p => inside'[q] = inside[q]
        /\ inside' \in [Rank -> BOOLEAN]
    BY <1>3, <1>t
  <1>7. TypeOK'
    BY <1>0, <1>5, <1>6, <1>t DEF TypeOK
  <1>8. GivenInv'
    <2> SUFFICES ASSUME NEW q \in Rank, NEW i \in Stages
                 PROVE  given'[q][i] # "none" <=>
                          /\ IsCollective(i)
                          /\ \/ pc[q] > i
                             \/ pc[q] = i /\ (inside'[q] \/ result[q] = "err")
      BY <1>0 DEF GivenInv
    <2>1. given[q][i] # "none" <=>
            /\ IsCollective(i)
            /\ \/ pc[q] > i
               \/ pc[q] = i /\ (inside[q] \/ result[q] = "err")
      BY DEF Inv, GivenInv
    <2>2. CASE q = p /\ i = pc[p]
      BY <1>1, <1>4, <1>5, <1>6, <2>2
    <2>3. CASE q # p
      BY <1>5, <1>6, <2>1, <2>3
    <2>4. CASE i # pc[p] /\ q = p
      BY <1>5, <2>1, <2>4
    <2> QED
      BY <2>2, <2>3, <2>4
  <1>9. OwnInv'
    BY <1>0, <1>4, <1>5 DEF Inv, OwnInv
  <1>10. given[p][pc[p]] = "none"
    <2>1. ~(pc[p] > pc[p])
      BY Facts
    <2> QED
      BY <1>1, <2>1 DEF Inv, GivenInv
  <1>11. ASSUME NEW q \in Rank, NEW i \in Stages, Complete(i)
         PROVE  Complete(i)' /\ (Rejected(q, i)' <=> Rejected(q, i))
    <2>1. \A r \in Needs(i) : r \in Rank /\ given'[r][i] = given[r][i]
      BY <1>5, <1>10, <1>11, RankFacts DEF Complete, Needs
    <2>2. Complete(i)'
      BY <1>0, <1>11, <2>1 DEF Complete
    <2>3. S(i).op = "compare" => \A r \in Rank : given'[r][i] = given[r][i]
      BY <2>1 DEF Needs, S
    <2>4. Rejected(q, i)' <=> Rejected(q, i)
      BY <1>0, <2>1, <2>3 DEF Rejected, S
    <2> QED
      BY <2>2, <2>4
  <1>12. PassedInv'
    BY <1>0, <1>11 DEF Inv, PassedInv
  <1>13. FailedInv'
    <2> SUFFICES ASSUME NEW q \in Rank, result[q] = "err"
                 PROVE  /\ pc[q] \in Stages /\ IsCollective(pc[q]) /\ ~inside'[q]
                        /\ Complete(pc[q])' /\ Rejected(q, pc[q])'
      BY <1>0 DEF FailedInv
    <2>1. /\ pc[q] \in Stages /\ IsCollective(pc[q]) /\ ~inside[q]
          /\ Complete(pc[q]) /\ Rejected(q, pc[q])
      BY DEF Inv, FailedInv
    <2>2. inside'[q] = inside[q]
      BY <1>1, <1>6
    <2> QED
      BY <1>0, <1>11, <2>1, <2>2
  <1>14. EndedInv' /\ InsideInv'
    <2>1. EndedInv'
      BY <1>0 DEF Inv, EndedInv
    <2>2. InsideInv'
      BY <1>0, <1>1, <1>6 DEF Inv, InsideInv
    <2> QED
      BY <2>1, <2>2
  <1>15. CountInv'
    BY <1>0 DEF Inv, CountInv
  <1>16. ChanInv'
    <2> SUFFICES ASSUME NEW i \in Stages
                 PROVE  IF IsTransfer(i) THEN chan[i] + Received(i)' = Sent(i)' ELSE chan[i] = 0
      BY <1>0 DEF ChanInv
    <2>1. IF IsTransfer(i) THEN chan[i] + Received(i) = Sent(i) ELSE chan[i] = 0
      BY DEF Inv, ChanInv
    <2>2. Received(i)' = Received(i)
      BY <1>0 DEF Received, Done
    <2>3. ~IsTransfer(pc[p])
      BY <1>1, <1>t, StageFacts
    <2>4. IsTransfer(i) => Sent(i)' = Sent(i)
      BY <1>0, <1>6, <2>3, Facts DEF Sent, Done
    <2> QED
      BY <2>1, <2>2, <2>4
  <1> QED
    BY <1>7, <1>8, <1>9, <1>12, <1>13, <1>14, <1>15, <1>16 DEF Inv

(* A rank leaves a complete collective, past it or with an error.          *)
LEMMA LeaveInv ==
  ASSUME Inv, NEW p \in Rank, Leave(p)
  PROVE  Inv'
  <1>0. /\ session' = session /\ given' = given /\ count' = count /\ chan' = chan
    BY DEF Leave
  <1> USE SameStages
  <1>1. /\ result[p] = "run" /\ pc[p] \in Stages /\ IsCollective(pc[p]) /\ inside[p]
        /\ Complete(pc[p])
    BY DEF Leave, At, Stage, IsCollective, S, Complete
  <1>2. inside' = [inside EXCEPT ![p] = FALSE]
    BY DEF Leave
  <1>t. TypeOK /\ inside \in [Rank -> BOOLEAN] /\ result \in [Rank -> {"run", "ok", "err"}]
        /\ pc \in [Rank -> 1 .. Len(Program[session]) + 1]
    BY DEF Inv, TypeOK
  <1>f. /\ Len(Program[session]) \in Nat /\ Stages = 1 .. Len(Program[session])
        /\ \A q \in Rank : pc[q] \in Nat
    BY Facts
  <1>3. /\ inside'[p] = FALSE /\ \A q \in Rank : q # p => inside'[q] = inside[q]
        /\ inside' \in [Rank -> BOOLEAN]
    BY <1>2, <1>t
  <1>4. ~IsTransfer(pc[p]) /\ count[p] = 0
    BY <1>1, <1>t, StageFacts DEF Inv, CountInv, TakesPart
  <1>5. \A q \in Rank : \A i \in Stages :
          (Complete(i)' <=> Complete(i)) /\ (Rejected(q, i)' <=> Rejected(q, i))
    BY <1>0 DEF Complete, Rejected, Needs
  <1>6. OwnInv'
    BY <1>0 DEF Inv, OwnInv
  <1>7. CASE Rejected(p, pc[p])
    <2>1. pc' = pc /\ result' = [result EXCEPT ![p] = "err"]
      BY <1>7 DEF Leave, Fail
    <2>2. /\ result'[p] = "err" /\ \A q \in Rank : q # p => result'[q] = result[q]
          /\ result' \in [Rank -> {"run", "ok", "err"}]
      BY <2>1, <1>t
    <2>3. TypeOK'
      BY <1>0, <1>3, <1>t, <2>1, <2>2 DEF TypeOK
    <2>4. GivenInv'
      <3> SUFFICES ASSUME NEW q \in Rank, NEW i \in Stages
                   PROVE  given[q][i] # "none" <=>
                            /\ IsCollective(i)
                            /\ \/ pc[q] > i
                               \/ pc[q] = i /\ (inside'[q] \/ result'[q] = "err")
        BY <1>0, <2>1 DEF GivenInv
      <3>1. given[q][i] # "none" <=>
              /\ IsCollective(i)
              /\ \/ pc[q] > i
                 \/ pc[q] = i /\ (inside[q] \/ result[q] = "err")
        BY DEF Inv, GivenInv
      <3>2. CASE q = p
        BY <1>1, <2>2, <3>1, <3>2
      <3>3. CASE q # p
        BY <1>3, <2>2, <3>1, <3>3
      <3> QED
        BY <3>2, <3>3
    <2>5. PassedInv'
      BY <1>0, <1>5, <2>1 DEF Inv, PassedInv
    <2>6. FailedInv'
      BY <1>0, <1>1, <1>3, <1>5, <1>7, <2>1, <2>2 DEF Inv, FailedInv
    <2>7. EndedInv' /\ InsideInv'
      BY <1>0, <1>3, <2>1, <2>2 DEF Inv, EndedInv, InsideInv
    <2>8. CountInv'
      BY <1>0, <2>1 DEF Inv, CountInv
    <2>9. ChanInv'
      <3> SUFFICES ASSUME NEW i \in Stages
                   PROVE  IF IsTransfer(i) THEN chan[i] + Received(i)' = Sent(i)' ELSE chan[i] = 0
        BY <1>0 DEF ChanInv
      <3>1. IF IsTransfer(i) THEN chan[i] + Received(i) = Sent(i) ELSE chan[i] = 0
        BY DEF Inv, ChanInv
      <3>2. Received(i)' = Received(i)
        BY <1>0, <2>1 DEF Received, Done
      <3>3. IsTransfer(i) => Sent(i)' = Sent(i)
        BY <1>0, <1>3, <1>4, <2>1, Facts DEF Sent, Done
      <3> QED
        BY <3>1, <3>2, <3>3
    <2> QED
      BY <1>6, <2>3, <2>4, <2>5, <2>6, <2>7, <2>8, <2>9 DEF Inv
  <1>8. CASE ~Rejected(p, pc[p])
    <2>1. pc' = [pc EXCEPT ![p] = @ + 1] /\ result' = result
      BY <1>8 DEF Leave, Proceed
    <2>2. /\ pc'[p] = pc[p] + 1 /\ \A q \in Rank : q # p => pc'[q] = pc[q]
          /\ pc' \in [Rank -> 1 .. Len(Program[session]) + 1]
      BY <1>1, <1>f, <1>t, <2>1
    <2>3. TypeOK'
      BY <1>0, <1>3, <1>t, <2>1, <2>2 DEF TypeOK
    <2>4. \A i \in Stages : (pc'[p] > i <=> (pc[p] > i \/ pc[p] = i))
      BY <1>f, <2>2
    <2>5. GivenInv'
      <3> SUFFICES ASSUME NEW q \in Rank, NEW i \in Stages
                   PROVE  given[q][i] # "none" <=>
                            /\ IsCollective(i)
                            /\ \/ pc'[q] > i
                               \/ pc'[q] = i /\ (inside'[q] \/ result[q] = "err")
        BY <1>0, <2>1 DEF GivenInv
      <3>1. given[q][i] # "none" <=>
              /\ IsCollective(i)
              /\ \/ pc[q] > i
                 \/ pc[q] = i /\ (inside[q] \/ result[q] = "err")
        BY DEF Inv, GivenInv
      <3>2. CASE q = p
        BY <1>1, <1>3, <2>4, <3>1, <3>2
      <3>3. CASE q # p
        BY <1>3, <2>2, <3>1, <3>3
      <3> QED
        BY <3>2, <3>3
    <2>6. PassedInv'
      <3> SUFFICES ASSUME NEW q \in Rank, NEW i \in Stages, pc'[q] > i, IsCollective(i)
                   PROVE  Complete(i) /\ ~Rejected(q, i)
        BY <1>0, <1>5 DEF PassedInv
      <3>1. CASE pc[q] > i
        BY <3>1 DEF Inv, PassedInv
      <3>2. CASE q = p /\ i = pc[p]
        BY <1>1, <1>8, <3>2
      <3> QED
        BY <2>2, <2>4, <3>1, <3>2
    <2>7. FailedInv'
      BY <1>0, <1>1, <1>3, <1>5, <2>1, <2>2 DEF Inv, FailedInv
    <2>8. EndedInv' /\ InsideInv'
      BY <1>0, <1>1, <1>3, <2>1, <2>2 DEF Inv, EndedInv, InsideInv
    <2>9. CountInv'
      <3> SUFFICES ASSUME NEW q \in Rank
                   PROVE  IF pc'[q] \in Stages /\ TakesPart(q, pc'[q])
                          THEN count[q] < S(pc'[q]).k ELSE count[q] = 0
        BY <1>0 DEF CountInv
      <3>1. CASE q # p
        BY <2>2, <3>1 DEF Inv, CountInv
      <3>2. CASE q = p
        <4>1. pc'[q] \in Stages /\ TakesPart(q, pc'[q]) => S(pc'[q]).k > 0
          BY <1>t, StageFacts DEF TakesPart
        <4> QED
          BY <1>4, <3>2, <4>1
      <3> QED
        BY <3>1, <3>2
    <2>10. ChanInv'
      <3> SUFFICES ASSUME NEW i \in Stages
                   PROVE  IF IsTransfer(i) THEN chan[i] + Received(i)' = Sent(i)' ELSE chan[i] = 0
        BY <1>0 DEF ChanInv
      <3>1. IF IsTransfer(i) THEN chan[i] + Received(i) = Sent(i) ELSE chan[i] = 0
        BY DEF Inv, ChanInv
      <3>2. CASE IsTransfer(i)
        <4>1. i # pc[p] /\ (pc'[p] > i <=> pc[p] > i) /\ count[p] = 0 /\ ~inside'[p]
          BY <1>3, <1>4, <2>4, <3>2
        <4>2. S(i).to \in Rank /\ S(i).src \in Rank
          BY Facts, RankFacts
        <4>3. Received(i)' = Received(i)
          BY <1>0, <2>2, <4>1, <4>2 DEF Received, Done
        <4>4. Sent(i)' = Sent(i)
          BY <1>0, <1>3, <2>2, <4>1, <4>2 DEF Sent, Done
        <4> QED
          BY <3>1, <3>2, <4>3, <4>4
      <3> QED
        BY <3>1, <3>2
    <2> QED
      BY <1>6, <2>3, <2>5, <2>6, <2>7, <2>8, <2>9, <2>10 DEF Inv
  <1> QED
    BY <1>7, <1>8

(* A rank is done with one more message of the transfer it is at.          *)
LEMMA CountMessageInv ==
  ASSUME Inv, NEW p \in Rank, result[p] = "run", pc[p] \in Stages,
         TakesPart(p, pc[p]),
         CountMessage(p), session' = session, given' = given,
         inside'[p] = FALSE, inside' \in [Rank -> BOOLEAN],
         \A q \in Rank : q # p => inside'[q] = inside[q]
  PROVE  /\ result' = result
         /\ pc' \in [Rank -> 1 .. Len(Program[session]) + 1]
         /\ count' \in [Rank -> Nat]
         /\ GivenInv' /\ OwnInv' /\ PassedInv' /\ FailedInv' /\ EndedInv'
         /\ InsideInv' /\ CountInv'
         /\ \A q \in Rank : q # p => pc'[q] = pc[q]
         /\ \A q \in Rank : \A i \in Stages :
              Done(q, i)' = IF q = p /\ i = pc[p] THEN Done(q, i) + 1 ELSE Done(q, i)
  <1> USE SameStages
  <1>t. /\ TypeOK /\ pc \in [Rank -> 1 .. Len(Program[session]) + 1]
        /\ count \in [Rank -> Nat]
    BY DEF Inv, TypeOK
  <1>f. /\ Len(Program[session]) \in Nat /\ Stages = 1 .. Len(Program[session])
        /\ \A q \in Rank : pc[q] \in Nat /\ count[q] \in Nat
        /\ \A i \in Stages : S(i).k \in Nat
    BY Facts
  <1>1. Stage(p) = S(pc[p]) /\ count[p] < S(pc[p]).k /\ ~IsCollective(pc[p])
    BY <1>t, StageFacts DEF Stage, S, Inv, CountInv, TakesPart
  <1>2. \/ /\ count[p] + 1 = S(pc[p]).k
           /\ count' = [count EXCEPT ![p] = 0]
           /\ pc' = [pc EXCEPT ![p] = @ + 1]
           /\ result' = result
        \/ /\ count[p] + 1 # S(pc[p]).k
           /\ count' = [count EXCEPT ![p] = @ + 1]
           /\ pc' = pc /\ result' = result
    BY <1>1 DEF CountMessage, Proceed
  <1>3. /\ result' = result
        /\ pc' \in [Rank -> 1 .. Len(Program[session]) + 1]
        /\ count' \in [Rank -> Nat]
        /\ \A q \in Rank : q # p => pc'[q] = pc[q] /\ count'[q] = count[q]
        /\ \/ count[p] + 1 = S(pc[p]).k /\ count'[p] = 0 /\ pc'[p] = pc[p] + 1
           \/ count[p] + 1 # S(pc[p]).k /\ count'[p] = count[p] + 1 /\ pc'[p] = pc[p]
    <2>1. CASE count[p] + 1 = S(pc[p]).k
      BY <1>2, <1>t, <1>f, <2>1
    <2>2. CASE count[p] + 1 # S(pc[p]).k
      BY <1>2, <1>t, <1>f, <2>2
    <2> QED
      BY <2>1, <2>2
  <1>4. \A q \in Rank : \A i \in Stages :
          IsCollective(i) => /\ pc'[q] > i <=> pc[q] > i
                             /\ pc'[q] = i => pc[q] = i \/ q = p
                             /\ q = p => pc[q] # i
                             /\ q # p => (pc'[q] = i <=> pc[q] = i)
    <2> SUFFICES ASSUME NEW q \in Rank, NEW i \in Stages, IsCollective(i)
                 PROVE  /\ pc'[q] > i <=> pc[q] > i
                        /\ pc'[q] = i => pc[q] = i \/ q = p
                        /\ q = p => pc[q] # i
                        /\ q # p => (pc'[q] = i <=> pc[q] = i)
      OBVIOUS
    <2>1. i # pc[p] /\ i \in Nat /\ pc[p] \in Nat
      BY <1>1, <1>f
    <2>2. CASE q = p
      BY <1>3, <2>1, <2>2
    <2>3. CASE q # p
      BY <1>3, <2>3
    <2> QED
      BY <2>2, <2>3
  <1>5. GivenInv'
    <2> SUFFICES ASSUME NEW q \in Rank, NEW i \in Stages
                 PROVE  given[q][i] # "none" <=>
                          /\ IsCollective(i)
                          /\ \/ pc'[q] > i
                             \/ pc'[q] = i /\ (inside'[q] \/ result[q] = "err")
      BY <1>3 DEF GivenInv
    <2>1. given[q][i] # "none" <=>
            /\ IsCollective(i)
            /\ \/ pc[q] > i
               \/ pc[q] = i /\ (inside[q] \/ result[q] = "err")
      BY DEF Inv, GivenInv
    <2>2. CASE q = p
      BY <1>4, <2>1, <2>2
    <2>3. CASE q # p
      BY <1>3, <2>1, <2>3
    <2> QED
      BY <2>2, <2>3
  <1>6. OwnInv'
    BY DEF Inv, OwnInv
  <1>7. \A q \in Rank : \A i \in Stages :
          (Complete(i)' <=> Complete(i)) /\ (Rejected(q, i)' <=> Rejected(q, i))
    BY DEF Complete, Rejected, Needs
  <1>8. PassedInv'
    BY <1>4, <1>7 DEF Inv, PassedInv
  <1>9. FailedInv'
    <2>1. \A q \in Rank : result[q] = "err" => q # p
      OBVIOUS
    <2> QED
      BY <1>3, <1>7, <2>1 DEF Inv, FailedInv
  <1>10. EndedInv'
    <2>1. \A q \in Rank : result[q] = "ok" => q # p
      OBVIOUS
    <2> QED
      BY <1>3, <2>1 DEF Inv, EndedInv
  <1>11. InsideInv'
    <2>1. \A q \in Rank : inside'[q] => q # p /\ inside[q]
      OBVIOUS
    <2> QED
      BY <1>3, <2>1 DEF Inv, InsideInv
  <1>12. CountInv'
    <2> SUFFICES ASSUME NEW q \in Rank
                 PROVE  IF pc'[q] \in Stages /\ TakesPart(q, pc'[q])
                        THEN count'[q] < S(pc'[q]).k ELSE count'[q] = 0
      BY DEF CountInv
    <2>1. CASE q # p
      BY <1>3, <2>1 DEF Inv, CountInv
    <2>2. CASE q = p /\ pc'[p] = pc[p]
      BY <1>1, <1>3, <1>f, <2>2
    <2>3. CASE q = p /\ pc'[p] = pc[p] + 1
      <3>1. pc'[q] \in Stages /\ TakesPart(q, pc'[q]) => S(pc'[q]).k > 0
        BY <1>t, StageFacts DEF TakesPart
      <3>2. count'[q] = 0
        BY <1>3, <1>f, <2>3
      <3> QED
        BY <3>1, <3>2
    <2> QED
      BY <1>3, <2>1, <2>2, <2>3
  <1>13. ASSUME NEW q \in Rank, NEW i \in Stages
         PROVE  Done(q, i)' = IF q = p /\ i = pc[p] THEN Done(q, i) + 1 ELSE Done(q, i)
    <2>0. S(i)' = S(i) /\ i \in Nat
      BY <1>f
    <2>1. CASE q # p
      BY <1>3, <2>0, <2>1 DEF Done
    <2>2. CASE q = p /\ i = pc[p]
      <3>1. Done(q, i) = count[p]
        BY <1>f, <2>2 DEF Done
      <3>2. Done(q, i)' = count[p] + 1
        BY <1>3, <1>f, <2>0, <2>2 DEF Done
      <3> QED
        BY <2>2, <3>1, <3>2
    <2>3. CASE q = p /\ i # pc[p]
      <3>1. pc'[q] > i <=> pc[q] > i
        BY <1>3, <1>f, <2>0, <2>3
      <3>2. pc'[q] = i => count'[q] = 0
        BY <1>3, <1>f, <2>0, <2>3
      <3>3. Done(q, i)' = IF pc[q] > i THEN S(i).k ELSE 0
        BY <2>0, <3>1, <3>2 DEF Done
      <3>4. Done(q, i) = IF pc[q] > i THEN S(i).k ELSE 0
        BY <2>3 DEF Done
      <3> QED
        BY <2>3, <3>3, <3>4
    <2> QED
      BY <2>1, <2>2, <2>3
  <1> QED
    BY <1>3, <1>5, <1>6, <1>8, <1>9, <1>10, <1>11, <1>12, <1>13

LEMMA SendDoneInv ==
  ASSUME Inv, NEW p \in Rank, SendReceived(p) \/ SendBuffered(p)
  PROVE  Inv'
  <1> USE SameStages
  <1>1. /\ result[p] = "run" /\ pc[p] \in Stages /\ IsTransfer(pc[p]) /\ p = S(pc[p]).src
        /\ inside[p] /\ CountMessage(p) /\ session' = session /\ given' = given
        /\ chan' = chan /\ inside' = [inside EXCEPT ![p] = FALSE]
    BY DEF SendReceived, SendBuffered, At, Stage, IsTransfer, S
  <1>2. /\ inside'[p] = FALSE /\ inside' \in [Rank -> BOOLEAN]
        /\ \A q \in Rank : q # p => inside'[q] = inside[q]
    BY <1>1 DEF Inv, TypeOK
  <1>3. /\ result' = result
        /\ pc' \in [Rank -> 1 .. Len(Program[session]) + 1]
        /\ count' \in [Rank -> Nat]
        /\ GivenInv' /\ OwnInv' /\ PassedInv' /\ FailedInv' /\ EndedInv'
        /\ InsideInv' /\ CountInv'
        /\ \A q \in Rank : q # p => pc'[q] = pc[q]
        /\ \A q \in Rank : \A i \in Stages :
             Done(q, i)' = IF q = p /\ i = pc[p] THEN Done(q, i) + 1 ELSE Done(q, i)
    BY <1>1, <1>2, CountMessageInv DEF TakesPart
  <1>4. TypeOK'
    BY <1>1, <1>2, <1>3 DEF Inv, TypeOK
  <1>5. ChanInv'
    <2> SUFFICES ASSUME NEW i \in Stages
                 PROVE  IF IsTransfer(i) THEN chan[i] + Received(i)' = Sent(i)' ELSE chan[i] = 0
      BY <1>1 DEF ChanInv
    <2>1. IF IsTransfer(i) THEN chan[i] + Received(i) = Sent(i) ELSE chan[i] = 0
      BY DEF Inv, ChanInv
    <2>2. CASE IsTransfer(i)
      <3>1. S(i).to \in Rank /\ S(i).to # S(i).src /\ S(i).src \in Rank
        BY <2>2, StageFacts, RankFacts DEF Inv
      <3>2. Received(i)' = Received(i)
        BY <1>1, <1>3, <3>1 DEF Received
      <3>3. Done(S(i).src, i) \in Nat
        BY <3>1, Facts DEF Done
      <3>4. Sent(i)' = Sent(i)
        BY <1>1, <1>2, <1>3, <3>1, <3>3 DEF Sent
      <3> QED
        BY <2>1, <2>2, <3>2, <3>4
    <2> QED
      BY <2>1, <2>2
  <1> QED
    BY <1>3, <1>4, <1>5 DEF Inv

LEMMA ReceiveInv ==
  ASSUME Inv, NEW p \in Rank, Receive(p)
  PROVE  Inv'
  <1> USE SameStages
  <1>1. /\ result[p] = "run" /\ pc[p] \in Stages /\ IsTransfer(pc[p])
        /\ p = S(pc[p]).to /\ CountMessage(p) /\ session' = session /\ given' = given
        /\ chan' = [chan EXCEPT ![pc[p]] = @ - 1] /\ inside' = inside
        /\ chan[pc[p]] > 0
    BY DEF Receive, Receives, At, Stage, IsTransfer, S
  <1>t. TypeOK /\ chan \in [Stages -> Nat]
    BY DEF Inv, TypeOK
  <1>2. p # S(pc[p]).src /\ ~IsCollective(pc[p])
    BY <1>1, <1>t, StageFacts
  <1>3. inside'[p] = FALSE /\ inside' \in [Rank -> BOOLEAN]
    BY <1>1, <1>2 DEF Inv, InsideInv, TypeOK
  <1>4. /\ result' = result
        /\ pc' \in [Rank -> 1 .. Len(Program[session]) + 1]
        /\ count' \in [Rank -> Nat]
        /\ GivenInv' /\ OwnInv' /\ PassedInv' /\ FailedInv' /\ EndedInv'
        /\ InsideInv' /\ CountInv'
        /\ \A q \in Rank : q # p => pc'[q] = pc[q]
        /\ \A q \in Rank : \A i \in Stages :
             Done(q, i)' = IF q = p /\ i = pc[p] THEN Done(q, i) + 1 ELSE Done(q, i)
    BY <1>1, <1>3, CountMessageInv DEF TakesPart
  <1>5. /\ chan' \in [Stages -> Nat] /\ chan'[pc[p]] = chan[pc[p]] - 1
        /\ \A i \in Stages : i # pc[p] => chan'[i] = chan[i]
    BY <1>1, <1>t
  <1>6. TypeOK'
    BY <1>1, <1>3, <1>4, <1>5, <1>t DEF TypeOK
  <1>7. ChanInv'
    <2> SUFFICES ASSUME NEW i \in Stages
                 PROVE  IF IsTransfer(i) THEN chan'[i] + Received(i)' = Sent(i)' ELSE chan'[i] = 0
      BY <1>1 DEF ChanInv
    <2>1. IF IsTransfer(i) THEN chan[i] + Received(i) = Sent(i) ELSE chan[i] = 0
      BY DEF Inv, ChanInv
    <2>2. CASE IsTransfer(i)
      <3>1. /\ S(i).to \in Rank /\ S(i).src \in Rank /\ chan[i] \in Nat
            /\ S(i)' = S(i)
        BY Facts, RankFacts, <1>1
      <3>2. Done(S(i).to, i) \in Nat
        BY <3>1, Facts DEF Done
      <3>3. Sent(i)' = Sent(i)
        <4>1. CASE p = S(i).src
          <5>1. i # pc[p]
            BY <1>2, <4>1
          <5>2. Done(p, i)' = Done(p, i)
            BY <1>4, <5>1
          <5>3. ~inside[p] /\ ~inside'[p]
            BY <1>2, <1>3 DEF Inv, InsideInv
          <5> QED
            BY <3>1, <4>1, <5>2, <5>3 DEF Sent
        <4>2. CASE p # S(i).src
          <5>1. /\ Done(S(i).src, i)' = Done(S(i).src, i)
                /\ pc'[S(i).src] = pc[S(i).src]
            BY <1>4, <3>1, <4>2
          <5> QED
            BY <1>1, <3>1, <5>1 DEF Sent
        <4> QED
          BY <4>1, <4>2
      <3>4. CASE i = pc[p]
        <4>1. Received(i)' = Received(i) + 1
          BY <1>1, <1>4, <3>1, <3>4 DEF Received
        <4>2. Received(i) \in Nat
          BY <3>2 DEF Received
        <4> QED
          BY <1>5, <2>1, <2>2, <3>1, <3>3, <3>4, <4>1, <4>2
      <3>5. CASE i # pc[p]
        <4>1. Received(i)' = Received(i)
          BY <1>4, <3>1, <3>5 DEF Received
        <4> QED
          BY <1>5, <2>1, <2>2, <3>3, <3>5, <4>1
      <3> QED
        BY <3>4, <3>5
    <2>3. CASE ~IsTransfer(i)
      BY <1>1, <1>5, <2>1, <2>3
    <2> QED
      BY <2>2, <2>3
  <1> QED
    BY <1>4, <1>6, <1>7 DEF Inv

LEMMA SendInv ==
  ASSUME Inv, NEW p \in Rank, Send(p)
  PROVE  Inv'
  <1> USE SameStages
  <1>1. /\ result[p] = "run" /\ pc[p] \in Stages /\ IsTransfer(pc[p]) /\ p = S(pc[p]).src
        /\ ~inside[p] /\ session' = session /\ pc' = pc /\ given' = given
        /\ count' = count /\ result' = result
        /\ chan' = [chan EXCEPT ![pc[p]] = @ + 1]
        /\ inside' = [inside EXCEPT ![p] = TRUE]
    BY DEF Send, At, Stage, IsTransfer, S
  <1>t. TypeOK /\ chan \in [Stages -> Nat] /\ inside \in [Rank -> BOOLEAN]
    BY DEF Inv, TypeOK
  <1>2. /\ inside'[p] = TRUE /\ inside' \in [Rank -> BOOLEAN]
        /\ \A q \in Rank : q # p => inside'[q] = inside[q]
    BY <1>1, <1>t
  <1>3. /\ chan' \in [Stages -> Nat] /\ chan'[pc[p]] = chan[pc[p]] + 1
        /\ \A i \in Stages : i # pc[p] => chan'[i] = chan[i]
    BY <1>1, <1>t
  <1>4. TypeOK'
    BY <1>1, <1>2, <1>3, <1>t DEF TypeOK
  <1>5. ~IsCollective(pc[p])
    BY <1>1, <1>t, StageFacts
  <1>6. GivenInv'
    BY <1>1, <1>2, <1>5 DEF Inv, GivenInv
  <1>7. \A q \in Rank : \A i \in Stages :
          (Complete(i)' <=> Complete(i)) /\ (Rejected(q, i)' <=> Rejected(q, i))
    BY <1>1 DEF Complete, Rejected, Needs
  <1>8. OwnInv' /\ PassedInv' /\ EndedInv' /\ CountInv'
    BY <1>1, <1>7 DEF Inv, OwnInv, PassedInv, EndedInv, CountInv
  <1>9. FailedInv'
    <2>1. \A q \in Rank : result[q] = "err" => inside'[q] = inside[q]
      BY <1>1, <1>2
    <2> QED
      BY <1>1, <1>7, <2>1 DEF Inv, FailedInv
  <1>10. InsideInv'
    BY <1>1, <1>2 DEF Inv, InsideInv
  <1>11. ChanInv'
    <2> SUFFICES ASSUME NEW i \in Stages
                 PROVE  IF IsTransfer(i) THEN chan'[i] + Received(i)' = Sent(i)' ELSE chan'[i] = 0
      BY <1>1 DEF ChanInv
    <2>1. IF IsTransfer(i) THEN chan[i] + Received(i) = Sent(i) ELSE chan[i] = 0
      BY DEF Inv, ChanInv
    <2>2. Received(i)' = Received(i)
      BY <1>1 DEF Received, Done
    <2>3. CASE i = pc[p]
      <3>1. S(i).to \in Rank /\ S(i).src \in Rank /\ chan[i] \in Nat
        BY Facts, RankFacts
      <3>2. Received(i) \in Nat /\ Done(S(i).src, i) \in Nat
        BY <3>1, Facts DEF Received, Done
      <3>3. Done(S(i).src, i)' = Done(S(i).src, i)
        BY <1>1 DEF Done
      <3>4. Sent(i)' = Sent(i) + 1
        BY <1>1, <1>2, <2>3, <3>2, <3>3 DEF Sent
      <3> QED
        BY <1>1, <1>3, <2>1, <2>2, <2>3, <3>1, <3>2, <3>4
    <2>4. CASE i # pc[p]
      <3>1. Sent(i)' = Sent(i)
        BY <1>1, <1>2, <2>4 DEF Sent, Done
      <3> QED
        BY <1>3, <2>1, <2>2, <2>4, <3>1
    <2> QED
      BY <2>3, <2>4
  <1> QED
    BY <1>4, <1>6, <1>8, <1>9, <1>10, <1>11 DEF Inv

LEMMA ReturnInv ==
  ASSUME Inv, NEW p \in Rank, Return(p)
  PROVE  Inv'
  <1> USE SameStages
  <1>1. /\ result[p] = "run" /\ pc[p] \notin Stages /\ session' = session /\ pc' = pc
        /\ inside' = inside /\ given' = given /\ count' = count /\ chan' = chan
        /\ result' = [result EXCEPT ![p] = "ok"]
    BY DEF Return
  <1>2. /\ result'[p] = "ok" /\ \A q \in Rank : q # p => result'[q] = result[q]
        /\ result' \in [Rank -> {"run", "ok", "err"}]
    BY <1>1 DEF Inv, TypeOK
  <1>3. TypeOK'
    BY <1>1, <1>2 DEF Inv, TypeOK
  <1>4. GivenInv'
    BY <1>1, <1>2 DEF Inv, GivenInv
  <1>5. \A q \in Rank : \A i \in Stages :
          (Complete(i)' <=> Complete(i)) /\ (Rejected(q, i)' <=> Rejected(q, i))
    BY <1>1 DEF Complete, Rejected, Needs
  <1>6. OwnInv' /\ PassedInv' /\ InsideInv' /\ CountInv'
    BY <1>1, <1>5 DEF Inv, OwnInv, PassedInv, InsideInv, CountInv
  <1>7. FailedInv' /\ EndedInv'
    BY <1>1, <1>2, <1>5 DEF Inv, FailedInv, EndedInv
  <1>8. ChanInv'
    BY <1>1 DEF Inv, ChanInv, Sent, Received, Done
  <1> QED
    BY <1>3, <1>4, <1>6, <1>7, <1>8 DEF Inv

-----------------------------------------------------------------------------
(* The invariant is inductive when every check is agreed on.               *)
LEMMA StepInv == Agreed /\ Inv /\ [Next]_vars => Inv'
  <1> SUFFICES ASSUME Agreed, Inv, [Next]_vars PROVE Inv'
    OBVIOUS
  <1>t. TypeOK
    BY DEF Inv
  <1>1. ASSUME NEW p \in Rank, LocalStep(p) PROVE Inv'
    <2>1. /\ result[p] = "run" /\ pc[p] \in Stages /\ S(pc[p]).op = "fallible"
          /\ UNCHANGED <<session, inside, given, count, chan>>
      BY <1>1 DEF LocalStep, At, Stage, S
    <2>2. Stage(p).why \notin Causes
      BY <1>t, <2>1 DEF Agreed, Stage, S, Stages, TypeOK
    <2>3. Proceed(p)
      BY <1>1, <2>2 DEF LocalStep
    <2>4. ~IsCollective(pc[p]) /\ ~IsTransfer(pc[p])
      BY <1>t, <2>1, StageFacts
    <2>5. ~inside[p] /\ count[p] = 0
      BY <2>1, <2>4 DEF Inv, InsideInv, CountInv, TakesPart
    <2> QED
      BY <2>1, <2>3, <2>4, <2>5, SkipInv
  <1>2. ASSUME NEW p \in Rank, PassBy(p) PROVE Inv'
    <2>1. /\ result[p] = "run" /\ pc[p] \in Stages /\ IsTransfer(pc[p])
          /\ p # S(pc[p]).src /\ p # S(pc[p]).to /\ Proceed(p)
          /\ UNCHANGED <<session, inside, given, count, chan>>
      BY <1>2 DEF PassBy, At, Stage, S, IsTransfer, Receives
    <2>2. ~IsCollective(pc[p])
      BY <1>t, <2>1, StageFacts
    <2>3. ~inside[p] /\ count[p] = 0
      BY <2>1, <2>2 DEF Inv, InsideInv, CountInv, TakesPart
    <2> QED
      BY <2>1, <2>2, <2>3, SkipInv
  <1>3. ASSUME NEW p \in Rank, Step(p) \/ SendBuffered(p) PROVE Inv'
    BY <1>1, <1>2, <1>3, EnterInv, LeaveInv, SendInv, SendDoneInv, ReceiveInv,
       ReturnInv DEF Step
  <1>4. ASSUME UNCHANGED vars PROVE Inv'
    BY <1>4 DEF vars, Inv, TypeOK, Stages, GivenInv, OwnInv, PassedInv, FailedInv,
       EndedInv, InsideInv, CountInv, TakesPart, ChanInv, Sent, Received, Done, S, IsTransfer,
       IsCollective, Complete, Needs, Rejected
  <1> QED
    BY <1>3, <1>4 DEF Next
-----------------------------------------------------------------------------
LEMMA Inductive == Agreed => (Spec => []Inv)
  <1>1. Agreed /\ Init => Inv
    BY InitInv
  <1>2. Agreed /\ Inv /\ [Next]_vars => Inv'
    BY StepInv
  <1>3. Agreed => Agreed'
    BY DEF Agreed
  <1> QED
    BY <1>1, <1>2, <1>3, PTL DEF Spec

(* The message counts of the two sides of a transfer bound each other.     *)
LEMMA TransferFacts ==
  ASSUME Inv, NEW i \in Stages, IsTransfer(i)
  PROVE  /\ S(i).src \in Rank /\ S(i).to \in Rank /\ S(i).to # S(i).src
         /\ S(i).k \in Nat /\ S(i).k > 0
         /\ chan[i] \in Nat /\ Sent(i) \in Nat /\ Received(i) \in Nat
         /\ chan[i] + Received(i) = Sent(i) /\ Sent(i) <= S(i).k
         /\ Received(i) <= S(i).k /\ ~IsCollective(i)
         /\ pc[S(i).src] > i => Sent(i) = S(i).k
         /\ pc[S(i).to] > i => Received(i) = S(i).k
         /\ pc[S(i).to] = i => Received(i) < S(i).k
  <1>1. /\ S(i).to \in Rank /\ S(i).to # S(i).src /\ S(i).k \in Nat /\ S(i).k > 0
        /\ ~IsCollective(i) /\ i \in Nat /\ chan[i] \in Nat /\ S(i).src \in Rank
        /\ \A q \in Rank : pc[q] \in Nat /\ count[q] \in Nat /\ inside[q] \in BOOLEAN
    BY StageFacts, Facts, RankFacts DEF Inv
  <1>2. chan[i] + Received(i) = Sent(i)
    BY DEF Inv, ChanInv
  <1>3. ASSUME NEW q \in Rank, q = S(i).src \/ q = S(i).to
        PROVE  /\ Done(q, i) \in Nat /\ Done(q, i) <= S(i).k
               /\ pc[q] > i => Done(q, i) = S(i).k
               /\ pc[q] = i => Done(q, i) < S(i).k
    <2>1. pc[q] = i => count[q] < S(i).k
      BY <1>3 DEF Inv, CountInv, TakesPart
    <2> QED
      BY <1>1, <2>1 DEF Done
  <1>4. /\ Received(i) \in Nat /\ Received(i) <= S(i).k
        /\ pc[S(i).to] > i => Received(i) = S(i).k
        /\ pc[S(i).to] = i => Received(i) < S(i).k
    BY <1>1, <1>3 DEF Received
  <1>5. /\ Sent(i) \in Nat /\ Sent(i) <= S(i).k
        /\ pc[S(i).src] > i => Sent(i) = S(i).k
    <2>1. /\ Done(S(i).src, i) \in Nat /\ Done(S(i).src, i) <= S(i).k
          /\ pc[S(i).src] > i => Done(S(i).src, i) = S(i).k
          /\ pc[S(i).src] = i => Done(S(i).src, i) < S(i).k
      BY <1>1, <1>3
    <2>2. CASE pc[S(i).src] = i /\ inside[S(i).src]
      BY <1>1, <2>1, <2>2 DEF Sent
    <2>3. CASE ~(pc[S(i).src] = i /\ inside[S(i).src])
      <3>1. Sent(i) = Done(S(i).src, i)
        BY <1>1, <2>1, <2>3 DEF Sent
      <3> QED
        BY <2>1, <3>1
    <2> QED
      BY <2>2, <2>3
  <1> QED
    BY <1>1, <1>2, <1>4, <1>5

(* A rank that has returned is past every stage another rank still runs,   *)
(* or failed at a collective that no rank is past.                         *)
LEMMA GoneFacts ==
  ASSUME Inv, NEW p \in Rank, NEW q \in Rank, Gone(q), pc[p] \in Stages
  PROVE  \/ pc[q] > pc[p]
         \/ pc[q] = pc[p] /\ result[q] = "err" /\ IsCollective(pc[p])
  <1>1. result[q] \in {"ok", "err"}
    BY DEF Inv, TypeOK, Gone
  <1>2. CASE result[q] = "ok"
    <2>1. pc[q] \notin Stages
      BY <1>2 DEF Inv, EndedInv
    <2> QED
      BY <2>1, Facts
  <1>3. CASE result[q] = "err"
    <2>1. pc[p] <= pc[q] /\ pc[p] \in Nat /\ pc[q] \in Nat
      BY <1>3, NotPastFailure
    <2>2. IsCollective(pc[q])
      BY <1>3 DEF Inv, FailedInv
    <2> QED
      BY <1>3, <2>1, <2>2
  <1> QED
    BY <1>1, <1>2, <1>3

(* Every state of a run is typed.                                          *)
THEOREM TypeCorrect == Agreed => (Spec => []TypeOK)
  <1>1. Inv => TypeOK
    BY DEF Inv
  <1> QED
    BY <1>1, Inductive, PTL

(* When all checks are agreed on, no rank waits in an MPI call for a rank  *)
(* that has returned without taking part in it.                            *)
THEOREM NobodyStranded == Agreed => (Spec => []NoRankStranded)
  <1>1. ASSUME Inv PROVE NoRankStranded
    <2>1. ASSUME NEW p \in Rank, At(p, Collectives), inside[p],
                 NEW q \in Needs(pc[p]), Gone(q)
          PROVE  given[q][pc[p]] # "none"
      <3>1. pc[p] \in Stages /\ IsCollective(pc[p])
        BY <2>1 DEF At, Stage, S, IsCollective
      <3>2. q \in Rank
        BY RankFacts DEF Needs
      <3>3. pc[q] > pc[p] \/ (pc[q] = pc[p] /\ result[q] = "err")
        BY <1>1, <2>1, <3>1, <3>2, GoneFacts
      <3> QED
        BY <1>1, <3>1, <3>2, <3>3 DEF Inv, GivenInv
    <2>2. ASSUME NEW p \in Rank, At(p, {"transfer"}), Receives(p), chan[pc[p]] = 0,
                 Gone(Stage(p).src)
          PROVE  FALSE
      <3>1. pc[p] \in Stages /\ IsTransfer(pc[p]) /\ p = S(pc[p]).to
        BY <2>2 DEF At, Stage, S, IsTransfer, Receives
      <3>2. ~IsCollective(pc[p])
        BY <1>1, <3>1, TransferFacts
      <3>5. Stage(p) = S(pc[p]) /\ S(pc[p]).src \in Rank
        BY <1>1, <3>1, TransferFacts DEF Stage, S
      <3>3. pc[S(pc[p]).src] > pc[p]
        BY <1>1, <2>2, <3>1, <3>2, <3>5, GoneFacts
      <3>4. Sent(pc[p]) = S(pc[p]).k /\ Received(pc[p]) < S(pc[p]).k
        BY <1>1, <3>1, <3>3, TransferFacts
      <3> QED
        BY <1>1, <2>2, <3>1, <3>4, TransferFacts
    <2>3. ASSUME NEW p \in Rank, At(p, {"transfer"}), p = Stage(p).src, inside[p],
                 chan[pc[p]] > 0, Gone(Stage(p).to)
          PROVE  FALSE
      <3>1. pc[p] \in Stages /\ IsTransfer(pc[p]) /\ Stage(p) = S(pc[p])
        BY <2>3 DEF At, Stage, S, IsTransfer
      <3>2. ~IsCollective(pc[p]) /\ S(pc[p]).to \in Rank
        BY <1>1, <3>1, TransferFacts
      <3>3. pc[S(pc[p]).to] > pc[p]
        BY <1>1, <2>3, <3>1, <3>2, GoneFacts
      <3>4. Received(pc[p]) = S(pc[p]).k
        BY <1>1, <3>1, <3>3, TransferFacts
      <3> QED
        BY <1>1, <2>3, <3>1, <3>4, TransferFacts
    <2> QED
      BY <2>1, <2>2, <2>3 DEF NoRankStranded
  <1> QED
    BY <1>1, Inductive, PTL

(* When all checks are agreed on, no rank succeeds where another fails.    *)
THEOREM OneVerdict == Agreed => (Spec => []SameVerdict)
  <1>1. ASSUME Inv PROVE SameVerdict
    <2> SUFFICES ASSUME NEW p \in Rank, NEW q \in Rank, result[p] = "ok", result[q] = "err"
                 PROVE  FALSE
      BY DEF SameVerdict
    <2>1. pc[p] \notin Stages /\ pc[q] \in Stages
      BY <1>1 DEF Inv, EndedInv, FailedInv
    <2>2. pc[p] <= pc[q]
      BY <1>1, NotPastFailure
    <2> QED
      BY <1>1, <2>1, <2>2, Facts
  <1> QED
    BY <1>1, Inductive, PTL

(* When all checks are agreed on, a rank goes on after a stage only if no  *)
(* rank reports a failure in it.                                           *)
THEOREM FailuresReachAll == Agreed => (Spec => []NoFailureLost)
  <1>1. ASSUME Inv PROVE NoFailureLost
    <2> SUFFICES ASSUME NEW p \in Rank, NEW q \in Rank, NEW i \in Stages,
                        pc[p] > i, given[q][i] = "bad"
                 PROVE  FALSE
      BY DEF NoFailureLost
    <2>2. IsCollective(i)
      BY <1>1 DEF Inv, GivenInv
    <2>3. q \in Needs(i)
      <3>1. q \in S(i).by
        BY <1>1 DEF Inv, OwnInv
      <3>2. S(i).op = "broadcast" => S(i).by \subseteq {Root}
        BY <1>1, StageFacts DEF Inv
      <3> QED
        BY <3>1, <3>2 DEF Needs, S
    <2>4. Rejected(p, i)
      BY <2>3 DEF Rejected
    <2> QED
      BY <1>1, <2>2, <2>4 DEF Inv, PassedInv
  <1> QED
    BY <1>1, Inductive, PTL

(* When all checks are agreed on and all ranks have returned, every        *)
(* message sent has been received.                                         *)
THEOREM ChannelsEmpty == Agreed => (Spec => []NothingInFlight)
  <1>1. ASSUME Inv PROVE NothingInFlight
    <2> SUFFICES ASSUME \A p \in Rank : Gone(p), NEW i \in Stages
                 PROVE  chan[i] = 0
      BY DEF NothingInFlight
    <2>1. CASE ~IsTransfer(i)
      BY <1>1, <2>1 DEF Inv, ChanInv
    <2>2. CASE IsTransfer(i)
      <3>1. /\ S(i).to \in Rank /\ S(i).src \in Rank /\ ~IsCollective(i) /\ i \in Nat
            /\ pc[S(i).src] \in Nat /\ pc[S(i).to] \in Nat
        <4>1. S(i).to \in Rank /\ S(i).src \in Rank /\ ~IsCollective(i)
          BY <1>1, <2>2, TransferFacts, RankFacts
        <4>2. i \in Nat /\ \A q \in Rank : pc[q] \in Nat
          BY <1>1, Facts
        <4> QED
          BY <4>1, <4>2
      <3>2. CASE pc[S(i).to] > i
        BY <1>1, <2>2, <3>2, TransferFacts
      <3>3. CASE pc[S(i).to] = i
        <4>1. pc[S(i).to] \in Stages
          BY <3>3
        <4> QED
          BY <1>1, <3>1, <3>3, <4>1, GoneFacts
      <3>4. CASE pc[S(i).to] < i
        <4>1. pc[S(i).to] \in Stages
          BY <1>1, <3>1, <3>4, Facts
        <4>2. pc[S(i).src] > pc[S(i).to] \/ pc[S(i).src] = pc[S(i).to]
          BY <1>1, <3>1, <4>1, GoneFacts
        <4>3. result[S(i).to] = "err"
          BY <1>1, <3>1, <4>1 DEF Inv, TypeOK, EndedInv, Gone
        <4>4. pc[S(i).src] <= pc[S(i).to]
          BY <1>1, <3>1, <4>3, NotPastFailure
        <4>5. pc[S(i).src] < i
          BY <3>1, <3>4, <4>4
        <4>6. Sent(i) = 0
          BY <3>1, <4>5 DEF Sent, Done
        <4> QED
          BY <1>1, <2>2, <4>6, TransferFacts
      <3> QED
        BY <3>1, <3>2, <3>3, <3>4
    <2> QED
      BY <2>1, <2>2
  <1> QED
    BY <1>1, Inductive, PTL
=============================================================================
