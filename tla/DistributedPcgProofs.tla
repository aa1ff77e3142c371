------------------------- MODULE DistributedPcgProofs -------------------------
(***************************************************************************)
(* What holds of DistributedPcg for every number of ranks, all blocks,     *)
(* factor sizes and calls: the recurrence never mixes preconditioners, the *)
(* ranks have the same kind, the promotion happens once and the report is  *)
(* honest. The factors of a rank fit its share of the budget, and those of *)
(* all ranks the budget, which takes some facts about sums over sets.      *)
(***************************************************************************)
EXTENDS DistributedPcg, FiniteSetTheorems, WellFoundedInduction, TLAPS

(* The pieces between a poor window and the promotion.                     *)
Promoting == {"window", "swap", "replay", "pool", "promote"}

(* A call that runs has returned nothing and has iterations to run with.   *)
Running ==
    pc # "idle" =>
        /\ result = "none" /\ call.max_iterations > 0
        /\ pc # "verify" => status = "MaxIterations"
        /\ pc = "start" => step = 0
        /\ pc = "iterate" => step < call.max_iterations
(* What the status means before the last product.                          *)
Ended ==
    pc = "verify" =>
        /\ status = "Converged" => recursive = "low"
        /\ status = "MaxIterations" => step = call.max_iterations
(* The direction and r^T z are of the installed preconditioner.            *)
Made == pc \in {"iterate", "direction"} \cup Promoting => direction = preconditioner
(* A window is at a probe, before any promotion.                           *)
AtProbe ==
    pc \in Promoting =>
        /\ call.adaptive /\ escalation = 0
        /\ step > 0 /\ step % call.probe_iterations = 0
LightFirst ==
    pc # "idle" /\ call.adaptive /\ escalation = 0 =>
        \A q \in Ranks : preconditioner[q] = Light

IInv == TypeOK /\ SameKind /\ ReportHonest /\ Running /\ Ended /\ Made /\ AtProbe /\ LightFirst

(* What a call, and the greedy selection, is.                              *)
LEMMA CallFields ==
    ASSUME NEW c \in Calls
    PROVE  /\ c.adaptive \in BOOLEAN /\ c.max_iterations \in Nat
           /\ c.probe_iterations \in Nat /\ c.budget \in Nat
           /\ c.masks \in [Ranks -> SUBSET Nat]
  BY CallsAssumption DEF CallType

LEMMA Initially == Init => IInv
  <1>1. SUFFICES ASSUME Init PROVE IInv
    OBVIOUS
  <1>2. TypeOK
    <2>1. preconditioner \in [Ranks -> Kinds] /\ direction \in [Ranks -> Kinds]
      BY <1>1 DEF Init, Kinds
    <2>2. factors \in [Ranks -> SUBSET Blocks] /\ mask \in [Ranks -> SUBSET Blocks]
      BY <1>1 DEF Init, None
    <2>3. solves \in 0 .. MaxSolves
      BY <1>1, BoundsAssumption DEF Init
    <2> QED
      BY <1>1, <2>1, <2>2, <2>3 DEF Init, TypeOK, Norms, Statuses
  <1>3. SameKind
    BY <1>1 DEF Init, SameKind
  <1>4. ReportHonest
    BY <1>1 DEF Init, ReportHonest
  <1> QED
    BY <1>1, <1>2, <1>3, <1>4
    DEF Init, IInv, Running, Ended, Made, AtProbe, LightFirst, Promoting

LEMMA KindType == Kind \in Kinds
  BY DEF Kind, Kinds

(* One step per action, under it one per part of the invariant.            *)
LEMMA Inductive == IInv /\ [Next]_vars => IInv'
  <1>1. SUFFICES ASSUME IInv, [Next]_vars PROVE IInv'
    OBVIOUS
  <1> USE DEF IInv
  <1> DEFINE max == call.max_iterations
  <1>2. max \in Nat /\ call.masks \in [Ranks -> SUBSET Nat]
    BY <1>1, CallFields DEF TypeOK
  <1>3. CASE Solve
    <2>1. SUFFICES ASSUME call' \in Calls, solves' = solves + 1, solves < MaxSolves,
                          step' = 0, escalation' = 0, mask' = None, traced' = FALSE,
                          UNCHANGED <<preconditioner, factors, direction, recursive, true>>,
                          \/ pc' = "idle" /\ result' = "invalid" /\ UNCHANGED status
                          \/ /\ pc' = "start" /\ status' = "MaxIterations" /\ result' = "none"
                             /\ call'.max_iterations # 0
                             /\ call'.adaptive => \A q \in Ranks : preconditioner[q] = Light
                   PROVE  IInv'
      BY <1>3 DEF Solve, Fail, prepared, norms
    <2>2. call'.max_iterations \in Nat
      BY <2>1, CallFields
    <2>3. TypeOK'
      <3>1. mask' \in [Ranks -> SUBSET Blocks]
        BY <2>1 DEF None
      <3>2. solves' \in 0 .. MaxSolves
        BY <1>1, <2>1, BoundsAssumption DEF TypeOK
      <3>3. status' \in Statuses /\ result' \in Statuses \cup Errors \cup {"none"}
        BY <1>1, <2>1 DEF TypeOK, Errors, Statuses
      <3>4. pc' \in {"idle", "start"} /\ step' \in Nat /\ step' <= call'.max_iterations
        BY <2>1, <2>2
      <3> QED
        BY <1>1, <2>1, <3>1, <3>2, <3>3, <3>4 DEF TypeOK
    <2>4. SameKind'
      BY <1>1, <2>1 DEF SameKind
    <2>5. ReportHonest'
      BY <2>1 DEF ReportHonest
    <2>6. Running' /\ Ended'
      BY <2>1, <2>2 DEF Running, Ended
    <2>7. Made' /\ AtProbe' /\ LightFirst'
      BY <2>1 DEF Made, AtProbe, LightFirst, Promoting
    <2> QED
      BY <2>3, <2>4, <2>5, <2>6, <2>7
  <1>4. CASE Start
    <2>1. /\ pc = "start" /\ true' = recursive' /\ recursive' \in Norms
          /\ direction' = preconditioner
          /\ UNCHANGED <<preconditioner, factors, solves, call, step, escalation, mask, traced>>
          /\ \/ pc' = "verify" /\ status' = "Converged" /\ recursive' = "low"
             \/ pc' = "verify" /\ status' = "Breakdown"
             \/ pc' = "iterate" /\ UNCHANGED status
          /\ UNCHANGED result
      BY <1>4 DEF Start, Stop, prepared
    <2>2. TypeOK'
      BY <1>1, <2>1 DEF TypeOK, Statuses
    <2>3. SameKind' /\ ReportHonest'
      BY <1>1, <2>1 DEF SameKind, ReportHonest, Running
    <2>4. Running' /\ Ended'
      BY <1>1, <1>2, <2>1 DEF Running, Ended
    <2>5. Made' /\ AtProbe' /\ LightFirst'
      BY <1>1, <2>1 DEF Made, AtProbe, LightFirst, Promoting
    <2> QED
      BY <2>2, <2>3, <2>4, <2>5
  <1>5. CASE Iterate
    <2>1. /\ pc = "iterate"
          /\ UNCHANGED <<preconditioner, factors, solves, call, escalation, direction, mask, traced>>
          /\ UNCHANGED result /\ step' \in {step, step + 1}
          /\ true' \in Norms /\ recursive' \in Norms
          /\ \/ pc' = "verify" /\ status' = "Breakdown"
             \/ pc' = "verify" /\ status' = "Converged" /\ recursive' = "low"
             \/ pc' = "window" /\ UNCHANGED status /\ step' = step + 1 /\ Probes(step')
             \/ pc' = "direction" /\ UNCHANGED status
      BY <1>1, <1>5 DEF Iterate, Stop, prepared, norms, TypeOK
    <2>2. step \in Nat /\ step < max /\ step' \in Nat /\ step' <= max
      BY <1>1, <1>2, <2>1 DEF TypeOK, Running
    <2>3. TypeOK'
      BY <1>1, <2>1, <2>2 DEF TypeOK, Statuses
    <2>4. SameKind' /\ ReportHonest'
      BY <1>1, <2>1 DEF SameKind, ReportHonest, Running
    <2>5. Running' /\ Ended'
      BY <1>1, <2>1 DEF Running, Ended
    <2>6. Made' /\ LightFirst'
      BY <1>1, <2>1 DEF Made, LightFirst, Promoting
    <2>7. AtProbe'
      BY <2>1, <2>2 DEF AtProbe, Probes, Promoting
    <2> QED
      BY <2>3, <2>4, <2>5, <2>6, <2>7
  <1>6. CASE Direction
    <2>1. /\ pc = "direction" /\ UNCHANGED result
          /\ UNCHANGED <<preconditioner, factors, solves, call, step, escalation, direction,
                         recursive, true, mask, traced>>
          /\ \/ pc' = "verify" /\ status' = "Breakdown"
             \/ pc' = "iterate" /\ step < max /\ UNCHANGED status
             \/ pc' = "verify" /\ ~(step < max) /\ UNCHANGED status
      BY <1>6 DEF Direction, Stop, Again, prepared, loop, norms
    <2>2. step \in Nat /\ step <= max
      BY <1>1, <2>1 DEF TypeOK
    <2>3. TypeOK'
      BY <1>1, <2>1 DEF TypeOK, Statuses
    <2>4. SameKind' /\ ReportHonest'
      BY <1>1, <2>1 DEF SameKind, ReportHonest, Running
    <2>5. Running' /\ Ended'
      BY <1>1, <1>2, <2>1, <2>2 DEF Running, Ended
    <2>6. Made' /\ AtProbe' /\ LightFirst'
      BY <1>1, <2>1 DEF Made, AtProbe, LightFirst, Promoting
    <2> QED
      BY <2>3, <2>4, <2>5, <2>6
  <1>7. ASSUME /\ pc \in Promoting \ {"promote"} /\ mask' \in [Ranks -> SUBSET Blocks]
               /\ UNCHANGED <<preconditioner, factors, solves, call, step, escalation, direction,
                              recursive, true, traced, status>>
               /\ \/ pc' \in Promoting \cup {"direction"} /\ UNCHANGED result
                  \/ pc' = "idle" /\ result' \in Errors
        PROVE  IInv'
    <2>1. TypeOK'
      BY <1>1, <1>7 DEF TypeOK, Promoting
    <2>2. SameKind' /\ ReportHonest'
      BY <1>1, <1>7 DEF SameKind, ReportHonest, Running, Promoting, Errors
    <2>3. Running' /\ Ended'
      BY <1>1, <1>7 DEF Running, Ended, Promoting
    <2>4. Made' /\ AtProbe' /\ LightFirst'
      BY <1>1, <1>7 DEF Made, AtProbe, LightFirst, Promoting
    <2> QED
      BY <2>1, <2>2, <2>3, <2>4
  <1>8. CASE Window
    <2>1. pc = "window" /\ pc' \in Promoting \cup {"direction"} /\ UNCHANGED result
      BY <1>8 DEF Window, Promoting
    <2>2. mask' \in [Ranks -> SUBSET Blocks]
      BY <1>1, <1>8 DEF Window, TypeOK
    <2>3. UNCHANGED <<preconditioner, factors, solves, call, step, escalation, direction,
                      recursive, true, traced, status>>
      BY <1>8 DEF Window, prepared, loop, norms
    <2> QED
      BY <1>7, <2>1, <2>2, <2>3 DEF Promoting
  <1>9. CASE Swap
    <2>1. /\ pc = "swap" 
          /\ \/ pc' = "promote" /\ UNCHANGED result
             \/ pc' = "idle" /\ result' = "invalid swap"
      BY <1>9 DEF Swap, Fail
    <2>2. mask' \in [Ranks -> SUBSET Blocks]
      <3>1. CASE mask' = mask
        BY <1>1, <3>1 DEF TypeOK
      <3>2. CASE mask' # mask
        <4>1. /\ call.target \in Ranks /\ call.add \in Blocks
              /\ mask' = [mask EXCEPT ![call.target] = Swapped(call.target)]
          BY <1>9, <3>2 DEF Swap
        <4>2. Swapped(call.target) \in SUBSET Blocks
          BY <1>1, <4>1 DEF Swapped, TypeOK
        <4> QED
          BY <1>1, <4>1, <4>2 DEF TypeOK
      <3> QED
        BY <3>1, <3>2
    <2>3. UNCHANGED <<preconditioner, factors, solves, call, step, escalation, direction,
                      recursive, true, traced, status>>
      BY <1>9 DEF Swap, prepared, loop, norms
    <2> QED
      BY <1>7, <2>1, <2>2, <2>3 DEF Promoting, Errors
  <1>10. CASE Replay
    <2>1. /\ pc = "replay"
          /\ \/ pc' \in {"promote", "pool"} /\ UNCHANGED result
             \/ pc' = "idle" /\ result' = "invalid mask"
      BY <1>10 DEF Replay, Fail
    <2>2. mask' \in [Ranks -> SUBSET Blocks]
      <3>1. CASE \A q \in Ranks : Replayable(q)
        <4>1. mask' = call.masks
          BY <1>10, <3>1 DEF Replay
        <4>2. \A q \in Ranks : call.masks[q] \in SUBSET Blocks
          BY <3>1 DEF Replayable
        <4> QED
          BY <1>2, <4>1, <4>2
      <3>2. CASE ~ \A q \in Ranks : Replayable(q)
        BY <1>1, <1>10, <3>2 DEF Replay, TypeOK
      <3> QED
        BY <3>1, <3>2
    <2>3. UNCHANGED <<preconditioner, factors, solves, call, step, escalation, direction,
                      recursive, true, traced, status>>
      BY <1>10 DEF Replay, prepared, loop, norms
    <2> QED
      BY <1>7, <2>1, <2>2, <2>3 DEF Promoting, Errors
  <1>11. CASE Pool
    <2>1. /\ pc = "pool" /\ UNCHANGED mask
          /\ \/ pc' = "promote" /\ UNCHANGED result
             \/ pc' = "idle" /\ result' = "over budget"
      BY <1>11 DEF Pool, Fail
    <2>2. mask' \in [Ranks -> SUBSET Blocks]
      BY <1>1, <2>1 DEF TypeOK
    <2>3. UNCHANGED <<preconditioner, factors, solves, call, step, escalation, direction,
                      recursive, true, traced, status>>
      BY <1>11 DEF Pool, prepared, loop, norms
    <2> QED
      BY <1>7, <2>1, <2>2, <2>3 DEF Promoting, Errors
  <1>12. CASE Promote
    <2>1. /\ pc = "promote" /\ traced' = TRUE
          /\ UNCHANGED <<solves, call, step, direction, recursive, true, mask, status>>
          /\ \/ /\ pc' = "direction" /\ UNCHANGED <<preconditioner, factors, escalation, result>>
             \/ /\ pc' = "restart" /\ escalation' = step /\ UNCHANGED result
                /\ preconditioner' = [q \in Ranks |-> Kind] /\ factors' = mask
             \/ /\ pc' = "idle" /\ result' \in {"factorization", "coarse"}
                /\ UNCHANGED <<preconditioner, factors, escalation>>
      BY <1>12 DEF Promote, Fail, prepared, norms
    <2>2. preconditioner' \in [Ranks -> Kinds] /\ factors' \in [Ranks -> SUBSET Blocks]
      BY <1>1, <2>1, KindType DEF TypeOK
    <2>3. TypeOK'
      BY <1>1, <2>1, <2>2 DEF TypeOK, Errors
    <2>4. SameKind'
      BY <1>1, <2>1 DEF SameKind
    <2>5. ReportHonest'
      BY <1>1, <2>1 DEF ReportHonest, Running
    <2>6. Running' /\ Ended'
      BY <1>1, <2>1 DEF Running, Ended
    <2>7. Made' /\ AtProbe'
      BY <1>1, <2>1 DEF Made, AtProbe, Promoting
    <2>8. LightFirst'
      <3>1. step \in Nat /\ step > 0
        BY <1>1, <2>1 DEF AtProbe, Promoting, TypeOK
      <3> QED
        BY <1>1, <2>1, <3>1 DEF LightFirst
    <2> QED
      BY <2>3, <2>4, <2>5, <2>6, <2>7, <2>8
  <1>13. CASE Restart
    <2>1. /\ pc = "restart" /\ recursive' = true /\ UNCHANGED result
          /\ UNCHANGED <<preconditioner, factors, solves, call, step, escalation, true, mask, traced>>
          /\ \/ pc' = "verify" /\ status' = "Breakdown" /\ UNCHANGED direction
             \/ /\ pc' = "verify" /\ status' = "Converged" /\ recursive' = "low"
                /\ UNCHANGED direction
             \/ pc' = "iterate" /\ step < max /\ UNCHANGED status /\ direction' = preconditioner
             \/ /\ pc' = "verify" /\ ~(step < max) /\ UNCHANGED status
                /\ direction' = preconditioner
      BY <1>13 DEF Restart, Stop, Again, prepared
    <2>2. step \in Nat /\ step <= max
      BY <1>1, <2>1 DEF TypeOK
    <2>3. TypeOK'
      BY <1>1, <2>1 DEF TypeOK, Statuses
    <2>4. SameKind' /\ ReportHonest'
      BY <1>1, <2>1 DEF SameKind, ReportHonest, Running
    <2>5. Running' /\ Ended'
      BY <1>1, <1>2, <2>1, <2>2 DEF Running, Ended
    <2>6. Made' /\ AtProbe' /\ LightFirst'
      BY <1>1, <2>1 DEF Made, AtProbe, LightFirst, Promoting
    <2> QED
      BY <2>3, <2>4, <2>5, <2>6
  <1>14. CASE Verify
    <2>1. /\ pc = "verify" /\ pc' = "idle"
          /\ UNCHANGED <<preconditioner, factors, solves, call, step, escalation, direction,
                         recursive, true, mask, traced, status>>
          /\ result' = (IF status = "Converged" /\ true = "high" THEN "MaxIterations" ELSE status)
      BY <1>14 DEF Verify, prepared, loop, norms
    <2>2. TypeOK'
      BY <1>1, <2>1 DEF TypeOK, Statuses
    <2>3. SameKind'
      BY <1>1, <2>1 DEF SameKind
    <2>4. ReportHonest'
      BY <1>1, <2>1 DEF ReportHonest, Ended, TypeOK, Norms, Statuses
    <2>5. Running' /\ Ended' /\ Made' /\ AtProbe' /\ LightFirst'
      BY <2>1 DEF Running, Ended, Made, AtProbe, LightFirst, Promoting
    <2> QED
      BY <2>2, <2>3, <2>4, <2>5
  <1>15. CASE UNCHANGED vars
    BY <1>1, <1>15 DEF vars, prepared, loop, norms, TypeOK, SameKind, ReportHonest, Running,
       Ended, Made, AtProbe, LightFirst
  <1> QED
    BY <1>1, <1>3, <1>4, <1>5, <1>6, <1>8, <1>9, <1>10, <1>11, <1>12, <1>13, <1>14, <1>15
    DEF Next, Step

LEMMA Invariance == Spec => []IInv
  BY Initially, Inductive, PTL DEF Spec

(* Every state is typed, and no call makes more iterations than allowed,   *)
(* for any number of ranks, blocks and calls.                              *)
THEOREM TypeCorrect == Spec => []TypeOK
  BY Invariance, PTL DEF IInv

(* The recurrence goes on only with the preconditioner its direction was   *)
(* made with, on every rank.                                               *)
THEOREM NeverMixed == Spec => []OneRecurrence
  <1>1. IInv => OneRecurrence
    BY DEF IInv, Made, OneRecurrence
  <1> QED
    BY <1>1, Invariance, PTL

(* No rank applies another kind of preconditioner than the others.         *)
THEOREM AllRanksAlike == Spec => []SameKind
  BY Invariance, PTL DEF IInv

(* Converged is only reported when the last product confirms it.           *)
THEOREM Honest == Spec => []ReportHonest
  BY Invariance, PTL DEF IInv

(* The preconditioner changes once, at a probe, to factors of some rank,   *)
(* and never in a call that fails.                                         *)
THEOREM Once == Spec => PromotedOnce
  <1> DEFINE A == prepared' # prepared =>
                    /\ \A q \in Ranks : preconditioner[q] = Light
                    /\ factors' # None
                    /\ step % call.probe_iterations = 0
                    /\ result' \notin Errors
  <1>1. IInv /\ Next => A
    <2>1. SUFFICES ASSUME IInv, Next, prepared' # prepared
                   PROVE  /\ \A q \in Ranks : preconditioner[q] = Light
                          /\ factors' # None
                          /\ step % call.probe_iterations = 0
                          /\ result' \notin Errors
      OBVIOUS
    <2>2. Promote
      BY <2>1 DEF Next, Step, Solve, Start, Iterate, Direction, Window, Swap, Replay, Pool,
         Restart, Verify
    <2>3. pc = "promote" /\ factors' = mask /\ mask # None /\ UNCHANGED result
      BY <2>1, <2>2 DEF Promote
    <2>4. \A q \in Ranks : preconditioner[q] = Light
      BY <2>1, <2>3 DEF IInv, AtProbe, LightFirst, Promoting
    <2>5. step % call.probe_iterations = 0
      BY <2>1, <2>3 DEF IInv, AtProbe, Promoting
    <2>6. result' = "none"
      BY <2>1, <2>3 DEF IInv, Running
    <2> QED
      BY <2>3, <2>4, <2>5, <2>6 DEF Errors
  <1>2. IInv /\ [Next]_vars => [A]_vars
    BY <1>1
  <1> QED
    BY <1>2, Invariance, PTL DEF Spec, PromotedOnce

-----------------------------------------------------------------------------
(* What the selection, the swap and the rank-wise replay leave selected    *)
(* fits the share of the budget that each rank has.                        *)
SelectedFits ==
    pc \in {"swap", "promote"} /\ call.mode # "replay_pooled" =>
        \A q \in Ranks : FactorBytes(q, mask[q]) <= RankBudget
PooledOnly == pc = "pool" => call.mode = "replay_pooled"
InstalledFits ==
    escalation > 0 /\ call.mode # "replay_pooled" =>
        \A q \in Ranks : FactorBytes(q, factors[q]) <= RankBudget

(* Each rank alone keeps its share of the budget, for all factor sizes: a  *)
(* swap or a replayed mask can not exceed what the selection had to keep.  *)
THEOREM OwnShare == Spec => []InstalledFits
  <1> DEFINE I == SelectedFits /\ PooledOnly /\ InstalledFits
  <1>1. Init => I
    <2>1. Init => pc = "idle" /\ escalation = 0
      BY DEF Init
    <2> QED
      BY <2>1 DEF SelectedFits, PooledOnly, InstalledFits
  <1>2. IInv /\ I /\ [Next]_vars => I'
    <2> SUFFICES ASSUME IInv, I, [Next]_vars PROVE I'
      OBVIOUS
    <2>0. I /\ IInv /\ [Next]_vars
      OBVIOUS
    <2>1. CASE UNCHANGED <<pc, call, mask, factors, escalation>>
      BY <2>0, <2>1 DEF SelectedFits, PooledOnly, InstalledFits, RankBudget
    <2>2. CASE Solve
      BY <2>2 DEF Solve, Fail, SelectedFits, PooledOnly, InstalledFits
    <2>3. CASE Start \/ Iterate \/ Direction \/ Restart \/ Verify
      <3>1. /\ pc' \in {"start", "verify", "iterate", "window", "direction", "idle"}
            /\ UNCHANGED <<call, escalation, factors>>
        BY <2>3 DEF Start, Iterate, Direction, Restart, Verify, Stop, Again, prepared, loop
      <3> QED
        BY <2>0, <3>1 DEF SelectedFits, PooledOnly, InstalledFits, RankBudget
    <2>4. CASE Window \/ Swap \/ Replay \/ Pool
      <3>1. UNCHANGED <<call, escalation, factors>>
        BY <2>4 DEF Window, Swap, Replay, Pool, prepared, loop
      <3>2. InstalledFits'
        BY <2>0, <3>1 DEF InstalledFits, RankBudget
      <3>3. PooledOnly'
        BY <2>4, <3>1 DEF Window, Swap, Replay, Pool, Fail, PooledOnly
      <3>4. ASSUME pc' \in {"swap", "promote"}, call.mode # "replay_pooled", NEW q \in Ranks
            PROVE  FactorBytes(q, mask'[q]) <= RankBudget
        <4>1. CASE Window
          <5>1. mask'[q] \in Greedy(q)
            BY <3>4, <4>1 DEF Window
          <5> QED
            BY <5>1 DEF Greedy
        <4>2. CASE Swap
          <5>1. /\ mask' = [mask EXCEPT ![call.target] = Swapped(call.target)]
                /\ FactorBytes(call.target, Swapped(call.target)) <= RankBudget
                /\ pc = "swap"
            BY <3>4, <4>2 DEF Swap, Fail
          <5>2. FactorBytes(q, mask[q]) <= RankBudget
            BY <2>0, <3>4, <5>1 DEF SelectedFits
          <5>3. mask \in [Ranks -> SUBSET Blocks]
            BY <2>0 DEF IInv, TypeOK
          <5>4. CASE q = call.target
            <6>1. mask'[q] = Swapped(call.target)
              BY <5>1, <5>3, <5>4, <3>4
            <6> QED
              BY <5>1, <5>4, <6>1
          <5>5. CASE q # call.target
            <6>1. mask'[q] = mask[q]
              BY <5>1, <5>3, <5>5, <3>4
            <6> QED
              BY <5>2, <6>1
          <5> QED
            BY <5>4, <5>5
        <4>3. CASE Replay
          <5>1. Replayable(q) /\ mask' = call.masks
            BY <3>4, <4>3 DEF Replay, Fail
          <5> QED
            BY <3>4, <5>1 DEF Replayable
        <4>4. CASE Pool
          BY <2>0, <3>4, <4>4 DEF Pool, PooledOnly
        <4> QED
          BY <2>4, <4>1, <4>2, <4>3, <4>4
      <3>5. SelectedFits'
        BY <3>1, <3>4 DEF SelectedFits, RankBudget
      <3> QED
        BY <3>2, <3>3, <3>5
    <2>5. CASE Promote
      <3>1. /\ pc = "promote" /\ pc' \in {"direction", "restart", "idle"} /\ UNCHANGED call
            /\ \/ UNCHANGED <<factors, escalation>>
               \/ factors' = mask
        BY <2>5 DEF Promote, Fail, prepared
      <3>2. CASE UNCHANGED <<factors, escalation>>
        BY <2>0, <3>1, <3>2 DEF SelectedFits, PooledOnly, InstalledFits, RankBudget
      <3>3. CASE factors' = mask
        BY <2>0, <3>1, <3>3 DEF SelectedFits, PooledOnly, InstalledFits, RankBudget
      <3> QED
        BY <3>1, <3>2, <3>3
    <2> QED
      BY <2>0, <2>1, <2>2, <2>3, <2>4, <2>5 DEF Next, Step, vars, prepared, loop
  <1> QED
    BY <1>1, <1>2, Invariance, PTL DEF Spec
-----------------------------------------------------------------------------
(* A nonempty set of naturals has a least element.                         *)
LEMMA LeastNat ==
  ASSUME NEW T \in SUBSET Nat, T # {}
  PROVE  \E m \in T : \A n \in T : m <= n
<1> DEFINE R == OpToRel(<, Nat)
<1>1. IsWellFoundedOn(R, Nat)
  BY NatLessThanWellFounded, Zenon
<1>2. ASSUME NEW m \in Nat, NEW n \in Nat, n < m
      PROVE  <<n, m>> \in R
  BY <1>2, Zenon DEF OpToRel
<1> HIDE DEF R
<1>3. PICK m \in T : \A n \in T : ~ (<<n, m>> \in R)
  BY <1>1, WFMin
<1>4. ASSUME NEW n \in T PROVE m <= n
  <2>1. m \in Nat /\ n \in Nat /\ ~(n < m)
    BY <1>2, <1>3, <1>4
  <2> QED
    BY <2>1
<1> QED
  BY <1>4

(* A sum over a set takes its elements one by one.                         *)
Pick(s) == CHOOSE x \in s : TRUE
Summing(f, g, S) == [s \in SUBSET S |-> IF s = {} THEN 0 ELSE f[Pick(s)] + g[s \ {Pick(s)}]]
Fold(f, S) == CHOOSE g : g = Summing(f, g, S)

LEMMA Unfolded == ASSUME NEW f, NEW S PROVE SumFunctionOnSet(f, S) = Fold(f, S)[S]
  BY Zenon DEF SumFunctionOnSet, FoldFunctionOnSet, MapThenFoldSet, Fold, Summing, Pick

(* A subset without its first element is smaller. *)
LEMMA WithoutOne ==
  ASSUME NEW S, IsFiniteSet(S), NEW s \in SUBSET S, s # {}
  PROVE  /\ Pick(s) \in s /\ s \ {Pick(s)} \in SUBSET S
         /\ Cardinality(s) \in Nat /\ Cardinality(s) >= 1
         /\ Cardinality(s \ {Pick(s)}) = Cardinality(s) - 1
<1>1. Pick(s) \in s
  BY DEF Pick
<1>2. IsFiniteSet(s)
  BY FS_Subset
<1>3. Cardinality(s \ {Pick(s)}) = Cardinality(s) - 1
  BY <1>1, <1>2, FS_RemoveElement
<1>4. Cardinality(s) \in Nat /\ Cardinality(s) # 0
  BY <1>2, FS_CardinalityType, FS_EmptySet
<1> QED
  BY <1>1, <1>3, <1>4

(* Up to a cardinality. *)
Small(S, n) == {s \in SUBSET S : Cardinality(s) <= n}
Sums(f, S, n, g) ==
    /\ g \in [Small(S, n) -> Nat]
    /\ \A s \in Small(S, n) : g[s] = IF s = {} THEN 0 ELSE f[Pick(s)] + g[s \ {Pick(s)}]

LEMMA SumsExist ==
  ASSUME NEW S, IsFiniteSet(S), NEW f, \A x \in S : f[x] \in Nat, NEW n \in Nat
  PROVE  \E g : Sums(f, S, n, g)
<1> DEFINE T == {m \in Nat : ~ \E g : Sums(f, S, m, g)}
<1>1. SUFFICES ASSUME T # {} PROVE FALSE
  OBVIOUS
<1>2. PICK m \in T : \A k \in T : m <= k
  <2>1. T \in SUBSET Nat
    OBVIOUS
  <2> HIDE DEF T
  <2> QED
    BY <1>1, <2>1, LeastNat
<1>3. m # 0
  <2> DEFINE g == [s \in Small(S, 0) |-> 0]
  <2>1. ASSUME NEW s \in Small(S, 0), s # {} PROVE FALSE
    <3>1. s \in SUBSET S /\ Cardinality(s) <= 0
      BY DEF Small
    <3>2. Cardinality(s) \in Nat /\ Cardinality(s) >= 1
      BY <2>1, <3>1, WithoutOne
    <3> QED
      BY <3>1, <3>2
  <2>2. Sums(f, S, 0, g)
    BY <2>1 DEF Sums
  <2> QED
    BY <2>2
<1>4. m - 1 \in Nat /\ m - 1 \notin T
  BY <1>2, <1>3
<1>5. PICK h : Sums(f, S, m - 1, h)
  BY <1>4
<1> DEFINE g == [s \in Small(S, m) |-> IF s = {} THEN 0 ELSE f[Pick(s)] + h[s \ {Pick(s)}]]
<1>6. ASSUME NEW s \in Small(S, m), s # {}
      PROVE  /\ s \ {Pick(s)} \in Small(S, m - 1) /\ s \ {Pick(s)} \in Small(S, m)
             /\ Pick(s) \in S
  BY <1>4, <1>6, WithoutOne DEF Small
<1>7. g \in [Small(S, m) -> Nat]
  BY <1>5, <1>6 DEF Sums
<1>8. ASSUME NEW s \in Small(S, m - 1)
      PROVE  g[s] = h[s]
  <2>1. s \in Small(S, m)
    <3>1. Cardinality(s) \in Nat
      BY FS_Subset, FS_CardinalityType DEF Small
    <3> QED
      BY <1>4, <3>1 DEF Small
  <2> QED
    BY <1>5, <2>1 DEF Sums
<1>9. \A s \in Small(S, m) : g[s] = IF s = {} THEN 0 ELSE f[Pick(s)] + g[s \ {Pick(s)}]
  BY <1>6, <1>8
<1>10. Sums(f, S, m, g)
  BY <1>7, <1>9 DEF Sums
<1> QED
  BY <1>2, <1>10

(* The sum over the empty set is 0, and each element adds what it counts.  *)
LEMMA FoldIs ==
  ASSUME NEW S, IsFiniteSet(S), NEW f, \A x \in S : f[x] \in Nat
  PROVE  /\ Fold(f, S) \in [SUBSET S -> Nat]
         /\ \A s \in SUBSET S :
               Fold(f, S)[s] = IF s = {} THEN 0 ELSE f[Pick(s)] + Fold(f, S)[s \ {Pick(s)}]
<1>1. Cardinality(S) \in Nat
  BY FS_CardinalityType
<1>2. PICK g : Sums(f, S, Cardinality(S), g)
  BY <1>1, SumsExist
<1>3. Small(S, Cardinality(S)) = SUBSET S
  BY FS_Subset DEF Small
<1>4. g = Summing(f, g, S)
  BY <1>2, <1>3 DEF Sums, Summing
<1>5. Fold(f, S) = Summing(f, Fold(f, S), S)
  BY <1>4 DEF Fold
<1>6. \A s \in SUBSET S :
         Fold(f, S)[s] = IF s = {} THEN 0 ELSE f[Pick(s)] + Fold(f, S)[s \ {Pick(s)}]
  BY <1>5 DEF Summing
<1>7. DOMAIN Fold(f, S) = SUBSET S
  BY <1>5 DEF Summing
<1>8. \A s \in SUBSET S : Fold(f, S)[s] \in Nat
  <2> DEFINE G == Fold(f, S)
             T == {m \in Nat : \E s \in SUBSET S : Cardinality(s) = m /\ G[s] \notin Nat}
  <2> HIDE DEF G
  <2>1. SUFFICES ASSUME NEW s \in SUBSET S, G[s] \notin Nat PROVE FALSE
    BY DEF G
  <2>2. PICK m \in T : \A k \in T : m <= k
    <3>1. T \in SUBSET Nat /\ Cardinality(s) \in T
      BY <2>1, FS_Subset, FS_CardinalityType
    <3> HIDE DEF T
    <3> QED
      BY <3>1, LeastNat
  <2>3. PICK r \in SUBSET S : Cardinality(r) = m /\ G[r] \notin Nat
    BY <2>2
  <2>4. r # {} /\ G[r] = f[Pick(r)] + G[r \ {Pick(r)}]
    BY <1>6, <2>3 DEF G
  <2>5. /\ Pick(r) \in S /\ r \ {Pick(r)} \in SUBSET S /\ m \in Nat /\ m >= 1
        /\ Cardinality(r \ {Pick(r)}) = m - 1
    BY <2>3, <2>4, WithoutOne
  <2>6. G[r \ {Pick(r)}] \in Nat
    BY <2>2, <2>5
  <2> QED
    BY <2>3, <2>4, <2>5, <2>6
<1> QED
  BY <1>5, <1>6, <1>7, <1>8 DEF Summing

(* A sum is at most as many times the greatest term. *)
LEMMA SumBound ==
  ASSUME NEW S, IsFiniteSet(S), NEW f, \A x \in S : f[x] \in Nat, NEW B \in Nat, \A x \in S : f[x] <= B
  PROVE  /\ SumFunctionOnSet(f, S) \in Nat
         /\ SumFunctionOnSet(f, S) <= Cardinality(S) * B
<1> DEFINE G == Fold(f, S)
           T == {m \in Nat : \E s \in SUBSET S : Cardinality(s) = m /\ ~(G[s] <= m * B)}
<1>1. /\ G \in [SUBSET S -> Nat]
      /\ \A s \in SUBSET S : G[s] = IF s = {} THEN 0 ELSE f[Pick(s)] + G[s \ {Pick(s)}]
  BY FoldIs
<1> HIDE DEF G
<1>2. T = {}
  <2>1. SUFFICES ASSUME T # {} PROVE FALSE
    OBVIOUS
  <2>2. PICK m \in T : \A k \in T : m <= k
    <3>1. T \in SUBSET Nat
      OBVIOUS
    <3> HIDE DEF T
    <3> QED
      BY <2>1, <3>1, LeastNat
  <2>3. PICK r \in SUBSET S : Cardinality(r) = m /\ ~(G[r] <= m * B)
    BY <2>2
  <2>0. m \in Nat
    BY <2>2
  <2>4. r # {}
    <3>1. 0 <= m * B
      BY <2>0
    <3> QED
      BY <1>1, <2>3, <3>1
  <2>5. /\ Pick(r) \in S /\ r \ {Pick(r)} \in SUBSET S /\ m >= 1
        /\ Cardinality(r \ {Pick(r)}) = m - 1
    BY <2>3, <2>4, WithoutOne
  <2>6. G[r] = f[Pick(r)] + G[r \ {Pick(r)}] /\ G[r \ {Pick(r)}] \in Nat /\ f[Pick(r)] \in Nat
    BY <1>1, <2>4, <2>5
  <2>7. G[r \ {Pick(r)}] <= (m - 1) * B
    BY <2>0, <2>2, <2>5
  <2>8. (m - 1) * B + B = m * B
    BY <2>0
  <2>9. (m - 1) * B \in Int /\ m * B \in Int /\ f[Pick(r)] <= B
    BY <2>0, <2>5
  <2> QED
    BY <2>3, <2>6, <2>7, <2>8, <2>9
<1>3. G[S] \in Nat /\ Cardinality(S) \in Nat /\ G[S] <= Cardinality(S) * B
  BY <1>1, <1>2, FS_CardinalityType
<1> QED
  BY <1>3, Unfolded DEF G

-----------------------------------------------------------------------------
(* Selected blocks have a size. *)
LEMMA BytesType ==
    ASSUME NEW blocks \in [Ranks -> SUBSET Blocks], NEW q \in Ranks
    PROVE  FactorBytes(q, blocks[q]) \in Nat
  <1> DEFINE set == blocks[q]
  <1>1. set \in SUBSET Blocks /\ IsFiniteSet(set)
    BY BytesAssumption, FS_Subset
  <1>2. \A i \in Blocks : Bytes[q][i] \in Nat
    BY BytesAssumption
  <1> DEFINE f == Bytes[q]
             B == SumFunctionOnSet(f, set)
  <1>3. \A i \in set : f[i] \in Nat
    BY <1>1, <1>2
  <1> HIDE DEF set, f
  <1>4. /\ Fold(f, set) \in [SUBSET set -> Nat]
    BY <1>1, <1>3, FoldIs
  <1>5. SumFunctionOnSet(f, set) \in Nat
    BY <1>4, Unfolded
  <1> QED
    BY <1>5 DEF FactorBytes, f, set

(* Shares that are kept add up to the budget, or less. *)
LEMMA SharesAddUp ==
    ASSUME NEW blocks \in [Ranks -> SUBSET Blocks], call.budget \in Nat,
           \A q \in Ranks : FactorBytes(q, blocks[q]) <= RankBudget
    PROVE  GlobalBytes(blocks) <= call.budget
  <1> DEFINE f == [q \in Ranks |-> FactorBytes(q, blocks[q])]
             n == Cardinality(Ranks)
  <1>1. n \in Nat /\ n # 0
    BY RanksAssumption, FS_CardinalityType, FS_EmptySet
  <1>2. RankBudget \in Nat /\ n * RankBudget <= call.budget
    <2> DEFINE b == call.budget
    <2>1. b \in Nat
      OBVIOUS
    <2> HIDE DEF b, n
    <2>2. b \div n \in Nat /\ n * (b \div n) <= b
      BY <1>1, <2>1, Z3
    <2> QED
      BY <2>2 DEF RankBudget, b, n
  <1>3. \A q \in Ranks : f[q] \in Nat /\ f[q] <= RankBudget
    BY BytesType
  <1> HIDE DEF f
  <1>4. /\ SumFunctionOnSet(f, Ranks) \in Nat
        /\ SumFunctionOnSet(f, Ranks) <= n * RankBudget
    BY <1>2, <1>3, RanksAssumption, SumBound
  <1>5. n * RankBudget \in Nat
    BY <1>1, <1>2
  <1>6. SumFunctionOnSet(f, Ranks) <= call.budget
    BY <1>2, <1>4, <1>5
  <1> QED
    BY <1>6 DEF GlobalBytes, f

(* What passed the pooled check is what is installed.                      *)
PooledFits ==
    /\ pc = "promote" /\ call.mode = "replay_pooled" => GlobalBytes(mask) <= call.budget
    /\ escalation > 0 /\ call.mode = "replay_pooled" => GlobalBytes(factors) <= call.budget
    /\ pc = "swap" => call.mode # "replay_pooled"

LEMMA PooledShare == Spec => []PooledFits
  <1>1. Init => PooledFits
    <2>1. Init => pc = "idle" /\ escalation = 0
      BY DEF Init
    <2> QED
      BY <2>1 DEF PooledFits
  <1>2. IInv /\ PooledFits /\ [Next]_vars => PooledFits'
    <2> SUFFICES ASSUME IInv, PooledFits, [Next]_vars PROVE PooledFits'
      OBVIOUS
    <2>1. CASE UNCHANGED <<pc, call, mask, factors, escalation>>
      BY <2>1 DEF PooledFits, GlobalBytes
    <2>2. CASE Solve
      BY <2>2 DEF Solve, Fail, PooledFits
    <2>3. CASE Start \/ Iterate \/ Direction \/ Restart \/ Verify
      <3>1. pc' \notin {"promote", "swap"} /\ UNCHANGED <<call, escalation, factors>>
        BY <2>3 DEF Start, Iterate, Direction, Restart, Verify, Stop, Again, prepared, loop
      <3> QED
        BY <3>1 DEF PooledFits, GlobalBytes
    <2>4. CASE Window \/ Swap \/ Replay \/ Pool
      <3>1. UNCHANGED <<call, escalation, factors>>
        BY <2>4 DEF Window, Swap, Replay, Pool, prepared, loop
      <3>2. ASSUME pc' = "promote", call.mode = "replay_pooled"
            PROVE  GlobalBytes(mask') <= call.budget
        <4>1. CASE Pool
          BY <3>2, <4>1 DEF Pool, Fail
        <4>2. ~Window /\ ~Replay
          BY <3>2 DEF Window, Replay, Fail
        <4>3. ~Swap
          BY <3>2 DEF Swap, PooledFits
        <4> QED
          BY <2>4, <4>1, <4>2, <4>3
      <3>3. pc' = "swap" => call.mode # "replay_pooled"
        BY <2>4 DEF Window, Swap, Replay, Pool, Fail
      <3> QED
        BY <3>1, <3>2, <3>3 DEF PooledFits, GlobalBytes
    <2>5. CASE Promote
      BY <2>5 DEF Promote, Fail, prepared, PooledFits, GlobalBytes
    <2> QED
      BY <2>1, <2>2, <2>3, <2>4, <2>5 DEF Next, Step, vars, prepared, loop
  <1> QED
    BY <1>1, <1>2, Invariance, PTL DEF Spec

(* The dense factors that a promotion installs fit the global budget       *)
(* together, whatever their sizes and whichever way they were selected.    *)
THEOREM GlobalShare == Spec => []WithinBudget
  <1>1. IInv /\ InstalledFits /\ PooledFits => WithinBudget
    <2> SUFFICES ASSUME IInv, InstalledFits, PooledFits, escalation > 0
                 PROVE  GlobalBytes(factors) <= call.budget
      BY DEF WithinBudget
    <2>1. factors \in [Ranks -> SUBSET Blocks] /\ call.budget \in Nat
      BY CallFields DEF IInv, TypeOK
    <2>2. CASE call.mode = "replay_pooled"
      BY <2>2 DEF PooledFits
    <2>3. CASE call.mode # "replay_pooled"
      BY <2>1, <2>3, SharesAddUp DEF InstalledFits
    <2> QED
      BY <2>2, <2>3
  <1> QED
    BY <1>1, Invariance, OwnShare, PooledShare, PTL
=============================================================================
