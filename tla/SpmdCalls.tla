----------------------------- MODULE SpmdCalls ------------------------------
(***************************************************************************)
(* The ranks of an MPI program run one program of collective calls, a      *)
(* sequence of stages (SpmdPrograms has those of hybit-distributed). Every *)
(* rank runs through the same stages; what differs is its data. A rank     *)
(* that finds a failure returns Err and makes no further call.             *)
(*                                                                         *)
(* MPI is external: a reduction or an exchange completes on a rank once    *)
(* every rank has entered it, a broadcast once the root has, a send once   *)
(* its message is received or MPI has buffered it. Messages of one rank to *)
(* another do not overtake, and the two sides of a transfer count the same *)
(* messages, so a message is received in the transfer it was sent in.      *)
(***************************************************************************)
EXTENDS Naturals, Sequences

CONSTANTS
    N,          \* ranks of MPI_COMM_WORLD
    Program,    \* Program[s]: the stages of program s
    Running,    \* the programs to run
    Causes      \* causes for which a stage that is not agreed on fails

Rank == 0 .. N - 1
Root == 0

(* What a rank contributes to a collective: a failure it found, or data.   *)
Values == {"ok", "other", "bad"}
StageType ==
    [op : {"agree", "compare", "broadcast", "exchange", "fallible", "transfer"},
     by : SUBSET Rank,          \* the ranks that may do more than succeed
     vals : SUBSET Values,      \* and what they may contribute to a collective
     src : Rank, to : Rank,     \* a transfer from src to rank to
     k : Nat,                   \* of k messages
     why : STRING]

ASSUME SizeAssumption == N \in Nat \ {0}
ASSUME ProgramAssumption ==
    \A s \in Running :
        /\ Program[s] \in Seq(StageType)
        /\ \A i \in DOMAIN Program[s] :
               /\ Program[s][i].op = "transfer" =>
                      Program[s][i].to # Program[s][i].src /\ Program[s][i].k > 0
               /\ Program[s][i].op = "broadcast" => Program[s][i].by \subseteq {Root}

VARIABLES
    session,    \* the program all ranks run
    pc,         \* pc[p]: the stage p is at
    inside,     \* inside[p]: p is inside the collective or the send at pc[p]
    given,      \* given[p][i]: what p contributed to stage i, or "none"
    count,      \* count[p]: messages of the transfer at pc[p] p is done with
    chan,       \* chan[i]: messages of the transfer i still to be received
    result      \* result[p]: "run", "ok" or "err"

vars == <<session, pc, inside, given, count, chan, result>>

Stages == DOMAIN Program[session]
Stage(p) == Program[session][pc[p]]
At(p, ops) ==
    result[p] = "run" /\ pc[p] \in Stages /\ Stage(p).op \in ops
Collectives == {"agree", "compare", "broadcast", "exchange"}

Init ==
    /\ session \in Running
    /\ pc = [p \in Rank |-> 1]
    /\ inside = [p \in Rank |-> FALSE]
    /\ given = [p \in Rank |-> [i \in Stages |-> "none"]]
    /\ count = [p \in Rank |-> 0]
    /\ chan = [i \in Stages |-> 0]
    /\ result = [p \in Rank |-> "run"]

Proceed(p) == /\ pc' = [pc EXCEPT ![p] = @ + 1]
              /\ UNCHANGED result
Fail(p) == /\ result' = [result EXCEPT ![p] = "err"]
           /\ UNCHANGED pc

(* The `?` on a check this rank makes alone.                               *)
LocalStep(p) ==
    /\ At(p, {"fallible"})
    /\ \E ok \in {TRUE, p \notin Stage(p).by \/ Stage(p).why \notin Causes} :
           IF ok THEN Proceed(p) ELSE Fail(p)
    /\ UNCHANGED <<session, inside, given, count, chan>>

Contributions(p) == IF p \in Stage(p).by THEN Stage(p).vals ELSE {"ok"}

Enter(p) ==
    /\ At(p, Collectives) /\ ~inside[p]
    /\ \E v \in Contributions(p) : given' = [given EXCEPT ![p][pc[p]] = v]
    /\ inside' = [inside EXCEPT ![p] = TRUE]
    /\ UNCHANGED <<session, pc, count, chan, result>>

(* The ranks that stage i waits for.                                       *)
Needs(i) == IF Program[session][i].op = "broadcast" THEN {Root} ELSE Rank

(* mistakes: the root's flag is used instead of the sum; a rank compares   *)
(* its value with the root's only                                          *)
RejectedRoot(p, i) ==
    \/ Program[session][i].op = "compare" /\ \E q \in Rank : given[q][i] # given[p][i]
    \/ given[Root][i] = "bad"
RejectedByRoot(p, i) ==
    \/ Program[session][i].op = "compare" /\ given[Root][i] # given[p][i]
    \/ \E q \in Needs(i) : given[q][i] = "bad"
(* Whether p finds that stage i failed: some rank reported a failure (the  *)
(* reduction is not zero), the root sent one, or the gathered values       *)
(* differ from its own.                                                    *)
Rejected(p, i) ==
    \/ Program[session][i].op = "compare" /\ \E q \in Rank : given[q][i] # given[p][i]
    \/ \E q \in Needs(i) : given[q][i] = "bad"

Leave(p) ==
    /\ At(p, Collectives) /\ inside[p]
    /\ \A q \in Needs(pc[p]) : given[q][pc[p]] # "none"
    /\ inside' = [inside EXCEPT ![p] = FALSE]
    /\ IF Rejected(p, pc[p]) THEN Fail(p) ELSE Proceed(p)
    /\ UNCHANGED <<session, given, count, chan>>

(* p is done with one more message of the transfer it is at.               *)
CountMessage(p) ==
    IF count[p] + 1 = Stage(p).k
    THEN /\ count' = [count EXCEPT ![p] = 0]
         /\ Proceed(p)
    ELSE /\ count' = [count EXCEPT ![p] = @ + 1]
         /\ UNCHANGED <<pc, result>>

Send(p) ==
    /\ At(p, {"transfer"}) /\ p = Stage(p).src /\ ~inside[p]
    /\ chan' = [chan EXCEPT ![pc[p]] = @ + 1]
    /\ inside' = [inside EXCEPT ![p] = TRUE]
    /\ UNCHANGED <<session, pc, given, count, result>>

(* A blocking send returns when the message was received ...               *)
SendReceived(p) ==
    /\ At(p, {"transfer"}) /\ p = Stage(p).src /\ inside[p]
    /\ chan[pc[p]] = 0
    /\ inside' = [inside EXCEPT ![p] = FALSE]
    /\ CountMessage(p)
    /\ UNCHANGED <<session, given, chan>>
(* ... or earlier, when MPI buffered it.                                   *)
SendBuffered(p) ==
    /\ At(p, {"transfer"}) /\ p = Stage(p).src /\ inside[p]
    /\ chan[pc[p]] > 0
    /\ inside' = [inside EXCEPT ![p] = FALSE]
    /\ CountMessage(p)
    /\ UNCHANGED <<session, given, chan>>

(* mistake: every rank but the sender takes the receiving branch *)
ReceivesEveryPeer(p) == p # Stage(p).src
Receives(p) == p = Stage(p).to

(* mistakes: the receiver does not wait; it leaves after the header *)
ReceiveAtOnce(p) ==
    /\ At(p, {"transfer"}) /\ Receives(p)
    /\ chan' = [chan EXCEPT ![pc[p]] = @ - 1]
    /\ CountMessage(p)
    /\ UNCHANGED <<session, inside, given>>
ReceiveHeader(p) ==
    /\ At(p, {"transfer"}) /\ Receives(p) /\ chan[pc[p]] > 0
    /\ chan' = [chan EXCEPT ![pc[p]] = @ - 1]
    /\ Proceed(p)
    /\ UNCHANGED <<session, inside, given, count>>
Receive(p) ==
    /\ At(p, {"transfer"}) /\ Receives(p) /\ chan[pc[p]] > 0
    /\ chan' = [chan EXCEPT ![pc[p]] = @ - 1]
    /\ CountMessage(p)
    /\ UNCHANGED <<session, inside, given>>

(* The other ranks take no part in a transfer.                             *)
PassBy(p) ==
    /\ At(p, {"transfer"}) /\ p # Stage(p).src /\ ~Receives(p)
    /\ Proceed(p)
    /\ UNCHANGED <<session, inside, given, count, chan>>

Return(p) ==
    /\ result[p] = "run" /\ pc[p] \notin Stages
    /\ result' = [result EXCEPT ![p] = "ok"]
    /\ UNCHANGED <<session, pc, inside, given, count, chan>>

Step(p) ==
    \/ LocalStep(p) \/ Enter(p) \/ Leave(p)
    \/ Send(p) \/ SendReceived(p) \/ Receive(p) \/ PassBy(p)
    \/ Return(p)

Next == \E p \in Rank : Step(p) \/ SendBuffered(p)

Spec == Init /\ [][Next]_vars

(* Every rank keeps running and MPI completes what it can; that a message  *)
(* is buffered is not promised.                                            *)
FairSpec == Spec /\ \A p \in Rank : WF_vars(Step(p))

-----------------------------------------------------------------------------
(* Types; a transfer has at most all of its messages in flight.            *)
TypeOK ==
    /\ session \in Running
    /\ pc \in [Rank -> 1 .. Len(Program[session]) + 1]
    /\ inside \in [Rank -> BOOLEAN]
    /\ given \in [Rank -> [Stages -> Values \cup {"none"}]]
    /\ count \in [Rank -> Nat]
    /\ chan \in [Stages -> Nat]
    /\ result \in [Rank -> {"run", "ok", "err"}]

(* A rank that has returned makes no further call.                         *)
Gone(q) == result[q] # "run"

(* No rank is left inside a reduction, an exchange, a send or a receive    *)
(* whose partner has returned without taking part in it (the reductions of *)
(* local_bad before every communication are there for this).               *)
NoRankStranded ==
    \A p \in Rank :
        /\ At(p, Collectives) /\ inside[p] =>
               \A q \in Needs(pc[p]) : Gone(q) => given[q][pc[p]] # "none"
        /\ At(p, {"transfer"}) /\ Receives(p) /\ chan[pc[p]] = 0 =>
               ~Gone(Stage(p).src)
        /\ At(p, {"transfer"}) /\ p = Stage(p).src /\ inside[p] /\ chan[pc[p]] > 0 =>
               ~Gone(Stage(p).to)

(* Ranks that have returned agree on whether the program succeeded: no     *)
(* caller goes on to the next call while another one gives up.             *)
SameVerdict ==
    \A p, q \in Rank : ~(result[p] = "ok" /\ result[q] = "err")

(* A rank goes on after a stage only if no rank reports a failure in it:   *)
(* all of them if the verdict is reduced, the root if it is broadcast.     *)
NoFailureLost ==
    \A p, q \in Rank : \A i \in Stages :
        pc[p] > i => given[q][i] # "bad"

(* When all ranks have returned no message is left in the communicator,    *)
(* where the receive of a later call would match it.                       *)
NothingInFlight ==
    (\A p \in Rank : Gone(p)) => \A i \in Stages : chan[i] = 0

(* Every rank returns.                                                     *)
EveryRankReturns == \A p \in Rank : <>(result[p] # "run")
=============================================================================
