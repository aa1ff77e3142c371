----------------------------- MODULE ThreadPool -----------------------------
(* The process-wide thread pool of the C interface: concurrent callers of  *)
(* hybit_set_num_threads, hybit_num_threads and hybit_solver_create, which *)
(* all go through configure_rayon_threads. Rayon builds its global pool    *)
(* once; HyBIT remembers the size in a cell that is written once. A pool   *)
(* that cannot start its threads is left out.                              *)
EXTENDS Naturals

CONSTANTS
    Callers,        \* threads of the host
    Sizes,          \* thread counts asked for
    Environments,   \* RAYON_NUM_THREADS and OMP_NUM_THREADS, parsed, or None
    MaxCalls        \* calls of one caller

None == 0
ASSUME SizesAssumption == Sizes \subseteq Nat \ {None}
ASSUME MaxCallsAssumption == MaxCalls \in Nat
Settings == [rayon : Sizes \cup {None}, omp : Sizes \cup {None}]
ASSUME EnvironmentsAssumption == Environments \subseteq Settings

VARIABLES
    environment,    \* what the two variables say
    pool,           \* threads of Rayon's global pool, None before it is built
    cell,           \* HYBIT_RAYON_THREADS
    calls,          \* calls made so far
    pc,             \* where a caller is in configure_rayon_threads
    request,        \* the size of hybit_set_num_threads, None for the others
    wanted,         \* requested, after the environment was consulted; then effective
    result,         \* what the last call returned: a size, or None for an error
    settled,        \* size of the first call that succeeded, and what it was
    promised        \* when the last call of each began (neither is in the code)

vars == <<environment, pool, cell, calls, pc, request, wanted, result, settled, promised>>

Init ==
    /\ environment \in Environments
    /\ pool = None /\ cell = None
    /\ calls = [c \in Callers |-> 0]
    /\ pc = [c \in Callers |-> "outside"]
    /\ request = [c \in Callers |-> None] /\ wanted = [c \in Callers |-> None]
    /\ result = [c \in Callers |-> None]
    /\ settled = None /\ promised = [c \in Callers |-> None]

Configured == IF environment.rayon # None THEN environment.rayon ELSE environment.omp

Call(c) ==
    /\ pc[c] = "outside" /\ calls[c] < MaxCalls
    /\ calls' = [calls EXCEPT ![c] = @ + 1]
    /\ \E r \in Sizes \cup {None} : request' = [request EXCEPT ![c] = r]
    /\ pc' = [pc EXCEPT ![c] = "look"]
    /\ promised' = [promised EXCEPT ![c] = settled]
    /\ UNCHANGED <<environment, pool, cell, wanted, result, settled>>

Return(c, r) ==
    /\ pc' = [pc EXCEPT ![c] = "outside"]
    /\ result' = [result EXCEPT ![c] = r]
    /\ settled' = IF settled = None THEN r ELSE settled

(* HYBIT_RAYON_THREADS.get(): a size that was published decides alone.     *)
Look(c) ==
    /\ pc[c] = "look"
    /\ IF cell # None
       THEN /\ Return(c, IF request[c] \in {None, cell} THEN cell ELSE None)
            /\ UNCHANGED wanted
       ELSE /\ wanted' = [wanted EXCEPT ![c] = IF request[c] # None THEN request[c] ELSE Configured]
            /\ pc' = [pc EXCEPT ![c] = IF wanted'[c] = None THEN "query" ELSE "build"]
            /\ UNCHANGED <<result, settled>>
    /\ UNCHANGED <<environment, pool, cell, calls, request, promised>>

(* build_global: the first builds, the others find it built.               *)
Build(c) ==
    /\ pc[c] = "build"
    /\ pool' = IF pool = None THEN wanted[c] ELSE pool
    /\ IF pool' = wanted[c]
       THEN pc' = [pc EXCEPT ![c] = "query"] /\ UNCHANGED <<result, settled>>
       ELSE Return(c, None)
    /\ UNCHANGED <<environment, cell, calls, request, wanted, promised>>

(* current_num_threads builds the default pool if there is none: nothing   *)
(* was asked for then, and any size may be the default of the machine.     *)
Query(c) ==
    /\ pc[c] = "query"
    /\ pool' \in IF pool = None THEN Sizes ELSE {pool}
    /\ wanted' = [wanted EXCEPT ![c] = pool']
    /\ pc' = [pc EXCEPT ![c] = "publish"]
    /\ UNCHANGED <<environment, cell, calls, request, result, settled, promised>>

PublishNothing(c) ==   \* a mistake: the size is not remembered
    /\ pc[c] = "publish"
    /\ Return(c, wanted[c])
    /\ UNCHANGED <<environment, pool, cell, calls, request, wanted, promised>>

(* set keeps what another caller has published meanwhile.                  *)
Publish(c) ==
    /\ pc[c] = "publish"
    /\ cell' = IF cell = None THEN wanted[c] ELSE cell
    /\ Return(c, wanted[c])
    /\ UNCHANGED <<environment, pool, calls, request, wanted, promised>>

(* Other code of the process uses Rayon first.                             *)
Foreign ==
    /\ pool = None
    /\ pool' \in Sizes
    /\ UNCHANGED <<environment, cell, calls, pc, request, wanted, result, settled, promised>>

Next ==
    \/ \E c \in Callers : Call(c) \/ Look(c) \/ Build(c) \/ Query(c) \/ Publish(c)
    \/ Foreign

Spec == Init /\ [][Next]_vars
-----------------------------------------------------------------------------
Places == {"outside", "look", "build", "query", "publish"}
TypeOK ==
    /\ environment \in Settings
    /\ pool \in Sizes \cup {None} /\ cell \in Sizes \cup {None}
    /\ calls \in [Callers -> 0 .. MaxCalls]
    /\ pc \in [Callers -> Places]
    /\ request \in [Callers -> Sizes \cup {None}]
    /\ wanted \in [Callers -> Sizes \cup {None}]
    /\ result \in [Callers -> Sizes \cup {None}]
    /\ settled \in Sizes \cup {None}
    /\ promised \in [Callers -> Sizes \cup {None}]

Returned(c) == pc[c] = "outside" /\ calls[c] > 0

(* "rejected because Rayon's global pool cannot be resized": whoever wins, *)
(* a call that succeeds tells the size of the pool there is, which is the  *)
(* one it asked for; a call fails only if the pool has another size than   *)
(* it, or the environment in its stead, asked for.                         *)
PoolAgrees ==
    \A c \in Callers : Returned(c) =>
        /\ pool # None
        /\ result[c] # None => result[c] = pool /\ request[c] \in {None, pool}
        /\ result[c] = None => pool # IF request[c] # None THEN request[c] ELSE Configured

(* "Process-wide lifetime": once a call has succeeded, every later call    *)
(* gets the same size, whatever the environment says, except those that    *)
(* ask for another one, which fail.                                        *)
Settled ==
    \A c \in Callers : Returned(c) /\ promised[c] # None =>
        result[c] = IF request[c] \in {None, promised[c]} THEN promised[c] ELSE None

(* Both hold at every moment, whoever races.                               *)
OnePool == PoolAgrees /\ Settled
=============================================================================
