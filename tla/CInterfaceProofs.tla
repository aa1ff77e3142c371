-------------------------- MODULE CInterfaceProofs --------------------------
(* The pool for any number of callers, calls and sizes; then the whole     *)
(* interface for any number of threads, calls, matrices and layouts.       *)
EXTENDS CInterface, TLAPS

Asked(c) == IF request[c] # None THEN request[c] ELSE Configured

(* What a caller in the middle of a call relies on.                        *)
Local(c) ==
    /\ pc[c] = "build" => wanted[c] # None
    /\ pc[c] \in {"build", "query"} => wanted[c] = Asked(c)
    /\ pc[c] = "query" /\ wanted[c] # None => pool = wanted[c]
    /\ pc[c] = "publish" => pool # None /\ wanted[c] = pool /\ request[c] \in {None, pool}
    /\ pc[c] \in {"build", "query", "publish"} => promised[c] = None
    /\ promised[c] \in {None, cell}

Shared ==
    /\ cell \in {None, pool}
    /\ settled \in {None, cell}

Inv == TypeOK /\ Shared /\ PoolAgrees /\ Settled /\ \A c \in Callers : Local(c)

LEMMA InitInv == Init => Inv
  BY SizesAssumption, MaxCallsAssumption, EnvironmentsAssumption
  DEF Init, Inv, TypeOK, Settings, Shared, PoolAgrees, Settled, Local, Returned, Asked, None, Places

(* A step of one caller leaves what the others are told as it is.          *)
LEMMA CallInv == ASSUME Inv, NEW c \in Callers, Call(c) PROVE Inv'
  <1>1. TypeOK'
    BY SizesAssumption, MaxCallsAssumption DEF Inv, Call, TypeOK, Places, None
  <1>2. Shared' /\ PoolAgrees' /\ Settled'
    BY DEF Inv, Call, TypeOK, Shared, PoolAgrees, Settled, Returned, Configured, Settings, None
  <1>3. \A d \in Callers : Local(d)'
    BY DEF Inv, Call, TypeOK, Shared, Local, Asked, Configured, Settings, None
  <1> QED BY <1>1, <1>2, <1>3 DEF Inv

LEMMA LookInv == ASSUME Inv, NEW c \in Callers, Look(c) PROVE Inv'
  <1>1. CASE cell # None
    <2>1. TypeOK'
      BY <1>1 DEF Inv, Look, Return, TypeOK, Places, None
    <2>2. Shared' /\ PoolAgrees' /\ Settled'
      BY <1>1 DEF Inv, Look, Return, TypeOK, Shared, PoolAgrees, Settled, Returned, Configured, Settings,
              Local, None
    <2>3. \A d \in Callers : Local(d)'
      BY <1>1 DEF Inv, Look, Return, TypeOK, Shared, Local, Asked, Configured, Settings, None
    <2> QED BY <2>1, <2>2, <2>3 DEF Inv
  <1>2. CASE cell = None
    <2>1. TypeOK'
      BY <1>2 DEF Inv, Look, TypeOK, Places, Configured, Settings, None
    <2>2. Shared' /\ PoolAgrees' /\ Settled'
      BY <1>2 DEF Inv, Look, TypeOK, Shared, PoolAgrees, Settled, Returned, Configured, Settings, None
    <2>3. \A d \in Callers : Local(d)'
      BY <1>2 DEF Inv, Look, TypeOK, Shared, Local, Asked, Configured, Settings, None
    <2> QED BY <2>1, <2>2, <2>3 DEF Inv
  <1> QED BY <1>1, <1>2

(* Whoever comes second fails, or finds the size it wanted.                *)
LEMMA BuildInv == ASSUME Inv, NEW c \in Callers, Build(c) PROVE Inv'
  <1>1. TypeOK'
    BY DEF Inv, Build, Return, TypeOK, Places, Local, None
  <1>2. Shared' /\ PoolAgrees' /\ Settled'
    BY DEF Inv, Build, Return, TypeOK, Shared, PoolAgrees, Settled, Returned, Local, Asked,
           Configured, Settings, None
  <1>3. \A d \in Callers : Local(d)'
    BY DEF Inv, Build, Return, TypeOK, Shared, Local, Asked, Configured, Settings, None
  <1> QED BY <1>1, <1>2, <1>3 DEF Inv

LEMMA QueryInv == ASSUME Inv, NEW c \in Callers, Query(c) PROVE Inv'
  <1>1. TypeOK' /\ pool' # None
    BY SizesAssumption DEF Inv, Query, TypeOK, Places, None
  <1>2. Shared' /\ PoolAgrees' /\ Settled'
    BY <1>1 DEF Inv, Query, TypeOK, Shared, PoolAgrees, Settled, Returned, Configured, Settings, None
  <1>3. \A d \in Callers : Local(d)'
    BY <1>1 DEF Inv, Query, TypeOK, Shared, Local, Asked, Configured, Settings, None
  <1> QED BY <1>1, <1>2, <1>3 DEF Inv

LEMMA PublishInv == ASSUME Inv, NEW c \in Callers, Publish(c) PROVE Inv'
  <1>1. TypeOK'
    BY DEF Inv, Publish, Return, TypeOK, Places, None
  <1>2. Shared' /\ PoolAgrees' /\ Settled'
    BY DEF Inv, Publish, Return, TypeOK, Shared, PoolAgrees, Settled, Returned, Local, Configured, Settings,
           None
  <1>3. \A d \in Callers : Local(d)'
    BY DEF Inv, Publish, Return, TypeOK, Shared, Local, Asked, Configured, Settings, None
  <1> QED BY <1>1, <1>2, <1>3 DEF Inv

LEMMA ForeignInv == ASSUME Inv, Foreign PROVE Inv'
  <1>1. TypeOK' /\ pool' # None
    BY SizesAssumption DEF Inv, Foreign, TypeOK, None
  <1>2. Shared' /\ PoolAgrees' /\ Settled'
    BY <1>1 DEF Inv, Foreign, TypeOK, Shared, PoolAgrees, Settled, Returned, Configured, Settings, None
  <1>3. \A d \in Callers : Local(d)'
    BY <1>1 DEF Inv, Foreign, TypeOK, Shared, Local, Asked, Configured, Settings, None
  <1> QED BY <1>1, <1>2, <1>3 DEF Inv

LEMMA Invariance == Spec => []Inv
  <1>1. Inv /\ [Next]_vars => Inv'
    <2> SUFFICES ASSUME Inv, [Next]_vars PROVE Inv'
      OBVIOUS
    <2>1. ASSUME NEW c \in Callers, Call(c) \/ Look(c) \/ Build(c) \/ Query(c) \/ Publish(c)
          PROVE  Inv'
      BY <2>1, CallInv, LookInv, BuildInv, QueryInv, PublishInv
    <2>2. CASE Foreign
      BY <2>2, ForeignInv
    <2>3. CASE UNCHANGED vars
      BY <2>3 DEF Inv, vars, TypeOK, Shared, PoolAgrees, Settled, Local, Returned, Asked, Configured, Settings
    <2> QED BY <2>1, <2>2, <2>3 DEF Next
  <1> QED BY InitInv, <1>1, PTL DEF Spec

(* However calls interleave, with each other and with other users of       *)
(* Rayon, a call that succeeds tells the size of the pool, one that fails  *)
(* asked for another size, and after one success all later calls agree.    *)
THEOREM PoolIsOne == Spec => []OnePool
  BY Invariance, PTL DEF Inv, OnePool
-----------------------------------------------------------------------------

Solvers == [relative : Int, absolute : Int, limit : Int]

HandlesOK ==
    /\ solver = Null \/ (solver \in Solvers /\ ValidOptions(solver))
    /\ matrix \in Matrices \cup {Null} /\ prepared \in Matrices \cup {Null}

AnswersOK ==
    /\ message \in [Callers -> Errors \cup {"no error"}]
    /\ answer \in [Callers -> [code : Codes,
                               output : Statuses \cup {Untouched}, stale : BOOLEAN]]

(* What a call may tell: a report is of an iteration that ended.           *)
Honest(error, output) ==
    /\ error \in Errors \cup {"no error"} /\ output \in Statuses \cup {Untouched}
    /\ output \in Statuses => error = IF output = "Converged" THEN "no error" ELSE "NotConverged"
    /\ error = "NotConverged" => output \in Statuses

Told(c) ==
    /\ answer[c].code # "OK" => answer[c].code = Code(message[c])
    /\ answer[c].output \in Statuses =>
          answer[c].code = (IF answer[c].output = "Converged" THEN "OK" ELSE "NOT_CONVERGED")
    /\ answer[c].code = "NOT_CONVERGED" => answer[c].output \in Statuses
    /\ ~answer[c].stale

CInv == HandlesOK /\ AnswersOK /\ \A c \in Callers : Told(c)

LEMMA CodeType ==
    ASSUME NEW error \in Errors \cup {"no error"}
    PROVE  /\ Code(error) \in Codes
           /\ Code(error) = "OK" => error = "no error"
           /\ error = "no error" => Code(error) = "OK"
           /\ Code(error) = "NOT_CONVERGED" => error = "NotConverged"
           /\ error = "NotConverged" => Code(error) = "NOT_CONVERGED"
  BY DEF Errors, Code, Codes

LEMMA CInitInv == CInit => CInv
  <1> SUFFICES ASSUME CInit PROVE CInv
    OBVIOUS
  <1>1. HandlesOK
    BY DEF CInit, HandlesOK
  <1>2. AnswersOK
    BY DEF CInit, AnswersOK, Codes
  <1>3. ASSUME NEW c \in Callers PROVE Told(c)
    <2>1. answer[c] = [code |-> "OK", output |-> Untouched, stale |-> FALSE]
      BY DEF CInit
    <2> QED BY <2>1 DEF Told, Statuses, Untouched
  <1> QED BY <1>1, <1>2, <1>3 DEF CInv

(* Telling one thread leaves what the others were told.                    *)
LEMMA AnswerInv ==
    ASSUME AnswersOK, \A d \in Callers : Told(d),
           NEW c \in Callers, NEW error, NEW output, NEW factors,
           Honest(error, output), factors = matrix, Answer(c, error, output, factors)
    PROVE  AnswersOK' /\ \A d \in Callers : Told(d)'
  <1> DEFINE new == [code |-> Code(error), output |-> output, stale |-> FALSE]
  <1>1. answer' = [answer EXCEPT ![c] = new]
    BY DEF Answer
  <1>2. /\ Code(error) \in Codes
        /\ Code(error) = "OK" => error = "no error"
        /\ error = "no error" => Code(error) = "OK"
        /\ Code(error) = "NOT_CONVERGED" => error = "NotConverged"
        /\ error = "NotConverged" => Code(error) = "NOT_CONVERGED"
    BY CodeType DEF Honest
  <1>3. message' \in [Callers -> Errors \cup {"no error"}]
    BY DEF AnswersOK, Answer, SetLastError, Honest
  <1>4. new \in [code : Codes, output : Statuses \cup {Untouched}, stale : BOOLEAN]
    BY <1>2 DEF Honest
  <1>5. AnswersOK'
    BY <1>1, <1>3, <1>4 DEF AnswersOK
  <1>6. error # "no error" => message'[c] = error
    BY DEF AnswersOK, Answer, SetLastError
  <1>7. \A d \in Callers \ {c} : message'[d] = message[d] /\ answer'[d] = answer[d]
    BY <1>1 DEF AnswersOK, Answer, SetLastError
  <1>8. answer'[c] = new
    BY <1>1 DEF AnswersOK
  <1>9. Told(c)'
    <2> HIDE DEF new
    <2>0. new.code = Code(error) /\ new.output = output /\ new.stale = FALSE
      BY DEF new
    <2>1. new.code # "OK" => new.code = Code(message'[c])
      BY <1>2, <1>6, <2>0
    <2>2. new.output \in Statuses => new.code = (IF new.output = "Converged" THEN "OK" ELSE "NOT_CONVERGED")
      BY <1>2, <2>0 DEF Honest
    <2>3. new.code = "NOT_CONVERGED" => new.output \in Statuses
      BY <1>2, <2>0 DEF Honest
    <2> QED BY <2>0, <2>1, <2>2, <2>3, <1>8 DEF Told
  <1>10. \A d \in Callers \ {c} : Told(d)'
    BY <1>7 DEF Told
  <1> QED BY <1>5, <1>9, <1>10

LEMMA UseInv ==
    ASSUME CInv, NEW c \in Callers, NEW error, NEW output, Honest(error, output),
           Use(c, error, output), HandlesOK'
    PROVE  CInv'
  BY AnswerInv DEF Use, UseFactors, CInv

LEMMA AskInv ==
    ASSUME CInv, NEW c \in Callers, NEW error \in (Errors \cup {"no error"}) \ {"NotConverged"},
           Ask(c, error)
    PROVE  CInv'
  <1>1. HandlesOK'
    BY DEF CInv, Ask, HandlesOK, handles, ValidOptions
  <1>2. Honest(error, Untouched)
    BY DEF Honest, Statuses, Untouched
  <1> QED BY <1>1, <1>2, UseInv DEF Ask

-----------------------------------------------------------------------------
LEMMA SetInv ==
    ASSUME CInv, NEW c \in Callers, NEW changed \in Solvers, Set(c, changed)
    PROVE  CInv'
  <1> DEFINE error == IF ValidOptions(changed) THEN "no error" ELSE "InvalidArgument"
  <1>1. Use(c, error, Untouched)
    BY DEF Set
  <1>2. HandlesOK'
    BY DEF CInv, Set, HandlesOK, ValidOptions
  <1>3. Honest(error, Untouched)
    BY DEF Honest, Statuses, Untouched, Errors
  <1> QED BY <1>1, <1>2, <1>3, UseInv

LEMMA SettersInv ==
    ASSUME CInv, NEW c \in Callers,
           \/ WithoutSolver(c) \/ SolverDestroy(c) \/ SetTolerances(c) \/ SetMaxIterations(c)
           \/ SetBackend(c) \/ SetHybridEnabled(c) \/ SetOverlapLayers(c) \/ ZeroThreads(c)
    PROVE  CInv'
  <1>1. CASE WithoutSolver(c) \/ ZeroThreads(c)
    BY <1>1, AskInv DEF WithoutSolver, ZeroThreads, Errors
  <1>2. CASE SolverDestroy(c)
    <2>1. HandlesOK'
      BY <1>2 DEF SolverDestroy, CInv, HandlesOK, ValidOptions
    <2>2. Honest("no error", Untouched)
      BY DEF Honest, Statuses, Untouched
    <2> QED BY <1>2, <2>1, <2>2, UseInv DEF SolverDestroy
  <1>3. CASE SetTolerances(c)
    <2>1. PICK t \in Tolerances : Set(c, [solver EXCEPT !.relative = t[1], !.absolute = t[2]])
      BY <1>3 DEF SetTolerances
    <2>2. [solver EXCEPT !.relative = t[1], !.absolute = t[2]] \in Solvers
      BY <2>1, TolerancesAssumption DEF Set, CInv, HandlesOK, Solvers
    <2> QED BY <2>1, <2>2, SetInv
  <1>4. CASE SetMaxIterations(c)
    <2>1. PICK n \in {0, 1} : Set(c, [solver EXCEPT !.limit = n])
      BY <1>4 DEF SetMaxIterations
    <2>2. solver \in Solvers
      BY <2>1 DEF Set, CInv, HandlesOK
    <2>3. [solver EXCEPT !.limit = n] \in Solvers
      BY <2>2 DEF Solvers
    <2> QED BY <2>1, <2>3, SetInv
  <1>5. CASE SetBackend(c) \/ SetHybridEnabled(c) \/ SetOverlapLayers(c)
    <2>1. PICK valid \in BOOLEAN : Ask(c, IF valid THEN "no error" ELSE "InvalidArgument")
      BY <1>5 DEF SetBackend, SetHybridEnabled, SetOverlapLayers, SetOther
    <2> QED BY <2>1, AskInv DEF Errors
  <1> QED BY <1>1, <1>2, <1>3, <1>4, <1>5

(* Creating and destroying what is not the solver.                         *)
LEMMA ObjectsInv ==
    ASSUME CInv, NEW c \in Callers,
           \/ MatrixCreate(c) \/ MatrixDestroy(c) \/ LayoutCreate(c) \/ LayoutDestroy(c)
           \/ PreparedDestroy(c)
    PROVE  CInv'
  <1>1. PICK error \in {"no error", "InvalidArgument", "InvalidMatrix"} : Use(c, error, Untouched)
    BY DEF MatrixCreate, MatrixDestroy, LayoutCreate, LayoutDestroy, PreparedDestroy
  <1>2. HandlesOK'
    BY DEF CInv, HandlesOK, ValidOptions, MatrixCreate, MatrixDestroy, LayoutCreate,
           LayoutDestroy, PreparedDestroy
  <1>3. Honest(error, Untouched)
    BY DEF Honest, Statuses, Untouched, Errors
  <1> QED BY <1>1, <1>2, <1>3, UseInv

LEMMA QueriesInv ==
    ASSUME CInv, NEW c \in Callers,
           \/ NumDofs(c) \/ LayoutBlock(c) \/ Locate(c) \/ ExpandBlocks(c) \/ GrowRegion(c)
    PROVE  CInv'
  <1>1. PICK error \in {"no error", "InvalidArgument", "InvalidMatrix"} : Ask(c, error)
    BY DEF NumDofs, LayoutBlock, Locate, ExpandBlocks, GrowRegion
  <1> QED BY <1>1, AskInv DEF Errors
-----------------------------------------------------------------------------
LEMMA SolvedInv ==
    ASSUME CInv, NEW c \in Callers, Solved(c, matrix)
    PROVE  CInv'
  <1>1. HandlesOK'
    BY DEF CInv, Solved, HandlesOK, handles, ValidOptions
  <1>2. CASE \E status \in Statuses :
             UseFactors(c, IF status = "Converged" THEN "no error" ELSE "NotConverged", status, matrix)
    <2>1. PICK status \in Statuses :
             Use(c, IF status = "Converged" THEN "no error" ELSE "NotConverged", status)
      BY <1>2 DEF Use
    <2>2. Honest(IF status = "Converged" THEN "no error" ELSE "NotConverged", status)
      BY DEF Honest, Statuses, Errors
    <2> QED BY <1>1, <2>1, <2>2, UseInv
  <1>3. CASE \E error \in Faults : Use(c, error, Untouched)
    <2>1. PICK error \in Faults : Use(c, error, Untouched)
      BY <1>3
    <2>2. Honest(error, Untouched)
      BY FaultsAssumption DEF Honest, Statuses, Untouched
    <2> QED BY <1>1, <2>1, <2>2, UseInv
  <1> QED BY <1>2, <1>3 DEF Solved

(* The signatures tell the matrix a handle was prepared for.               *)
LEMMA SolvesInv ==
    ASSUME CInv, NEW c \in Callers, Prepare(c) \/ SolvePrepared(c) \/ Solve(c)
    PROVE  CInv'
  <1>1. CASE Ask(c, "InvalidArgument")
    BY <1>1, AskInv DEF Errors
  <1>2. CASE Prepare(c) /\ ~Ask(c, "InvalidArgument")
    <2>1. PICK error \in Faults \cup {"no error", "InvalidMatrix"} :
             /\ Use(c, error, Untouched)
             /\ prepared' = IF error = "no error" THEN matrix ELSE Null
             /\ UNCHANGED <<solver, matrix, layout>>
      BY <1>2 DEF Prepare
    <2>2. HandlesOK'
      BY <2>1 DEF CInv, HandlesOK, ValidOptions
    <2>3. Honest(error, Untouched)
      BY FaultsAssumption DEF Honest, Statuses, Untouched, Errors
    <2> QED BY <2>1, <2>2, <2>3, UseInv
  <1>3. CASE SolvePrepared(c) /\ ~Ask(c, "InvalidArgument")
    <2>1. prepared # Null /\ matrix # Null /\ ValidMatrix(prepared, matrix) /\ Solved(c, prepared)
      BY <1>3 DEF SolvePrepared
    <2>2. prepared = matrix
      BY <2>1, SignaturesAssumption DEF CInv, HandlesOK, ValidMatrix
    <2> QED BY <2>1, <2>2, SolvedInv
  <1>4. CASE Solve(c) /\ ~Ask(c, "InvalidArgument")
    <2>1. CASE Solved(c, matrix)
      BY <2>1, SolvedInv
    <2>2. CASE \E error \in Faults \cup {"InvalidMatrix"} : Ask(c, error)
      BY <2>2, AskInv, FaultsAssumption DEF Errors
    <2> QED BY <1>4, <2>1, <2>2 DEF Solve
  <1> QED BY <1>1, <1>2, <1>3, <1>4

(* A thread that leaves the pool may hold a new solver.                    *)
LEMMA InPoolInv ==
    ASSUME CInv, NEW c \in Callers, InPool(c)
    PROVE  CInv'
  <1>1. CASE pc'[c] # "outside"
    BY <1>1 DEF InPool, CInv, HandlesOK, AnswersOK, Told, handles, ValidOptions
  <1>2. CASE pc'[c] = "outside"
    <2> DEFINE error == IF result'[c] = None THEN "InvalidArgument" ELSE "no error"
    <2>1. Answer(c, error, Untouched, matrix)
      BY <1>2 DEF InPool
    <2>2. HandlesOK'
      <3>1. NewSolver \in Solvers /\ ValidOptions(NewSolver)
        BY DEF NewSolver, Solvers, ValidOptions
      <3>2. solver' \in {NewSolver, solver} /\ UNCHANGED <<matrix, prepared>>
        BY <1>2 DEF InPool
      <3> QED BY <3>1, <3>2 DEF CInv, HandlesOK, ValidOptions
    <2>3. Honest(error, Untouched)
      BY DEF Honest, Statuses, Untouched, Errors
    <2> QED BY <2>1, <2>2, <2>3, AnswerInv DEF CInv
  <1> QED BY <1>1, <1>2

LEMMA CNextInv == CInv /\ [CNext]_cvars => CInv'
  <1> SUFFICES ASSUME CInv, [CNext]_cvars PROVE CInv'
    OBVIOUS
  <1>1. CASE (\E c \in Callers : EnterPool(c)) \/ ForeignPool \/ UNCHANGED cvars
    BY <1>1 DEF EnterPool, ForeignPool, cvars, CInv, HandlesOK, AnswersOK, Told, handles, ValidOptions
  <1>2. ASSUME NEW c \in Callers, InPool(c) PROVE CInv'
    BY <1>2, InPoolInv
  <1>3. ASSUME NEW c \in Callers,
               \/ WithoutSolver(c) \/ SolverDestroy(c) \/ SetTolerances(c) \/ SetMaxIterations(c)
               \/ SetBackend(c) \/ SetHybridEnabled(c) \/ SetOverlapLayers(c) \/ ZeroThreads(c)
        PROVE CInv'
    BY <1>3, SettersInv
  <1>4. ASSUME NEW c \in Callers,
               \/ MatrixCreate(c) \/ MatrixDestroy(c) \/ LayoutCreate(c) \/ LayoutDestroy(c)
               \/ PreparedDestroy(c)
        PROVE CInv'
    BY <1>4, ObjectsInv
  <1>5. ASSUME NEW c \in Callers,
               \/ NumDofs(c) \/ LayoutBlock(c) \/ Locate(c) \/ ExpandBlocks(c) \/ GrowRegion(c)
        PROVE CInv'
    BY <1>5, QueriesInv
  <1>6. ASSUME NEW c \in Callers, Prepare(c) \/ SolvePrepared(c) \/ Solve(c) PROVE CInv'
    BY <1>6, SolvesInv
  <1> QED BY <1>1, <1>2, <1>3, <1>4, <1>5, <1>6 DEF CNext

(* Whatever the threads of the host interleave, a failing call's code is   *)
(* the one of the message its thread reads, a report is there exactly when *)
(* an iteration ended, the factors are those of the matrix at hand, and    *)
(* the settings stay valid.                                                *)
THEOREM EveryCallAnswered == CSpec => []CallsAnswered
  <1>1. CInv => CallsAnswered
    BY DEF CInv, HandlesOK, Told, CallsAnswered
  <1> QED BY <1>1, CInitInv, CNextInv, PTL DEF CSpec

(* The calls on handles leave the pool alone: what is proved of it holds   *)
(* for a host that uses the whole interface.                               *)
THEOREM PoolOfInterface == CSpec => Spec
  <1>1. CInit => Init
    BY DEF CInit
  <1>2. [CNext]_cvars => [Next]_vars
    <2> SUFFICES ASSUME [CNext]_cvars PROVE [Next]_vars
      OBVIOUS
    <2>1. ASSUME NEW c \in Callers, EnterPool(c) \/ InPool(c) PROVE Next
      BY <2>1 DEF EnterPool, InPool, Next
    <2>2. CASE ForeignPool \/ UNCHANGED cvars
      BY <2>2 DEF ForeignPool, Next, cvars
    <2>3. ASSUME NEW c \in Callers, NEW error, NEW output, NEW factors,
                 UseFactors(c, error, output, factors)
          PROVE  UNCHANGED vars
      BY <2>3 DEF UseFactors
    <2>4. ASSUME NEW c \in Callers, ~(EnterPool(c) \/ InPool(c)),
                 \/ ZeroThreads(c) \/ WithoutSolver(c) \/ SolverDestroy(c) \/ SetTolerances(c)
                 \/ SetMaxIterations(c) \/ SetBackend(c) \/ SetHybridEnabled(c)
                 \/ SetOverlapLayers(c) \/ MatrixCreate(c) \/ MatrixDestroy(c)
                 \/ LayoutCreate(c) \/ LayoutDestroy(c) \/ NumDofs(c) \/ LayoutBlock(c)
                 \/ Locate(c) \/ ExpandBlocks(c) \/ GrowRegion(c) \/ Prepare(c)
                 \/ PreparedDestroy(c) \/ SolvePrepared(c) \/ Solve(c)
          PROVE  UNCHANGED vars
      BY <2>3, <2>4 DEF ZeroThreads, WithoutSolver, SolverDestroy, SetTolerances,
         SetMaxIterations, SetBackend, SetHybridEnabled, SetOverlapLayers, SetOther, Set,
         MatrixCreate, MatrixDestroy, LayoutCreate, LayoutDestroy, NumDofs, LayoutBlock, Locate,
         ExpandBlocks, GrowRegion, Prepare, PreparedDestroy, SolvePrepared, Solve, Solved, Ask, Use
    <2> QED BY <2>1, <2>2, <2>4 DEF CNext
  <1> QED BY <1>1, <1>2, PTL DEF CSpec, Spec
=============================================================================
