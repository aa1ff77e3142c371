--------------------------- MODULE PartitionProofs ---------------------------
(* Partitions and what chooses between them, for all inputs, in two parts. *)
(* First what an admission by robust_cost.rs is worth; what a sum and a    *)
(* fold over a finite set are; aligned and refined cuts of field blocks;   *)
(* selection by cost; halo plans of contiguous ownership, and of the       *)
(* chosen cuts. Then the three ABTM partitioners: orders, folds, pairing   *)
(* and seeds as lemmas about the operators of PartitionGraph, what         *)
(* claims, moves, swaps and projections do to loads, the invariant         *)
(* PartitionInv with a lemma per action, and the cut.                      *)
EXTENDS CostSelection, AbtmPartition, FiniteSetTheorems, SequenceTheorems, WellFoundedInduction, TLAPS

(* A nonempty set of natural numbers has a least element. *)
LEMMA LeastNatural ==
    ASSUME NEW S \in SUBSET Nat, S # {}
    PROVE  \E g \in S : IsLeast(g, S)
  <1>1. PICK g \in S : \A h \in S : ~ (<<h, g>> \in OpToRel(<, Nat))
      BY NatLessThanWellFounded, WFMin, Zenon
  <1>2. \A h \in S : ~ (h < g)
      BY <1>1 DEF OpToRel
  <1> QED  BY <1>2 DEF IsLeast

(* Epochs are pairs of u64. *)
LEMMA EpochTypes ==
    ASSUME NEW M \in Nat, NEW it \in CostInputs(M)
    PROVE  \A i \in DOMAIN it.epochs :
              it.epochs[i].baseline \in 0 .. M - 1 /\ it.epochs[i].graph \in 0 .. M - 1
  <1> DEFINE Epoch == [baseline : 0 .. M - 1, graph : 0 .. M - 1]
  <1>1. it.epochs \in Seq(Epoch)
      BY Zenon DEF CostInputs
  <1> TAKE i \in DOMAIN it.epochs
  <1>2. i \in 1 .. Len(it.epochs)
      BY <1>1
  <1>3. it.epochs[i] \in Epoch
    <2> HIDE DEF Epoch
    <2> QED  BY <1>1, <1>2
  <1> QED  BY <1>3

(* Where a gain is computed it is the least of the epochs' gains, and it   *)
(* is positive and a u64.                                                  *)
LEMMA GainIsLeast ==
    ASSUME NEW M \in Nat, NEW it \in CostInputs(M),
           RobustDecision(it) \in {"Admit", "UnamortizedTotalCost"}
    PROVE  /\ LeastGain(it.epochs) \in 1 .. M - 1
           /\ \A i \in DOMAIN it.epochs :
                 LeastGain(it.epochs) <= it.epochs[i].baseline - it.epochs[i].graph
  <1> DEFINE E == it.epochs
  <1>1. Len(E) >= 3 /\ E \in Seq([baseline : 0 .. M - 1, graph : 0 .. M - 1])
    <2>1. ~ (Len(E) < 3)
        BY DEF RobustDecision
    <2>2. E \in Seq([baseline : 0 .. M - 1, graph : 0 .. M - 1])
        BY Zenon DEF CostInputs
    <2>3. Len(E) \in Nat
      <3> DEFINE Epoch == [baseline : 0 .. M - 1, graph : 0 .. M - 1]
      <3>1. E \in Seq(Epoch)
          BY <2>2
      <3> HIDE DEF Epoch
      <3> QED  BY <3>1
    <2> QED  BY <2>1, <2>2, <2>3
  <1>2. \A i \in DOMAIN E : E[i].baseline \in 0 .. M - 1 /\ E[i].graph \in 0 .. M - 1
      BY EpochTypes
  <1>3. \A g \in Gains(E) : g \in 1 .. M - 1
    <2>1. ~ \E g \in Gains(E) : g <= 0
        BY DEF RobustDecision
    <2>2. TAKE g \in Gains(E)
    <2>3. PICK i \in DOMAIN E : g = E[i].baseline - E[i].graph
        BY DEF Gains
    <2>4. E[i].baseline \in 0 .. M - 1 /\ E[i].graph \in 0 .. M - 1
        BY <1>2
    <2>5. ~ (g <= 0)
        BY <2>1
    <2> QED  BY <2>3, <2>4, <2>5
  <1>4. Gains(E) # {}
    <2>1. 1 \in DOMAIN E
      <3> DEFINE Epoch == [baseline : 0 .. M - 1, graph : 0 .. M - 1]
      <3>1. E \in Seq(Epoch) /\ Len(E) >= 3
          BY <1>1
      <3> HIDE DEF Epoch
      <3> QED  BY <3>1
    <2>2. E[1].baseline - E[1].graph \in Gains(E)
        BY <2>1 DEF Gains
    <2> QED  BY <2>2
  <1>5. \E g \in Gains(E) : IsLeast(g, Gains(E))
      BY <1>3, <1>4, LeastNatural
  <1>6. IsLeast(LeastGain(E), Gains(E))
      BY <1>5 DEF LeastGain, IsLeast
  <1>7. \A i \in DOMAIN E : E[i].baseline - E[i].graph \in Gains(E)
      BY DEF Gains
  <1> QED  BY <1>3, <1>6, <1>7 DEF IsLeast

(* The budget: what is spent less what a baseline would cost, and a        *)
(* quarter of it.                                                          *)
LEMMA ThresholdBounds ==
    ASSUME NEW M \in Nat, NEW it \in CostInputs(M)
    PROVE  /\ Threshold(it) \in Nat
           /\ 4 * Threshold(it)
                >= 5 * (it.probe + it.selector + it.graph_setup - it.baseline_setup)
                     + 4 * it.minimum
           /\ Threshold(it) <= 5 * M
  <1>1. /\ it.probe \in 0 .. M - 1 /\ it.selector \in 0 .. M - 1
        /\ it.graph_setup \in 0 .. M - 1 /\ it.baseline_setup \in 0 .. M - 1
        /\ it.minimum \in 0 .. M - 1
      BY DEF CostInputs
  <1>2. /\ RawExtra(it) \in Nat
        /\ RawExtra(it) >= it.probe + it.selector + it.graph_setup - it.baseline_setup
        /\ RawExtra(it) <= 3 * M - 3
      BY <1>1 DEF RawExtra
  <1>3. /\ (RawExtra(it) + 3) \div 4 \in Nat
        /\ 4 * ((RawExtra(it) + 3) \div 4) >= RawExtra(it)
        /\ 4 * ((RawExtra(it) + 3) \div 4) <= RawExtra(it) + 3
      BY <1>2
  <1> QED  BY <1>1, <1>2, <1>3 DEF Threshold, Extra

(* Division announces the least factor whose product is greater.           *)
LEMMA LeastFactor ==
    ASSUME NEW t \in Nat, NEW g \in Nat \ {0}, NEW c \in Nat
    PROVE  /\ t \div g \in Nat
           /\ t \div g <= t
           /\ g * c > t <=> c >= t \div g + 1
  <1> DEFINE q == t \div g
  <1>1. q \in Nat /\ g * q <= t /\ t < g * q + g
      BY Z3
  <1> HIDE DEF q
  <1>2. g * q >= q
      BY <1>1, Z3
  <1>3. CASE c >= q + 1
    <2>1. g * c >= g * (q + 1)
        BY <1>1, <1>3, Z3
    <2>2. g * (q + 1) = g * q + g
        BY <1>1, Z3
    <2> QED  BY <1>1, <1>2, <1>3, <2>1, <2>2 DEF q
  <1>4. CASE c <= q
    <2>1. g * c <= g * q
        BY <1>1, <1>4, Z3
    <2> QED  BY <1>1, <1>2, <1>4, <2>1 DEF q
  <1> QED  BY <1>1, <1>3, <1>4

(* An admitted candidate saves, by every epoch, more than its budget.      *)
THEOREM AdmittedPays ==
    ASSUME NEW M \in Nat, NEW it \in CostInputs(M)
    PROVE  AdmissionPays(it)
  <1> SUFFICES ASSUME RobustDecision(it) = "Admit", NEW i \in DOMAIN it.epochs
               PROVE  4 * (it.epochs[i].baseline - it.epochs[i].graph) * it.calls
                        > 5 * (it.probe + it.selector + it.graph_setup - it.baseline_setup)
                            + 4 * it.minimum
      BY DEF AdmissionPays
  <1> DEFINE gain == it.epochs[i].baseline - it.epochs[i].graph
  <1>1. LeastGain(it.epochs) \in 1 .. M - 1 /\ LeastGain(it.epochs) <= gain /\ gain \in Int
    <2>1. it.epochs[i].baseline \in Int /\ it.epochs[i].graph \in Int
        BY EpochTypes
    <2> QED  BY GainIsLeast, <2>1
  <1>2. it.calls \in Nat
      BY DEF CostInputs
  <1>3. LeastGain(it.epochs) * it.calls > Threshold(it)
      BY DEF RobustDecision, Savings
  <1> DEFINE least == LeastGain(it.epochs)
  <1> HIDE DEF gain, least
  <1>4. gain * it.calls >= least * it.calls
      BY <1>1, <1>2, Z3 DEF least
  <1>5. 4 * gain * it.calls = 4 * (gain * it.calls) /\ gain * it.calls \in Int /\ least * it.calls \in Int
      BY <1>1, <1>2, Z3 DEF least
  <1>6. 4 * gain * it.calls > 4 * Threshold(it)
      BY <1>3, <1>4, <1>5, ThresholdBounds DEF least
  <1>7. 4 * gain * it.calls \in Int /\ /\ it.probe \in Int /\ it.selector \in Int /\ it.graph_setup \in Int /\ it.baseline_setup \in Int /\ it.minimum \in Int
      BY <1>5 DEF CostInputs
  <1> QED  BY <1>6, <1>7, ThresholdBounds DEF gain

(* The reported number of calls is the least that is admitted.             *)
THEOREM CallsAreLeast ==
    ASSUME NEW M \in Nat, NEW it \in CostInputs(M)
    PROVE  CallsAnnounce(it)
  <1> SUFFICES ASSUME RobustDecision(it) \in {"Admit", "UnamortizedTotalCost"}
               PROVE  RobustDecision(it) = "Admit" <=> it.calls >= RequiredCalls(it)
      BY DEF CallsAnnounce
  <1>1. RobustDecision(it) = "Admit" <=> Savings(it) > Threshold(it)
      BY DEF RobustDecision
  <1>2. LeastGain(it.epochs) \in Nat \ {0} /\ Threshold(it) \in Nat /\ it.calls \in Nat
    <2>1. LeastGain(it.epochs) \in 1 .. M - 1
        BY GainIsLeast
    <2>2. it.calls \in Nat
        BY DEF CostInputs
    <2> QED  BY <2>1, <2>2, ThresholdBounds
  <1> QED  BY <1>1, <1>2, LeastFactor DEF Savings, RequiredCalls

(* With u64 inputs nothing leaves u128.                                    *)
THEOREM NothingOverflows ==
    ASSUME NEW M \in Nat, M >= 8, NEW it \in CostInputs(M)
    PROVE  FitsU128(M, it)
  <1> SUFFICES ASSUME RobustDecision(it) \in {"Admit", "UnamortizedTotalCost"}
               PROVE  /\ Savings(it) \in 0 .. M * M - 1
                      /\ Threshold(it) \in 0 .. M * M - 1
                      /\ RequiredCalls(it) \in 1 .. M * M - 1
      BY DEF FitsU128
  <1> DEFINE least == LeastGain(it.epochs)
  <1>1. least \in 1 .. M - 1 /\ it.calls \in 0 .. M - 1
      BY GainIsLeast DEF CostInputs
  <1>2. M * M \in Nat /\ M * M >= 8 * M
      BY Z3
  <1>3. Threshold(it) \in Nat /\ Threshold(it) <= 5 * M
      BY ThresholdBounds
  <1> HIDE DEF least
  <1>4. least * it.calls \in Nat /\ least * it.calls <= (M - 1) * (M - 1)
      BY <1>1, Z3
  <1>5. (M - 1) * (M - 1) <= M * M - 1
      BY Z3
  <1>6. Threshold(it) \div least \in Nat /\ Threshold(it) \div least <= Threshold(it)
      BY <1>1, <1>3, LeastFactor
  <1> QED  BY <1>1, <1>2, <1>3, <1>4, <1>5, <1>6 DEF Savings, RequiredCalls, least

-----------------------------------------------------------------------------
(* Folds over finite sets and sequences. The recursive functions that they *)
(* are defined by exist, by a least counterexample in the cardinality.     *)
LEMMA LeastNat ==
  ASSUME NEW T \in SUBSET Nat, T # {}
  PROVE  \E m \in T : \A n \in T : m <= n
  BY LeastNatural DEF IsLeast

LEMMA MaxFacts ==
  ASSUME NEW S \in SUBSET Int, S # {}, NEW top \in Int, \A x \in S : x <= top
  PROVE  Max(S) \in S /\ \A x \in S : x <= Max(S)
<1> DEFINE T == {top - x : x \in S}
<1>1. T \in SUBSET Nat /\ T # {}
  <2>1. PICK x \in S : TRUE
    OBVIOUS
  <2>2. top - x \in T
    BY <2>1
  <2>3. \A e \in T : e \in Nat
    OBVIOUS
  <2> QED
    BY <2>2, <2>3
<1>2. PICK d \in T : \A e \in T : d <= e
  <2> HIDE DEF T
  <2> QED
    BY <1>1, LeastNat
<1>3. PICK x \in S : d = top - x
  BY <1>2
<1>4. \A y \in S : x >= y
  <2> TAKE y \in S
  <2>1. top - y \in T
    OBVIOUS
  <2>2. d <= top - y
    BY <1>2, <2>1
  <2> QED
    BY <1>3, <2>2
<1>5. Max(S) \in S /\ \A y \in S : Max(S) >= y
  BY <1>3, <1>4 DEF Max
<1> QED
  BY <1>5

(* h folds the subsets of S with at most n elements.                       *)
Small(S, n) == {s \in SUBSET S : Cardinality(s) <= n}
Folding(A, base, step, pick, sets, h) ==
    /\ h \in [sets -> A]
    /\ \A s \in sets : h[s] = IF s = {} THEN base ELSE step[<<pick[s], h[s \ {pick[s]}]>>]
IsPick(pick, S) == \A s \in SUBSET S : s # {} => pick[s] \in s

LEMMA WithoutOne ==
  ASSUME NEW S, IsFiniteSet(S), NEW pick, IsPick(pick, S), NEW s \in SUBSET S, s # {}
  PROVE  /\ pick[s] \in s /\ pick[s] \in S /\ s \ {pick[s]} \in SUBSET S
         /\ Cardinality(s) \in Nat /\ Cardinality(s) >= 1
         /\ Cardinality(s \ {pick[s]}) = Cardinality(s) - 1
<1>1. pick[s] \in s
  BY DEF IsPick
<1>2. IsFiniteSet(s)
  BY FS_Subset
<1>3. Cardinality(s \ {pick[s]}) = Cardinality(s) - 1
  BY <1>1, <1>2, FS_RemoveElement
<1>4. Cardinality(s) \in Nat /\ Cardinality(s) # 0
  BY <1>2, FS_CardinalityType, FS_EmptySet
<1> QED
  BY <1>1, <1>3, <1>4

LEMMA FoldsExist ==
  ASSUME NEW S, IsFiniteSet(S), NEW A, NEW base \in A, NEW step \in [S \X A -> A],
         NEW pick, IsPick(pick, S), NEW n \in Nat
  PROVE  \E h : Folding(A, base, step, pick, Small(S, n), h)
<1> DEFINE T == {m \in Nat : ~ \E h : Folding(A, base, step, pick, Small(S, m), h)}
<1>1. SUFFICES ASSUME T # {} PROVE FALSE
  OBVIOUS
<1>2. PICK m \in T : \A k \in T : m <= k
  <2>1. T \in SUBSET Nat
    OBVIOUS
  <2> HIDE DEF T
  <2> QED
    BY <1>1, <2>1, LeastNat
<1>3. m # 0
  <2> DEFINE h == [s \in Small(S, 0) |-> base]
  <2>1. ASSUME NEW s \in Small(S, 0), s # {} PROVE FALSE
    <3>1. s \in SUBSET S /\ Cardinality(s) <= 0
      BY DEF Small
    <3>2. Cardinality(s) \in Nat /\ Cardinality(s) >= 1
      BY <2>1, <3>1, WithoutOne
    <3> QED
      BY <3>1, <3>2
  <2>2. Folding(A, base, step, pick, Small(S, 0), h)
    BY <2>1 DEF Folding
  <2> QED
    BY <2>2
<1>4. m - 1 \in Nat /\ m - 1 \notin T
  BY <1>2, <1>3
<1>5. PICK g : Folding(A, base, step, pick, Small(S, m - 1), g)
  BY <1>4
<1> DEFINE h == [s \in Small(S, m) |->
                    IF s = {} THEN base ELSE step[<<pick[s], g[s \ {pick[s]}]>>]]
<1>6. ASSUME NEW s \in Small(S, m), s # {}
      PROVE  /\ s \ {pick[s]} \in Small(S, m - 1) /\ s \ {pick[s]} \in Small(S, m)
             /\ pick[s] \in S
  BY <1>4, <1>6, WithoutOne DEF Small
<1>7. h \in [Small(S, m) -> A]
  <2>1. \A s \in Small(S, m) : s # {} => g[s \ {pick[s]}] \in A
    BY <1>5, <1>6 DEF Folding
  <2>2. \A s \in Small(S, m) : s # {} => step[<<pick[s], g[s \ {pick[s]}]>>] \in A
    BY <1>6, <2>1
  <2> QED
    BY <2>2
<1>8. ASSUME NEW s \in Small(S, m - 1)
      PROVE  h[s] = g[s]
  <2>1. s \in Small(S, m)
    <3>1. Cardinality(s) \in Nat
      BY FS_Subset, FS_CardinalityType DEF Small
    <3> QED
      BY <1>4, <3>1 DEF Small
  <2> QED
    BY <1>5, <2>1 DEF Folding
<1>9. \A s \in Small(S, m) : h[s] = IF s = {} THEN base ELSE step[<<pick[s], h[s \ {pick[s]}]>>]
  BY <1>6, <1>8
<1>10. Folding(A, base, step, pick, Small(S, m), h)
  BY <1>7, <1>9 DEF Folding
<1> QED
  BY <1>2, <1>10

LEMMA FoldExists ==
  ASSUME NEW S, IsFiniteSet(S), NEW A, NEW base \in A, NEW step \in [S \X A -> A],
         NEW pick, IsPick(pick, S)
  PROVE  \E h : Folding(A, base, step, pick, SUBSET S, h)
<1>1. Cardinality(S) \in Nat
  BY FS_CardinalityType
<1>2. \E h : Folding(A, base, step, pick, Small(S, Cardinality(S)), h)
  BY <1>1, FoldsExist
<1>3. Small(S, Cardinality(S)) = SUBSET S
  BY FS_Subset DEF Small
<1> QED
  BY <1>2, <1>3

(* Two folds that take the same steps agree. *)
LEMMA FoldsAgree ==
  ASSUME NEW S, IsFiniteSet(S), NEW pick, IsPick(pick, S), NEW g, NEW h, g[{}] = h[{}],
         \A s \in SUBSET S : s # {} /\ g[s \ {pick[s]}] = h[s \ {pick[s]}] => g[s] = h[s]
  PROVE  \A s \in SUBSET S : g[s] = h[s]
<1> DEFINE T == {m \in Nat : \E s \in SUBSET S : Cardinality(s) = m /\ g[s] # h[s]}
<1>1. SUFFICES ASSUME NEW s \in SUBSET S, g[s] # h[s] PROVE FALSE
  OBVIOUS
<1>2. PICK m \in T : \A k \in T : m <= k
  <2>1. T \in SUBSET Nat /\ Cardinality(s) \in T
    BY <1>1, FS_Subset, FS_CardinalityType
  <2> HIDE DEF T
  <2> QED
    BY <2>1, LeastNat
<1>3. PICK r \in SUBSET S : Cardinality(r) = m /\ g[r] # h[r]
  BY <1>2
<1>4. r # {}
  BY <1>3
<1>5. /\ r \ {pick[r]} \in SUBSET S /\ m \in Nat /\ m >= 1
      /\ Cardinality(r \ {pick[r]}) = m - 1
  BY <1>3, <1>4, WithoutOne
<1>6. g[r \ {pick[r]}] = h[r \ {pick[r]}]
  <2>1. m - 1 \in Nat /\ ~(m <= m - 1)
    BY <1>5
  <2>2. m - 1 \notin T
    <3> HIDE DEF T
    <3> QED
      BY <1>2, <2>1
  <2> QED
    BY <1>5, <2>1, <2>2
<1> QED
  BY <1>3, <1>4, <1>6

-----------------------------------------------------------------------------
(* A sum over a set takes its elements one by one.                         *)
First(s) == CHOOSE x \in s : TRUE
Summing(f, S, g) == [s \in SUBSET S |-> IF s = {} THEN 0 ELSE f[First(s)] + g[s \ {First(s)}]]
SumFold(f, S) == CHOOSE g : g = Summing(f, S, g)

LEMMA SumUnfolded == ASSUME NEW f, NEW S PROVE SumFunctionOnSet(f, S) = SumFold(f, S)[S]
  BY Zenon DEF SumFunctionOnSet, FoldFunctionOnSet, MapThenFoldSet, SumFold, Summing, First

LEMMA SumFacts ==
  ASSUME NEW S, IsFiniteSet(S), NEW f, \A x \in S : f[x] \in Nat
  PROVE  /\ \A s \in SUBSET S : SumFold(f, S)[s] \in Nat
         /\ SumFold(f, S)[{}] = 0
         /\ \A s \in SUBSET S : s # {} =>
               /\ First(s) \in s
               /\ SumFold(f, S)[s] = f[First(s)] + SumFold(f, S)[s \ {First(s)}]
<1> DEFINE pick == [s \in SUBSET S |-> First(s)]
           step == [c \in S \X Nat |-> f[c[1]] + c[2]]
           F == SumFold(f, S)
<1>0. IsFiniteSet(S)
  OBVIOUS
<1>1. \A s \in SUBSET S : s # {} => First(s) \in s
  BY DEF First
<1>2. IsPick(pick, S)
  BY <1>1 DEF IsPick
<1>3. step \in [S \X Nat -> Nat]
  OBVIOUS
<1>4. PICK h : Folding(Nat, 0, step, pick, SUBSET S, h)
  <2> HIDE DEF step, pick
  <2> QED
    BY <1>2, <1>3, FoldExists
<1>5. ASSUME NEW s \in SUBSET S
      PROVE  h[s] \in Nat /\ h[s] = IF s = {} THEN 0 ELSE f[First(s)] + h[s \ {First(s)}]
  <2>1. h[s] \in Nat /\ h[s] = IF s = {} THEN 0 ELSE step[<<pick[s], h[s \ {pick[s]}]>>]
    <3> HIDE DEF step, pick
    <3> QED
      BY <1>4 DEF Folding
  <2>2. pick[s] = First(s)
    OBVIOUS
  <2>3. s # {} => First(s) \in S /\ h[s \ {First(s)}] \in Nat
    <3>1. s \ {First(s)} \in SUBSET S
      OBVIOUS
    <3>2. h[s \ {First(s)}] \in Nat
      <4> HIDE DEF step, pick
      <4> QED
        BY <1>4, <3>1 DEF Folding
    <3> QED
      BY <1>1, <3>2
  <2> HIDE DEF pick
  <2> QED
    BY <2>1, <2>2, <2>3
<1>6. h = Summing(f, S, h)
  <2>1. h = [s \in SUBSET S |-> h[s]]
    <3> HIDE DEF step, pick
    <3> QED
      BY <1>4 DEF Folding
  <2> QED
    BY <1>5, <2>1 DEF Summing
<1>7. F = Summing(f, S, F)
  BY <1>6 DEF SumFold
<1> HIDE DEF F
<1>8. \A s \in SUBSET S : F[s] = IF s = {} THEN 0 ELSE f[First(s)] + F[s \ {First(s)}]
  BY <1>7 DEF Summing
<1>9. \A s \in SUBSET S : s # {} /\ F[s \ {pick[s]}] = h[s \ {pick[s]}] => F[s] = h[s]
  BY <1>5, <1>8
<1>10. F[{}] = h[{}]
  BY <1>5, <1>8
<1>11. \A s \in SUBSET S : F[s] = h[s]
  <2> HIDE DEF pick
  <2> QED
    BY ONLY <1>0, <1>2, <1>9, <1>10, FoldsAgree
<1> QED
  BY <1>1, <1>5, <1>8, <1>11 DEF F

(* Greater terms make a greater sum.                                       *)
LEMMA SumGrows ==
  ASSUME NEW S, IsFiniteSet(S), NEW f, NEW g,
         \A x \in S : f[x] \in Nat /\ g[x] \in Nat /\ f[x] <= g[x]
  PROVE  SumFunctionOnSet(f, S) <= SumFunctionOnSet(g, S)
<1> DEFINE F == SumFold(f, S)
           G == SumFold(g, S)
           T == {m \in Nat : \E s \in SUBSET S : Cardinality(s) = m /\ ~(F[s] <= G[s])}
           pick == [s \in SUBSET S |-> First(s)]
<1>1. /\ \A s \in SUBSET S : F[s] \in Nat /\ G[s] \in Nat
      /\ F[{}] = 0 /\ G[{}] = 0
      /\ \A s \in SUBSET S : s # {} =>
            /\ First(s) \in s
            /\ F[s] = f[First(s)] + F[s \ {First(s)}]
            /\ G[s] = g[First(s)] + G[s \ {First(s)}]
  BY SumFacts
<1> HIDE DEF F, G
<1>2. SUFFICES F[S] <= G[S]
  BY SumUnfolded DEF F, G
<1>3. T = {}
  <2>1. SUFFICES ASSUME T # {} PROVE FALSE
    OBVIOUS
  <2>2. PICK m \in T : \A k \in T : m <= k
    <3>1. T \in SUBSET Nat
      OBVIOUS
    <3> HIDE DEF T
    <3> QED
      BY <2>1, <3>1, LeastNat
  <2>3. PICK s \in SUBSET S : Cardinality(s) = m /\ ~(F[s] <= G[s])
    BY <2>2
  <2> HIDE DEF T
  <2>4. s # {}
    <3>1. s = {} => F[s] = 0 /\ G[s] = 0
      BY <1>1
    <3> QED
      BY <2>3, <3>1
  <2> DEFINE rest == s \ {First(s)}
  <2>5. First(s) \in S /\ rest \in SUBSET S
    BY <1>1, <2>4
  <2>6. Cardinality(rest) = m - 1 /\ m \in Nat /\ m >= 1
    <3>1. IsPick(pick, S) /\ pick[s] = First(s)
      BY <1>1 DEF IsPick
    <3>2. m \in Nat
      BY <2>2 DEF T
    <3> HIDE DEF pick
    <3>3. Cardinality(s) >= 1 /\ Cardinality(s \ {pick[s]}) = Cardinality(s) - 1
      BY <2>4, <3>1, WithoutOne
    <3> QED
      BY <2>3, <3>1, <3>2, <3>3
  <2> HIDE DEF rest
  <2>7. m - 1 \in Nat /\ ~(m <= m - 1)
    BY <2>6
  <2>8. m - 1 \notin T
    <3> HIDE DEF T
    <3> QED
      BY <2>2, <2>7
  <2>9. F[rest] <= G[rest]
    BY <2>5, <2>6, <2>7, <2>8 DEF T
  <2>10. F[s] = f[First(s)] + F[rest] /\ G[s] = g[First(s)] + G[rest]
    BY <1>1, <2>4 DEF rest
  <2>11. /\ f[First(s)] \in Nat /\ g[First(s)] \in Nat /\ f[First(s)] <= g[First(s)]
         /\ F[rest] \in Nat /\ G[rest] \in Nat
    BY <1>1, <2>5
  <2> QED
    BY <2>3, <2>9, <2>10, <2>11
<1>4. IsFiniteSet(S) /\ S \in SUBSET S
  OBVIOUS
<1> QED
  BY <1>3, <1>4, FS_CardinalityType

-----------------------------------------------------------------------------
(* Layouts and cuts.                                                       *)
LEMMA Increasing ==
  ASSUME NEW n \in Nat, NEW f, \A i \in 0 .. n : f[i] \in Int, \A i \in 1 .. n : f[i - 1] < f[i]
  PROVE  \A a, b \in 0 .. n : a < b => f[a] < f[b]
<1> DEFINE T == {d \in Nat : d >= 1 /\ \E a \in 0 .. n : a + d \in 0 .. n /\ ~(f[a] < f[a + d])}
<1>1. T = {}
  <2>1. SUFFICES ASSUME T # {} PROVE FALSE
    OBVIOUS
  <2>2. PICK d \in T : \A k \in T : d <= k
    <3>1. T \in SUBSET Nat
      OBVIOUS
    <3> HIDE DEF T
    <3> QED
      BY <2>1, <3>1, LeastNat
  <2>3. PICK a \in 0 .. n : a + d \in 0 .. n /\ ~(f[a] < f[a + d])
    BY <2>2
  <2>4. d \in Nat /\ d >= 1
    BY <2>2
  <2>5. CASE d = 1
    <3>1. a + 1 \in 1 .. n /\ (a + 1) - 1 = a
      BY <2>3, <2>5
    <3>2. f[(a + 1) - 1] < f[a + 1]
      BY <3>1
    <3> QED
      BY <2>3, <2>5, <3>1, <3>2
  <2>6. CASE d # 1
    <3>1. d - 1 \in Nat /\ d - 1 >= 1 /\ d - 1 \notin T
      <4>1. d - 1 \in Nat /\ d - 1 >= 1 /\ ~(d <= d - 1)
        BY <2>4, <2>6
      <4> HIDE DEF T
      <4> QED
        BY <2>2, <4>1
    <3>2. a + (d - 1) \in 0 .. n
      BY <2>3, <2>4
    <3>3. f[a] < f[a + (d - 1)]
      BY <3>1, <3>2
    <3>4. a + d \in 1 .. n /\ (a + d) - 1 = a + (d - 1)
      BY <2>3, <2>4
    <3>5. f[a + (d - 1)] < f[a + d]
      BY <3>4
    <3> QED
      BY <2>3, <3>2, <3>3, <3>5
  <2> QED
    BY <2>5, <2>6
<1>2. SUFFICES ASSUME NEW a \in 0 .. n, NEW b \in 0 .. n, a < b PROVE f[a] < f[b]
  OBVIOUS
<1>3. b - a \in Nat /\ b - a >= 1 /\ a + (b - a) = b /\ b - a \notin T
  <2>1. b - a \in Nat /\ b - a >= 1 /\ a + (b - a) = b
    BY <1>2
  <2> HIDE DEF T
  <2> QED
    BY <1>1, <2>1
<1> QED
  BY <1>3

LEMMA LayoutFacts ==
  ASSUME NEW at, IsLayout(at)
  PROVE  /\ Blocks(at) \in Nat /\ Blocks(at) >= 1 /\ DOMAIN at = 0 .. Blocks(at)
         /\ \A b \in 0 .. Blocks(at) : at[b] \in Nat
         /\ at[0] = 0
         /\ \A a, b \in 0 .. Blocks(at) : a < b => at[a] < at[b]
<1>1. Cardinality(DOMAIN at) \in Nat
  BY FS_CardinalityType DEF IsLayout
<1>2. Blocks(at) \in Nat /\ Blocks(at) >= 1
  BY <1>1 DEF IsLayout, Blocks
<1>3. /\ DOMAIN at = 0 .. Blocks(at) /\ at[0] = 0
      /\ \A b \in 0 .. Blocks(at) : at[b] \in Nat
      /\ \A b \in 1 .. Blocks(at) : at[b - 1] < at[b]
  BY DEF IsLayout
<1> DEFINE n == Blocks(at)
<1> HIDE DEF n
<1>4. \A a, b \in 0 .. n : a < b => at[a] < at[b]
  <2>1. \A i \in 0 .. n : at[i] \in Int
    BY <1>3 DEF n
  <2>2. \A i \in 1 .. n : at[i - 1] < at[i]
    BY <1>3 DEF n
  <2>3. n \in Nat
    BY <1>2 DEF n
  <2> QED
    BY <2>1, <2>2, <2>3, Increasing
<1> QED
  BY <1>2, <1>3, <1>4 DEF n

(* Every rank has a block. *)
CutSets(at, ranks) ==
  {cuts \in [0 .. ranks -> 0 .. Blocks(at)] :
      /\ cuts[0] = 0 /\ cuts[ranks] = Blocks(at)
      /\ \A r \in 1 .. ranks : cuts[r - 1] < cuts[r]}

LEMMA RanksCounted ==
  ASSUME NEW ranks \in Nat, NEW offsets, DOMAIN offsets = 0 .. ranks
  PROVE  Cardinality(DOMAIN offsets) = ranks + 1 /\ RanksOf(offsets) = 0 .. ranks - 1
<1>1. Cardinality(0 .. ranks) = ranks + 1
  BY FS_Interval
<1> QED
  BY <1>1 DEF RanksOf

LEMMA CutsServe ==
  ASSUME NEW at, IsLayout(at), NEW ranks \in Nat, NEW cuts \in CutSets(at, ranks)
  PROVE  /\ IsPartition(Offsets(at, cuts), TotalDofs(at))
         /\ CutsStartBlocks(at, Offsets(at, cuts))
<1> DEFINE offsets == Offsets(at, cuts)
<1>1. /\ cuts \in [0 .. ranks -> 0 .. Blocks(at)]
      /\ cuts[0] = 0 /\ cuts[ranks] = Blocks(at)
      /\ \A r \in 1 .. ranks : cuts[r - 1] < cuts[r]
  BY DEF CutSets
<1>2. DOMAIN offsets = 0 .. ranks /\ \A r \in 0 .. ranks : offsets[r] = at[cuts[r]]
  BY <1>1 DEF Offsets
<1> HIDE DEF offsets
<1>3. Cardinality(DOMAIN offsets) = ranks + 1 /\ RanksOf(offsets) = 0 .. ranks - 1
  BY <1>2, RanksCounted
<1>4. offsets[0] = 0 /\ offsets[ranks] = TotalDofs(at)
  BY <1>1, <1>2, LayoutFacts DEF TotalDofs
<1>5. ASSUME NEW r \in 1 .. ranks PROVE offsets[r - 1] < offsets[r]
  <2>1. /\ r - 1 \in 0 .. ranks /\ r \in 0 .. ranks /\ cuts[r - 1] < cuts[r]
        /\ cuts[r - 1] \in 0 .. Blocks(at) /\ cuts[r] \in 0 .. Blocks(at)
    BY <1>1
  <2> QED
    BY <1>2, <2>1, LayoutFacts
<1>6. (ranks + 1) - 1 = ranks
  OBVIOUS
<1>7. IsPartition(offsets, TotalDofs(at))
  BY <1>3, <1>4, <1>5, <1>6 DEF IsPartition
<1>8. ASSUME NEW r \in RanksOf(offsets) PROVE \E b \in DOMAIN at : offsets[r] = at[b]
  <2>1. r \in 0 .. ranks /\ cuts[r] \in DOMAIN at
    BY <1>1, <1>3, LayoutFacts
  <2> QED
    BY <1>2, <2>1
<1>9. CutsStartBlocks(at, offsets)
  BY <1>3, <1>4, <1>6, <1>8 DEF CutsStartBlocks
<1> QED
  BY <1>7, <1>9 DEF offsets

-----------------------------------------------------------------------------
(* Aligned cuts, one after the other.                                      *)
Latest(s) == Max(s)
Uncut(at, ranks) == [r \in 0 .. ranks |-> IF r = 0 THEN 0 ELSE Blocks(at)]
Sweep(ranks) == [i \in 1 .. ranks - 1 |-> i]
Aligning(at, ranks, h) ==
  [s \in SUBSET (DOMAIN Sweep(ranks)) |->
      IF s = {} THEN Uncut(at, ranks)
      ELSE Place(at, ranks, h[s \ {Latest(s)}], Sweep(ranks)[Latest(s)])]
AlignedFold(at, ranks) == CHOOSE h : h = Aligning(at, ranks, h)

LEMMA AlignedUnfolded ==
  ASSUME NEW at, NEW ranks
  PROVE  AlignedCuts(at, ranks) = AlignedFold(at, ranks)[DOMAIN Sweep(ranks)]
  BY Zenon DEF AlignedCuts, FoldLeft, MapThenFoldSet, AlignedFold, Aligning, Uncut, Sweep, Latest

(* The last of a nonempty set of steps. *)
LEMMA LatestFacts ==
  ASSUME NEW m \in Nat, NEW s \in SUBSET (1 .. m), s # {}
  PROVE  Latest(s) \in s /\ \A x \in s : x <= Latest(s)
<1>1. s \in SUBSET Int /\ m \in Int /\ \A x \in s : x <= m
  OBVIOUS
<1> QED
  BY <1>1, MaxFacts DEF Latest

(* A fold over 1 .. m goes through its prefixes. *)
LEMMA LatestOfPrefix ==
  ASSUME NEW m \in Nat, NEW k \in 1 .. m
  PROVE  /\ 1 .. k \in SUBSET (1 .. m) /\ 1 .. k # {}
         /\ Latest(1 .. k) = k /\ (1 .. k) \ {k} = 1 .. k - 1
<1>0. 1 .. k \in SUBSET (1 .. m) /\ k \in 1 .. k
  OBVIOUS
<1>1. (1 .. k) \ {k} = 1 .. k - 1
  <2>1. \A x : x \in (1 .. k) \ {k} <=> x \in 1 .. k - 1
    OBVIOUS
  <2> QED
    BY <2>1
<1>2. Latest(1 .. k) \in 1 .. k /\ k <= Latest(1 .. k)
  BY <1>0, LatestFacts
<1> QED
  BY <1>0, <1>1, <1>2

LEMMA LatestIsPick ==
  ASSUME NEW m \in Nat
  PROVE  IsPick([s \in SUBSET (1 .. m) |-> Latest(s)], 1 .. m)
  BY LatestFacts DEF IsPick

(* Where a cut is placed, if its predecessor left room. *)
LEMMA PlaceFacts ==
  ASSUME NEW at, IsLayout(at), NEW ranks \in 1 .. Blocks(at), NEW i \in 1 .. ranks - 1,
         NEW cuts \in [0 .. ranks -> Int]
  PROVE  /\ Place(at, ranks, cuts, i) \in [0 .. ranks -> Int]
         /\ \A r \in (0 .. ranks) \ {i} : Place(at, ranks, cuts, i)[r] = cuts[r]
         /\ cuts[i - 1] < Blocks(at) - (ranks - i) =>
               /\ cuts[i - 1] < Place(at, ranks, cuts, i)[i]
               /\ Place(at, ranks, cuts, i)[i] <= Blocks(at) - (ranks - i)
<1> DEFINE target == Target(at, ranks, i)
           low == cuts[i - 1] + 1
           high == Blocks(at) - (ranks - i)
           Clamped(b) == IF b < low THEN low ELSE IF b > high THEN high ELSE b
           insertion == Cardinality({b \in DOMAIN at : at[b] < target})
           lower == Clamped(insertion - 1)
           upper == Clamped(insertion)
           where == IF Distance(at[lower], target) <= Distance(at[upper], target) THEN lower ELSE upper
<1>1. Place(at, ranks, cuts, i) = [cuts EXCEPT ![i] = where]
  BY Zenon DEF Place
<1>2. insertion \in Int
  <2>1. IsFiniteSet({b \in DOMAIN at : at[b] < target})
    BY FS_Subset DEF IsLayout
  <2> QED
    BY <2>1, FS_CardinalityType
<1>3. low \in Int /\ high \in Int /\ Blocks(at) \in Nat /\ low = cuts[i - 1] + 1
  BY LayoutFacts
<1> HIDE DEF insertion, low, high, target
<1>4. \A b \in Int : /\ Clamped(b) \in Int
                     /\ low <= high => low <= Clamped(b) /\ Clamped(b) <= high
  BY <1>3
<1>5. where \in {lower, upper}
  OBVIOUS
<1>6. insertion - 1 \in Int
  BY <1>2
<1>7. where \in Int /\ (low <= high => low <= where /\ where <= high)
  <2> HIDE DEF Clamped
  <2>1. lower \in Int /\ upper \in Int
    BY <1>2, <1>4, <1>6
  <2>2. low <= high => low <= lower /\ lower <= high /\ low <= upper /\ upper <= high
    BY <1>2, <1>4, <1>6
  <2> HIDE DEF lower, upper, where
  <2> QED
    BY <1>5, <2>1, <2>2
<1> HIDE DEF where
<1>8. i \in 0 .. ranks /\ i - 1 \in 0 .. ranks /\ cuts[i - 1] \in Int
  OBVIOUS
<1>9. cuts[i - 1] < high => low <= high
  BY <1>3, <1>8
<1>10. low <= where => cuts[i - 1] < where
  BY <1>3, <1>7, <1>8
<1>11. Place(at, ranks, cuts, i)[i] = where
  BY <1>1, <1>8
<1>12. cuts[i - 1] < high => cuts[i - 1] < where /\ where <= high
  BY <1>7, <1>9, <1>10
<1> QED
  BY <1>1, <1>7, <1>11, <1>12 DEF high

LEMMA AlignedFoldIs ==
  ASSUME NEW at, IsLayout(at), NEW ranks \in 1 .. Blocks(at)
  PROVE  LET F == AlignedFold(at, ranks)
         IN  /\ F[{}] = Uncut(at, ranks)
             /\ \A k \in 1 .. ranks - 1 :
                   /\ F[1 .. k - 1] \in [0 .. ranks -> Int]
                   /\ F[1 .. k] = Place(at, ranks, F[1 .. k - 1], k)
<1> DEFINE A == [0 .. ranks -> Int]
           m == ranks - 1
           S == 1 .. m
           pick == [s \in SUBSET S |-> Latest(s)]
           step == [c \in S \X A |-> Place(at, ranks, c[2], c[1])]
           F == AlignedFold(at, ranks)
<1>1. m \in Nat /\ Blocks(at) \in Nat /\ ranks \in Nat
  BY LayoutFacts
<1>2. Uncut(at, ranks) \in A
  BY <1>1 DEF Uncut
<1>3. step \in [S \X A -> A]
  <2>1. \A i \in S, cuts \in A : Place(at, ranks, cuts, i) \in A
    BY PlaceFacts
  <2> HIDE DEF S, A
  <2> QED
    BY <2>1
<1>4. IsPick(pick, S) /\ IsFiniteSet(S)
  <2>1. IsFiniteSet(S)
    BY <1>1, FS_Interval
  <2> HIDE DEF m
  <2> QED
    BY <1>1, <2>1, LatestIsPick
<1>5. PICK h : Folding(A, Uncut(at, ranks), step, pick, SUBSET S, h)
  <2> HIDE DEF A, S, step, pick
  <2> QED
    BY <1>2, <1>3, <1>4, FoldExists
<1>6. DOMAIN Sweep(ranks) = S /\ \A i \in S : Sweep(ranks)[i] = i
  BY DEF Sweep
<1>7. ASSUME NEW s \in SUBSET S, s # {}
      PROVE  step[<<pick[s], h[s \ {pick[s]}]>>] = Place(at, ranks, h[s \ {Latest(s)}], Latest(s))
  <2>1. Latest(s) \in S
    BY <1>1, <1>7, LatestFacts
  <2>2. pick[s] = Latest(s)
    OBVIOUS
  <2>3. s \ {Latest(s)} \in SUBSET S
    OBVIOUS
  <2> HIDE DEF A, S, pick
  <2>4. h[s \ {Latest(s)}] \in A
    <3> HIDE DEF step
    <3> QED
      BY <1>5, <2>3 DEF Folding
  <2> QED
    BY <2>1, <2>2, <2>4
<1>8. h = Aligning(at, ranks, h)
  <2>1. \A s \in SUBSET S : h[s] = IF s = {} THEN Uncut(at, ranks)
                                   ELSE Place(at, ranks, h[s \ {Latest(s)}], Sweep(ranks)[Latest(s)])
    <3> HIDE DEF A, S, step, pick
    <3> TAKE s \in SUBSET S
    <3>1. h[s] = IF s = {} THEN Uncut(at, ranks) ELSE step[<<pick[s], h[s \ {pick[s]}]>>]
      BY <1>5 DEF Folding
    <3>2. s # {} => Sweep(ranks)[Latest(s)] = Latest(s)
      <4>1. s # {} => Latest(s) \in S
        BY <1>1, LatestFacts DEF S
      <4> QED
        BY <1>6, <4>1
    <3> QED
      BY <1>7, <3>1, <3>2
  <2>2. h = [s \in SUBSET S |-> h[s]]
    <3> HIDE DEF A, S, step, pick
    <3> QED
      BY <1>5 DEF Folding
  <2> HIDE DEF S
  <2> QED
    BY <1>6, <2>1, <2>2 DEF Aligning
<1>9. F = Aligning(at, ranks, F)
  BY <1>8 DEF AlignedFold
<1>10. \A s \in SUBSET S : F[s] = IF s = {} THEN Uncut(at, ranks)
                                  ELSE Place(at, ranks, F[s \ {Latest(s)}], Sweep(ranks)[Latest(s)])
  <2> HIDE DEF S, F
  <2> QED
    BY <1>6, <1>9 DEF Aligning
<1>11. F[{}] = Uncut(at, ranks)
  BY <1>10
<1> DEFINE T == {k \in Nat : k <= m /\ F[1 .. k] \notin A}
<1>12. ASSUME NEW k \in S PROVE F[1 .. k] = Place(at, ranks, F[1 .. k - 1], k)
  <2>1. /\ 1 .. k \in SUBSET S /\ 1 .. k # {} /\ Latest(1 .. k) = k /\ (1 .. k) \ {k} = 1 .. k - 1
    <3> HIDE DEF m
    <3> QED
      BY <1>1, LatestOfPrefix
  <2>2. Sweep(ranks)[k] = k
    BY <1>6
  <2> HIDE DEF S, F
  <2>3. F[1 .. k] = Place(at, ranks, F[(1 .. k) \ {Latest(1 .. k)}], Sweep(ranks)[Latest(1 .. k)])
    BY <1>10, <2>1
  <2> QED
    BY <2>1, <2>2, <2>3
<1>13. T = {}
  <2>1. SUFFICES ASSUME T # {} PROVE FALSE
    OBVIOUS
  <2>2. PICK k \in T : \A j \in T : k <= j
    <3>1. T \in SUBSET Nat
      OBVIOUS
    <3> HIDE DEF T
    <3> QED
      BY <2>1, <3>1, LeastNat
  <2>3. k # 0
    <3>1. 1 .. 0 = {}
      OBVIOUS
    <3> HIDE DEF A, F
    <3> QED
      BY <1>2, <1>11, <2>2, <3>1
  <2>4. k \in S /\ k - 1 \in Nat /\ k - 1 <= m /\ ~(k <= k - 1)
    BY <1>1, <2>2, <2>3
  <2>5. k - 1 \notin T
    <3> HIDE DEF T
    <3> QED
      BY <2>2, <2>4
  <2>6. F[1 .. k - 1] \in A
    BY <2>4, <2>5
  <2>7. F[1 .. k] \in A
    <3>1. \A i \in S, cuts \in A : Place(at, ranks, cuts, i) \in A
      BY PlaceFacts
    <3>2. F[1 .. k] = Place(at, ranks, F[1 .. k - 1], k)
      BY <1>12, <2>4
    <3> HIDE DEF A, F, S
    <3> QED
      BY <2>4, <2>6, <3>1, <3>2
  <2> QED
    BY <2>2, <2>7
<1>14. ASSUME NEW k \in 1 .. ranks - 1 PROVE F[1 .. k - 1] \in A
  <2>1. k - 1 \in Nat /\ k - 1 <= m
    BY <1>1
  <2> HIDE DEF A, F
  <2> QED
    BY <1>13, <2>1
<1> HIDE DEF F
<1> QED
  BY <1>11, <1>12, <1>14 DEF F

(* The cuts that are placed leave room for those that are not. *)
Partly(at, ranks, k, cuts) ==
  /\ cuts \in [0 .. ranks -> Int] /\ cuts[0] = 0
  /\ \A r \in 1 .. k : cuts[r - 1] < cuts[r] /\ cuts[r] <= Blocks(at) - (ranks - r)
  /\ \A r \in k + 1 .. ranks : cuts[r] = Blocks(at)

LEMMA PlacedPartly ==
  ASSUME NEW at, IsLayout(at), NEW ranks \in 1 .. Blocks(at), NEW k \in 1 .. ranks - 1,
         NEW cuts, Partly(at, ranks, k - 1, cuts)
  PROVE  Partly(at, ranks, k, Place(at, ranks, cuts, k))
<1> DEFINE placed == Place(at, ranks, cuts, k)
           n == Blocks(at)
<1>1. /\ cuts \in [0 .. ranks -> Int] /\ cuts[0] = 0
      /\ \A r \in 1 .. k - 1 : cuts[r - 1] < cuts[r] /\ cuts[r] <= n - (ranks - r)
      /\ \A r \in k .. ranks : cuts[r] = n
  BY DEF Partly
<1>2. n \in Nat /\ ranks \in Nat /\ ranks <= n /\ k \in Nat /\ 1 <= k /\ k < ranks
  BY LayoutFacts
<1>3. cuts[k - 1] < n - (ranks - k)
  <2>1. CASE k = 1
    BY <1>1, <1>2, <2>1
  <2>2. CASE k # 1
    <3>1. k - 1 \in 1 .. k - 1 /\ k - 1 \in 0 .. ranks
      BY <1>2, <2>2
    <3>2. cuts[k - 1] <= n - (ranks - (k - 1)) /\ cuts[k - 1] \in Int
      BY <1>1, <3>1
    <3> QED
      BY <1>2, <3>2
  <2> QED
    BY <2>1, <2>2
<1>4. /\ placed \in [0 .. ranks -> Int]
      /\ \A r \in (0 .. ranks) \ {k} : placed[r] = cuts[r]
      /\ cuts[k - 1] < placed[k] /\ placed[k] <= n - (ranks - k)
  <2>1. /\ placed \in [0 .. ranks -> Int]
        /\ \A r \in (0 .. ranks) \ {k} : placed[r] = cuts[r]
        /\ cuts[k - 1] < Blocks(at) - (ranks - k) =>
              cuts[k - 1] < placed[k] /\ placed[k] <= Blocks(at) - (ranks - k)
    <3> HIDE DEF n
    <3> QED
      BY <1>1, PlaceFacts
  <2> HIDE DEF placed
  <2> QED
    BY <1>3, <2>1
<1> HIDE DEF placed, n
<1>5. placed[0] = 0
  <2>1. 0 \in (0 .. ranks) \ {k}
    BY <1>2
  <2> QED
    BY <1>1, <1>4, <2>1
<1>6. ASSUME NEW r \in 1 .. k PROVE placed[r - 1] < placed[r] /\ placed[r] <= n - (ranks - r)
  <2>1. r - 1 \in (0 .. ranks) \ {k}
    BY <1>2
  <2>2. placed[r - 1] = cuts[r - 1]
    BY <1>4, <2>1
  <2>3. CASE r = k
    BY <1>4, <2>2, <2>3
  <2>4. CASE r # k
    <3>1. r \in 1 .. k - 1 /\ r \in (0 .. ranks) \ {k}
      BY <1>2, <2>4
    <3> QED
      BY <1>1, <1>4, <2>2, <3>1
  <2> QED
    BY <2>3, <2>4
<1>7. ASSUME NEW r \in k + 1 .. ranks PROVE placed[r] = n
  <2>1. r \in (0 .. ranks) \ {k} /\ r \in k .. ranks
    BY <1>2
  <2> QED
    BY <1>1, <1>4, <2>1
<1> QED
  BY <1>4, <1>5, <1>6, <1>7 DEF Partly, placed, n

LEMMA AlignedPartly ==
  ASSUME NEW at, IsLayout(at), NEW ranks \in 1 .. Blocks(at)
  PROVE  Partly(at, ranks, ranks - 1, AlignedCuts(at, ranks))
<1> DEFINE F == AlignedFold(at, ranks)
           T == {k \in Nat : k <= ranks - 1 /\ ~Partly(at, ranks, k, F[1 .. k])}
<1>1. /\ F[{}] = Uncut(at, ranks)
      /\ \A k \in 1 .. ranks - 1 : F[1 .. k] = Place(at, ranks, F[1 .. k - 1], k)
  BY AlignedFoldIs
<1> HIDE DEF F
<1>2. Blocks(at) \in Nat /\ ranks \in Nat /\ ranks >= 1
  BY LayoutFacts
<1>3. Partly(at, ranks, 0, Uncut(at, ranks))
  <2>1. /\ Uncut(at, ranks) \in [0 .. ranks -> Int] /\ Uncut(at, ranks)[0] = 0
        /\ \A r \in 1 .. ranks : Uncut(at, ranks)[r] = Blocks(at)
    BY <1>2 DEF Uncut
  <2>2. 0 + 1 .. ranks = 1 .. ranks /\ 1 .. 0 = {}
    OBVIOUS
  <2> QED
    BY <2>1, <2>2 DEF Partly
<1>4. T = {}
  <2>1. SUFFICES ASSUME T # {} PROVE FALSE
    OBVIOUS
  <2>2. PICK k \in T : \A j \in T : k <= j
    <3>1. T \in SUBSET Nat
      OBVIOUS
    <3> HIDE DEF T
    <3> QED
      BY <2>1, <3>1, LeastNat
  <2>3. k \in Nat /\ k <= ranks - 1 /\ ~Partly(at, ranks, k, F[1 .. k])
    BY <2>2
  <2>4. k # 0
    <3>1. 1 .. 0 = {}
      OBVIOUS
    <3> QED
      BY <1>1, <1>3, <2>3, <3>1
  <2>5. k \in 1 .. ranks - 1 /\ k - 1 \in Nat /\ k - 1 <= ranks - 1 /\ ~(k <= k - 1)
    BY <1>2, <2>3, <2>4
  <2>6. k - 1 \notin T
    <3> HIDE DEF T
    <3> QED
      BY <2>2, <2>5
  <2>7. Partly(at, ranks, k - 1, F[1 .. k - 1])
    BY <2>5, <2>6
  <2>8. Partly(at, ranks, k, F[1 .. k])
    BY <1>1, <2>5, <2>7, PlacedPartly
  <2> QED
    BY <2>3, <2>8
<1>5. Partly(at, ranks, ranks - 1, F[1 .. ranks - 1])
  <2>1. ranks - 1 \in Nat /\ ranks - 1 <= ranks - 1
    BY <1>2
  <2> QED
    BY <1>4, <2>1
<1>6. DOMAIN Sweep(ranks) = 1 .. ranks - 1
  BY DEF Sweep
<1> QED
  BY <1>5, <1>6, AlignedUnfolded DEF F

(* With aligned cuts every rank has a block. *)
LEMMA AlignedServe ==
  ASSUME NEW at, IsLayout(at), NEW ranks \in 1 .. Blocks(at)
  PROVE  AlignedCuts(at, ranks) \in CutSets(at, ranks)
<1> DEFINE cuts == AlignedCuts(at, ranks)
           n == Blocks(at)
<1>1. n \in Nat /\ ranks \in Nat /\ ranks >= 1 /\ ranks <= n
  BY LayoutFacts
<1>2. Partly(at, ranks, ranks - 1, cuts)
  BY AlignedPartly
<1>3. /\ cuts \in [0 .. ranks -> Int] /\ cuts[0] = 0
      /\ \A r \in 1 .. ranks - 1 : cuts[r - 1] < cuts[r] /\ cuts[r] <= n - (ranks - r)
      /\ cuts[ranks] = n
  BY <1>1, <1>2 DEF Partly
<1> HIDE DEF cuts, n
<1>4. ASSUME NEW r \in 1 .. ranks PROVE cuts[r - 1] < cuts[r] /\ cuts[r] <= n
  <2>1. CASE r \in 1 .. ranks - 1
    <3>1. cuts[r] \in Int /\ r \in 0 .. ranks /\ cuts[r] <= n - (ranks - r) /\ cuts[r - 1] < cuts[r]
      BY <1>1, <1>3, <2>1
    <3> QED
      BY <1>1, <2>1, <3>1
  <2>2. CASE r = ranks
    <3>1. CASE ranks = 1
      BY <1>1, <1>3, <2>2, <3>1
    <3>2. CASE ranks # 1
      <4>1. ranks - 1 \in 1 .. ranks - 1 /\ ranks - 1 \in 0 .. ranks
        BY <1>1, <3>2
      <4>2. cuts[ranks - 1] <= n - (ranks - (ranks - 1)) /\ cuts[ranks - 1] \in Int
        BY <1>3, <4>1
      <4> QED
        BY <1>1, <1>3, <2>2, <4>2
    <3> QED
      BY <3>1, <3>2
  <2> QED
    BY <1>1, <2>1, <2>2
<1>5. ASSUME NEW r \in 0 .. ranks PROVE cuts[r] \in 0 .. n
  <2>1. \A a, b \in 0 .. ranks : a < b => cuts[a] < cuts[b]
    <3>1. (\A i \in 0 .. ranks : cuts[i] \in Int) /\ \A i \in 1 .. ranks : cuts[i - 1] < cuts[i]
      BY <1>3, <1>4
    <3> QED
      BY <1>1, <3>1, Increasing
  <2>2. CASE r = 0
    BY <1>1, <1>3, <2>2
  <2>3. CASE r # 0
    <3>1. r \in 1 .. ranks /\ 0 \in 0 .. ranks /\ 0 < r /\ cuts[r] \in Int
      BY <1>1, <1>3, <2>3
    <3> QED
      BY <1>1, <1>3, <1>4, <2>1, <3>1
  <2> QED
    BY <2>2, <2>3
<1>6. cuts \in [0 .. ranks -> 0 .. n]
  BY <1>3, <1>5
<1> QED
  BY <1>3, <1>4, <1>6 DEF CutSets, cuts, n

-----------------------------------------------------------------------------
(* Refined cuts. Ratings are total: there is always a best boundary.       *)
LEMMA FirstDiffers ==
  ASSUME NEW a1 \in Int, NEW a2 \in Int, NEW a3 \in Int, NEW b1 \in Int, NEW b2 \in Int, NEW b3 \in Int
  PROVE  Exceeds(<<a1, a2, a3>>, <<b1, b2, b3>>) <=>
           \/ a1 > b1
           \/ a1 = b1 /\ a2 > b2
           \/ a1 = b1 /\ a2 = b2 /\ a3 > b3
<1> DEFINE a == <<a1, a2, a3>>
           b == <<b1, b2, b3>>
           Wins(k) == a[k] > b[k] /\ \A j \in 1 .. k - 1 : a[j] = b[j]
<1>1. Exceeds(a, b) <=> \E k \in 1 .. 3 : Wins(k)
  BY DEF Exceeds
<1>2. a[1] = a1 /\ a[2] = a2 /\ a[3] = a3 /\ b[1] = b1 /\ b[2] = b2 /\ b[3] = b3
  OBVIOUS
<1> HIDE DEF a, b
<1>3. Wins(1) <=> a1 > b1
  BY <1>2
<1>4. Wins(2) <=> a1 = b1 /\ a2 > b2
  <2>1. \A j : j \in 1 .. 2 - 1 <=> j = 1
    OBVIOUS
  <2> QED
    BY <1>2, <2>1
<1>5. Wins(3) <=> a1 = b1 /\ a2 = b2 /\ a3 > b3
  <2>1. \A j : j \in 1 .. 3 - 1 <=> j = 1 \/ j = 2
    OBVIOUS
  <2> QED
    BY <1>2, <2>1
<1>6. \A k : k \in 1 .. 3 <=> k = 1 \/ k = 2 \/ k = 3
  OBVIOUS
<1> HIDE DEF Wins
<1> QED
  BY <1>1, <1>3, <1>4, <1>5, <1>6 DEF a, b

(* Negated, the smaller triple exceeds. *)
LEMMA SmallerFirst ==
  ASSUME NEW a1 \in Nat, NEW a2 \in Nat, NEW a3 \in Nat, NEW b1 \in Nat, NEW b2 \in Nat, NEW b3 \in Nat,
         \/ a1 < b1
         \/ a1 = b1 /\ a2 < b2
         \/ a1 = b1 /\ a2 = b2 /\ a3 < b3
  PROVE  Exceeds(<<-a1, -a2, -a3>>, <<-b1, -b2, -b3>>)
<1>1. PICK u1 \in Int, u2 \in Int, u3 \in Int, v1 \in Int, v2 \in Int, v3 \in Int :
         u1 = -a1 /\ u2 = -a2 /\ u3 = -a3 /\ v1 = -b1 /\ v2 = -b2 /\ v3 = -b3
  OBVIOUS
<1>2. \/ u1 > v1
      \/ u1 = v1 /\ u2 > v2
      \/ u1 = v1 /\ u2 = v2 /\ u3 > v3
  BY <1>1
<1>3. Exceeds(<<u1, u2, u3>>, <<v1, v2, v3>>)
  BY ONLY <1>2, FirstDiffers
<1> QED
  BY <1>1, <1>3

LEMMA BestExists ==
  ASSUME NEW S \in SUBSET Nat, S # {}, NEW p, NEW d, \A c \in S : p[c] \in Nat /\ d[c] \in Nat
  PROVE  \E x \in S : \A y \in S \ {x} : Exceeds(<<-p[x], -d[x], -x>>, <<-p[y], -d[y], -y>>)
<1>1. PICK p0 \in {p[c] : c \in S} : \A q \in {p[c] : c \in S} : p0 <= q
  <2>1. {p[c] : c \in S} \in SUBSET Nat /\ {p[c] : c \in S} # {}
    OBVIOUS
  <2> QED
    BY <2>1, LeastNat
<1> DEFINE S1 == {c \in S : p[c] = p0}
<1>2. S1 # {} /\ S1 \in SUBSET S /\ p0 \in Nat
  BY <1>1
<1>3. PICK d0 \in {d[c] : c \in S1} : \A q \in {d[c] : c \in S1} : d0 <= q
  <2>1. {d[c] : c \in S1} \in SUBSET Nat /\ {d[c] : c \in S1} # {}
    BY <1>2
  <2> HIDE DEF S1
  <2> QED
    BY <2>1, LeastNat
<1> DEFINE S2 == {c \in S1 : d[c] = d0}
<1>4. S2 # {} /\ S2 \in SUBSET Nat /\ d0 \in Nat
  BY <1>2, <1>3
<1>5. PICK x \in S2 : \A y \in S2 : x <= y
  <2> HIDE DEF S2
  <2> QED
    BY <1>4, LeastNat
<1>6. x \in S /\ p[x] = p0 /\ d[x] = d0
  BY <1>5
<1>7. ASSUME NEW y \in S \ {x}
      PROVE  \/ p0 < p[y]
             \/ p0 = p[y] /\ d0 < d[y]
             \/ p0 = p[y] /\ d0 = d[y] /\ x < y
  <2>1. p0 <= p[y] /\ p[y] \in Nat /\ d[y] \in Nat /\ y \in Nat /\ x \in Nat /\ y # x
    BY <1>1, <1>6
  <2>2. CASE p[y] # p0
    BY <1>2, <2>1, <2>2
  <2>3. CASE p[y] = p0
    <3>1. d0 <= d[y]
      BY <1>3, <2>3
    <3>2. d[y] = d0 => x <= y
      BY <1>5, <2>3
    <3> QED
      BY <1>4, <2>1, <2>3, <3>1, <3>2
  <2> QED
    BY <2>2, <2>3
<1>8. ASSUME NEW y \in S \ {x}
      PROVE  Exceeds(<<-p[x], -d[x], -x>>, <<-p[y], -d[y], -y>>)
  <2>1. /\ p[y] \in Nat /\ d[y] \in Nat /\ y \in Nat /\ x \in Nat
        /\ p[x] \in Nat /\ d[x] \in Nat
    BY <1>6
  <2>2. \/ p[x] < p[y]
        \/ p[x] = p[y] /\ d[x] < d[y]
        \/ p[x] = p[y] /\ d[x] = d[y] /\ x < y
    BY <1>6, <1>7
  <2> QED
    BY ONLY <2>1, <2>2, SmallerFirst
<1> QED
  BY <1>6, <1>8

(* What every move leaves true. *)
IsTask(task) ==
  /\ IsLayout(task.at) /\ task.ranks \in 1 .. Blocks(task.at)
  /\ \A b \in 0 .. Blocks(task.at) : task.pressure[b] \in Nat
Bounded(task, cuts) ==
  \A r \in 0 .. task.ranks - 1 :
      /\ task.at[cuts[r + 1]] - task.at[cuts[r]] <= task.limit
      /\ Distance(cuts[r], task.aligned[r]) <= task.radius

LEMMA DistanceType == ASSUME NEW a \in Int, NEW b \in Int PROVE Distance(a, b) \in Nat
  BY DEF Distance

LEMMA TargetType ==
  ASSUME NEW at, IsLayout(at), NEW ranks \in 1 .. Blocks(at), NEW i \in Nat
  PROVE  Target(at, ranks, i) \in Nat
<1>1. Blocks(at) \in 0 .. Blocks(at) /\ ranks \in Nat /\ ranks > 0
  BY LayoutFacts
<1>2. TotalDofs(at) \in Nat
  BY <1>1, LayoutFacts DEF TotalDofs
<1>3. TotalDofs(at) * i \in Nat
  BY <1>2
<1> QED
  BY <1>1, <1>3 DEF Target

LEMMA MoveFacts ==
  ASSUME NEW task, IsTask(task), NEW i \in 1 .. task.ranks - 1, NEW cuts \in CutSets(task.at, task.ranks)
  PROVE  LET S == {cuts[i]} \cup Reachable(task.at, cuts, i, task.aligned[i], task.radius, task.limit)
         IN  \E c \in S : /\ Move(task, cuts, i) = [cuts EXCEPT ![i] = c]
                          /\ task.pressure[c] <= task.pressure[cuts[i]]
<1> DEFINE S == {cuts[i]} \cup Reachable(task.at, cuts, i, task.aligned[i], task.radius, task.limit)
           n == Blocks(task.at)
           target == Target(task.at, task.ranks, i)
           p == [c \in S |-> task.pressure[c]]
           d == [c \in S |-> Distance(task.at[c], target)]
           Rating(c) == <<-task.pressure[c], -Distance(task.at[c], target), -c>>
           best == CHOOSE x \in S : \A y \in S \ {x} : Exceeds(Rating(x), Rating(y))
<1>1. /\ n \in Nat /\ task.ranks \in Nat
      /\ \A b \in 0 .. n : task.pressure[b] \in Nat /\ task.at[b] \in Nat
  BY LayoutFacts DEF IsTask
<1>2. target \in Nat
  BY TargetType DEF IsTask
<1>3. S \in SUBSET (0 .. n)
  <2>1. /\ i - 1 \in 0 .. task.ranks /\ i \in 0 .. task.ranks /\ i + 1 \in 0 .. task.ranks
    BY <1>1
  <2>2. cuts[i - 1] \in 0 .. n /\ cuts[i] \in 0 .. n /\ cuts[i + 1] \in 0 .. n
    BY <2>1 DEF CutSets
  <2>3. \A c \in cuts[i - 1] + 1 .. cuts[i + 1] - 1 : c \in 0 .. n
    BY <1>1, <2>2
  <2> HIDE DEF n
  <2> QED
    BY <2>2, <2>3 DEF Reachable
<1> HIDE DEF S, n, target
<1>4. S # {} /\ cuts[i] \in S
  BY DEF S
<1>5. \A c \in S : /\ p[c] = task.pressure[c] /\ d[c] = Distance(task.at[c], target)
                   /\ p[c] \in Nat /\ d[c] \in Nat
  <2> TAKE c \in S
  <2>1. c \in 0 .. n /\ p[c] = task.pressure[c] /\ d[c] = Distance(task.at[c], target)
    BY <1>3
  <2> HIDE DEF p, d
  <2>2. task.pressure[c] \in Nat /\ task.at[c] \in Int /\ target \in Int
    BY <1>1, <1>2, <2>1
  <2>3. Distance(task.at[c], target) \in Nat
    BY <2>2, DistanceType
  <2> QED
    BY <2>1, <2>2, <2>3
<1>6. \E x \in S : \A y \in S \ {x} : Exceeds(Rating(x), Rating(y))
  <2>1. S \in SUBSET Nat
    BY <1>3
  <2> HIDE DEF p, d
  <2>2. \E x \in S : \A y \in S \ {x} : Exceeds(<<-p[x], -d[x], -x>>, <<-p[y], -d[y], -y>>)
    BY <1>4, <1>5, <2>1, BestExists
  <2> QED
    BY <1>5, <2>2
<1> HIDE DEF p, d
<1>7. best \in S /\ \A y \in S \ {best} : Exceeds(Rating(best), Rating(y))
  <2> HIDE DEF Rating
  <2> QED
    BY <1>6
<1>8. Move(task, cuts, i) = [cuts EXCEPT ![i] = best]
  BY Zenon DEF Move, Best, S, target
<1> HIDE DEF best
<1>9. task.pressure[best] <= task.pressure[cuts[i]]
  <2> DEFINE old == cuts[i]
  <2>1. old \in S /\ old \in Int /\ best \in Int
    <3>1. \A c \in S : c \in Int
      BY <1>3
    <3>2. old \in S /\ best \in S
      BY <1>4, <1>7
    <3> HIDE DEF old
    <3> QED
      BY <3>1, <3>2
  <2>2. /\ task.pressure[best] \in Int /\ task.pressure[old] \in Int
        /\ Distance(task.at[best], target) \in Int /\ Distance(task.at[old], target) \in Int
    <3>1. \A c \in S : task.pressure[c] \in Nat /\ Distance(task.at[c], target) \in Nat
      BY <1>5
    <3> HIDE DEF old
    <3> QED
      BY <1>7, <2>1, <3>1
  <2>3. best = old \/ Exceeds(Rating(best), Rating(old))
    <3> HIDE DEF old, Rating
    <3> QED
      BY <1>7, <2>1
  <2> HIDE DEF old
  <2> DEFINE a1 == task.pressure[best]
             b1 == task.pressure[old]
             a2 == Distance(task.at[best], target)
             b2 == Distance(task.at[old], target)
  <2>4. Exceeds(<<-a1, -a2, -best>>, <<-b1, -b2, -old>>) => -a1 >= -b1
    <3>1. /\ -a1 \in Int /\ -a2 \in Int /\ -best \in Int
          /\ -b1 \in Int /\ -b2 \in Int /\ -old \in Int
      BY <2>1, <2>2
    <3> HIDE DEF a1, b1, a2, b2
    <3> QED
      BY <3>1, FirstDiffers
  <2>5. -a1 >= -b1 => a1 <= b1
    BY <2>2
  <2>6. best = old => a1 <= b1
    BY <2>2
  <2> QED
    BY <2>3, <2>4, <2>5, <2>6 DEF old
<1> QED
  BY <1>7, <1>8, <1>9 DEF S

LEMMA MoveKeeps ==
  ASSUME NEW task, IsTask(task), NEW i \in 1 .. task.ranks - 1, NEW cuts \in CutSets(task.at, task.ranks)
  PROVE  /\ Move(task, cuts, i) \in CutSets(task.at, task.ranks)
         /\ Bounded(task, cuts) => Bounded(task, Move(task, cuts, i))
         /\ \A r \in 0 .. task.ranks : task.pressure[Move(task, cuts, i)[r]] <= task.pressure[cuts[r]]
<1> DEFINE n == Blocks(task.at)
           ranks == task.ranks
           moved == Move(task, cuts, i)
           R == Reachable(task.at, cuts, i, task.aligned[i], task.radius, task.limit)
<1>1. PICK c \in {cuts[i]} \cup R :
         moved = [cuts EXCEPT ![i] = c] /\ task.pressure[c] <= task.pressure[cuts[i]]
  BY MoveFacts
<1> HIDE DEF moved
<1>2. n \in Nat /\ ranks \in Nat /\ i \in Nat /\ 1 <= i /\ i < ranks
      /\ \A b \in 0 .. n : task.pressure[b] \in Nat
  BY LayoutFacts DEF IsTask
<1>3. /\ cuts \in [0 .. ranks -> 0 .. n] /\ cuts[0] = 0 /\ cuts[ranks] = n
      /\ \A r \in 1 .. ranks : cuts[r - 1] < cuts[r]
  BY DEF CutSets
<1>4. c \in R => /\ c \in cuts[i - 1] + 1 .. cuts[i + 1] - 1
                 /\ Distance(c, task.aligned[i]) <= task.radius
                 /\ task.at[c] - task.at[cuts[i - 1]] <= task.limit
                 /\ task.at[cuts[i + 1]] - task.at[c] <= task.limit
  BY DEF Reachable
<1> HIDE DEF n, ranks, R
<1>5. /\ i - 1 \in 0 .. ranks /\ i \in 0 .. ranks /\ i + 1 \in 0 .. ranks
      /\ i \in 1 .. ranks /\ i + 1 \in 1 .. ranks /\ (i + 1) - 1 = i
  BY <1>2
<1>6. cuts[i - 1] < c /\ c < cuts[i + 1] /\ c \in 0 .. n
  <2>1. cuts[i - 1] \in 0 .. n /\ cuts[i] \in 0 .. n /\ cuts[i + 1] \in 0 .. n
    BY <1>3, <1>5
  <2>2. cuts[i - 1] < cuts[i] /\ cuts[i] < cuts[i + 1]
    BY <1>3, <1>5
  <2>3. CASE c = cuts[i]
    BY <2>1, <2>2, <2>3
  <2>4. CASE c \in R
    BY <1>2, <1>4, <2>1, <2>4
  <2> QED
    BY <1>1, <2>3, <2>4
<1>7. /\ moved \in [0 .. ranks -> 0 .. n] /\ moved[i] = c
      /\ \A r \in 0 .. ranks : r # i => moved[r] = cuts[r]
  BY <1>1, <1>3, <1>5, <1>6
<1>8. moved \in CutSets(task.at, task.ranks)
  <2>1. moved[0] = 0 /\ moved[ranks] = n
    BY <1>2, <1>3, <1>7
  <2>2. ASSUME NEW r \in 1 .. ranks PROVE moved[r - 1] < moved[r]
    <3>1. r - 1 \in 0 .. ranks /\ r \in 0 .. ranks /\ cuts[r - 1] < cuts[r]
      BY <1>2, <1>3
    <3>2. CASE r = i
      BY <1>5, <1>6, <1>7, <3>1, <3>2
    <3>3. CASE r - 1 = i
      <4>1. r = i + 1
        BY <1>2, <3>3
      <4> QED
        BY <1>5, <1>6, <1>7, <3>1, <4>1
    <3>4. CASE r # i /\ r - 1 # i
      BY <1>7, <3>1, <3>4
    <3> QED
      BY <3>2, <3>3, <3>4
  <2> QED
    BY <1>7, <2>1, <2>2 DEF CutSets, n, ranks
<1>9. ASSUME Bounded(task, cuts), NEW r \in 0 .. ranks - 1
      PROVE  /\ task.at[moved[r + 1]] - task.at[moved[r]] <= task.limit
             /\ Distance(moved[r], task.aligned[r]) <= task.radius
  <2>1. /\ task.at[cuts[r + 1]] - task.at[cuts[r]] <= task.limit
        /\ Distance(cuts[r], task.aligned[r]) <= task.radius
    BY <1>9 DEF Bounded, ranks
  <2>2. r \in 0 .. ranks /\ r + 1 \in 0 .. ranks /\ i \in 0 .. ranks - 1 /\ i - 1 \in 0 .. ranks - 1
    BY <1>2
  <2>3. CASE c = cuts[i]
    <3>1. moved[r] = cuts[r] /\ moved[r + 1] = cuts[r + 1]
      BY <1>7, <2>2, <2>3
    <3> QED
      BY <2>1, <3>1
  <2>4. CASE c \in R /\ r = i
    <3>1. moved[r] = c /\ moved[r + 1] = cuts[i + 1]
      BY <1>2, <1>5, <1>7, <2>4
    <3> QED
      BY <1>4, <2>4, <3>1
  <2>5. CASE c \in R /\ r + 1 = i
    <3>1. r = i - 1 /\ r # i
      BY <1>2, <2>5
    <3>2. moved[r + 1] = c /\ moved[r] = cuts[r]
      BY <1>7, <2>2, <2>5, <3>1
    <3> QED
      BY <1>4, <2>1, <2>5, <3>1, <3>2
  <2>6. CASE r # i /\ r + 1 # i
    <3>1. moved[r] = cuts[r] /\ moved[r + 1] = cuts[r + 1]
      BY <1>7, <2>2, <2>6
    <3> QED
      BY <2>1, <3>1
  <2> QED
    BY <1>1, <2>3, <2>4, <2>5, <2>6
<1>10. ASSUME NEW r \in 0 .. ranks PROVE task.pressure[moved[r]] <= task.pressure[cuts[r]]
  <2>1. CASE r = i
    BY <1>1, <1>7, <2>1
  <2>2. CASE r # i
    <3>1. moved[r] = cuts[r] /\ task.pressure[cuts[r]] \in Nat
      BY <1>2, <1>3, <1>7, <2>2
    <3> QED
      BY <3>1
  <2> QED
    BY <2>1, <2>2
<1> QED
  BY <1>8, <1>9, <1>10 DEF Bounded, moved, ranks

(* No rank of the aligned partition has more than refinement allows.       *)
LEMMA AlignedBounded ==
  ASSUME NEW at, IsLayout(at), NEW ranks \in 1 .. Blocks(at), NEW cuts \in CutSets(at, ranks),
         NEW r \in 0 .. ranks - 1
  PROVE  at[cuts[r + 1]] - at[cuts[r]] <= MaxOwned(at, cuts)
<1> DEFINE n == Blocks(at)
           cap == (TotalDofs(at) * 115 + ranks * 100 - 1) \div (ranks * 100)
           lengths == {OwnedLen(Offsets(at, cuts), q) : q \in 0 .. ranks - 1}
           top == IF cap < TotalDofs(at) THEN TotalDofs(at) ELSE cap
<1>1. /\ n \in Nat /\ ranks \in Nat /\ ranks > 0
      /\ (\A b \in 0 .. n : at[b] \in Nat) /\ \A a, b \in 0 .. n : a < b => at[a] < at[b]
  BY LayoutFacts
<1>2. cuts \in [0 .. ranks -> 0 .. n] /\ DOMAIN cuts = 0 .. ranks
  BY DEF CutSets
<1>3. TotalDofs(at) \in Nat /\ \A b \in 0 .. n : at[b] <= TotalDofs(at)
  <2> HIDE DEF n
  <2>1. n \in 0 .. n /\ TotalDofs(at) = at[n]
    BY <1>1 DEF TotalDofs, n
  <2>2. ASSUME NEW b \in 0 .. n PROVE at[b] <= at[n]
    <3>1. b < n \/ b = n
      BY <1>1
    <3>2. at[b] \in Nat /\ at[n] \in Nat
      BY <1>1, <2>1
    <3> QED
      BY <1>1, <2>1, <3>1, <3>2
  <2> QED
    BY <1>1, <2>1, <2>2
<1>4. cap \in Int
  <2>1. TotalDofs(at) * 115 + ranks * 100 - 1 \in Int /\ ranks * 100 \in Nat /\ ranks * 100 > 0
    BY <1>1, <1>3
  <2> QED
    BY <2>1
<1>5. Cardinality(DOMAIN cuts) - 1 = ranks
  BY <1>1, <1>2, RanksCounted
<1> HIDE DEF cap, n
<1>6. MaxOwned(at, cuts) = Max({cap} \cup lengths)
  BY <1>5, Zenon DEF MaxOwned, cap
<1>7. ASSUME NEW q \in 0 .. ranks - 1
      PROVE  /\ OwnedLen(Offsets(at, cuts), q) = at[cuts[q + 1]] - at[cuts[q]]
             /\ OwnedLen(Offsets(at, cuts), q) \in Int
             /\ OwnedLen(Offsets(at, cuts), q) <= TotalDofs(at)
  <2>1. q \in 0 .. ranks /\ q + 1 \in 0 .. ranks
    BY <1>1
  <2>2. cuts[q] \in 0 .. n /\ cuts[q + 1] \in 0 .. n
    BY <1>2, <2>1
  <2>3. OwnedLen(Offsets(at, cuts), q) = at[cuts[q + 1]] - at[cuts[q]]
    BY <1>2, <2>1 DEF OwnedLen, Offsets
  <2>4. at[cuts[q]] \in Nat /\ at[cuts[q + 1]] \in Nat /\ at[cuts[q + 1]] <= TotalDofs(at)
    BY <1>1, <1>3, <2>2
  <2> QED
    BY <1>3, <2>3, <2>4
<1> DEFINE S == {cap} \cup lengths
<1>8. S \in SUBSET Int /\ S # {} /\ OwnedLen(Offsets(at, cuts), r) \in S
  BY <1>4, <1>7
<1>9. top \in Int /\ \A x \in S : x <= top
  BY <1>3, <1>4, <1>7
<1> HIDE DEF S, top
<1>10. \A x \in S : x <= Max(S)
  BY <1>8, <1>9, MaxFacts
<1> QED
  BY <1>6, <1>7, <1>8, <1>10 DEF S

LEMMA PressureType ==
  ASSUME NEW at, NEW matrix, matrix.n \in Nat, NEW b \in DOMAIN at
  PROVE  Pressure(matrix, at)[b] \in Nat
<1> DEFINE N == Nodes(matrix)
           of == [i \in N |-> BlockOf(at, i)]
           arcs == {a \in N \X N : a[2] \in Row(matrix, a[1])}
           P == {a \in arcs : (of[a[1]] < b) # (of[a[2]] < b)}
<1>1. IsFiniteSet(N)
  BY FS_Interval DEF Nodes
<1>2. IsFiniteSet(N \X N)
  BY <1>1, FS_Product
<1>3. P \in SUBSET (N \X N)
  OBVIOUS
<1>4. IsFiniteSet(P)
  BY <1>2, <1>3, FS_Subset
<1>5. Cardinality(P) \in Nat
  BY <1>4, FS_CardinalityType
<1>6. Pressure(matrix, at)[b] = Cardinality(P)
  BY Zenon DEF Pressure
<1> QED
  BY <1>5, <1>6

(* What refinement starts from.                                            *)
LEMMA RefinementStarts ==
  ASSUME NEW at, IsLayout(at), NEW ranks \in 1 .. Blocks(at), NEW radius \in Nat,
         NEW matrix, matrix.n \in Nat
  PROVE  LET task == Refinement(matrix, at, ranks, radius)
         IN  /\ task.at = at /\ task.ranks = ranks /\ task.radius = radius
             /\ task.aligned = AlignedCuts(at, ranks)
             /\ task.limit = MaxOwned(at, AlignedCuts(at, ranks))
             /\ task.pressure = Pressure(matrix, at)
             /\ IsTask(task) /\ Bounded(task, task.aligned)
             /\ task.aligned \in CutSets(at, ranks)
<1> DEFINE task == Refinement(matrix, at, ranks, radius)
<1>1. /\ task.at = at /\ task.ranks = ranks /\ task.radius = radius
      /\ task.aligned = AlignedCuts(at, ranks)
      /\ task.limit = MaxOwned(at, AlignedCuts(at, ranks))
      /\ task.pressure = Pressure(matrix, at)
  BY DEF Refinement
<1> HIDE DEF task
<1>2. task.aligned \in CutSets(at, ranks)
  BY <1>1, AlignedServe
<1>3. IsTask(task)
  BY <1>1, LayoutFacts, PressureType DEF IsTask
<1>4. ASSUME NEW r \in 0 .. ranks - 1
      PROVE  /\ at[task.aligned[r + 1]] - at[task.aligned[r]] <= task.limit
             /\ Distance(task.aligned[r], task.aligned[r]) <= radius
  <2>1. at[task.aligned[r + 1]] - at[task.aligned[r]] <= task.limit
    BY <1>1, <1>2, AlignedBounded
  <2>2. task.aligned[r] \in Int
    <3>1. Blocks(at) \in Nat /\ ranks \in Nat
      BY LayoutFacts
    <3>2. r \in 0 .. ranks
      BY <3>1
    <3> QED
      BY <1>2, <3>1, <3>2 DEF CutSets
  <2>3. Distance(task.aligned[r], task.aligned[r]) = 0
    BY <2>2 DEF Distance
  <2> QED
    BY <2>1, <2>3
<1> QED
  BY <1>1, <1>2, <1>3, <1>4 DEF Bounded, task

Sweeps(ranks) == Sweep(ranks) \o Sweep(ranks) \o Sweep(ranks)
Refinable(task, start, steps, h) ==
  [s \in SUBSET (DOMAIN steps) |->
      IF s = {} THEN start ELSE Move(task, h[s \ {Latest(s)}], steps[Latest(s)])]
RefinedFold(task, start, steps) == CHOOSE h : h = Refinable(task, start, steps, h)

LEMMA RefinedUnfolded ==
  ASSUME NEW task, NEW start, NEW steps
  PROVE  FoldLeft(LAMBDA cuts, i : Move(task, cuts, i), start, steps)
           = RefinedFold(task, start, steps)[DOMAIN steps]
  BY Zenon DEF FoldLeft, MapThenFoldSet, RefinedFold, Refinable, Latest

LEMMA SweepsFacts ==
  ASSUME NEW ranks \in Nat, ranks >= 1
  PROVE  \E m \in Nat : /\ DOMAIN Sweeps(ranks) = 1 .. m
                        /\ \A k \in 1 .. m : Sweeps(ranks)[k] \in 1 .. ranks - 1
<1> DEFINE S == 1 .. ranks - 1
<1>1. Sweep(ranks) \in [1 .. ranks - 1 -> S] /\ ranks - 1 \in Nat
  BY DEF Sweep
<1> HIDE DEF S
<1>2. Sweep(ranks) \in Seq(S)
  BY <1>1, SeqDef, Zenon
<1>3. Sweeps(ranks) \in Seq(S)
  BY <1>2 DEF Sweeps
<1>4. Len(Sweeps(ranks)) \in Nat /\ DOMAIN Sweeps(ranks) = 1 .. Len(Sweeps(ranks))
  BY <1>3
<1>5. \A k \in 1 .. Len(Sweeps(ranks)) : Sweeps(ranks)[k] \in S
  BY <1>3
<1> QED
  BY <1>4, <1>5 DEF S

(* What refinement may come to, whatever it moves. *)
Settled(task) ==
  {cuts \in CutSets(task.at, task.ranks) :
      /\ Bounded(task, cuts)
      /\ \A r \in 0 .. task.ranks : task.pressure[cuts[r]] <= task.pressure[task.aligned[r]]}

LEMMA FoldSettles ==
  ASSUME NEW task, IsTask(task), task.aligned \in CutSets(task.at, task.ranks),
         Bounded(task, task.aligned), NEW m \in Nat, NEW steps, DOMAIN steps = 1 .. m,
         \A k \in 1 .. m : steps[k] \in 1 .. task.ranks - 1
  PROVE  RefinedFold(task, task.aligned, steps)[DOMAIN steps] \in Settled(task)
<1> DEFINE A == Settled(task)
           S == 1 .. m
           start == task.aligned
           pick == [s \in SUBSET S |-> Latest(s)]
           step == [c \in S \X A |-> Move(task, c[2], steps[c[1]])]
           n == Blocks(task.at)
<1>1. /\ n \in Nat /\ task.ranks \in Nat
      /\ \A b \in 0 .. n : task.pressure[b] \in Nat
  BY LayoutFacts DEF IsTask
<1>2. \A cuts \in CutSets(task.at, task.ranks), r \in 0 .. task.ranks : cuts[r] \in 0 .. n
  BY DEF CutSets
<1>3. start \in A
  <2>1. \A r \in 0 .. task.ranks : task.pressure[start[r]] <= task.pressure[start[r]]
    <3> TAKE r \in 0 .. task.ranks
    <3>1. start[r] \in 0 .. n
      BY <1>2
    <3>2. task.pressure[start[r]] \in Nat
      BY <1>1, <3>1
    <3> QED
      BY <3>2
  <2> QED
    BY <2>1 DEF Settled
<1>4. ASSUME NEW k \in S, NEW cuts \in A PROVE Move(task, cuts, steps[k]) \in A
  <2> DEFINE i == steps[k]
             moved == Move(task, cuts, i)
  <2>1. i \in 1 .. task.ranks - 1
    OBVIOUS
  <2>2. /\ cuts \in CutSets(task.at, task.ranks) /\ Bounded(task, cuts)
        /\ \A r \in 0 .. task.ranks : task.pressure[cuts[r]] <= task.pressure[start[r]]
    BY DEF Settled
  <2> HIDE DEF i
  <2>3. /\ moved \in CutSets(task.at, task.ranks) /\ Bounded(task, moved)
        /\ \A r \in 0 .. task.ranks : task.pressure[moved[r]] <= task.pressure[cuts[r]]
    BY <2>1, <2>2, MoveKeeps
  <2> HIDE DEF moved
  <2>4. ASSUME NEW r \in 0 .. task.ranks
        PROVE  task.pressure[moved[r]] <= task.pressure[start[r]]
    <3>1. moved[r] \in 0 .. n /\ cuts[r] \in 0 .. n /\ start[r] \in 0 .. n
      BY <1>2, <2>2, <2>3
    <3>2. /\ task.pressure[moved[r]] \in Nat /\ task.pressure[cuts[r]] \in Nat
          /\ task.pressure[start[r]] \in Nat
      BY <1>1, <3>1
    <3>3. task.pressure[moved[r]] <= task.pressure[cuts[r]] /\ task.pressure[cuts[r]] <= task.pressure[start[r]]
      BY <2>2, <2>3
    <3> QED
      BY <3>2, <3>3
  <2> QED
    BY <2>3, <2>4 DEF Settled, moved, i
<1> HIDE DEF A, start
<1>5. step \in [S \X A -> A]
  <2> HIDE DEF S
  <2> QED
    BY <1>4
<1>6. IsPick(pick, S) /\ IsFiniteSet(S)
  <2>1. IsFiniteSet(1 .. m)
    BY FS_Interval
  <2>2. IsPick(pick, S)
    BY LatestIsPick
  <2> QED
    BY <2>1, <2>2
<1>7. PICK h : Folding(A, start, step, pick, SUBSET S, h)
  <2> HIDE DEF S, step, pick
  <2> QED
    BY <1>3, <1>5, <1>6, FoldExists
<1>8. ASSUME NEW h2, Folding(A, start, step, pick, SUBSET S, h2), NEW s \in SUBSET S, s # {}
      PROVE  step[<<pick[s], h2[s \ {pick[s]}]>>] = Move(task, h2[s \ {Latest(s)}], steps[Latest(s)])
  <2>1. Latest(s) \in S
    BY <1>8, LatestFacts
  <2>2. pick[s] = Latest(s)
    OBVIOUS
  <2>3. s \ {Latest(s)} \in SUBSET S
    OBVIOUS
  <2> HIDE DEF S, pick
  <2>4. h2[s \ {Latest(s)}] \in A
    <3> HIDE DEF step
    <3> QED
      BY <1>8, <2>3 DEF Folding
  <2> QED
    BY <2>1, <2>2, <2>4
<1>9. h = Refinable(task, start, steps, h)
  <2>1. \A s \in SUBSET S : h[s] = IF s = {} THEN start
                                   ELSE Move(task, h[s \ {Latest(s)}], steps[Latest(s)])
    <3> HIDE DEF S, step, pick
    <3> TAKE s \in SUBSET S
    <3>1. h[s] = IF s = {} THEN start ELSE step[<<pick[s], h[s \ {pick[s]}]>>]
      BY <1>7 DEF Folding
    <3> QED
      BY <1>7, <1>8, <3>1
  <2>2. h = [s \in SUBSET S |-> h[s]]
    <3> HIDE DEF S, step, pick
    <3> QED
      BY <1>7 DEF Folding
  <2> HIDE DEF S
  <2>3. DOMAIN steps = S
    BY DEF S
  <2> QED
    BY <2>1, <2>2, <2>3 DEF Refinable
<1> DEFINE F == RefinedFold(task, start, steps)
<1>10. F = Refinable(task, start, steps, F)
  BY <1>9 DEF RefinedFold
<1> HIDE DEF F
<1>11. \A s \in SUBSET S : s # {} /\ F[s \ {pick[s]}] = h[s \ {pick[s]}] => F[s] = h[s]
  <2> TAKE s \in SUBSET S
  <2>1. pick[s] = Latest(s)
    OBVIOUS
  <2>2. DOMAIN steps = S
    OBVIOUS
  <2> HIDE DEF S, pick
  <2>3. s # {} => /\ F[s] = Move(task, F[s \ {Latest(s)}], steps[Latest(s)])
                  /\ h[s] = Move(task, h[s \ {Latest(s)}], steps[Latest(s)])
    BY <1>9, <1>10, <2>2 DEF Refinable
  <2> QED
    BY <2>1, <2>3
<1>12. F[{}] = h[{}]
  <2>1. DOMAIN steps = S /\ {} \in SUBSET S
    OBVIOUS
  <2> HIDE DEF S
  <2> QED
    BY <1>9, <1>10, <2>1 DEF Refinable
<1>13. h[S] \in A
  <2> HIDE DEF S, step, pick
  <2> QED
    BY <1>7 DEF Folding
<1>14. F[S] = h[S]
  <2>1. S \in SUBSET S
    OBVIOUS
  <2> HIDE DEF S, pick
  <2>2. \A s \in SUBSET S : F[s] = h[s]
    BY ONLY <1>6, <1>11, <1>12, FoldsAgree
  <2> QED
    BY <2>1, <2>2
<1> QED
  BY <1>13, <1>14 DEF F, A, start

(* What refinement settles on keeps a block for every rank, its bounds and *)
(* its radius, and crosses no boundary of a greater pressure.              *)
LEMMA RefinedSettles ==
  ASSUME NEW at, IsLayout(at), NEW ranks \in 1 .. Blocks(at), NEW radius \in Nat,
         NEW matrix, matrix.n \in Nat
  PROVE  RefinedCuts(matrix, at, ranks, radius) \in Settled(Refinement(matrix, at, ranks, radius))
<1> DEFINE task == Refinement(matrix, at, ranks, radius)
           steps == Sweeps(ranks)
<1>1. /\ IsTask(task) /\ Bounded(task, task.aligned) /\ task.at = at /\ task.ranks = ranks
      /\ task.aligned \in CutSets(at, ranks)
  BY RefinementStarts
<1>2. RefinedCuts(matrix, at, ranks, radius)
        = FoldLeft(LAMBDA cuts, i : Move(task, cuts, i), task.aligned, steps)
  BY Zenon DEF RefinedCuts, Sweeps, Sweep
<1>3. ranks \in Nat /\ ranks >= 1
  BY LayoutFacts
<1> HIDE DEF task, steps
<1>4. PICK m \in Nat : DOMAIN steps = 1 .. m /\ \A k \in 1 .. m : steps[k] \in 1 .. ranks - 1
  BY <1>3, SweepsFacts DEF steps
<1>5. RefinedFold(task, task.aligned, steps)[DOMAIN steps] \in Settled(task)
  BY <1>1, <1>4, FoldSettles
<1> QED
  BY <1>2, <1>5, RefinedUnfolded DEF task

-----------------------------------------------------------------------------
(* Uniform ranges. The first rem ranks have one row more than the others.  *)
LEMMA TargetsSum ==
  ASSUME NEW S, IsFiniteSet(S), NEW f, NEW q \in Nat, NEW rem \in Nat,
         \A k \in S : k \in Nat /\ f[k] = q + (IF k < rem THEN 1 ELSE 0)
  PROVE  SumFunctionOnSet(f, S) = q * Cardinality(S) + Cardinality({k \in S : k < rem})
<1> DEFINE F == SumFold(f, S)
           Extra1(s) == {k \in s : k < rem}
           T == {m \in Nat : \E s \in SUBSET S :
                    Cardinality(s) = m /\ F[s] # q * m + Cardinality(Extra1(s))}
           pick == [s \in SUBSET S |-> First(s)]
<1>1. /\ \A s \in SUBSET S : F[s] \in Nat
      /\ F[{}] = 0
      /\ \A s \in SUBSET S : s # {} => First(s) \in s /\ F[s] = f[First(s)] + F[s \ {First(s)}]
  <2>1. \A x \in S : f[x] \in Nat
    OBVIOUS
  <2> QED
    BY <2>1, SumFacts
<1> HIDE DEF F
<1>2. ASSUME NEW s \in SUBSET S
      PROVE  IsFiniteSet(s) /\ IsFiniteSet(Extra1(s)) /\ Cardinality(s) \in Nat /\ Cardinality(Extra1(s)) \in Nat
  <2>1. IsFiniteSet(s) /\ Extra1(s) \in SUBSET s
    BY FS_Subset
  <2> HIDE DEF Extra1
  <2> QED
    BY <2>1, FS_Subset, FS_CardinalityType
<1>3. T = {}
  <2>1. SUFFICES ASSUME T # {} PROVE FALSE
    OBVIOUS
  <2>2. PICK m \in T : \A k \in T : m <= k
    <3>1. T \in SUBSET Nat
      OBVIOUS
    <3> HIDE DEF T
    <3> QED
      BY <2>1, <3>1, LeastNat
  <2>3. PICK s \in SUBSET S : Cardinality(s) = m /\ F[s] # q * m + Cardinality(Extra1(s))
    BY <2>2
  <2>4. m \in Nat
    BY <2>2
  <2> HIDE DEF T
  <2>5. s # {}
    <3>1. SUFFICES ASSUME s = {} PROVE FALSE
      OBVIOUS
    <3>2. Cardinality(s) = 0 /\ Extra1(s) = {} /\ Cardinality({}) = 0
      BY <3>1, FS_EmptySet
    <3>3. m = 0 /\ q * m = 0 /\ Cardinality(Extra1(s)) = 0 /\ F[s] = 0
      <4>1. m = 0
        BY <2>3, <3>2
      <4>2. Cardinality(Extra1(s)) = 0
        BY <3>2
      <4> QED
        BY <1>1, <3>1, <4>1, <4>2
    <3> HIDE DEF Extra1
    <3> QED
      BY <2>3, <3>3
  <2> DEFINE x == First(s)
             rest == s \ {x}
  <2>6. x \in s /\ F[s] = f[x] + F[rest] /\ rest \in SUBSET S
    BY <1>1, <2>5
  <2> HIDE DEF x
  <2>7. Cardinality(rest) = m - 1
    BY <1>2, <2>3, <2>6, FS_RemoveElement
  <2>8. m - 1 \in Nat /\ ~(m <= m - 1)
    <3>1. Cardinality(rest) \in Nat
      BY <1>2, <2>6
    <3> QED
      BY <2>4, <2>7, <3>1
  <2>9. F[rest] = q * (m - 1) + Cardinality(Extra1(rest))
    <3>1. m - 1 \notin T
      BY <2>2, <2>8
    <3> HIDE DEF rest, Extra1
    <3> QED
      BY <2>6, <2>7, <2>8, <3>1 DEF T
  <2>10. Cardinality(Extra1(s)) = Cardinality(Extra1(rest)) + (IF x < rem THEN 1 ELSE 0)
    <3>1. CASE x < rem
      <4>1. x \in Extra1(s) /\ Extra1(rest) = Extra1(s) \ {x}
        BY <2>6, <3>1
      <4>2. /\ IsFiniteSet(Extra1(s)) /\ Cardinality(Extra1(s)) \in Nat
            /\ Cardinality(Extra1(rest)) \in Nat
        <5> HIDE DEF Extra1, rest
        <5> QED
          BY <1>2, <2>6
      <4> HIDE DEF Extra1, rest
      <4>3. Cardinality(Extra1(rest)) = Cardinality(Extra1(s)) - 1
        BY <4>1, <4>2, FS_RemoveElement
      <4> QED
        BY <3>1, <4>2, <4>3
    <3>2. CASE ~(x < rem)
      <4>1. Extra1(rest) = Extra1(s)
        BY <2>6, <3>2
      <4>2. Cardinality(Extra1(s)) \in Nat
        <5> HIDE DEF Extra1
        <5> QED
          BY <1>2
      <4> HIDE DEF Extra1, rest
      <4> QED
        BY <3>2, <4>1, <4>2
    <3> QED
      BY <3>1, <3>2
  <2>11. f[x] = q + (IF x < rem THEN 1 ELSE 0) /\ x \in Nat
    BY <2>6
  <2>12. q * (m - 1) + q = q * m /\ q * (m - 1) \in Int /\ q * m \in Int
    BY <2>4
  <2>13. Cardinality(Extra1(rest)) \in Nat
    <3> HIDE DEF Extra1, rest
    <3> QED
      BY <1>2, <2>6
  <2> HIDE DEF Extra1, rest
  <2> QED
    BY <2>3, <2>6, <2>9, <2>10, <2>11, <2>12, <2>13
<1>4. S \in SUBSET S /\ Cardinality(S) \in Nat
  BY FS_CardinalityType
<1>5. F[S] = q * Cardinality(S) + Cardinality(Extra1(S))
  <2> HIDE DEF Extra1
  <2> QED
    BY <1>3, <1>4
<1> QED
  BY <1>5, SumUnfolded DEF F

LEMMA BalancedIs ==
  ASSUME NEW n \in Nat, NEW ranks \in Nat, ranks > 0, NEW r \in 0 .. ranks
  PROVE  BalancedOffsets(n, ranks)[r]
           = (n \div ranks) * r + (IF r < n % ranks THEN r ELSE n % ranks)
<1> DEFINE q == n \div ranks
           rem == n % ranks
           size == BalancedTargets(n, ranks)
           S == 0 .. r - 1
<1>1. q \in Nat /\ rem \in Nat
  OBVIOUS
<1>2. \A k \in 0 .. ranks - 1 : size[k] = q + (IF k < rem THEN 1 ELSE 0)
  BY DEF BalancedTargets
<1>3. BalancedOffsets(n, ranks)[r] = SumFunctionOnSet(size, S)
  BY DEF BalancedOffsets
<1> HIDE DEF q, rem, size
<1>4. IsFiniteSet(S) /\ Cardinality(S) = r
  BY FS_Interval
<1>5. \A k \in S : k \in Nat /\ size[k] = q + (IF k < rem THEN 1 ELSE 0)
  BY <1>2
<1> DEFINE least == IF r < rem THEN r ELSE rem
<1>6. {k \in S : k < rem} = 0 .. least - 1
  <2>1. \A k : k \in {j \in S : j < rem} <=> k \in 0 .. least - 1
    BY <1>1
  <2> QED
    BY <2>1
<1>7. least \in Nat
  BY <1>1
<1> HIDE DEF S, least
<1>8. Cardinality(0 .. least - 1) = least
  BY <1>7, FS_Interval
<1>9. SumFunctionOnSet(size, S) = q * r + least
  <2>1. SumFunctionOnSet(size, S) = q * Cardinality(S) + Cardinality({k \in S : k < rem})
    BY <1>1, <1>4, <1>5, TargetsSum
  <2> QED
    BY <1>4, <1>6, <1>8, <2>1
<1> QED
  BY <1>3, <1>9 DEF q, rem, least

LEMMA BalancedServes ==
  ASSUME NEW n \in Nat, NEW ranks \in 1 .. n
  PROVE  IsPartition(BalancedOffsets(n, ranks), n)
<1> DEFINE q == n \div ranks
           rem == n % ranks
           offsets == BalancedOffsets(n, ranks)
<1>1. ranks \in Nat /\ ranks > 0
  OBVIOUS
<1>2. q \in Nat /\ q >= 1 /\ rem \in 0 .. ranks - 1 /\ n = ranks * q + rem
  BY <1>1, Z3
<1>3. \A r \in 0 .. ranks : offsets[r] = q * r + (IF r < rem THEN r ELSE rem)
  BY <1>1, BalancedIs
<1>4. DOMAIN offsets = 0 .. ranks
  BY DEF BalancedOffsets
<1> HIDE DEF q, rem, offsets
<1>5. Cardinality(DOMAIN offsets) - 1 = ranks
  BY <1>1, <1>4, RanksCounted
<1>6. offsets[0] = 0
  <2>1. 0 \in 0 .. ranks /\ q * 0 = 0
    BY <1>1, <1>2
  <2>2. offsets[0] = q * 0 + (IF 0 < rem THEN 0 ELSE rem)
    BY <1>3, <2>1
  <2> QED
    BY <1>2, <2>1, <2>2
<1>7. offsets[ranks] = n
  <2>1. ranks \in 0 .. ranks /\ ~(ranks < rem) /\ q * ranks = ranks * q
    BY <1>1, <1>2
  <2> QED
    BY <1>2, <1>3, <2>1
<1>8. ASSUME NEW r \in 1 .. ranks PROVE offsets[r - 1] < offsets[r]
  <2>1. r - 1 \in 0 .. ranks /\ r \in 0 .. ranks /\ r \in Nat
    BY <1>1
  <2>2. /\ offsets[r] = q * r + (IF r < rem THEN r ELSE rem)
        /\ offsets[r - 1] = q * (r - 1) + (IF r - 1 < rem THEN r - 1 ELSE rem)
    BY <1>3, <2>1
  <2>3. q * (r - 1) + q = q * r /\ q * (r - 1) \in Int /\ q * r \in Int
    BY <1>2, <2>1
  <2> QED
    BY <1>2, <2>1, <2>2, <2>3
<1> QED
  BY <1>5, <1>6, <1>7, <1>8 DEF IsPartition, offsets

-----------------------------------------------------------------------------
(* Partitions that a selection can come to.                                *)
LEMMA BlocksHaveDofs ==
  ASSUME NEW at, IsLayout(at)
  PROVE  \A b \in 0 .. Blocks(at) : b <= at[b]
<1> DEFINE n == Blocks(at)
           T == {b \in Nat : b <= n /\ ~(b <= at[b])}
<1>1. /\ n \in Nat /\ at[0] = 0
      /\ (\A b \in 0 .. n : at[b] \in Nat) /\ \A a, b \in 0 .. n : a < b => at[a] < at[b]
  BY LayoutFacts
<1> HIDE DEF n
<1>2. SUFFICES ASSUME T # {} PROVE FALSE
  BY DEF n
<1>3. PICK b \in T : \A k \in T : b <= k
  <2>1. T \in SUBSET Nat
    OBVIOUS
  <2> HIDE DEF T
  <2> QED
    BY <1>2, <2>1, LeastNat
<1>4. b \in Nat /\ b <= n /\ ~(b <= at[b])
  BY <1>3
<1>5. b # 0
  BY <1>1, <1>4
<1>6. b - 1 \in 0 .. n /\ b \in 0 .. n /\ ~(b <= b - 1) /\ b - 1 < b /\ b - 1 \in Nat
  BY <1>1, <1>4, <1>5
<1>7. b - 1 \notin T
  <2> HIDE DEF T
  <2> QED
    BY <1>3, <1>6
<1>8. b - 1 <= at[b - 1] /\ at[b - 1] < at[b] /\ at[b - 1] \in Nat /\ at[b] \in Nat
  BY <1>1, <1>6, <1>7
<1> QED
  BY <1>4, <1>8

(* A problem the partitioners accept. *)
LEMMA ServedFacts ==
  ASSUME NEW p \in Problems, Served(p)
  PROVE  /\ IsLayout(p.at) /\ p.ranks \in 1 .. Blocks(p.at) /\ p.radius \in Nat
         /\ p.matrix.n = TotalDofs(p.at) /\ p.matrix.n \in Nat /\ p.ranks \in 1 .. p.matrix.n
<1>1. /\ IsLayout(p.at) /\ p.ranks \in 1 .. Blocks(p.at) /\ p.radius \in Nat
      /\ p.matrix.n = TotalDofs(p.at)
  BY CostAssumption DEF Served
<1>2. /\ Blocks(p.at) \in Nat /\ p.at[Blocks(p.at)] \in Nat
      /\ Blocks(p.at) <= p.at[Blocks(p.at)]
  BY <1>1, LayoutFacts, BlocksHaveDofs
<1> QED
  BY <1>1, <1>2 DEF TotalDofs

(* A contiguous partition that splits no block. *)
Serves(p, partition) ==
  /\ IsPartition(partition.offsets, p.matrix.n) /\ CutsStartBlocks(p.at, partition.offsets)
  /\ partition.stats = Stats(p.matrix, partition.offsets)

LEMMA BaselineServes ==
  ASSUME NEW p \in Problems, Served(p)
  PROVE  Serves(p, Baseline[p]) /\ Baseline[p].kind \in {"Equal", "Field"}
<1> DEFINE uniform == Contiguous(p, "Equal", BalancedOffsets(p.matrix.n, p.ranks))
           field == Contiguous(p, "Field", Offsets(p.at, AlignedCuts(p.at, p.ranks)))
<1>1. Baseline[p] = IF /\ CutsStartBlocks(p.at, uniform.offsets)
                       /\ StructurallyDominates(uniform.stats, field.stats)
                    THEN uniform ELSE field
  BY DEF Baseline, Preferred
<1>2. /\ IsPartition(BalancedOffsets(p.matrix.n, p.ranks), p.matrix.n)
      /\ IsPartition(Offsets(p.at, AlignedCuts(p.at, p.ranks)), p.matrix.n)
      /\ CutsStartBlocks(p.at, Offsets(p.at, AlignedCuts(p.at, p.ranks)))
  <2>1. AlignedCuts(p.at, p.ranks) \in CutSets(p.at, p.ranks)
    BY ServedFacts, AlignedServe
  <2>2. p.ranks \in Nat
    BY ServedFacts
  <2> QED
    BY <2>1, <2>2, ServedFacts, BalancedServes, CutsServe
<1>3. /\ uniform.offsets = BalancedOffsets(p.matrix.n, p.ranks) /\ uniform.kind = "Equal"
      /\ uniform.stats = Stats(p.matrix, uniform.offsets)
      /\ field.offsets = Offsets(p.at, AlignedCuts(p.at, p.ranks)) /\ field.kind = "Field"
      /\ field.stats = Stats(p.matrix, field.offsets)
  BY DEF Contiguous
<1> HIDE DEF uniform, field
<1>4. CASE /\ CutsStartBlocks(p.at, uniform.offsets)
           /\ StructurallyDominates(uniform.stats, field.stats)
  BY <1>1, <1>2, <1>3, <1>4 DEF Serves
<1>5. CASE ~ (/\ CutsStartBlocks(p.at, uniform.offsets)
              /\ StructurallyDominates(uniform.stats, field.stats))
  BY <1>1, <1>2, <1>3, <1>5 DEF Serves
<1> QED
  BY <1>4, <1>5

LEMMA ProposalServes ==
  ASSUME NEW p \in Problems, Served(p)
  PROVE  Serves(p, Proposal[p].proposed) /\ Proposal[p].radius = p.radius
<1> DEFINE cuts == FieldGraphCuts(p.matrix, p.at, p.ranks, p.radius)
           aligned == AlignedCuts(p.at, p.ranks)
           refined == RefinedCuts(p.matrix, p.at, p.ranks, p.radius)
           task == Refinement(p.matrix, p.at, p.ranks, p.radius)
<1>1. Proposal[p] = Compared(p, cuts)
  BY DEF Proposal
<1>2. /\ Proposal[p].proposed = Contiguous(p, "Graph", Offsets(p.at, cuts))
      /\ Proposal[p].radius = p.radius
  BY <1>1 DEF Compared
<1>3. cuts = aligned \/ cuts = refined
  BY Zenon DEF FieldGraphCuts
<1>4. aligned \in CutSets(p.at, p.ranks)
  BY ServedFacts, AlignedServe
<1>5. refined \in CutSets(p.at, p.ranks)
  <2>1. refined \in Settled(task)
    BY ServedFacts, RefinedSettles
  <2>2. task.at = p.at /\ task.ranks = p.ranks
    BY ServedFacts, RefinementStarts
  <2> HIDE DEF task, refined
  <2> QED
    BY <2>1, <2>2 DEF Settled
<1> HIDE DEF cuts, aligned, refined
<1>6. /\ IsPartition(Offsets(p.at, cuts), p.matrix.n) /\ CutsStartBlocks(p.at, Offsets(p.at, cuts))
  <2>1. cuts \in CutSets(p.at, p.ranks) /\ p.ranks \in Nat
    BY <1>3, <1>4, <1>5, ServedFacts
  <2> QED
    BY <2>1, ServedFacts, CutsServe
<1> QED
  BY <1>2, <1>6 DEF Contiguous, Serves

-----------------------------------------------------------------------------
(* Selection. Without a first reason there is no reason.                   *)
LEMMA NoReason ==
  ASSUME NEW m \in Nat, NEW reasons, DOMAIN reasons = 1 .. m,
         \A k \in 1 .. m : reasons[k] # "none", NEW it, FirstReason(reasons, it) = "none"
  PROVE  \A k \in 1 .. m : ~ReasonHolds(reasons[k], it)
<1> DEFINE T == {k \in 1 .. m : ReasonHolds(reasons[k], it)}
           IsFirst(k) == /\ \A j \in 1 .. k - 1 : ~ReasonHolds(reasons[j], it)
                         /\ ReasonHolds(reasons[k], it)
<1>1. SUFFICES ASSUME T # {} PROVE FALSE
  OBVIOUS
<1>2. PICK k \in T : \A j \in T : k <= j
  <2>1. T \in SUBSET Nat
    OBVIOUS
  <2> HIDE DEF T
  <2> QED
    BY <1>1, <2>1, LeastNat
<1>3. IsFirst(k) /\ k \in 1 .. m
  <2>1. \A j \in 1 .. k - 1 : j \in 1 .. m /\ ~(k <= j)
    BY <1>2
  <2> QED
    BY <1>2, <2>1
<1>4. FirstReason(reasons, it) = reasons[CHOOSE j \in 1 .. m : IsFirst(j)]
  BY <1>2, Zenon DEF FirstReason
<1> HIDE DEF IsFirst
<1>5. (CHOOSE j \in 1 .. m : IsFirst(j)) \in 1 .. m
  BY <1>3
<1> QED
  BY <1>4, <1>5

(* Savings beyond the cost of preparation and the minimum. *)
LEMMA Amortized ==
  ASSUME NEW b \in Nat, NEW g \in Nat, NEW c \in Nat, NEW prepare \in Nat, NEW least \in Nat,
         ~((b - g) * c - prepare <= least)
  PROVE  c * g + prepare + least < c * b
<1>1. (b - g) * c = c * b - c * g /\ c * b \in Int /\ c * g \in Int
  BY Z3
<1>2. (b - g) * c \in Int
  BY <1>1
<1> QED
  BY <1>1, <1>2

LEMMA Selected ==
  ASSUME NEW p \in Problems, Served(p), NEW policy \in Policies, NEW timing,
         timing \in Timings \/ timing = NoEvidence
  PROVE  LET chosen == CostAware(p, policy, timing, NoEvidence)
         IN  /\ chosen.kind \in {"Equal", "Field", "Graph"}
             /\ IsPartition(chosen.offsets, p.matrix.n) /\ CutsStartBlocks(p.at, chosen.offsets)
             /\ chosen.kind # "Graph" => chosen.offsets = Baseline[p].offsets
             /\ chosen.kind = "Graph" =>
                   /\ timing \in Timings
                   /\ chosen.offsets # Baseline[p].offsets
                   /\ NoWorse(Stats(p.matrix, chosen.offsets).traffic, Baseline[p].stats.traffic)
                   /\ ~Overloaded(policy, Stats(p.matrix, chosen.offsets), p.ranks)
                   /\ policy.calls * timing.graph + timing.prepare + policy.minimum
                         < policy.calls * timing.baseline
<1> DEFINE it == [problem |-> p, policy |-> policy, timing |-> timing, baseline |-> Baseline[p],
                  graph |-> Proposal[p]]
           chosen == CostAware(p, policy, timing, NoEvidence)
           cheap == FirstReason(CheapReasons, it)
           costly == FirstReason(GraphReasons, it)
           Good == /\ chosen.kind \in {"Equal", "Field", "Graph"}
                   /\ IsPartition(chosen.offsets, p.matrix.n) /\ CutsStartBlocks(p.at, chosen.offsets)
                   /\ chosen.kind # "Graph" => chosen.offsets = Baseline[p].offsets
                   /\ chosen.kind = "Graph" =>
                         /\ timing \in Timings
                         /\ chosen.offsets # Baseline[p].offsets
                         /\ NoWorse(Stats(p.matrix, chosen.offsets).traffic, Baseline[p].stats.traffic)
                         /\ ~Overloaded(policy, Stats(p.matrix, chosen.offsets), p.ranks)
                         /\ policy.calls * timing.graph + timing.prepare + policy.minimum
                               < policy.calls * timing.baseline
<1>1. /\ it.problem = p /\ it.policy = policy /\ it.timing = timing
      /\ it.baseline = Baseline[p] /\ it.graph = Proposal[p]
  OBVIOUS
<1>2. chosen = Decided(it, cheap, costly)
  BY DEF CostAware, Prepared, Weighed
<1>3. /\ Serves(p, Baseline[p]) /\ Baseline[p].kind \in {"Equal", "Field"}
      /\ Serves(p, Proposal[p].proposed) /\ Proposal[p].radius = p.radius
  BY BaselineServes, ProposalServes
<1> HIDE DEF it, chosen, cheap, costly
<1>4. \A reason : Keeps(it, reason).kind = Baseline[p].kind /\ Keeps(it, reason).offsets = Baseline[p].offsets
  BY <1>1 DEF Keeps
<1>5. CASE cheap # "none" \/ costly # "none"
  <2>1. \E reason : chosen = Keeps(it, reason)
    BY <1>1, <1>2, <1>3, <1>5 DEF Decided
  <2>2. chosen.kind = Baseline[p].kind /\ chosen.offsets = Baseline[p].offsets
    BY <1>4, <2>1
  <2>3. Good
    BY <1>3, <2>2 DEF Serves
  <2> QED
    BY <2>3 DEF chosen
<1>6. CASE cheap = "none" /\ costly = "none"
  <2>1. /\ chosen.kind = "Graph" /\ chosen.offsets = Proposal[p].proposed.offsets
    <3>1. chosen = [kind |-> "Graph", offsets |-> it.graph.proposed.offsets, decision |-> "GraphSelected"]
      BY <1>1, <1>2, <1>3, <1>6, Zenon DEF Decided
    <3> QED
      BY <1>1, <3>1
  <2>2. \A k \in 1 .. 6 : ~ReasonHolds(CheapReasons[k], it)
    <3>1. DOMAIN CheapReasons = 1 .. 6 /\ \A k \in 1 .. 6 : CheapReasons[k] # "none"
      BY DEF CheapReasons
    <3> QED
      BY <1>6, <3>1, NoReason DEF cheap
  <2>3. \A k \in 1 .. 4 : ~ReasonHolds(GraphReasons[k], it)
    <3>1. DOMAIN GraphReasons = 1 .. 4 /\ \A k \in 1 .. 4 : GraphReasons[k] # "none"
      BY DEF GraphReasons
    <3> QED
      BY <1>6, <3>1, NoReason DEF costly
  <2>4. ~ReasonHolds("NoCalibration", it) /\ ~ReasonHolds("UnamortizedPreparation", it)
    <3>1. CheapReasons[4] = "NoCalibration" /\ CheapReasons[6] = "UnamortizedPreparation"
      BY DEF CheapReasons
    <3> QED
      BY <2>2, <3>1
  <2>5. /\ ~ReasonHolds("GraphNotDistinct", it) /\ ~ReasonHolds("GraphDoesNotDominateBaseline", it)
        /\ ~ReasonHolds("LoadImbalanceLimit", it)
    <3>1. /\ GraphReasons[2] = "GraphNotDistinct" /\ GraphReasons[3] = "GraphDoesNotDominateBaseline"
          /\ GraphReasons[4] = "LoadImbalanceLimit"
      BY DEF GraphReasons
    <3> QED
      BY <2>3, <3>1
  <2>6. timing \in Timings
    BY <1>1, <2>4 DEF ReasonHolds
  <2>7. ~((timing.baseline - timing.graph) * policy.calls - timing.prepare <= policy.minimum)
    BY <1>1, <2>4 DEF ReasonHolds
  <2>8. /\ timing.baseline \in Nat /\ timing.graph \in Nat /\ timing.prepare \in Nat
        /\ policy.calls \in Nat /\ policy.minimum \in Nat
    BY <2>6, CostAssumption
  <2>9. policy.calls * timing.graph + timing.prepare + policy.minimum < policy.calls * timing.baseline
    BY <2>7, <2>8, Amortized
  <2>10. /\ Proposal[p].proposed.offsets # Baseline[p].offsets
         /\ NoWorse(Proposal[p].proposed.stats.traffic, Baseline[p].stats.traffic)
         /\ ~Overloaded(policy, Proposal[p].proposed.stats, p.ranks)
    BY <1>1, <2>5 DEF ReasonHolds
  <2>11. Proposal[p].proposed.stats = Stats(p.matrix, chosen.offsets)
    BY <1>3, <2>1 DEF Serves
  <2>12. Good
    BY <1>3, <2>1, <2>6, <2>9, <2>10, <2>11 DEF Serves
  <2> QED
    BY <2>12 DEF chosen
<1> QED
  BY <1>5, <1>6

-----------------------------------------------------------------------------
(* Evidence that is kept was taken for some problem, and says so.          *)
CalibrationKept ==
  calibration = NoEvidence \/
    \E q \in Problems, timing \in Timings :
        Served(q) /\ calibration = [identity |-> Identity(q), timings |-> timing]
CandidateKept ==
  candidate = NoEvidence \/
    \E q \in Problems :
        Served(q) /\ candidate = [identity |-> Identity(q), graph |-> Proposal[q]]
IInv == problem \in Problems /\ CalibrationKept /\ CandidateKept /\ SelectionWarranted

(* Problems of one identity have the same proposal. *)
LEMMA IdentityDecides ==
  ASSUME NEW p \in Problems, NEW q \in Problems, Served(p), Served(q), Identity(p) = Identity(q)
  PROVE  Proposal[p] = Proposal[q]
<1>1. /\ p.matrix = q.matrix /\ <<p.at, p.fields>> = <<q.at, q.fields>>
      /\ p.ranks = q.ranks /\ p.radius = q.radius
  BY DEF Identity
<1>2. p.at = q.at
  BY <1>1
<1>3. \A cuts : Compared(p, cuts) = Compared(q, cuts)
  BY <1>1, <1>2 DEF Compared, Contiguous
<1> QED
  BY <1>1, <1>2, <1>3 DEF Proposal

(* What a call selects from what it was given.                             *)
LEMMA SelectsWarranted ==
  ASSUME IInv, Served(problem), NEW policy \in Policies,
         NEW scoped \in {calibration, NoEvidence}, NEW kept \in {candidate, NoEvidence},
         answer' = [policy |-> policy, scoped |-> scoped, kept |-> kept,
                    report |-> Scoped(problem, policy, scoped, kept)],
         problem' = problem
  PROVE  SelectionWarranted'
<1> DEFINE guard == Guard(problem, scoped, kept)
           timing == IF guard = "Matched" THEN scoped.timings ELSE NoEvidence
           graph == IF guard = "Matched" /\ Prepared(kept) THEN kept.graph ELSE NoEvidence
           chosen == CostAware(problem, policy, timing, graph)
           plain == CostAware(problem, policy, timing, NoEvidence)
<1>0. problem \in Problems
  BY DEF IInv
<1>1. guard = "Matched" => /\ Prepared(scoped) /\ scoped.identity = Identity(problem)
                           /\ Prepared(kept) => kept.identity = Identity(problem)
  BY DEF Guard
<1>2. Prepared(scoped) => scoped.timings \in Timings
  <2>1. CASE scoped = calibration
    BY <2>1 DEF IInv, CalibrationKept, Prepared
  <2>2. CASE scoped = NoEvidence
    BY <2>2 DEF Prepared
  <2> QED
    BY <2>1, <2>2
<1>3. Prepared(kept) /\ kept.identity = Identity(problem) => kept.graph = Proposal[problem]
  <2>1. CASE kept = candidate
    <3> SUFFICES ASSUME Prepared(candidate), candidate.identity = Identity(problem)
                 PROVE  candidate.graph = Proposal[problem]
      BY <2>1
    <3>1. PICK q \in Problems : Served(q) /\ candidate = [identity |-> Identity(q), graph |-> Proposal[q]]
      BY DEF IInv, CandidateKept, Prepared
    <3>2. Identity(q) = Identity(problem) /\ candidate.graph = Proposal[q]
      BY <3>1
    <3> QED
      BY <1>0, <3>1, <3>2, IdentityDecides
  <2>2. CASE kept = NoEvidence
    BY <2>2 DEF Prepared
  <2> QED
    BY <2>1, <2>2
<1>4. timing \in Timings \/ timing = NoEvidence
  BY <1>1, <1>2
<1>5. graph = NoEvidence \/ graph = Proposal[problem]
  BY <1>1, <1>3
<1>6. NoEvidence \notin Timings
  <2>1. NoEvidence \notin [baseline : Nat, graph : Nat, prepare : Nat]
    BY DEF NoEvidence
  <2> QED
    BY <2>1, CostAssumption
<1>7. timing \in Timings => guard = "Matched" /\ timing = scoped.timings
  BY <1>6
<1>8. guard = "Matched" => timing = scoped.timings
  OBVIOUS
<1> HIDE DEF guard, timing, graph
<1>9. chosen = plain
  BY <1>5, Zenon DEF CostAware, Prepared
<1>10. Scoped(problem, policy, scoped, kept) = [guard |-> guard, chosen |-> chosen]
  BY Zenon DEF Scoped, SelectGuarded, guard, timing, graph
<1>11. /\ plain.kind \in {"Equal", "Field", "Graph"}
       /\ IsPartition(plain.offsets, problem.matrix.n) /\ CutsStartBlocks(problem.at, plain.offsets)
       /\ plain.kind # "Graph" => plain.offsets = Baseline[problem].offsets
       /\ plain.kind = "Graph" =>
             /\ timing \in Timings
             /\ plain.offsets # Baseline[problem].offsets
             /\ NoWorse(Stats(problem.matrix, plain.offsets).traffic, Baseline[problem].stats.traffic)
             /\ ~Overloaded(policy, Stats(problem.matrix, plain.offsets), problem.ranks)
             /\ policy.calls * timing.graph + timing.prepare + policy.minimum
                   < policy.calls * timing.baseline
  BY <1>0, <1>4, Selected
<1>12. /\ answer'.policy = policy /\ answer'.scoped = scoped
       /\ answer'.report.guard = guard /\ answer'.report.chosen = plain
  BY <1>9, <1>10
<1> HIDE DEF chosen
<1>13. guard = "Matched" => CostAware(problem, policy, scoped.timings, NoEvidence) = plain
  BY <1>8
<1> HIDE DEF plain
<1>14. PICK it : it = plain
  OBVIOUS
<1>15. it.kind = "Graph" => GraphPays(it)'
  <2> SUFFICES ASSUME it.kind = "Graph" PROVE GraphPays(it)'
    OBVIOUS
  <2>1. guard = "Matched" /\ timing = scoped.timings /\ scoped.identity = Identity(problem)
    BY <1>1, <1>7, <1>11, <1>14 DEF guard
  <2> QED
    BY <1>11, <1>12, <1>14, <2>1 DEF GraphPays
<1>16. Warranted(it)'
  BY <1>11, <1>12, <1>13, <1>14, <1>15 DEF Warranted
<1>17. WholeBlocks(it)'
  BY <1>11, <1>14 DEF WholeBlocks
<1>18. answer'.report.chosen = it
  BY <1>12, <1>14
<1> QED
  BY <1>16, <1>17, <1>18 DEF SelectionWarranted

LEMMA EvidenceKept ==
  ASSUME IInv, CostNext
  PROVE  problem' \in Problems /\ CalibrationKept' /\ CandidateKept'
<1>1. CASE Change
  BY <1>1 DEF IInv, Change, CalibrationKept, CandidateKept
<1>2. CASE Capture
  BY <1>2 DEF IInv, Capture, CalibrationKept, CandidateKept
<1>3. CASE Prepare
  BY <1>3 DEF IInv, Prepare, CalibrationKept, CandidateKept
<1>4. CASE Select
  BY <1>4 DEF IInv, Select, CalibrationKept, CandidateKept
<1> QED
  BY <1>1, <1>2, <1>3, <1>4 DEF CostNext

(* Whatever the caller keeps, and however its problem changes in between.  *)
THEOREM SelectionInductive ==
  /\ CostInit => IInv
  /\ IInv /\ [CostNext]_costVars => IInv'
<1>1. ASSUME CostInit PROVE IInv
  BY <1>1 DEF CostInit, IInv, CalibrationKept, CandidateKept, SelectionWarranted
<1>2. ASSUME IInv, UNCHANGED costVars PROVE IInv'
  BY <1>2 DEF IInv, costVars, CalibrationKept, CandidateKept, SelectionWarranted, Warranted,
              WholeBlocks, GraphPays
<1>3. ASSUME IInv, CostNext PROVE SelectionWarranted'
  <2>1. CASE answer' = NoEvidence
    BY <2>1 DEF SelectionWarranted
  <2>2. CASE Select
    <3>1. PICK policy \in Policies, scoped \in {calibration, NoEvidence}, kept \in {candidate, NoEvidence} :
             /\ answer' =
                   [policy |-> policy, scoped |-> scoped, kept |-> kept,
                    report |-> IF Served(problem) /\ (\A k \in 1 .. 2 : policy.caps[k] >= 1000)
                               THEN Scoped(problem, policy, scoped, kept)
                               ELSE [guard |-> "none", chosen |-> Refused("invalid")]]
             /\ UNCHANGED <<problem, calibration, candidate>>
      BY <2>2, Zenon DEF Select
    <3>2. CASE Served(problem) /\ (\A k \in 1 .. 2 : policy.caps[k] >= 1000)
      <4>1. answer' = [policy |-> policy, scoped |-> scoped, kept |-> kept,
                       report |-> Scoped(problem, policy, scoped, kept)]
        BY <3>1, <3>2
      <4>2. /\ IInv /\ Served(problem) /\ problem' = problem
            /\ policy \in Policies /\ scoped \in {calibration, NoEvidence}
            /\ kept \in {candidate, NoEvidence}
        BY <1>3, <3>1, <3>2
      <4> QED
        BY ONLY <4>1, <4>2, SelectsWarranted
    <3>3. CASE ~(Served(problem) /\ (\A k \in 1 .. 2 : policy.caps[k] >= 1000))
      <4>1. answer'.report.chosen.decision = "invalid"
        BY <3>1, <3>3 DEF Refused
      <4> QED
        BY <4>1 DEF SelectionWarranted
    <3> QED
      BY <3>2, <3>3
  <2> QED
    BY <1>3, <2>1, <2>2 DEF CostNext, Change, Capture, Prepare
<1>4. ASSUME IInv, CostNext PROVE IInv'
  BY <1>3, <1>4, EvidenceKept DEF IInv
<1> QED
  BY <1>1, <1>2, <1>4

(* A selection by cost is warranted, for every set of problems, policies   *)
(* and timings: what is not the graph is the baseline of the live problem, *)
(* a graph is paid for by timings of the live problem, and no partition    *)
(* splits a block.                                                         *)
THEOREM SelectionsPay == CostSpec => []SelectionWarranted
<1>1. IInv => SelectionWarranted
  BY DEF IInv
<1> QED
  BY <1>1, SelectionInductive, PTL DEF CostSpec

-----------------------------------------------------------------------------
(* A finite set in the order of R.                                         *)
IsOrder(R, S) ==
  /\ \A x \in S : <<x, x>> \notin R
  /\ \A x, y \in S : x # y => <<x, y>> \in R \/ <<y, x>> \in R
  /\ \A x, y, z \in S : <<x, y>> \in R /\ <<y, z>> \in R => <<x, z>> \in R
Below(R, S, x) == {y \in S : <<y, x>> \in R}

LEMMA Greatest ==
  ASSUME NEW S, IsFiniteSet(S), S # {}, NEW R, IsOrder(R, S)
  PROVE  \E x \in S : \A y \in S \ {x} : <<y, x>> \in R
<1> DEFINE HasTop(s) == \E x \in s : \A y \in s \ {x} : <<y, x>> \in R
           T == {m \in Nat : \E s \in SUBSET S : Cardinality(s) = m /\ s # {} /\ ~HasTop(s)}
<1>1. T = {}
  <2>1. SUFFICES ASSUME T # {} PROVE FALSE
    OBVIOUS
  <2>2. PICK m \in T : \A k \in T : m <= k
    <3>1. T \in SUBSET Nat
      OBVIOUS
    <3> HIDE DEF T
    <3> QED
      BY <2>1, <3>1, LeastNat
  <2>3. PICK s \in SUBSET S : Cardinality(s) = m /\ s # {} /\ ~HasTop(s)
    BY <2>2
  <2>4. PICK x \in s : TRUE
    BY <2>3
  <2>5. IsFiniteSet(s) /\ m \in Nat
    BY <2>2, FS_Subset
  <2>6. Cardinality(s \ {x}) = m - 1 /\ Cardinality(s \ {x}) \in Nat /\ s \ {x} \in SUBSET S
    BY <2>3, <2>5, FS_RemoveElement, FS_CardinalityType
  <2>7. m - 1 \notin T
    <3> HIDE DEF T
    <3> QED
      BY <2>2, <2>5, <2>6
  <2>8. s \ {x} # {} /\ HasTop(s \ {x})
    <3>1. CASE s \ {x} = {}
      <4>1. HasTop(s)
        BY <2>4, <3>1
      <4> QED
        BY <2>3, <4>1
    <3>2. CASE s \ {x} # {}
      <4> HIDE DEF HasTop
      <4> QED
        BY <2>6, <2>7, <3>2
    <3> QED
      BY <3>1, <3>2
  <2>9. PICK z \in s \ {x} : \A y \in (s \ {x}) \ {z} : <<y, z>> \in R
    BY <2>8
  <2>10. <<x, z>> \in R \/ <<z, x>> \in R
    BY <2>4, <2>9 DEF IsOrder
  <2>11. CASE <<x, z>> \in R
    <3>1. \A y \in s \ {z} : <<y, z>> \in R
      BY <2>9, <2>11
    <3> QED
      BY <2>3, <2>9, <3>1
  <2>12. CASE <<z, x>> \in R
    <3>1. \A y \in s \ {x} : <<y, x>> \in R
      <4> TAKE y \in s \ {x}
      <4>1. y = z \/ <<y, z>> \in R
        BY <2>9
      <4>2. y \in S /\ z \in S /\ x \in S
        BY <2>4, <2>9
      <4> QED
        BY <2>12, <4>1, <4>2 DEF IsOrder
    <3> QED
      BY <2>3, <2>4, <3>1
  <2> QED
    BY <2>10, <2>11, <2>12
<1>2. Cardinality(S) \in Nat /\ S \in SUBSET S
  BY FS_CardinalityType
<1>3. HasTop(S)
  <2> HIDE DEF HasTop
  <2> QED
    BY <1>1, <1>2
<1> QED
  BY <1>3

(* One element is of each rank. *)
LEMMA Ranked ==
  ASSUME NEW S, IsFiniteSet(S), NEW R, IsOrder(R, S), NEW k \in 1 .. Cardinality(S)
  PROVE  \E x \in S : Cardinality(Below(R, S, x)) = k - 1
<1> DEFINE Has(s, j) == \E x \in s : Cardinality(Below(R, s, x)) = j - 1
           T == {m \in Nat : \E s \in SUBSET S : Cardinality(s) = m /\ \E j \in 1 .. m : ~Has(s, j)}
<1>1. T = {}
  <2>1. SUFFICES ASSUME T # {} PROVE FALSE
    OBVIOUS
  <2>2. PICK m \in T : \A i \in T : m <= i
    <3>1. T \in SUBSET Nat
      OBVIOUS
    <3> HIDE DEF T
    <3> QED
      BY <2>1, <3>1, LeastNat
  <2>3. PICK s \in SUBSET S : Cardinality(s) = m /\ \E j \in 1 .. m : ~Has(s, j)
    BY <2>2
  <2>4. PICK j \in 1 .. m : ~Has(s, j)
    BY <2>3
  <2>5. IsFiniteSet(s) /\ m \in Nat /\ s # {}
    BY <2>2, <2>3, <2>4, FS_Subset, FS_EmptySet
  <2>6. IsOrder(R, s)
    BY DEF IsOrder
  <2>7. PICK x \in s : \A y \in s \ {x} : <<y, x>> \in R
    BY <2>5, <2>6, Greatest
  <2> DEFINE rest == s \ {x}
  <2>8. Cardinality(rest) = m - 1 /\ Cardinality(rest) \in Nat /\ rest \in SUBSET S
    BY <2>3, <2>5, FS_RemoveElement, FS_CardinalityType
  <2>9. m - 1 \notin T
    <3> HIDE DEF T
    <3> QED
      BY <2>2, <2>5, <2>8
  <2>10. CASE j = m
    <3>1. Below(R, s, x) = rest
      BY <2>6, <2>7 DEF Below, IsOrder
    <3> QED
      BY <2>4, <2>8, <2>10, <3>1
  <2>11. CASE j # m
    <3>1. j \in 1 .. m - 1
      BY <2>5, <2>11
    <3>2. Has(rest, j)
      <4> HIDE DEF Has, rest
      <4> QED
        BY <2>8, <2>9, <3>1
    <3>3. PICK z \in rest : Cardinality(Below(R, rest, z)) = j - 1
      BY <3>2
    <3>4. <<x, z>> \notin R
      <4>1. <<z, x>> \in R /\ x \in s /\ z \in s
        BY <2>7, <3>3
      <4> QED
        BY <2>6, <4>1 DEF IsOrder
    <3>5. Below(R, s, z) = Below(R, rest, z)
      BY <3>4 DEF Below
    <3> QED
      BY <2>4, <3>3, <3>5
  <2> QED
    BY <2>10, <2>11
<1>2. Cardinality(S) \in Nat /\ S \in SUBSET S
  BY FS_CardinalityType
<1>3. Has(S, k)
  <2> HIDE DEF Has
  <2> QED
    BY <1>1, <1>2
<1> QED
  BY <1>3

LEMMA RankFacts ==
  ASSUME NEW S, IsFiniteSet(S), NEW R, IsOrder(R, S), NEW x \in S
  PROVE  /\ Cardinality(Below(R, S, x)) \in 0 .. Cardinality(S) - 1
         /\ \A y \in S : <<y, x>> \in R => Cardinality(Below(R, S, y)) < Cardinality(Below(R, S, x))
<1>1. \A y \in S : /\ Below(R, S, y) \in SUBSET S /\ IsFiniteSet(Below(R, S, y))
                   /\ Cardinality(Below(R, S, y)) \in Nat
  <2> TAKE y \in S
  <2>1. Below(R, S, y) \in SUBSET S
    BY DEF Below
  <2> QED
    BY <2>1, FS_Subset, FS_CardinalityType
<1>2. Cardinality(S) \in Nat
  BY FS_CardinalityType
<1>3. x \notin Below(R, S, x)
  BY DEF Below, IsOrder
<1>4. Cardinality(Below(R, S, x)) <= Cardinality(S) /\ Cardinality(Below(R, S, x)) # Cardinality(S)
  BY <1>1, <1>3, FS_Subset
<1>5. ASSUME NEW y \in S, <<y, x>> \in R
      PROVE  Cardinality(Below(R, S, y)) < Cardinality(Below(R, S, x))
  <2>1. Below(R, S, y) \in SUBSET Below(R, S, x)
    BY <1>5 DEF Below, IsOrder
  <2>2. y \in Below(R, S, x) /\ y \notin Below(R, S, y)
    BY <1>5 DEF Below, IsOrder
  <2>3. /\ Cardinality(Below(R, S, y)) <= Cardinality(Below(R, S, x))
        /\ Cardinality(Below(R, S, y)) # Cardinality(Below(R, S, x))
    BY <1>1, <2>1, <2>2, FS_Subset
  <2> QED
    BY <1>1, <2>3
<1> QED
  BY <1>1, <1>2, <1>4, <1>5

(* A sequence of the elements by rank. *)
InOrder(R, S) == [k \in 1 .. Cardinality(S) |-> CHOOSE x \in S : Cardinality(Below(R, S, x)) = k - 1]
Lists(seq, S) ==
  /\ seq \in Seq(S) /\ Len(seq) = Cardinality(S)
  /\ \A x \in S : \E k \in 1 .. Len(seq) : seq[k] = x
  /\ \A j, k \in 1 .. Len(seq) : j # k => seq[j] # seq[k]

LEMMA InOrderFacts ==
  ASSUME NEW S, IsFiniteSet(S), NEW R, IsOrder(R, S)
  PROVE  /\ Lists(InOrder(R, S), S)
         /\ \A j, k \in 1 .. Cardinality(S) : j < k => <<InOrder(R, S)[j], InOrder(R, S)[k]>> \in R
<1> DEFINE seq == InOrder(R, S)
           n == Cardinality(S)
<1>1. n \in Nat
  BY FS_CardinalityType
<1>2. \A k \in 1 .. n : seq[k] \in S /\ Cardinality(Below(R, S, seq[k])) = k - 1
  <2> TAKE k \in 1 .. n
  <2>1. seq[k] = CHOOSE x \in S : Cardinality(Below(R, S, x)) = k - 1
    BY DEF InOrder
  <2> HIDE DEF seq
  <2> QED
    BY <2>1, Ranked
<1>3. seq = [k \in 1 .. n |-> seq[k]]
  BY DEF InOrder
<1> HIDE DEF seq, n
<1>4. seq \in Seq(S) /\ Len(seq) = n
  <2>1. seq \in [1 .. n -> S]
    BY <1>2, <1>3
  <2> QED
    BY <1>1, <2>1, SeqDef
<1>5. ASSUME NEW j \in 1 .. n, NEW k \in 1 .. n, j # k PROVE seq[j] # seq[k]
  BY <1>1, <1>2, <1>5
<1>6. ASSUME NEW x \in S PROVE \E k \in 1 .. n : seq[k] = x
  <2> DEFINE k == Cardinality(Below(R, S, x)) + 1
  <2>1. k \in 1 .. n /\ k - 1 = Cardinality(Below(R, S, x))
    BY <1>1, RankFacts DEF n
  <2> HIDE DEF k
  <2>2. seq[k] \in S /\ Cardinality(Below(R, S, seq[k])) = Cardinality(Below(R, S, x))
    BY <1>2, <2>1
  <2>3. seq[k] = x
    <3> SUFFICES ASSUME seq[k] # x PROVE FALSE
      OBVIOUS
    <3>1. <<seq[k], x>> \in R \/ <<x, seq[k]>> \in R
      BY <2>2 DEF IsOrder
    <3>2. /\ Cardinality(Below(R, S, seq[k])) \in Int
          /\ Cardinality(Below(R, S, x)) \in Int
      BY <2>2, RankFacts
    <3> QED
      BY <2>2, <3>1, <3>2, RankFacts
  <2> QED
    BY <2>1, <2>3
<1>7. ASSUME NEW j \in 1 .. n, NEW k \in 1 .. n, j < k PROVE <<seq[j], seq[k]>> \in R
  <2>1. /\ seq[j] \in S /\ seq[k] \in S
        /\ Cardinality(Below(R, S, seq[j])) = j - 1 /\ Cardinality(Below(R, S, seq[k])) = k - 1
    BY <1>2
  <2>2. seq[j] # seq[k]
    BY <1>1, <1>5, <1>7
  <2>3. <<seq[k], seq[j]>> \notin R
    <3>1. <<seq[k], seq[j]>> \in R => k - 1 < j - 1
      BY <2>1, RankFacts
    <3> QED
      BY <1>7, <3>1
  <2> QED
    BY <2>1, <2>2, <2>3 DEF IsOrder
<1> QED
  BY <1>4, <1>5, <1>6, <1>7 DEF Lists, seq, n

LEMMA AscendingFacts ==
  ASSUME NEW S \in SUBSET Int, IsFiniteSet(S)
  PROVE  Lists(Ascending(S), S)
<1> DEFINE R == {p \in S \X S : p[1] < p[2]}
<1>1. IsOrder(R, S)
  BY DEF IsOrder
<1>2. \A x \in S : Below(R, S, x) = {y \in S : y < x}
  BY DEF Below
<1>3. Ascending(S) = InOrder(R, S)
  <2>1. Ascending(S) = [k \in 1 .. Cardinality(S) |->
                           CHOOSE x \in S : Cardinality({y \in S : y < x}) = k - 1]
    BY DEF Ascending, Sorted
  <2> HIDE DEF R
  <2>2. ASSUME NEW k \in 1 .. Cardinality(S)
        PROVE  (CHOOSE x \in S : Cardinality({y \in S : y < x}) = k - 1)
                 = CHOOSE x \in S : Cardinality(Below(R, S, x)) = k - 1
    BY <1>2
  <2> QED
    BY <2>1, <2>2 DEF InOrder
<1> HIDE DEF R
<1> QED
  BY <1>1, <1>3, InOrderFacts

-----------------------------------------------------------------------------
(* Lists of sets, and lists of lists. *)
LEMMA Joined ==
  ASSUME NEW A, NEW B, IsFiniteSet(A), IsFiniteSet(B), A \cap B = {},
         NEW a, NEW b, Lists(a, A), Lists(b, B)
  PROVE  IsFiniteSet(A \cup B) /\ Lists(a \o b, A \cup B)
<1> DEFINE ab == a \o b
           C == A \cup B
<1>1. /\ a \in Seq(A) /\ b \in Seq(B) /\ Len(a) \in Nat /\ Len(b) \in Nat
      /\ Len(a) = Cardinality(A) /\ Len(b) = Cardinality(B)
  BY DEF Lists
<1>2. a \in Seq(C) /\ b \in Seq(C)
  BY <1>1, SeqMonotonic
<1>3. /\ ab \in Seq(C) /\ Len(ab) = Len(a) + Len(b)
      /\ \A k \in 1 .. Len(a) : ab[k] = a[k]
      /\ \A k \in 1 .. Len(b) : ab[Len(a) + k] = b[k]
  <2> HIDE DEF C
  <2> QED
    BY <1>1, <1>2
<1>4. IsFiniteSet(C) /\ Cardinality(C) = Cardinality(A) + Cardinality(B)
  <2>1. Cardinality(A \cap B) = 0
    BY FS_EmptySet
  <2>2. Cardinality(A) \in Nat /\ Cardinality(B) \in Nat
    BY FS_CardinalityType
  <2>3. /\ IsFiniteSet(A \cup B)
        /\ Cardinality(A \cup B) = Cardinality(A) + Cardinality(B) - Cardinality(A \cap B)
    BY FS_Union, Zenon
  <2> QED
    BY <2>1, <2>2, <2>3
<1>5. \A k \in 1 .. Len(ab) : k \in 1 .. Len(a) \/ (k - Len(a) \in 1 .. Len(b) /\ Len(a) + (k - Len(a)) = k)
  BY <1>1, <1>3
<1>6. ASSUME NEW x \in C PROVE \E k \in 1 .. Len(ab) : ab[k] = x
  <2>1. CASE x \in A
    <3>1. PICK k \in 1 .. Len(a) : a[k] = x
      BY <2>1 DEF Lists
    <3> HIDE DEF ab
    <3> QED
      BY <1>1, <1>3, <3>1
  <2>2. CASE x \in B
    <3>1. PICK k \in 1 .. Len(b) : b[k] = x
      BY <2>2 DEF Lists
    <3>2. Len(a) + k \in 1 .. Len(ab) /\ ab[Len(a) + k] = x
      BY <1>1, <1>3, <3>1
    <3> HIDE DEF ab
    <3> QED
      BY <3>2
  <2> QED
    BY <2>1, <2>2
<1>7. ASSUME NEW j \in 1 .. Len(ab), NEW k \in 1 .. Len(ab), j # k PROVE ab[j] # ab[k]
  <2>1. \A i \in 1 .. Len(a) : a[i] \in A
    BY <1>1
  <2>2. \A i \in 1 .. Len(b) : b[i] \in B
    BY <1>1
  <2>3. \A x \in A, y \in B : x # y
    OBVIOUS
  <2>4. \A i \in 1 .. Len(ab) : \/ i \in 1 .. Len(a) /\ ab[i] = a[i]
                                \/ i - Len(a) \in 1 .. Len(b) /\ ab[i] = b[i - Len(a)]
    <3> HIDE DEF ab
    <3> TAKE i \in 1 .. Len(ab)
    <3>1. CASE i \in 1 .. Len(a)
      BY <1>3, <3>1
    <3>2. CASE i - Len(a) \in 1 .. Len(b)
      <4>1. Len(a) + (i - Len(a)) = i
        BY <1>1
      <4> QED
        BY <1>3, <3>2, <4>1
    <3> QED
      BY <1>5, <3>1, <3>2
  <2>5. \A p, q \in 1 .. Len(a) : p # q => a[p] # a[q]
    BY DEF Lists
  <2>6. \A p, q \in 1 .. Len(b) : p # q => b[p] # b[q]
    BY DEF Lists
  <2>7. j \in Int /\ k \in Int /\ (j - Len(a) # k - Len(a))
    BY <1>1, <1>7
  <2> HIDE DEF ab
  <2> QED
    BY <2>1, <2>2, <2>3, <2>4, <2>5, <2>6, <2>7
<1> HIDE DEF ab, C
<1>8. Lists(ab, C)
  BY <1>1, <1>3, <1>4, <1>6, <1>7 DEF Lists
<1> QED
  BY <1>4, <1>8 DEF ab, C

(* FlattenSeq of lists of disjoint sets lists their union. *)
Flattening(lists, h) ==
  [i \in 1 .. Len(lists) |-> IF i = 1 THEN lists[i] ELSE h[i - 1] \o lists[i]]
Flat(lists) == CHOOSE h : h = Flattening(lists, h)

LEMMA FlatUnfolded ==
  ASSUME NEW lists, Len(lists) # 0
  PROVE  FlattenSeq(lists) = Flat(lists)[Len(lists)]
  BY Zenon DEF FlattenSeq, Flat, Flattening

Joins(h, lists, n) ==
  /\ Len(lists) = n
  /\ h[1] = lists[1]
  /\ \A k \in 2 .. n : h[k] = h[k - 1] \o lists[k]

LEMMA FlatIs ==
  ASSUME NEW V, NEW n \in Nat, n >= 1, NEW lists \in [1 .. n -> Seq(V)]
  PROVE  Joins(Flat(lists), lists, n)
<1> DEFINE A == Seq(V)
           S == 1 .. n
           base == << >>
           pick == [s \in SUBSET S |-> Latest(s)]
           step == [c \in S \X A |-> c[2] \o lists[c[1]]]
<1>1. Len(lists) = n /\ DOMAIN lists = S
  BY SeqDef, LenProperties
<1>2. base \in A
  OBVIOUS
<1>3. step \in [S \X A -> A]
  <2>1. \A i \in S, acc \in A : acc \o lists[i] \in A
    OBVIOUS
  <2> HIDE DEF S, A
  <2> QED
    BY <2>1
<1>4. IsPick(pick, S) /\ IsFiniteSet(S)
  <2>1. IsFiniteSet(1 .. n)
    BY FS_Interval
  <2> QED
    BY <2>1, LatestIsPick
<1>5. PICK h : Folding(A, base, step, pick, SUBSET S, h)
  <2> HIDE DEF A, S, step, pick, base
  <2> QED
    BY <1>2, <1>3, <1>4, FoldExists
<1> DEFINE g == [i \in 1 .. n |-> h[1 .. i]]
<1>6. ASSUME NEW k \in S PROVE h[1 .. k] = h[1 .. k - 1] \o lists[k] /\ h[1 .. k - 1] \in A
  <2>1. /\ 1 .. k \in SUBSET S /\ 1 .. k # {} /\ Latest(1 .. k) = k /\ (1 .. k) \ {k} = 1 .. k - 1
    BY LatestOfPrefix
  <2>2. 1 .. k - 1 \in SUBSET S
    BY <2>1
  <2>3. pick[1 .. k] = k
    BY <2>1
  <2>4. h[1 .. k - 1] \in A /\ h[1 .. k] = step[<<k, h[1 .. k - 1]>>]
    <3> HIDE DEF A, S, pick, step, base
    <3> QED
      BY <1>5, <2>1, <2>2, <2>3 DEF Folding
  <2> HIDE DEF A, S
  <2> QED
    BY <2>4
<1>7. h[1 .. 1] = lists[1]
  <2>1. h[1 .. 0] = base
    <3>1. 1 .. 0 = {} /\ {} \in SUBSET S
      OBVIOUS
    <3> HIDE DEF A, S, pick, step, base
    <3> QED
      BY <1>5, <3>1 DEF Folding
  <2>2. 1 \in S /\ 1 - 1 = 0 /\ lists[1] \in Seq(V)
    OBVIOUS
  <2>3. h[1 .. 1] = h[1 .. 0] \o lists[1]
    <3> HIDE DEF S, A
    <3>1. h[1 .. 1] = h[1 .. 1 - 1] \o lists[1]
      BY <1>6, <2>2
    <3> QED
      BY <2>2, <3>1
  <2> QED
    BY <2>1, <2>2, <2>3, ConcatEmptySeq
<1>8. g = Flattening(lists, g)
  <2>1. \A i \in 1 .. n : g[i] = IF i = 1 THEN lists[i] ELSE g[i - 1] \o lists[i]
    <3> TAKE i \in 1 .. n
    <3>1. g[i] = h[1 .. i]
      OBVIOUS
    <3>2. i # 1 => i - 1 \in 1 .. n /\ g[i - 1] = h[1 .. i - 1]
      OBVIOUS
    <3> HIDE DEF g
    <3> QED
      BY <1>6, <1>7, <3>1, <3>2 DEF S
  <2> QED
    BY <1>1, <2>1 DEF Flattening
<1> DEFINE F == Flat(lists)
<1>9. F = Flattening(lists, F)
  BY <1>8 DEF Flat
<1>10. \A i \in 1 .. n : F[i] = IF i = 1 THEN lists[i] ELSE F[i - 1] \o lists[i]
  <2> HIDE DEF F
  <2> QED
    BY <1>1, <1>9 DEF Flattening
<1>11. F[1] = lists[1] /\ \A k \in 2 .. n : F[k] = F[k - 1] \o lists[k]
  <2> HIDE DEF F
  <2>1. 1 \in 1 .. n /\ \A k \in 2 .. n : k \in 1 .. n /\ k # 1
    OBVIOUS
  <2> QED
    BY <1>10, <2>1
<1> HIDE DEF F
<1> QED
  BY <1>1, <1>11 DEF Joins, F
Together(sets, n) == UNION {sets[k] : k \in 1 .. n}

LEMMA FlattenedLists ==
  ASSUME NEW V, NEW n \in Nat, n >= 1, NEW lists \in [1 .. n -> Seq(V)],
         NEW sets \in [1 .. n -> SUBSET V],
         \A k \in 1 .. n : IsFiniteSet(sets[k]) /\ Lists(lists[k], sets[k]),
         \A j, k \in 1 .. n : j # k => sets[j] \cap sets[k] = {}
  PROVE  /\ IsFiniteSet(Together(sets, n))
         /\ Lists(FlattenSeq(lists), Together(sets, n))
<1> DEFINE Upto(k) == UNION {sets[j] : j \in 1 .. k}
           F == Flat(lists)
           Good(k) == IsFiniteSet(Upto(k)) /\ Lists(F[k], Upto(k))
           T == {k \in Nat : k \in 1 .. n /\ ~ Good(k)}
<1>1. /\ Len(lists) = n
      /\ F[1] = lists[1]
      /\ \A k \in 2 .. n : F[k] = F[k - 1] \o lists[k]
  <2>1. Joins(F, lists, n)
    BY FlatIs
  <2> HIDE DEF F
  <2> QED
    BY <2>1 DEF Joins
<1> HIDE DEF F
<1>2. Good(1)
  <2>1. Upto(1) = sets[1]
    OBVIOUS
  <2>2. 1 \in 1 .. n
    OBVIOUS
  <2> HIDE DEF Upto
  <2> QED
    BY <1>1, <2>1, <2>2
<1>3. ASSUME NEW k \in 2 .. n, Good(k - 1) PROVE Good(k)
  <2>1. k \in 1 .. n /\ k - 1 \in 1 .. n
    OBVIOUS
  <2>2. Upto(k) = Upto(k - 1) \cup sets[k]
    <3>1. \A j : j \in 1 .. k <=> (j \in 1 .. k - 1 \/ j = k)
      OBVIOUS
    <3> QED
      BY <3>1
  <2>3. Upto(k - 1) \cap sets[k] = {}
    <3>1. \A j \in 1 .. k - 1 : j \in 1 .. n /\ j # k
      BY <2>1
    <3> QED
      BY <2>1, <3>1
  <2> HIDE DEF Upto
  <2>4. IsFiniteSet(sets[k]) /\ Lists(lists[k], sets[k])
    BY <2>1
  <2>5. /\ IsFiniteSet(Upto(k - 1) \cup sets[k])
        /\ Lists(F[k - 1] \o lists[k], Upto(k - 1) \cup sets[k])
    BY <1>3, <2>3, <2>4, Joined
  <2> QED
    BY <1>1, <2>2, <2>5
<1>4. T = {}
  <2>1. SUFFICES ASSUME T # {} PROVE FALSE
    OBVIOUS
  <2>2. PICK k \in T : \A j \in T : k <= j
    <3>1. T \in SUBSET Nat
      OBVIOUS
    <3> HIDE DEF T
    <3> QED
      BY <2>1, <3>1, LeastNat
  <2>3. k \in 1 .. n /\ ~ Good(k)
    OBVIOUS
  <2>4. k # 1
    <3> HIDE DEF Good
    <3> QED
      BY <1>2, <2>3
  <2>5. k \in 2 .. n /\ k - 1 \in 1 .. n /\ k - 1 \in Nat /\ ~ (k <= k - 1)
    BY <2>3, <2>4
  <2>6. Good(k - 1)
    <3>1. k - 1 \notin T
      <4> HIDE DEF T
      <4> QED
        BY <2>2, <2>5
    <3> HIDE DEF Good
    <3> QED
      BY <2>5, <3>1
  <2> HIDE DEF Good
  <2> QED
    BY <1>3, <2>3, <2>5, <2>6
<1>5. Good(n)
  <2>1. n \in 1 .. n
    OBVIOUS
  <2> HIDE DEF Good
  <2> QED
    BY <1>4, <2>1
<1>6. FlattenSeq(lists) = F[n]
  <2>1. Len(lists) # 0
    BY <1>1
  <2> QED
    BY <1>1, <2>1, FlatUnfolded DEF F
<1> QED
  BY <1>5, <1>6 DEF Together
-----------------------------------------------------------------------------
(* Halo plans of contiguous ownership. *)
Ownership(n, ranks) ==
  {offsets \in [0 .. ranks -> Nat] : IsPartition(offsets, n)}

LEMMA OwnershipFacts ==
  ASSUME NEW n \in Nat, NEW ranks \in Nat, NEW offsets \in Ownership(n, ranks)
  PROVE  /\ offsets \in [0 .. ranks -> Nat]
         /\ Cardinality(DOMAIN offsets) = ranks + 1 /\ RanksOf(offsets) = 0 .. ranks - 1
         /\ offsets[0] = 0 /\ offsets[ranks] = n
         /\ \A a, b \in 0 .. ranks : a < b => offsets[a] < offsets[b]
<1>1. offsets \in [0 .. ranks -> Nat] /\ IsPartition(offsets, n)
  BY DEF Ownership
<1>2. Cardinality(DOMAIN offsets) = ranks + 1 /\ RanksOf(offsets) = 0 .. ranks - 1
  BY <1>1, RanksCounted
<1>3. /\ offsets[0] = 0 /\ offsets[ranks] = n
      /\ \A r \in 1 .. ranks : offsets[r - 1] < offsets[r]
  <2>1. Cardinality(DOMAIN offsets) - 1 = ranks
    BY <1>2
  <2> QED
    BY <1>1, <2>1 DEF IsPartition
<1>4. \A i \in 0 .. ranks : offsets[i] \in Int
  BY <1>1
<1> QED
  BY <1>1, <1>2, <1>3, <1>4, Increasing

(* Every index has one owner. *)
LEMMA OwnerFacts ==
  ASSUME NEW n \in Nat, NEW ranks \in Nat, NEW offsets \in Ownership(n, ranks)
  PROVE  /\ \A r \in 0 .. ranks - 1 : \A g \in OwnedRange(offsets, r) : OwnerOf(offsets, g) = r
         /\ \A r \in 0 .. ranks - 1 : OwnedRange(offsets, r) \subseteq 0 .. n - 1
         /\ \A g \in 0 .. n - 1 : /\ OwnerOf(offsets, g) \in 0 .. ranks - 1
                                  /\ g \in OwnedRange(offsets, OwnerOf(offsets, g))
<1>1. /\ offsets \in [0 .. ranks -> Nat]
      /\ offsets[0] = 0 /\ offsets[ranks] = n
      /\ \A a, b \in 0 .. ranks : a < b => offsets[a] < offsets[b]
  BY OwnershipFacts
<1>2. ASSUME NEW r \in 0 .. ranks - 1, NEW g \in OwnedRange(offsets, r)
      PROVE  OwnerOf(offsets, g) = r /\ g \in 0 .. n - 1
  <2>1. /\ r \in 0 .. ranks /\ r + 1 \in 0 .. ranks /\ r \in Nat
        /\ g \in Int /\ offsets[r] <= g /\ g < offsets[r + 1]
        /\ offsets[r] \in Nat /\ offsets[r + 1] \in Nat
    BY <1>1, <1>2 DEF OwnedRange
  <2>2. ASSUME NEW k \in 0 .. ranks PROVE offsets[k] <= g <=> k \in 0 .. r
    <3>1. CASE k < r
      BY <1>1, <2>1, <3>1
    <3>2. CASE k = r
      BY <2>1, <3>2
    <3>3. CASE k = r + 1
      BY <2>1, <3>3
    <3>4. CASE k > r + 1
      BY <1>1, <2>1, <3>4
    <3> QED
      BY <2>1, <3>1, <3>2, <3>3, <3>4
  <2>3. DOMAIN offsets = 0 .. ranks
    BY <1>1
  <2>4. {k \in DOMAIN offsets : offsets[k] <= g} = 0 .. r
    BY <2>1, <2>2, <2>3
  <2>5. Cardinality(0 .. r) = r + 1
    BY <2>1, FS_Interval
  <2>6. g >= 0 /\ g < n
    <3>1. r + 1 = ranks \/ offsets[r + 1] < offsets[ranks]
      BY <1>1, <2>1
    <3> QED
      BY <1>1, <2>1, <3>1
  <2>7. OwnerOf(offsets, g) = r
    <3>1. OwnerOf(offsets, g) = (r + 1) - 1
      BY <2>4, <2>5 DEF OwnerOf
    <3> QED
      BY <2>1, <3>1
  <2>8. g \in 0 .. n - 1
    BY <2>1, <2>6
  <2> QED
    BY <2>7, <2>8
<1>3. ASSUME NEW g \in 0 .. n - 1 PROVE \E r \in 0 .. ranks - 1 : g \in OwnedRange(offsets, r)
  <2> DEFINE T == {k \in Nat : k \in 0 .. ranks /\ g < offsets[k]}
  <2>1. ranks \in T
    BY <1>1
  <2>2. PICK k \in T : \A j \in T : k <= j
    <3>1. T \in SUBSET Nat
      OBVIOUS
    <3> HIDE DEF T
    <3> QED
      BY <2>1, <3>1, LeastNat
  <2>3. k \in 1 .. ranks /\ g < offsets[k]
    BY <1>1, <2>2
  <2>4. k - 1 \in 0 .. ranks - 1 /\ k - 1 \in Nat /\ k - 1 \in 0 .. ranks /\ k = (k - 1) + 1
        /\ ~ (k <= k - 1)
    BY <2>3
  <2>5. k - 1 \notin T
    <3> HIDE DEF T
    <3> QED
      BY <2>2, <2>4
  <2>6. offsets[k - 1] <= g
    BY <1>1, <2>4, <2>5
  <2>7. g \in OwnedRange(offsets, k - 1)
    BY <1>1, <2>3, <2>4, <2>6 DEF OwnedRange
  <2> QED
    BY <2>4, <2>7
<1> QED
  BY <1>2, <1>3

(* What a rank asks another for is that one's, and finite. *)
LEMMA RequestFacts ==
  ASSUME NEW matrix, IsPattern(matrix), NEW ranks \in Nat, NEW offsets \in Ownership(matrix.n, ranks),
         NEW r \in 0 .. ranks - 1, NEW q \in 0 .. ranks - 1
  PROVE  /\ Requests(matrix, offsets, r, q) \subseteq OwnedRange(offsets, q)
         /\ Requests(matrix, offsets, r, q) \subseteq Nodes(matrix)
         /\ Requests(matrix, offsets, r, q) \in SUBSET Int
         /\ IsFiniteSet(Requests(matrix, offsets, r, q))
<1>1. OwnedRange(offsets, r) \subseteq Nodes(matrix)
  BY OwnerFacts DEF IsPattern, Nodes
<1>2. \A i \in Nodes(matrix) : Row(matrix, i) \subseteq Nodes(matrix)
  BY DEF IsPattern, Row
<1>3. ASSUME NEW c \in Requests(matrix, offsets, r, q)
      PROVE  c \in Nodes(matrix) /\ OwnerOf(offsets, c) = q
  BY <1>1, <1>2, <1>3 DEF Requests
<1>4. ASSUME NEW c \in Requests(matrix, offsets, r, q) PROVE c \in OwnedRange(offsets, q)
  <2>1. c \in 0 .. matrix.n - 1
    BY <1>3 DEF Nodes
  <2>2. c \in OwnedRange(offsets, OwnerOf(offsets, c))
    BY <2>1, OwnerFacts DEF IsPattern
  <2> QED
    BY <1>3, <2>2
<1>5. IsFiniteSet(Nodes(matrix)) /\ Nodes(matrix) \subseteq Int
  <2>1. matrix.n \in Nat
    BY DEF IsPattern
  <2>2. 0 \in Int /\ matrix.n - 1 \in Int
    BY ONLY <2>1
  <2>3. IsFiniteSet(0 .. matrix.n - 1)
    BY ONLY <2>2, FS_Interval
  <2>4. 0 .. matrix.n - 1 \subseteq Int
    OBVIOUS
  <2> QED
    BY ONLY <2>3, <2>4 DEF Nodes
<1> QED
  BY <1>3, <1>4, <1>5, FS_Subset

(* The ghosts of a rank, and where they are listed. *)
Ghosts(matrix, offsets, ranks, r) == UNION {Requests(matrix, offsets, r, q) : q \in 0 .. ranks - 1}

LEMMA GhostFacts ==
  ASSUME NEW matrix, IsPattern(matrix), NEW ranks \in Nat, NEW offsets \in Ownership(matrix.n, ranks),
         NEW r \in 0 .. ranks - 1
  PROVE  /\ IsFiniteSet(Ghosts(matrix, offsets, ranks, r))
         /\ Lists(GhostGlobals(matrix, offsets, r), Ghosts(matrix, offsets, ranks, r))
         /\ Ghosts(matrix, offsets, ranks, r) \subseteq Int
<1> DEFINE lists == [k \in 1 .. ranks |-> RecvGlobals(matrix, offsets, r, k - 1)]
           sets == [k \in 1 .. ranks |-> Requests(matrix, offsets, r, k - 1)]
           all == Together(sets, ranks)
<1>1. ranks >= 1 /\ \A k \in 1 .. ranks : k - 1 \in 0 .. ranks - 1
  OBVIOUS
<1>2. ASSUME NEW k \in 1 .. ranks
      PROVE  /\ sets[k] \in SUBSET Int /\ IsFiniteSet(sets[k])
             /\ lists[k] \in Seq(Int) /\ Lists(lists[k], sets[k])
  <2> DEFINE set == Requests(matrix, offsets, r, k - 1)
  <2>1. set \in SUBSET Int /\ IsFiniteSet(set)
    BY <1>1, RequestFacts
  <2>2. sets[k] = set /\ lists[k] = Ascending(set)
    BY DEF RecvGlobals
  <2> HIDE DEF set
  <2>3. Lists(Ascending(set), set)
    BY <2>1, AscendingFacts
  <2>4. Ascending(set) \in Seq(Int)
    <3>1. Ascending(set) \in Seq(set)
      BY <2>3 DEF Lists
    <3> QED
      BY <2>1, <3>1, SeqMonotonic
  <2> QED
    BY <2>1, <2>2, <2>3, <2>4
<1>3. lists \in [1 .. ranks -> Seq(Int)] /\ sets \in [1 .. ranks -> SUBSET Int]
  <2>1. lists = [k \in 1 .. ranks |-> lists[k]] /\ sets = [k \in 1 .. ranks |-> sets[k]]
    OBVIOUS
  <2> HIDE DEF lists, sets
  <2> QED
    BY <1>2, <2>1
<1>4. ASSUME NEW j \in 1 .. ranks, NEW k \in 1 .. ranks, j # k PROVE sets[j] \cap sets[k] = {}
  <2>1. j - 1 \in 0 .. ranks - 1 /\ k - 1 \in 0 .. ranks - 1 /\ j - 1 # k - 1
    BY <1>4
  <2>2. /\ Requests(matrix, offsets, r, j - 1) \subseteq OwnedRange(offsets, j - 1)
        /\ Requests(matrix, offsets, r, k - 1) \subseteq OwnedRange(offsets, k - 1)
    BY <2>1, RequestFacts
  <2>3. /\ \A g \in OwnedRange(offsets, j - 1) : OwnerOf(offsets, g) = j - 1
        /\ \A g \in OwnedRange(offsets, k - 1) : OwnerOf(offsets, g) = k - 1
    BY <2>1, OwnerFacts DEF IsPattern
  <2> QED
    BY <2>1, <2>2, <2>3
<1>5. all = Ghosts(matrix, offsets, ranks, r)
  <2>1. \A q \in 0 .. ranks - 1 : q + 1 \in 1 .. ranks /\ sets[q + 1] = Requests(matrix, offsets, r, q)
    <3> TAKE q \in 0 .. ranks - 1
    <3>1. q + 1 \in 1 .. ranks /\ (q + 1) - 1 = q
      OBVIOUS
    <3> QED
      BY <3>1
  <2>2. \A k \in 1 .. ranks : k - 1 \in 0 .. ranks - 1 /\ sets[k] = Requests(matrix, offsets, r, k - 1)
    BY <1>1
  <2> HIDE DEF sets
  <2> QED
    BY <2>1, <2>2 DEF Ghosts, Together
<1>6. GhostGlobals(matrix, offsets, r) = FlattenSeq(lists)
  <2>1. Cardinality(RanksOf(offsets)) = ranks
    <3>1. RanksOf(offsets) = 0 .. ranks - 1
      BY OwnershipFacts DEF IsPattern
    <3>2. Cardinality(0 .. ranks - 1) = ranks
      BY <1>1, FS_Interval
    <3> QED
      BY <3>1, <3>2
  <2> QED
    BY <2>1 DEF GhostGlobals
<1> HIDE DEF lists, sets
<1>7. IsFiniteSet(all) /\ Lists(FlattenSeq(lists), all)
  <2>1. \A k \in 1 .. ranks : IsFiniteSet(sets[k]) /\ Lists(lists[k], sets[k])
    BY <1>2
  <2>2. \A j, k \in 1 .. ranks : j # k => sets[j] \cap sets[k] = {}
    BY <1>4
  <2> QED
    BY <1>1, <1>3, <2>1, <2>2, FlattenedLists
<1>8. all \subseteq Int
  BY <1>2 DEF Together
<1> QED
  BY <1>5, <1>6, <1>7, <1>8

(* Each ghost has a slot of its own after those of the owned rows. *)
LEMMA SlotFacts ==
  ASSUME NEW matrix, IsPattern(matrix), NEW ranks \in Nat, NEW offsets \in Ownership(matrix.n, ranks),
         NEW r \in 0 .. ranks - 1
  PROVE  LET ghosts == Ghosts(matrix, offsets, ranks, r)
             owned == OwnedLen(offsets, r)
             extended == ExtendedLen(matrix, offsets, r)
         IN  /\ owned \in Nat /\ extended \in Nat /\ owned <= extended
             /\ \A c \in ghosts : ExtendedIndex(matrix, offsets, r, c) \in owned .. extended - 1
             /\ \A k \in owned .. extended - 1 :
                   \E c \in ghosts : ExtendedIndex(matrix, offsets, r, c) = k
             /\ \A c, d \in ghosts :
                   ExtendedIndex(matrix, offsets, r, c) = ExtendedIndex(matrix, offsets, r, d) => c = d
<1> DEFINE ghosts == Ghosts(matrix, offsets, ranks, r)
           list == GhostGlobals(matrix, offsets, r)
           owned == OwnedLen(offsets, r)
           place == [c \in ghosts |-> CHOOSE k \in DOMAIN list : list[k] = c]
<1>1. /\ list \in Seq(ghosts) /\ Len(list) \in Nat
      /\ \A x \in ghosts : \E k \in 1 .. Len(list) : list[k] = x
      /\ \A j, k \in 1 .. Len(list) : j # k => list[j] # list[k]
  <2>1. Lists(list, ghosts)
    BY GhostFacts
  <2> HIDE DEF list, ghosts
  <2> QED
    BY <2>1 DEF Lists
<1>2. owned \in Nat
  <2>1. /\ r \in 0 .. ranks /\ r + 1 \in 0 .. ranks /\ r < r + 1
    OBVIOUS
  <2>2. offsets[r] \in Nat /\ offsets[r + 1] \in Nat /\ offsets[r] < offsets[r + 1]
    BY <2>1, OwnershipFacts DEF IsPattern
  <2> QED
    BY <2>2 DEF OwnedLen
<1>3. ExtendedLen(matrix, offsets, r) = owned + Len(list)
  BY DEF ExtendedLen
<1>4. \A c : ExtendedIndex(matrix, offsets, r, c) = owned + (CHOOSE k \in DOMAIN list : list[k] = c) - 1
  BY DEF ExtendedIndex
<1> HIDE DEF list, owned, ghosts
<1>5. DOMAIN list = 1 .. Len(list)
  BY <1>1
<1>6. ASSUME NEW c \in ghosts
      PROVE  /\ place[c] \in 1 .. Len(list) /\ list[place[c]] = c
             /\ ExtendedIndex(matrix, offsets, r, c) = owned + place[c] - 1
  <2>1. \E k \in DOMAIN list : list[k] = c
    BY <1>1, <1>5
  <2> QED
    BY <1>4, <1>5, <2>1
<1>7. ASSUME NEW k \in 1 .. Len(list) PROVE list[k] \in ghosts /\ place[list[k]] = k
  <2>1. list[k] \in ghosts
    BY <1>1
  <2>2. place[list[k]] \in 1 .. Len(list) /\ list[place[list[k]]] = list[k]
    BY <1>6, <2>1
  <2> HIDE DEF place
  <2> QED
    BY <1>1, <2>1, <2>2
<1> HIDE DEF place
<1>8. \A c \in ghosts : ExtendedIndex(matrix, offsets, r, c) \in owned .. owned + Len(list) - 1
  <2> TAKE c \in ghosts
  <2>1. place[c] \in 1 .. Len(list) /\ ExtendedIndex(matrix, offsets, r, c) = owned + place[c] - 1
    BY <1>6
  <2> DEFINE n == Len(list)
  <2> HIDE DEF n
  <2>2. n \in Nat /\ place[c] \in 1 .. n
    BY <1>1, <2>1 DEF n
  <2>3. owned + place[c] - 1 \in owned .. owned + n - 1
    BY <1>2, <2>2
  <2> QED
    BY <2>1, <2>3 DEF n
<1>9. ASSUME NEW k \in owned .. owned + Len(list) - 1
      PROVE  \E c \in ghosts : ExtendedIndex(matrix, offsets, r, c) = k
  <2>1. k - owned + 1 \in 1 .. Len(list) /\ owned + (k - owned + 1) - 1 = k
    BY <1>1, <1>2
  <2>2. list[k - owned + 1] \in ghosts /\ place[list[k - owned + 1]] = k - owned + 1
    BY <1>7, <2>1
  <2>3. ExtendedIndex(matrix, offsets, r, list[k - owned + 1]) = owned + (k - owned + 1) - 1
    BY <1>6, <2>2
  <2> QED
    BY <2>1, <2>2, <2>3
<1>10. ASSUME NEW c \in ghosts, NEW d \in ghosts,
              ExtendedIndex(matrix, offsets, r, c) = ExtendedIndex(matrix, offsets, r, d)
       PROVE  c = d
  <2>1. /\ place[c] \in 1 .. Len(list) /\ list[place[c]] = c
        /\ place[d] \in 1 .. Len(list) /\ list[place[d]] = d
        /\ owned + place[c] - 1 = owned + place[d] - 1
    BY <1>6, <1>10
  <2>2. place[c] \in Int /\ place[d] \in Int
    BY <2>1
  <2>3. place[c] = place[d]
    BY <1>2, <2>1, <2>2
  <2> QED
    BY <2>1, <2>3
<1>11. owned + Len(list) \in Nat /\ owned <= owned + Len(list)
  BY <1>1, <1>2
<1> QED
  BY <1>2, <1>3, <1>8, <1>9, <1>10, <1>11 DEF owned, ghosts

(* As many slots as there are, if no two fill the same. *)
LEMMA SlotsCounted ==
  ASSUME NEW n \in Nat, NEW slots, {s.slot : s \in slots} = 0 .. n - 1,
         \A s, t \in slots : s.slot = t.slot => s = t
  PROVE  Cardinality(slots) = n
<1> DEFINE S == 0 .. n - 1
           f == [k \in S |-> CHOOSE s \in slots : s.slot = k]
<1>1. \A k \in S : f[k] \in slots /\ f[k].slot = k
  <2> TAKE k \in S
  <2>1. \E s \in slots : s.slot = k
    OBVIOUS
  <2> QED
    BY <2>1
<1>2. \A s \in slots : s.slot \in S /\ f[s.slot] = s
  <2> TAKE s \in slots
  <2>1. s.slot \in S
    OBVIOUS
  <2>2. f[s.slot] \in slots /\ f[s.slot].slot = s.slot
    BY <1>1, <2>1
  <2> HIDE DEF f, S
  <2> QED
    BY <2>1, <2>2
<1>3. f = [k \in S |-> f[k]]
  OBVIOUS
<1> HIDE DEF f
<1>4. IsFiniteSet(S) /\ Cardinality(S) = n
  BY FS_Interval
<1> HIDE DEF S
<1>5. f \in Injection(S, slots)
  BY <1>1, <1>3 DEF Injection, IsInjective
<1>6. f \in Surjection(S, slots)
  BY <1>1, <1>2, <1>3 DEF Surjection
<1>7. f \in Bijection(S, slots)
  BY <1>5, <1>6 DEF Bijection
<1> QED
  BY <1>4, <1>7, FS_Bijection DEF ExistsBijection

(* What the exchange leaves in the slots of a rank. *)
OwnSlot(offsets, r, k) == [slot |-> k, value |-> offsets[r] + k]
GhostSlot(matrix, offsets, r, c) ==
  [slot |-> ExtendedIndex(matrix, offsets, r, c), value |-> c]
Slots(matrix, offsets, ranks, r) ==
  {OwnSlot(offsets, r, k) : k \in 0 .. OwnedLen(offsets, r) - 1}
    \cup {GhostSlot(matrix, offsets, r, c) : c \in Ghosts(matrix, offsets, ranks, r)}

LEMMA ExtendedIs ==
  ASSUME NEW matrix, IsPattern(matrix), NEW ranks \in Nat, NEW offsets \in Ownership(matrix.n, ranks),
         NEW r \in 0 .. ranks - 1
  PROVE  Extended(matrix, offsets, r) = Slots(matrix, offsets, ranks, r)
<1> DEFINE Filled(c) == GhostSlot(matrix, offsets, r, c)
           Asked(q) == Requests(matrix, offsets, r, q)
<1>1. RanksOf(offsets) = 0 .. ranks - 1 /\ \A q \in 0 .. ranks - 1 : offsets[q] \in Nat
  <2>1. \A q \in 0 .. ranks - 1 : q \in 0 .. ranks
    OBVIOUS
  <2> QED
    BY <2>1, OwnershipFacts DEF IsPattern
<1>2. ASSUME NEW q \in 0 .. ranks - 1
      PROVE  ToSet(Received(matrix, offsets, r, q)) = {Filled(c) : c \in Asked(q)}
  <2> DEFINE set == Asked(q)
             list == Ascending(set)
             into == [k \in DOMAIN list |-> ExtendedIndex(matrix, offsets, r, list[k])]
             from == [k \in DOMAIN list |-> list[k] - offsets[q]]
             got == Received(matrix, offsets, r, q)
  <2>1. set \in SUBSET Int /\ IsFiniteSet(set)
    BY RequestFacts
  <2>2. got = [k \in DOMAIN from |-> [slot |-> into[k], value |-> offsets[q] + from[k]]]
    BY DEF Received, PeerPlan, SendGlobals, RecvGlobals
  <2> HIDE DEF set
  <2>3. Lists(list, set)
    BY <2>1, AscendingFacts
  <2> HIDE DEF list, got
  <2>4. /\ DOMAIN list = 1 .. Len(list) /\ \A k \in DOMAIN list : list[k] \in set
        /\ \A x \in set : \E k \in DOMAIN list : list[k] = x
    BY <2>3 DEF Lists
  <2>5. DOMAIN got = DOMAIN list /\ \A k \in DOMAIN list : got[k] = Filled(list[k])
    <3>1. DOMAIN got = DOMAIN list
      BY <2>2
    <3>2. ASSUME NEW k \in DOMAIN list PROVE got[k] = Filled(list[k])
      <4>1. list[k] \in Int /\ offsets[q] \in Int
        <5>1. list[k] \in set
          BY <2>4
        <5>2. offsets[q] \in Nat
          BY <1>1
        <5>3. list[k] \in Int
          BY <2>1, <5>1, Zenon
        <5> QED
          BY <5>2, <5>3
      <4>2. offsets[q] + (list[k] - offsets[q]) = list[k]
        BY <4>1
      <4>3. into[k] = ExtendedIndex(matrix, offsets, r, list[k]) /\ from[k] = list[k] - offsets[q]
        OBVIOUS
      <4> HIDE DEF into, from
      <4>4. DOMAIN from = DOMAIN list
        BY DEF from
      <4>5. got[k] = [slot |-> into[k], value |-> offsets[q] + from[k]]
        BY <2>2, <4>4
      <4> QED
        BY <4>2, <4>3, <4>5 DEF GhostSlot
    <3> QED
      BY <3>1, <3>2
  <2> HIDE DEF Filled
  <2>6. ToSet(got) = {Filled(list[k]) : k \in DOMAIN list}
    BY <2>5 DEF ToSet
  <2>7. {Filled(list[k]) : k \in DOMAIN list} = {Filled(c) : c \in set}
    BY <2>4
  <2> QED
    BY <2>6, <2>7 DEF got, set
<1>3. Peers(matrix, offsets, r) \subseteq 0 .. ranks - 1
  BY <1>1 DEF Peers
<1>4. ASSUME NEW q \in 0 .. ranks - 1, q \notin Peers(matrix, offsets, r) PROVE Asked(q) = {}
  BY <1>1, <1>4 DEF Peers
<1> DEFINE filled == UNION {ToSet(Received(matrix, offsets, r, s)) : s \in Peers(matrix, offsets, r)}
           ghosts == Ghosts(matrix, offsets, ranks, r)
<1>5. filled = {Filled(c) : c \in ghosts}
  <2>1. ghosts = UNION {Asked(q) : q \in 0 .. ranks - 1}
    BY DEF Ghosts
  <2> HIDE DEF ghosts, Filled, Asked
  <2>2. filled = UNION {{Filled(c) : c \in Asked(q)} : q \in Peers(matrix, offsets, r)}
    BY <1>2, <1>3
  <2> HIDE DEF filled
  <2>3. ASSUME NEW c \in ghosts PROVE Filled(c) \in filled
    <3>1. PICK q \in 0 .. ranks - 1 : c \in Asked(q)
      BY <2>1
    <3>2. q \in Peers(matrix, offsets, r)
      BY <1>4, <3>1
    <3> QED
      BY <2>2, <3>1, <3>2
  <2>4. ASSUME NEW x \in filled PROVE \E c \in ghosts : x = Filled(c)
    <3>1. PICK q \in Peers(matrix, offsets, r) : x \in {Filled(c) : c \in Asked(q)}
      BY <2>2
    <3>2. PICK c \in Asked(q) : x = Filled(c)
      BY <3>1
    <3> QED
      BY <1>3, <2>1, <3>2
  <2> QED
    BY <2>3, <2>4
<1> QED
  BY <1>5 DEF Extended, Slots, OwnSlot

(* For every pattern and every partition of its rows: the plans of all     *)
(* ranks match, the exchange fills every slot of [owned | ghosts] once,    *)
(* and every stored entry of every row multiplies the value of its column. *)
THEOREM PlansServe ==
  ASSUME NEW matrix, IsPattern(matrix), NEW ranks \in Nat, NEW offsets \in Ownership(matrix.n, ranks)
  PROVE  ExchangeDelivers(matrix, offsets)
<1>1. RanksOf(offsets) = 0 .. ranks - 1
  BY OwnershipFacts DEF IsPattern
<1>2. SUFFICES ASSUME NEW r \in 0 .. ranks - 1
      PROVE  LET slots == Extended(matrix, offsets, r)
             IN  /\ {s.slot : s \in slots} = 0 .. ExtendedLen(matrix, offsets, r) - 1
                 /\ Cardinality(slots) = ExtendedLen(matrix, offsets, r)
                 /\ \A i \in OwnedRange(offsets, r) : \A c \in Row(matrix, i) :
                       [slot |-> LocalColumn(matrix, offsets, r, c), value |-> c] \in slots
                 /\ \A q \in Peers(matrix, offsets, r) :
                       /\ PeerPlan(matrix, offsets, r, q).send_globals
                             = PeerPlan(matrix, offsets, q, r).recv_globals
                       /\ ToSet(SendGlobals(matrix, offsets, r, q)) \subseteq OwnedRange(offsets, r)
  BY <1>1 DEF ExchangeDelivers
<1> DEFINE slots == Extended(matrix, offsets, r)
           owned == OwnedLen(offsets, r)
           extended == ExtendedLen(matrix, offsets, r)
           ghosts == Ghosts(matrix, offsets, ranks, r)
           Own(k) == OwnSlot(offsets, r, k)
           At(c) == ExtendedIndex(matrix, offsets, r, c)
           Filled(c) == GhostSlot(matrix, offsets, r, c)
<1>3. slots = {Own(k) : k \in 0 .. owned - 1} \cup {Filled(c) : c \in ghosts}
  <2>1. slots = Slots(matrix, offsets, ranks, r)
    BY ExtendedIs
  <2> QED
    BY <2>1 DEF Slots
<1>4. /\ owned \in Nat /\ extended \in Nat /\ owned <= extended
      /\ \A c \in ghosts : At(c) \in owned .. extended - 1
      /\ \A k \in owned .. extended - 1 : \E c \in ghosts : At(c) = k
      /\ \A c, d \in ghosts : At(c) = At(d) => c = d
  BY SlotFacts
<1>5. \A k : Own(k).slot = k
  BY DEF OwnSlot
<1>6. \A c : Filled(c).slot = At(c)
  BY DEF GhostSlot
<1>7. /\ offsets[r] \in Nat /\ offsets[r + 1] \in Nat /\ owned = offsets[r + 1] - offsets[r]
  <2>1. r \in 0 .. ranks /\ r + 1 \in 0 .. ranks
    OBVIOUS
  <2> QED
    BY <2>1, OwnershipFacts DEF OwnedLen, IsPattern
<1>8. ASSUME NEW i \in OwnedRange(offsets, r), NEW c \in Row(matrix, i)
      PROVE  [slot |-> LocalColumn(matrix, offsets, r, c), value |-> c] \in slots
  <2>1. OwnedRange(offsets, r) \subseteq Nodes(matrix)
    BY OwnerFacts DEF IsPattern, Nodes
  <2>2. c \in 0 .. matrix.n - 1
    BY <1>8, <2>1 DEF IsPattern, Row, Nodes
  <2>3. /\ OwnerOf(offsets, c) \in 0 .. ranks - 1
        /\ c \in OwnedRange(offsets, OwnerOf(offsets, c))
    BY <2>2, OwnerFacts DEF IsPattern
  <2>4. CASE c \in OwnedRange(offsets, r)
    <3>1. c - offsets[r] \in 0 .. owned - 1 /\ offsets[r] + (c - offsets[r]) = c
      BY <1>7, <2>4 DEF OwnedRange
    <3>2. [slot |-> LocalColumn(matrix, offsets, r, c), value |-> c] = Own(c - offsets[r])
      BY <2>4, <3>1 DEF LocalColumn, OwnSlot
    <3> HIDE DEF Own, slots, owned, Filled, ghosts
    <3> QED
      BY <1>3, <3>1, <3>2
  <2>5. CASE c \notin OwnedRange(offsets, r)
    <3>1. OwnerOf(offsets, c) # r
      BY <2>3, <2>5
    <3>2. c \in Requests(matrix, offsets, r, OwnerOf(offsets, c))
      BY <3>1 DEF Requests
    <3>3. c \in ghosts
      BY <2>3, <3>2 DEF Ghosts
    <3>4. [slot |-> LocalColumn(matrix, offsets, r, c), value |-> c] = Filled(c)
      BY <2>5 DEF LocalColumn, GhostSlot
    <3> HIDE DEF Own, slots, owned, Filled, ghosts
    <3> QED
      BY <1>3, <3>3, <3>4
  <2> QED
    BY <2>4, <2>5
<1>9. ASSUME NEW q \in Peers(matrix, offsets, r)
      PROVE  /\ PeerPlan(matrix, offsets, r, q).send_globals
                   = PeerPlan(matrix, offsets, q, r).recv_globals
             /\ ToSet(SendGlobals(matrix, offsets, r, q)) \subseteq OwnedRange(offsets, r)
  <2>1. q \in 0 .. ranks - 1
    BY <1>1 DEF Peers
  <2>2. PeerPlan(matrix, offsets, r, q).send_globals = PeerPlan(matrix, offsets, q, r).recv_globals
    BY DEF PeerPlan, SendGlobals, RecvGlobals
  <2> DEFINE set == Requests(matrix, offsets, q, r)
             list == Ascending(set)
  <2>3. /\ set \subseteq OwnedRange(offsets, r) /\ set \in SUBSET Int /\ IsFiniteSet(set)
    BY <2>1, RequestFacts
  <2>4. SendGlobals(matrix, offsets, r, q) = list
    BY DEF SendGlobals
  <2> HIDE DEF set
  <2>5. Lists(list, set)
    BY <2>3, AscendingFacts
  <2> HIDE DEF list
  <2>6. ToSet(list) \subseteq set
    BY <2>5 DEF Lists, ToSet
  <2> QED
    BY <2>2, <2>3, <2>4, <2>6
<1> HIDE DEF slots, owned, extended, ghosts, Own, At, Filled
<1>10. {s.slot : s \in slots} = 0 .. extended - 1
  <2>1. ASSUME NEW s \in slots PROVE s.slot \in 0 .. extended - 1
    <3>1. CASE s \in {Own(k) : k \in 0 .. owned - 1}
      BY <1>4, <1>5, <3>1
    <3>2. CASE s \in {Filled(c) : c \in ghosts}
      BY <1>4, <1>6, <3>2
    <3> QED
      BY <1>3, <3>1, <3>2
  <2>2. ASSUME NEW k \in 0 .. extended - 1 PROVE \E s \in slots : s.slot = k
    <3>1. CASE k \in 0 .. owned - 1
      BY <1>3, <1>5, <3>1
    <3>2. CASE k \in owned .. extended - 1
      BY <1>3, <1>4, <1>6, <3>2
    <3> QED
      BY <1>4, <3>1, <3>2
  <2> QED
    BY <2>1, <2>2
<1>11. ASSUME NEW s \in slots, NEW t \in slots, s.slot = t.slot PROVE s = t
  <2>1. \A x \in slots : \/ \E k \in 0 .. owned - 1 : x = Own(k) /\ x.slot = k
                         \/ \E c \in ghosts : x = Filled(c) /\ x.slot = At(c)
    BY <1>3, <1>5, <1>6
  <2>2. \A k \in 0 .. owned - 1, c \in ghosts : k # At(c)
    BY <1>4
  <2> QED
    BY <1>4, <1>11, <2>1, <2>2
<1>12. Cardinality(slots) = extended
  BY <1>4, <1>10, <1>11, SlotsCounted
<1> QED
  BY <1>8, <1>9, <1>10, <1>12 DEF slots, extended

-----------------------------------------------------------------------------
(* A union has no more elements than its parts together.                   *)
Covered(P, s) == UNION {P[x] : x \in s}

LEMMA UnionBound ==
  ASSUME NEW S, IsFiniteSet(S), NEW P, NEW f,
         \A x \in S : IsFiniteSet(P[x]) /\ f[x] = Cardinality(P[x])
  PROVE  IsFiniteSet(Covered(P, S)) /\ Cardinality(Covered(P, S)) <= SumFunctionOnSet(f, S)
<1> DEFINE F == SumFold(f, S)
           U(s) == Covered(P, s)
           Good(s) == IsFiniteSet(U(s)) /\ Cardinality(U(s)) <= F[s]
           T == {m \in Nat : \E s \in SUBSET S : Cardinality(s) = m /\ ~ Good(s)}
           pick == [s \in SUBSET S |-> First(s)]
<1>1. \A x \in S : f[x] \in Nat
  BY FS_CardinalityType
<1>2. /\ \A s \in SUBSET S : F[s] \in Nat
      /\ F[{}] = 0
      /\ \A s \in SUBSET S : s # {} =>
            /\ First(s) \in s
            /\ F[s] = f[First(s)] + F[s \ {First(s)}]
  BY <1>1, SumFacts
<1> HIDE DEF F
<1>3. U({}) = {} /\ IsFiniteSet({}) /\ Cardinality({}) = 0
  BY FS_EmptySet DEF Covered
<1>4. ASSUME NEW s \in SUBSET S, s # {} PROVE U(s) = P[First(s)] \cup U(s \ {First(s)})
  BY <1>2, <1>4 DEF Covered
<1> HIDE DEF U
<1>5. T = {}
  <2>1. SUFFICES ASSUME T # {} PROVE FALSE
    OBVIOUS
  <2>2. PICK m \in T : \A k \in T : m <= k
    <3>1. T \in SUBSET Nat
      OBVIOUS
    <3> HIDE DEF T
    <3> QED
      BY <2>1, <3>1, LeastNat
  <2>3. PICK s \in SUBSET S : Cardinality(s) = m /\ ~ Good(s)
    BY <2>2
  <2> HIDE DEF T
  <2>4. s # {}
    <3>1. Good({})
      <4>1. IsFiniteSet(U({}))
        BY ONLY <1>3, Zenon
      <4>2. Cardinality(U({})) = 0 /\ F[{}] = 0
        BY ONLY <1>2, <1>3, Zenon
      <4>3. 0 <= 0
        OBVIOUS
      <4> QED
        BY <4>1, <4>2, <4>3, Zenon
    <3> HIDE DEF Good
    <3> QED
      BY <2>3, <3>1
  <2> DEFINE rest == s \ {First(s)}
  <2>5. First(s) \in S /\ rest \in SUBSET S
    BY <1>2, <2>4
  <2>6. Cardinality(rest) = m - 1 /\ m \in Nat /\ m >= 1
    <3>1. IsPick(pick, S) /\ pick[s] = First(s)
      BY <1>2 DEF IsPick
    <3>2. m \in Nat
      BY <2>2 DEF T
    <3> HIDE DEF pick
    <3>3. Cardinality(s) >= 1 /\ Cardinality(s \ {pick[s]}) = Cardinality(s) - 1
      BY <2>4, <3>1, WithoutOne
    <3> QED
      BY <2>3, <3>1, <3>2, <3>3
  <2> DEFINE A == P[First(s)]
             B == U(rest)
  <2>7. U(s) = A \cup B
    BY <1>4, <2>4
  <2>8. F[s] = f[First(s)] + F[rest]
    BY <1>2, <2>4
  <2> HIDE DEF rest
  <2>9. m - 1 \in Nat /\ ~(m <= m - 1)
    BY <2>6
  <2>10. m - 1 \notin T
    <3> HIDE DEF T
    <3> QED
      BY <2>2, <2>9
  <2>11. Good(rest)
    <3> HIDE DEF Good
    <3> QED
      BY <2>5, <2>6, <2>9, <2>10 DEF T
  <2>12. IsFiniteSet(A) /\ f[First(s)] = Cardinality(A) /\ F[rest] \in Nat
    BY <1>2, <2>5
  <2>13. IsFiniteSet(B) /\ Cardinality(B) <= F[rest]
    BY <2>11
  <2> HIDE DEF A, B
  <2>14. /\ IsFiniteSet(A \cup B)
         /\ Cardinality(A \cup B) = Cardinality(A) + Cardinality(B) - Cardinality(A \cap B)
    BY <2>12, <2>13, FS_Union, Zenon
  <2>15. IsFiniteSet(A \cap B)
    BY <2>12, FS_Intersection
  <2>16. Cardinality(A) \in Nat /\ Cardinality(B) \in Nat /\ Cardinality(A \cap B) \in Nat
    BY <2>12, <2>13, <2>15, FS_CardinalityType
  <2>17. Good(s)
    BY <2>7, <2>8, <2>12, <2>13, <2>14, <2>16
  <2> QED
    BY <2>3, <2>17
<1>6. Good(S)
  <2>1. Cardinality(S) \in Nat /\ S \in SUBSET S
    BY FS_CardinalityType
  <2> HIDE DEF Good
  <2> QED
    BY <1>5, <2>1
<1> QED
  BY <1>6, SumUnfolded DEF U, F

-----------------------------------------------------------------------------
(* Where the blocks and the cuts lie. A layout owns its blocks.            *)
LEMMA BlockBefore ==
  ASSUME NEW at, IsLayout(at), NEW i \in 0 .. TotalDofs(at) - 1, NEW c \in 0 .. Blocks(at)
  PROVE  BlockOf(at, i) < c <=> i < at[c]
<1> DEFINE n == Blocks(at)
           b == BlockOf(at, i)
           total == TotalDofs(at)
<1>1. /\ n \in Nat /\ DOMAIN at = 0 .. n /\ at[0] = 0
      /\ \A k \in 0 .. n : at[k] \in Nat
      /\ \A j, k \in 0 .. n : j < k => at[j] < at[k]
  BY LayoutFacts
<1>2. total \in Nat /\ at[n] = total
  BY <1>1 DEF TotalDofs
<1>3. at \in Ownership(total, n)
  <2>1. at \in [0 .. n -> Nat]
    <3>1. at = [k \in 0 .. n |-> at[k]]
      BY <1>1 DEF IsLayout
    <3> HIDE DEF n
    <3> QED
      BY <1>1, <3>1
  <2>2. Cardinality(DOMAIN at) - 1 = n
    BY DEF Blocks
  <2>3. \A r \in 1 .. n : r - 1 \in 0 .. n /\ r \in 0 .. n /\ r - 1 < r
    BY <1>1
  <2> HIDE DEF n, total
  <2>4. \A r \in 1 .. n : at[r - 1] < at[r]
    BY <1>1, <2>3
  <2>5. IsPartition(at, total)
    BY <1>1, <1>2, <2>2, <2>4 DEF IsPartition
  <2> QED
    BY <2>1, <2>5 DEF Ownership
<1>4. b = OwnerOf(at, i)
  BY DEF BlockOf, OwnerOf
<1> HIDE DEF n, b, total
<1>5. b \in 0 .. n - 1 /\ i \in OwnedRange(at, b)
  <2>1. i \in 0 .. total - 1
    BY DEF total
  <2> QED
    BY <1>1, <1>2, <1>3, <1>4, <2>1, OwnerFacts
<1>6. /\ b \in 0 .. n /\ b + 1 \in 0 .. n /\ at[b] <= i /\ i < at[b + 1] /\ i \in Int
      /\ at[b] \in Nat /\ at[b + 1] \in Nat
  BY <1>1, <1>5 DEF OwnedRange
<1>7. c \in 0 .. n /\ at[c] \in Nat
  BY <1>1 DEF n
<1>8. CASE b < c
  <2>1. b + 1 = c \/ at[b + 1] < at[c]
    BY <1>1, <1>6, <1>7, <1>8
  <2> QED
    BY <1>6, <1>7, <1>8, <2>1 DEF b
<1>9. CASE ~(b < c)
  <2>1. b = c \/ at[c] < at[b]
    BY <1>1, <1>6, <1>7, <1>9
  <2>2. ~(i < at[c])
    BY <1>6, <1>7, <2>1
  <2> QED
    BY <1>9, <2>2 DEF b
<1> QED
  BY <1>8, <1>9

LEMMA CutOwnership ==
  ASSUME NEW at, IsLayout(at), NEW ranks \in Nat, NEW cuts \in CutSets(at, ranks)
  PROVE  /\ Offsets(at, cuts) \in Ownership(TotalDofs(at), ranks)
         /\ TotalDofs(at) \in Nat
         /\ \A r \in 0 .. ranks : cuts[r] \in 0 .. Blocks(at) /\ Offsets(at, cuts)[r] = at[cuts[r]]
<1>1. cuts \in [0 .. ranks -> 0 .. Blocks(at)]
  BY DEF CutSets
<1>2. /\ Blocks(at) \in Nat /\ \A b \in 0 .. Blocks(at) : at[b] \in Nat
  BY LayoutFacts
<1>3. Offsets(at, cuts) = [r \in 0 .. ranks |-> at[cuts[r]]]
  BY <1>1 DEF Offsets
<1>4. Offsets(at, cuts) \in [0 .. ranks -> Nat]
  BY <1>1, <1>2, <1>3
<1>5. IsPartition(Offsets(at, cuts), TotalDofs(at))
  BY CutsServe
<1> QED
  BY <1>1, <1>2, <1>3, <1>4, <1>5 DEF Ownership, TotalDofs

-----------------------------------------------------------------------------
(* Stored entries between ranks, and between the sides of a boundary.      *)
CutArcs(matrix, offsets) ==
  {a \in Nodes(matrix) \X Nodes(matrix) :
      a[2] \in Row(matrix, a[1]) /\ OwnerOf(offsets, a[1]) # OwnerOf(offsets, a[2])}
Across(matrix, at, b) ==
  {a \in Nodes(matrix) \X Nodes(matrix) :
      a[2] \in Row(matrix, a[1]) /\ (BlockOf(at, a[1]) < b) # (BlockOf(at, a[2]) < b)}

LEMMA ArcsMeasured ==
  ASSUME NEW matrix, matrix.n \in Nat, NEW at, NEW offsets, NEW b \in DOMAIN at
  PROVE  /\ Telemetry(matrix, offsets)[2] = Cardinality(CutArcs(matrix, offsets))
         /\ Pressure(matrix, at)[b] = Cardinality(Across(matrix, at, b))
         /\ IsFiniteSet(Across(matrix, at, b))
<1> DEFINE N == Nodes(matrix)
           of == [i \in N |-> BlockOf(at, i)]
           owner == [i \in N |-> OwnerOf(offsets, i)]
           arcs == {a \in N \X N : a[2] \in Row(matrix, a[1])}
           P == {a \in arcs : (of[a[1]] < b) # (of[a[2]] < b)}
           cut == {a \in N \X N : a[2] \in Row(matrix, a[1]) /\ owner[a[1]] # owner[a[2]]}
<1>1. IsFiniteSet(N \X N)
  <2>1. IsFiniteSet(N)
    BY FS_Interval DEF Nodes
  <2> QED
    BY <2>1, FS_Product
<1>2. Pressure(matrix, at)[b] = Cardinality(P)
  BY Zenon DEF Pressure
<1>3. Telemetry(matrix, offsets)[2] = Cardinality(cut)
  BY DEF Telemetry
<1> HIDE DEF N
<1>4. \A a \in N \X N : /\ of[a[1]] = BlockOf(at, a[1]) /\ of[a[2]] = BlockOf(at, a[2])
                        /\ owner[a[1]] = OwnerOf(offsets, a[1])
                        /\ owner[a[2]] = OwnerOf(offsets, a[2])
  OBVIOUS
<1> HIDE DEF of, owner
<1>5. P = Across(matrix, at, b)
  <2>1. P = {a \in N \X N : a[2] \in Row(matrix, a[1]) /\ (of[a[1]] < b) # (of[a[2]] < b)}
    OBVIOUS
  <2>2. \A a \in N \X N : ((of[a[1]] < b) # (of[a[2]] < b))
                             <=> ((BlockOf(at, a[1]) < b) # (BlockOf(at, a[2]) < b))
    BY <1>4
  <2> QED
    BY <2>1, <2>2 DEF Across, N
<1>6. cut = CutArcs(matrix, offsets)
  BY <1>4 DEF CutArcs, N
<1>7. IsFiniteSet(P)
  BY <1>1, FS_Subset
<1> HIDE DEF P, cut
<1> QED
  BY <1>2, <1>3, <1>5, <1>6, <1>7

(* An entry that is cut crosses the boundary at which the later of its two *)
(* ranks begins, so it counts in the pressure of that cut.                 *)
LEMMA CutPressed ==
  ASSUME NEW matrix, matrix.n \in Nat, NEW at, IsLayout(at), TotalDofs(at) = matrix.n,
         NEW ranks \in Nat, NEW cuts \in CutSets(at, ranks)
  PROVE  Telemetry(matrix, Offsets(at, cuts))[2]
           <= SumFunctionOnSet([r \in DOMAIN cuts |-> Pressure(matrix, at)[cuts[r]]], 1 .. ranks - 1)
<1> DEFINE offsets == Offsets(at, cuts)
           S == 1 .. ranks - 1
           P == [r \in DOMAIN cuts |-> Across(matrix, at, cuts[r])]
           f == [r \in DOMAIN cuts |-> Pressure(matrix, at)[cuts[r]]]
           n == matrix.n
           C == CutArcs(matrix, offsets)
<1>1. /\ offsets \in Ownership(n, ranks) /\ n \in Nat
      /\ DOMAIN cuts = 0 .. ranks
      /\ \A r \in 0 .. ranks : cuts[r] \in 0 .. Blocks(at) /\ offsets[r] = at[cuts[r]]
  <2>1. DOMAIN cuts = 0 .. ranks
    BY DEF CutSets
  <2> QED
    BY <2>1, CutOwnership
<1>2. DOMAIN at = 0 .. Blocks(at)
  BY LayoutFacts
<1> HIDE DEF offsets
<1>3. \A r \in S : /\ r \in 0 .. ranks /\ cuts[r] \in 0 .. Blocks(at)
                   /\ IsFiniteSet(P[r]) /\ f[r] = Cardinality(P[r])
                   /\ P[r] = Across(matrix, at, cuts[r])
  <2> TAKE r \in S
  <2>1. r \in 0 .. ranks
    OBVIOUS
  <2>2. cuts[r] \in DOMAIN at
    BY <1>1, <1>2, <2>1
  <2>3. /\ Pressure(matrix, at)[cuts[r]] = Cardinality(Across(matrix, at, cuts[r]))
        /\ IsFiniteSet(Across(matrix, at, cuts[r]))
    BY <2>2, ArcsMeasured
  <2> QED
    BY <1>1, <1>2, <2>1, <2>2, <2>3
<1>4. IsFiniteSet(S)
  BY FS_Interval
<1> HIDE DEF P, f, S
<1>5. IsFiniteSet(Covered(P, S)) /\ Cardinality(Covered(P, S)) <= SumFunctionOnSet(f, S)
  BY <1>3, <1>4, UnionBound
<1>6. /\ \A k \in 0 .. ranks : offsets[k] \in Nat
      /\ \A j, k \in 0 .. ranks : j < k => offsets[j] < offsets[k]
  BY <1>1, OwnershipFacts
<1>7. ASSUME NEW i \in 0 .. n - 1
      PROVE  /\ OwnerOf(offsets, i) \in 0 .. ranks - 1
             /\ offsets[OwnerOf(offsets, i)] <= i /\ i < offsets[OwnerOf(offsets, i) + 1]
  <2>1. /\ OwnerOf(offsets, i) \in 0 .. ranks - 1
        /\ i \in OwnedRange(offsets, OwnerOf(offsets, i))
    BY <1>1, OwnerFacts
  <2>2. \A r \in 0 .. ranks - 1 : r \in 0 .. ranks /\ r + 1 \in 0 .. ranks
    BY <1>1
  <2>3. /\ offsets[OwnerOf(offsets, i)] \in Nat
        /\ offsets[OwnerOf(offsets, i) + 1] \in Nat
    BY <1>6, <2>1, <2>2
  <2> QED
    BY <2>1, <2>3 DEF OwnedRange
<1>8. ASSUME NEW i \in 0 .. n - 1, NEW j \in 0 .. n - 1,
             OwnerOf(offsets, i) < OwnerOf(offsets, j)
      PROVE  \E r \in S : BlockOf(at, i) < cuts[r] /\ ~(BlockOf(at, j) < cuts[r])
  <2> DEFINE q == OwnerOf(offsets, i)
             r == OwnerOf(offsets, j)
  <2>1. /\ q \in 0 .. ranks - 1 /\ i < offsets[q + 1]
        /\ r \in 0 .. ranks - 1 /\ offsets[r] <= j /\ q < r
    BY <1>7, <1>8
  <2> HIDE DEF q, r
  <2>2. r \in S /\ r \in 0 .. ranks /\ q + 1 \in 0 .. ranks /\ (q + 1 = r \/ q + 1 < r)
    BY <2>1 DEF S
  <2>3. offsets[q + 1] <= offsets[r] /\ offsets[r] \in Nat /\ offsets[q + 1] \in Nat
    BY <1>6, <2>2
  <2>4. i < offsets[r] /\ ~(j < offsets[r])
    BY <2>1, <2>3
  <2>5. cuts[r] \in 0 .. Blocks(at) /\ offsets[r] = at[cuts[r]]
    BY <1>1, <2>2
  <2>6. i \in 0 .. TotalDofs(at) - 1 /\ j \in 0 .. TotalDofs(at) - 1
    OBVIOUS
  <2>7. (BlockOf(at, i) < cuts[r] <=> i < at[cuts[r]]) /\ (BlockOf(at, j) < cuts[r] <=> j < at[cuts[r]])
    BY <2>5, <2>6, BlockBefore
  <2> QED
    BY <2>2, <2>4, <2>5, <2>7
<1>9. C \subseteq Covered(P, S)
  <2> SUFFICES ASSUME NEW a \in C PROVE \E r \in S : a \in P[r]
    BY DEF Covered
  <2> DEFINE i == a[1]
             j == a[2]
  <2>1. /\ a \in Nodes(matrix) \X Nodes(matrix) /\ j \in Row(matrix, i)
        /\ OwnerOf(offsets, i) # OwnerOf(offsets, j)
        /\ i \in 0 .. n - 1 /\ j \in 0 .. n - 1
    BY DEF CutArcs, Nodes
  <2>2. OwnerOf(offsets, i) \in Int /\ OwnerOf(offsets, j) \in Int
    BY <1>7, <2>1
  <2> HIDE DEF C
  <2>3. \E r \in S : (BlockOf(at, i) < cuts[r]) # (BlockOf(at, j) < cuts[r])
    <3> HIDE DEF i, j
    <3>1. CASE OwnerOf(offsets, i) < OwnerOf(offsets, j)
      <4>1. PICK r \in S : BlockOf(at, i) < cuts[r] /\ ~(BlockOf(at, j) < cuts[r])
        BY <1>8, <2>1, <3>1
      <4> QED
        BY <4>1
    <3>2. CASE OwnerOf(offsets, j) < OwnerOf(offsets, i)
      <4>1. PICK r \in S : BlockOf(at, j) < cuts[r] /\ ~(BlockOf(at, i) < cuts[r])
        BY <1>8, <2>1, <3>2
      <4> QED
        BY <4>1
    <3> QED
      BY <2>1, <2>2, <3>1, <3>2
  <2>4. PICK r \in S : (BlockOf(at, i) < cuts[r]) # (BlockOf(at, j) < cuts[r])
    BY <2>3
  <2>5. a \in Across(matrix, at, cuts[r])
    BY <2>1, <2>4 DEF Across
  <2> QED
    BY <1>3, <2>5
<1>10. Cardinality(C) <= Cardinality(Covered(P, S)) /\ Cardinality(C) \in Nat
  <2>1. IsFiniteSet(C) /\ Cardinality(C) <= Cardinality(Covered(P, S))
    BY <1>5, <1>9, FS_Subset
  <2> QED
    BY <2>1, FS_CardinalityType
<1>11. Telemetry(matrix, offsets)[2] = Cardinality(C)
  <2>1. 0 \in DOMAIN at
    BY <1>2, LayoutFacts
  <2> QED
    BY <2>1, ArcsMeasured
<1>12. SumFunctionOnSet(f, S) \in Nat
  <2>1. \A x \in S : f[x] \in Nat
    BY <1>3, FS_CardinalityType
  <2>2. S \in SUBSET S
    OBVIOUS
  <2> QED
    BY <1>4, <2>1, <2>2, SumFacts, SumUnfolded
<1>13. Cardinality(Covered(P, S)) \in Nat
  BY <1>5, FS_CardinalityType
<1>14. Telemetry(matrix, offsets)[2] <= SumFunctionOnSet(f, S)
  BY <1>5, <1>10, <1>11, <1>12, <1>13
<1> QED
  BY <1>14 DEF offsets, f, S

(* A rank that owns the first of a block owns all of it.                   *)
LEMMA BlocksWhole ==
  ASSUME NEW at, IsLayout(at), NEW ranks \in Nat, NEW cuts \in CutSets(at, ranks),
         NEW b \in 1 .. Blocks(at), NEW i \in at[b - 1] .. at[b] - 1
  PROVE  OwnerOf(Offsets(at, cuts), i) = OwnerOf(Offsets(at, cuts), at[b - 1])
<1> DEFINE offsets == Offsets(at, cuts)
           n == TotalDofs(at)
           r == OwnerOf(offsets, at[b - 1])
           B == Blocks(at)
<1>1. /\ offsets \in Ownership(n, ranks) /\ n \in Nat
      /\ \A k \in 0 .. ranks : cuts[k] \in 0 .. B /\ offsets[k] = at[cuts[k]]
  BY CutOwnership
<1>2. /\ B \in Nat /\ (\A k \in 0 .. B : at[k] \in Nat) /\ at[B] = n
      /\ \A j, k \in 0 .. B : j < k => at[j] < at[k]
  BY LayoutFacts DEF TotalDofs
<1>3. b \in 1 .. B
  OBVIOUS
<1> HIDE DEF offsets, B, n
<1>4. b - 1 \in 0 .. B /\ b \in 0 .. B /\ B \in 0 .. B /\ b - 1 < b /\ b - 1 < B /\ b \in Int
  BY <1>2, <1>3
<1>5. at[b - 1] \in 0 .. n - 1
  <2>1. at[b - 1] < at[B] /\ at[b - 1] \in Nat /\ at[B] \in Nat
    BY <1>2, <1>4
  <2> QED
    BY <1>1, <1>2, <2>1
<1>6. r \in 0 .. ranks - 1 /\ at[b - 1] \in OwnedRange(offsets, r)
  BY <1>1, <1>5, OwnerFacts
<1> HIDE DEF r
<1>7. r \in 0 .. ranks /\ r + 1 \in 0 .. ranks
  BY <1>6
<1> DEFINE c == cuts[r + 1]
<1>8. /\ c \in 0 .. B /\ offsets[r + 1] = at[c]
      /\ offsets[r] <= at[b - 1] /\ at[b - 1] < at[c] /\ offsets[r] \in Nat
  <2>1. offsets[r] \in Nat /\ offsets[r + 1] \in Nat
    <3>1. offsets \in [0 .. ranks -> Nat]
      BY <1>1, OwnershipFacts
    <3> QED
      BY <1>7, <3>1
  <2>2. c \in 0 .. B /\ offsets[r + 1] = at[c]
    BY <1>1, <1>7
  <2> HIDE DEF c
  <2>3. offsets[r] <= at[b - 1] /\ at[b - 1] < offsets[r + 1]
    BY <1>2, <1>4, <1>6, <2>1 DEF OwnedRange
  <2> QED
    BY <2>1, <2>2, <2>3
<1> HIDE DEF c
<1>9. b - 1 < c
  <2>1. CASE c = b - 1
    BY <1>2, <1>4, <1>8, <2>1
  <2>2. CASE c < b - 1
    <3>1. at[c] < at[b - 1] /\ at[c] \in Nat /\ at[b - 1] \in Nat
      BY <1>2, <1>4, <1>8, <2>2
    <3> QED
      BY <1>8, <3>1
  <2> QED
    BY <1>4, <1>8, <2>1, <2>2
<1>10. at[b] <= at[c] /\ at[b] \in Nat /\ at[c] \in Nat /\ at[b - 1] \in Nat
  <2>1. b = c \/ b < c
    BY <1>4, <1>8, <1>9
  <2> QED
    BY <1>2, <1>4, <1>8, <2>1
<1>11. i \in OwnedRange(offsets, r)
  BY <1>8, <1>10 DEF OwnedRange
<1>12. OwnerOf(offsets, i) = r
  BY <1>1, <1>6, <1>11, OwnerFacts
<1> QED
  BY <1>12 DEF r, offsets

(* What refinement settles on, in the terms of FieldCutsSound.             *)
LEMMA RefinedBounded ==
  ASSUME NEW matrix, matrix.n \in Nat, NEW at, IsLayout(at), NEW ranks \in 1 .. Blocks(at),
         NEW radius \in Nat
  PROVE  /\ RefinedCuts(matrix, at, ranks, radius) \in CutSets(at, ranks)
         /\ \A r \in 0 .. ranks - 1 :
               /\ OwnedLen(Offsets(at, RefinedCuts(matrix, at, ranks, radius)), r)
                     <= MaxOwned(at, AlignedCuts(at, ranks))
               /\ Distance(RefinedCuts(matrix, at, ranks, radius)[r], AlignedCuts(at, ranks)[r])
                     <= radius
         /\ \A r \in 0 .. ranks :
               Pressure(matrix, at)[RefinedCuts(matrix, at, ranks, radius)[r]]
                  <= Pressure(matrix, at)[AlignedCuts(at, ranks)[r]]
<1> DEFINE refined == RefinedCuts(matrix, at, ranks, radius)
           task == Refinement(matrix, at, ranks, radius)
<1>1. refined \in Settled(task)
  BY RefinedSettles
<1>2. /\ task.at = at /\ task.ranks = ranks /\ task.radius = radius
      /\ task.aligned = AlignedCuts(at, ranks)
      /\ task.limit = MaxOwned(at, AlignedCuts(at, ranks))
      /\ task.pressure = Pressure(matrix, at)
  BY RefinementStarts
<1>3. Blocks(at) \in Nat /\ ranks \in Nat
  BY LayoutFacts
<1> HIDE DEF refined, task
<1>4. /\ refined \in CutSets(at, ranks) /\ Bounded(task, refined)
      /\ \A r \in 0 .. ranks : task.pressure[refined[r]] <= task.pressure[task.aligned[r]]
  BY <1>1, <1>2 DEF Settled
<1>5. \A r \in 0 .. ranks : Offsets(at, refined)[r] = at[refined[r]]
  BY <1>3, <1>4, CutOwnership
<1>6. ASSUME NEW r \in 0 .. ranks - 1
      PROVE  /\ OwnedLen(Offsets(at, refined), r) <= task.limit
             /\ Distance(refined[r], task.aligned[r]) <= radius
  <2>1. r \in 0 .. ranks /\ r + 1 \in 0 .. ranks
    BY <1>3
  <2>2. OwnedLen(Offsets(at, refined), r) = at[refined[r + 1]] - at[refined[r]]
    BY <1>5, <2>1 DEF OwnedLen
  <2> QED
    BY <1>2, <1>4, <2>2 DEF Bounded
<1> QED
  BY <1>2, <1>4, <1>6 DEF refined

(* Field partitioning, for every sparsity pattern, every layout of it, as  *)
(* many ranks as there are blocks or fewer, and every radius: the partition*)
(* field_partition.rs chooses gives every rank at least a block, at most   *)
(* the bound and no cut beyond the radius, refinement never raises what    *)
(* the cuts cross, an entry that is cut was counted where the cut was      *)
(* placed, no block is split, and the halo plans of the chosen partition   *)
(* bring every row what it needs.                                          *)
THEOREM CutsSound ==
  ASSUME NEW matrix, IsPattern(matrix), NEW at, IsLayout(at), TotalDofs(at) = matrix.n,
         NEW ranks \in 1 .. Blocks(at), NEW radius \in Nat
  PROVE  FieldCutsSound(matrix, at, ranks, radius)
<1> DEFINE aligned == AlignedCuts(at, ranks)
           refined == RefinedCuts(matrix, at, ranks, radius)
           cuts == FieldGraphCuts(matrix, at, ranks, radius)
           chosen == Offsets(at, cuts)
           pressure == Pressure(matrix, at)
           Crossing(of) == SumFunctionOnSet([r \in DOMAIN of |-> pressure[of[r]]], 1 .. ranks - 1)
<1>1. /\ matrix.n \in Nat /\ Blocks(at) \in Nat /\ ranks \in Nat /\ ranks >= 1
      /\ DOMAIN at = 0 .. Blocks(at)
  BY LayoutFacts DEF IsPattern
<1>2. aligned \in CutSets(at, ranks)
  BY AlignedServe
<1>3. /\ refined \in CutSets(at, ranks)
      /\ \A r \in 0 .. ranks - 1 : /\ OwnedLen(Offsets(at, refined), r) <= MaxOwned(at, aligned)
                                   /\ Distance(refined[r], aligned[r]) <= radius
      /\ \A r \in 0 .. ranks : pressure[refined[r]] <= pressure[aligned[r]]
  BY <1>1, RefinedBounded
<1>4. cuts \in CutSets(at, ranks)
  <2>1. cuts = aligned \/ cuts = refined
    BY Zenon DEF FieldGraphCuts
  <2> HIDE DEF cuts, aligned, refined
  <2> QED
    BY <1>2, <1>3, <2>1
<1>5. \A b \in DOMAIN at : pressure[b] \in Nat
  BY <1>1, PressureType
<1> HIDE DEF aligned, refined, cuts, pressure
<1>6. \A of \in CutSets(at, ranks) : /\ DOMAIN of = 0 .. ranks
                                     /\ \A r \in 0 .. ranks : of[r] \in DOMAIN at
                                     /\ \A r \in 0 .. ranks - 1 : of[r] < of[r + 1]
  <2> TAKE of \in CutSets(at, ranks)
  <2>1. of \in [0 .. ranks -> 0 .. Blocks(at)] /\ \A r \in 1 .. ranks : of[r - 1] < of[r]
    BY DEF CutSets
  <2>2. \A r \in 0 .. ranks - 1 : r + 1 \in 1 .. ranks /\ (r + 1) - 1 = r
    BY <1>1
  <2> QED
    BY <1>1, <2>1, <2>2
<1>7. Telemetry(matrix, Offsets(at, refined))[2] <= Crossing(refined)
  BY <1>1, <1>3, CutPressed DEF pressure
<1>8. Crossing(refined) <= Crossing(aligned)
  <2> DEFINE S == 1 .. ranks - 1
             f == [r \in DOMAIN refined |-> pressure[refined[r]]]
             g == [r \in DOMAIN aligned |-> pressure[aligned[r]]]
  <2>1. \A r \in S : f[r] \in Nat /\ g[r] \in Nat /\ f[r] <= g[r]
    <3> TAKE r \in S
    <3>1. /\ r \in 0 .. ranks /\ r \in DOMAIN refined /\ r \in DOMAIN aligned
          /\ refined[r] \in DOMAIN at /\ aligned[r] \in DOMAIN at
      BY <1>1, <1>2, <1>3, <1>6
    <3> QED
      BY <1>3, <1>5, <3>1
  <2>2. IsFiniteSet(S)
    BY FS_Interval
  <2> HIDE DEF S, f, g
  <2>3. SumFunctionOnSet(f, S) <= SumFunctionOnSet(g, S)
    BY <2>1, <2>2, SumGrows
  <2> QED
    BY <2>3 DEF S, f, g
<1>9. IsPartition(chosen, matrix.n) /\ CutsStartBlocks(at, chosen)
  BY <1>1, <1>4, CutsServe
<1>10. \A b \in 1 .. Blocks(at) : \A i \in at[b - 1] .. at[b] - 1 :
          OwnerOf(chosen, i) = OwnerOf(chosen, at[b - 1])
  BY <1>1, <1>4, BlocksWhole
<1>11. ExchangeDelivers(matrix, chosen)
  <2>1. chosen \in Ownership(matrix.n, ranks)
    BY <1>1, <1>4, CutOwnership
  <2> HIDE DEF chosen
  <2> QED
    BY <1>1, <2>1, PlansServe
<1>12. \A r \in 0 .. ranks - 1 :
          /\ aligned[r] < aligned[r + 1] /\ refined[r] < refined[r + 1]
          /\ OwnedLen(Offsets(at, refined), r) <= MaxOwned(at, aligned)
          /\ Distance(refined[r], aligned[r]) <= radius
  BY <1>2, <1>3, <1>6
<1> QED
  BY <1>7, <1>8, <1>9, <1>10, <1>11, <1>12, Zenon
     DEF FieldCutsSound, aligned, refined, cuts, pressure
-----------------------------------------------------------------------------
(* A collection that has the empty set, and with a set the set with one    *)
(* more element of S, has S.                                               *)
LEMMA BySubsets ==
  ASSUME NEW S, IsFiniteSet(S), NEW G, {} \in G,
         \A s \in SUBSET S : \A x \in S \ s : s \in G => s \cup {x} \in G
  PROVE  S \in G
<1> DEFINE T == {m \in Nat : \E s \in SUBSET S : Cardinality(s) = m /\ s \notin G}
<1>1. SUFFICES ASSUME S \notin G PROVE FALSE
  OBVIOUS
<1>2. Cardinality(S) \in Nat /\ Cardinality(S) \in T
  <2>1. Cardinality(S) \in Nat
    BY FS_CardinalityType
  <2> QED
    BY <1>1, <2>1
<1>3. PICK m \in T : \A k \in T : m <= k
  <2>1. T \in SUBSET Nat /\ T # {}
    BY <1>2
  <2> HIDE DEF T
  <2> QED
    BY <2>1, LeastNat
<1>4. PICK s \in SUBSET S : Cardinality(s) = m /\ s \notin G
  BY <1>3
<1>5. m \in Nat /\ IsFiniteSet(s)
  BY <1>3, FS_Subset
<1>6. PICK x \in s : TRUE
  BY <1>4
<1> DEFINE rest == s \ {x}
<1>7. Cardinality(rest) = m - 1 /\ Cardinality(rest) \in Nat
  BY <1>4, <1>5, <1>6, FS_RemoveElement, FS_CardinalityType
<1>8. rest \in SUBSET S /\ x \in S \ rest /\ rest \cup {x} = s
  BY <1>6
<1>9. rest \notin G
  BY <1>4, <1>8
<1>10. m - 1 \in T
  BY <1>7, <1>8, <1>9
<1> HIDE DEF T
<1> QED
  BY <1>3, <1>5, <1>7, <1>10

(* Likewise for the numbers up to n. *)
LEMMA ByNumbers ==
  ASSUME NEW n \in Nat, NEW G, 0 \in G, \A k \in 0 .. n - 1 : k \in G => k + 1 \in G
  PROVE  \A k \in 0 .. n : k \in G
<1> DEFINE T == {k \in Nat : k <= n /\ k \notin G}
<1>1. SUFFICES ASSUME T # {} PROVE FALSE
  OBVIOUS
<1>2. PICK m \in T : \A k \in T : m <= k
  <2>1. T \in SUBSET Nat
    OBVIOUS
  <2> HIDE DEF T
  <2> QED
    BY <1>1, <2>1, LeastNat
<1>3. m # 0 /\ m \in Nat /\ m <= n /\ m \notin G
  BY <1>2
<1>4. m - 1 \in 0 .. n - 1 /\ ~(m <= m - 1) /\ (m - 1) + 1 = m /\ m - 1 \in Nat /\ m - 1 <= n
  BY <1>3
<1>5. m - 1 \notin G
  BY <1>3, <1>4
<1>6. m - 1 \in T
  BY <1>4, <1>5
<1> HIDE DEF T
<1> QED
  BY <1>2, <1>4, <1>6

(* A sum takes any of its terms first. *)
LEMMA SumOfPart ==
  ASSUME NEW S, IsFiniteSet(S), NEW f, \A x \in S : f[x] \in Nat, NEW s \in SUBSET S
  PROVE  SumFunctionOnSet(f, s) = SumFold(f, S)[s]
<1> DEFINE F == SumFold(f, S)
           H == SumFold(f, s)
           pick == [r \in SUBSET s |-> First(r)]
<1>1. IsFiniteSet(s) /\ \A x \in s : f[x] \in Nat
  BY FS_Subset
<1>2. /\ F[{}] = 0
      /\ \A r \in SUBSET S : r # {} => First(r) \in r /\ F[r] = f[First(r)] + F[r \ {First(r)}]
  BY SumFacts
<1>3. /\ H[{}] = 0
      /\ \A r \in SUBSET s : r # {} => First(r) \in r /\ H[r] = f[First(r)] + H[r \ {First(r)}]
  BY <1>1, SumFacts
<1> HIDE DEF F, H
<1>4. IsPick(pick, s)
  BY <1>3 DEF IsPick
<1>5. ASSUME NEW r \in SUBSET s, r # {}, F[r \ {pick[r]}] = H[r \ {pick[r]}]
      PROVE  F[r] = H[r]
  <2>1. pick[r] = First(r) /\ r \in SUBSET S
    OBVIOUS
  <2> HIDE DEF pick
  <2> QED
    BY <1>2, <1>3, <1>5, <2>1
<1>6. F[{}] = H[{}]
  BY <1>2, <1>3
<1>7. \A r \in SUBSET s : F[r] = H[r]
  <2> HIDE DEF pick
  <2>1. \A r \in SUBSET s : r # {} /\ F[r \ {pick[r]}] = H[r \ {pick[r]}] => F[r] = H[r]
    BY ONLY <1>5
  <2>2. IsFiniteSet(s)
    BY <1>1
  <2> HIDE DEF F, H
  <2> QED
    BY ONLY <2>1, <2>2, <1>4, <1>6, FoldsAgree
<1> QED
  BY <1>7, SumUnfolded DEF F, H

LEMMA SumType ==
  ASSUME NEW S, IsFiniteSet(S), NEW f, \A x \in S : f[x] \in Nat
  PROVE  SumFunctionOnSet(f, S) \in Nat
  BY SumFacts, SumUnfolded

LEMMA SumEmpty == ASSUME NEW f PROVE SumFunctionOnSet(f, {}) = 0
<1>1. IsFiniteSet({}) /\ \A x \in {} : f[x] \in Nat
  BY FS_EmptySet
<1> QED
  BY <1>1, SumFacts, SumUnfolded

LEMMA SumWithout ==
  ASSUME NEW S, IsFiniteSet(S), NEW f, \A x \in S : f[x] \in Nat, NEW x \in S
  PROVE  SumFunctionOnSet(f, S) = f[x] + SumFunctionOnSet(f, S \ {x})
<1> DEFINE F == SumFold(f, S)
           AnyOf(s) == \A y \in s : F[s] = f[y] + F[s \ {y}]
           T == {m \in Nat : \E s \in SUBSET S : Cardinality(s) = m /\ ~ AnyOf(s)}
<1>1. /\ \A s \in SUBSET S : F[s] \in Nat
      /\ \A s \in SUBSET S : s # {} => First(s) \in s /\ F[s] = f[First(s)] + F[s \ {First(s)}]
  BY SumFacts
<1>2. SUFFICES F[S] = f[x] + F[S \ {x}]
  <2>1. S \in SUBSET S /\ S \ {x} \in SUBSET S
    OBVIOUS
  <2> QED
    BY <1>2, <2>1, SumOfPart
<1> HIDE DEF F
<1>3. T = {}
  <2>1. SUFFICES ASSUME T # {} PROVE FALSE
    OBVIOUS
  <2>2. PICK m \in T : \A k \in T : m <= k
    <3>1. T \in SUBSET Nat
      OBVIOUS
    <3> HIDE DEF T
    <3> QED
      BY <2>1, <3>1, LeastNat
  <2>3. PICK s \in SUBSET S : Cardinality(s) = m /\ ~ AnyOf(s)
    BY <2>2
  <2>4. PICK y \in s : F[s] # f[y] + F[s \ {y}]
    BY <2>3
  <2> DEFINE z == First(s)
  <2>5. z \in s /\ z \in S /\ y \in S /\ F[s] = f[z] + F[s \ {z}] /\ z # y
    BY <1>1, <2>4
  <2>6. m \in Nat /\ IsFiniteSet(s)
    BY <2>2, FS_Subset
  <2> HIDE DEF z
  <2>7. ASSUME NEW u \in s PROVE AnyOf(s \ {u})
    <3>1. Cardinality(s \ {u}) = m - 1 /\ Cardinality(s \ {u}) \in Nat
      BY <2>3, <2>6, FS_RemoveElement, FS_CardinalityType
    <3>2. ~(m <= m - 1)
      BY <2>6
    <3>3. m - 1 \notin T
      <4> HIDE DEF T
      <4> QED
        BY <2>2, <3>2
    <3>4. s \ {u} \in SUBSET S
      OBVIOUS
    <3> HIDE DEF AnyOf
    <3> QED
      BY <3>1, <3>3, <3>4
  <2>8. F[s \ {z}] = f[y] + F[(s \ {z}) \ {y}] /\ F[s \ {y}] = f[z] + F[(s \ {y}) \ {z}]
    <3>1. AnyOf(s \ {z}) /\ AnyOf(s \ {y})
      BY <2>5, <2>7
    <3>2. y \in s \ {z} /\ z \in s \ {y}
      BY <2>5
    <3> QED
      BY <3>1, <3>2
  <2>9. (s \ {z}) \ {y} = (s \ {y}) \ {z}
    OBVIOUS
  <2>10. f[y] \in Nat /\ f[z] \in Nat /\ F[(s \ {y}) \ {z}] \in Nat
    <3>1. (s \ {y}) \ {z} \in SUBSET S
      OBVIOUS
    <3> QED
      BY <1>1, <2>5, <3>1
  <2> QED
    BY <2>4, <2>5, <2>8, <2>9, <2>10
<1>4. AnyOf(S)
  <2>1. S \in SUBSET S /\ Cardinality(S) \in Nat
    BY FS_CardinalityType
  <2> HIDE DEF AnyOf
  <2> QED
    BY <1>3, <2>1
<1> QED
  BY <1>4


(* A sum depends on nothing but the terms, *)
LEMMA SumEq ==
  ASSUME NEW S, IsFiniteSet(S), NEW f, NEW g, \A x \in S : f[x] \in Nat /\ g[x] = f[x]
  PROVE  SumFunctionOnSet(f, S) = SumFunctionOnSet(g, S)
<1>1. SumFunctionOnSet(f, S) \in Nat /\ SumFunctionOnSet(g, S) \in Nat
  BY SumType
<1>2. SumFunctionOnSet(f, S) <= SumFunctionOnSet(g, S) /\ SumFunctionOnSet(g, S) <= SumFunctionOnSet(f, S)
  BY SumGrows
<1> QED
  BY <1>1, <1>2

(* adds up over disjoint sets, *)
LEMMA SumUnion ==
  ASSUME NEW A, NEW B, IsFiniteSet(A), IsFiniteSet(B), A \cap B = {},
         NEW f, \A x \in A \cup B : f[x] \in Nat
  PROVE  SumFunctionOnSet(f, A \cup B) = SumFunctionOnSet(f, A) + SumFunctionOnSet(f, B)
<1> DEFINE T(s) == SumFunctionOnSet(f, s)
           G == {s \in SUBSET B : T(A \cup s) = T(A) + T(s)}
<1>1. \A s \in SUBSET B : IsFiniteSet(s) /\ IsFiniteSet(A \cup s)
  BY FS_Subset, FS_Union
<1>2. \A s \in SUBSET B : T(s) \in Nat /\ T(A \cup s) \in Nat
  <2> TAKE s \in SUBSET B
  <2>1. \A x \in A \cup s : f[x] \in Nat
    OBVIOUS
  <2> QED
    BY <1>1, <2>1, SumType
<1>3. {} \in G
  <2>1. A \cup {} = A /\ {} \in SUBSET B /\ T({}) = 0
    BY SumEmpty
  <2>2. T(A) \in Nat
    BY SumType
  <2> HIDE DEF T
  <2> QED
    BY <2>1, <2>2
<1>4. ASSUME NEW s \in SUBSET B, NEW x \in B \ s, s \in G
      PROVE  s \cup {x} \in G
  <2>1. T(s \cup {x}) = f[x] + T(s)
    <3>1. \A y \in s \cup {x} : f[y] \in Nat
      OBVIOUS
    <3>2. (s \cup {x}) \ {x} = s /\ x \in s \cup {x} /\ IsFiniteSet(s \cup {x})
      BY <1>1
    <3> QED
      BY <3>1, <3>2, SumWithout
  <2>2. T(A \cup (s \cup {x})) = f[x] + T(A \cup s)
    <3>1. \A y \in A \cup (s \cup {x}) : f[y] \in Nat
      OBVIOUS
    <3>2. (A \cup (s \cup {x})) \ {x} = A \cup s /\ x \in A \cup (s \cup {x})
          /\ IsFiniteSet(A \cup (s \cup {x}))
      BY <1>1
    <3> QED
      BY <3>1, <3>2, SumWithout
  <2>3. f[x] \in Nat /\ T(A) \in Nat /\ T(s) \in Nat /\ T(A \cup s) \in Nat
    BY <1>2, SumType
  <2>4. T(A \cup s) = T(A) + T(s) /\ s \cup {x} \in SUBSET B
    BY <1>4
  <2> HIDE DEF T
  <2> QED
    BY <2>1, <2>2, <2>3, <2>4
<1>5. B \in G
  <2> HIDE DEF G
  <2> QED
    BY <1>3, <1>4, BySubsets
<1> QED
  BY <1>5

LEMMA SumPart ==
  ASSUME NEW S, IsFiniteSet(S), NEW f, \A x \in S : f[x] \in Nat, NEW s \in SUBSET S
  PROVE  /\ SumFunctionOnSet(f, S) = SumFunctionOnSet(f, s) + SumFunctionOnSet(f, S \ s)
         /\ SumFunctionOnSet(f, s) \in Nat /\ SumFunctionOnSet(f, S \ s) \in Nat
         /\ SumFunctionOnSet(f, s) <= SumFunctionOnSet(f, S)
<1>1. IsFiniteSet(s) /\ IsFiniteSet(S \ s) /\ s \cup (S \ s) = S /\ s \cap (S \ s) = {}
  BY FS_Subset
<1>2. SumFunctionOnSet(f, s) \in Nat /\ SumFunctionOnSet(f, S \ s) \in Nat
  <2>1. (\A x \in s : f[x] \in Nat) /\ (\A x \in S \ s : f[x] \in Nat)
    OBVIOUS
  <2> QED
    BY <1>1, <2>1, SumType
<1>3. SumFunctionOnSet(f, S) = SumFunctionOnSet(f, s) + SumFunctionOnSet(f, S \ s)
  <2>1. \A x \in s \cup (S \ s) : f[x] \in Nat
    OBVIOUS
  <2>2. SumFunctionOnSet(f, s \cup (S \ s)) = SumFunctionOnSet(f, s) + SumFunctionOnSet(f, S \ s)
    BY ONLY <1>1, <2>1, SumUnion
  <2> QED
    BY <1>1, <2>2
<1> QED
  BY <1>2, <1>3

(* counts where every term is one, and is zero where every term is. *)
LEMMA SumConstant ==
  ASSUME NEW S, IsFiniteSet(S), NEW f, NEW c \in {0, 1}, \A x \in S : f[x] = c
  PROVE  SumFunctionOnSet(f, S) = c * Cardinality(S)
<1> DEFINE T(s) == SumFunctionOnSet(f, s)
           G == {s \in SUBSET S : T(s) = c * Cardinality(s)}
<1>1. {} \in G
  BY SumEmpty, FS_EmptySet
<1>2. ASSUME NEW s \in SUBSET S, NEW x \in S \ s, s \in G
      PROVE  s \cup {x} \in G
  <2>1. IsFiniteSet(s) /\ IsFiniteSet(s \cup {x}) /\ (s \cup {x}) \ {x} = s /\ x \in s \cup {x}
    BY FS_Subset
  <2>2. Cardinality(s \cup {x}) = Cardinality(s) + 1 /\ Cardinality(s) \in Nat
    BY <2>1, FS_AddElement, FS_CardinalityType
  <2>3. T(s \cup {x}) = f[x] + T(s)
    <3>1. \A y \in s \cup {x} : f[y] \in Nat
      OBVIOUS
    <3> QED
      BY <2>1, <3>1, SumWithout
  <2>4. f[x] = c /\ T(s) = c * Cardinality(s) /\ s \cup {x} \in SUBSET S
    BY <1>2
  <2> HIDE DEF T
  <2>5. T(s \cup {x}) = c * Cardinality(s \cup {x})
    <3>1. CASE c = 0
      BY <2>2, <2>3, <2>4, <3>1
    <3>2. CASE c = 1
      BY <2>2, <2>3, <2>4, <3>2
    <3> QED
      BY <3>1, <3>2
  <2> QED
    BY <2>4, <2>5
<1>3. S \in G
  <2> HIDE DEF G
  <2> QED
    BY <1>1, <1>2, BySubsets
<1> QED
  BY <1>3

(* Terms that are no smaller and add up to no more are the same. *)
LEMMA SumTight ==
  ASSUME NEW S, IsFiniteSet(S), NEW f, NEW g,
         \A x \in S : f[x] \in Nat /\ g[x] \in Nat /\ f[x] <= g[x],
         SumFunctionOnSet(g, S) <= SumFunctionOnSet(f, S)
  PROVE  \A x \in S : f[x] = g[x]
<1> TAKE x \in S
<1>1. /\ SumFunctionOnSet(f, S) = f[x] + SumFunctionOnSet(f, S \ {x})
      /\ SumFunctionOnSet(g, S) = g[x] + SumFunctionOnSet(g, S \ {x})
  BY SumWithout
<1>2. IsFiniteSet(S \ {x}) /\ \A y \in S \ {x} : f[y] \in Nat /\ g[y] \in Nat /\ f[y] <= g[y]
  BY FS_Subset
<1>3. /\ SumFunctionOnSet(f, S \ {x}) <= SumFunctionOnSet(g, S \ {x})
      /\ SumFunctionOnSet(f, S \ {x}) \in Nat /\ SumFunctionOnSet(g, S \ {x}) \in Nat
  BY <1>2, SumGrows, SumType
<1> QED
  BY <1>1, <1>3

(* Terms may be summed in groups: by what of assigns them to. *)
Group(of, S, c) == {i \in S : of[i] = c}
Into(of, S, C) == {i \in S : of[i] \in C}
GroupSums(w, of, S, C) == [c \in C |-> SumFunctionOnSet(w, Group(of, S, c))]
LEMMA SumGroups ==
  ASSUME NEW S, IsFiniteSet(S), NEW w, \A i \in S : w[i] \in Nat, NEW of, NEW C, IsFiniteSet(C)
  PROVE  /\ \A c \in C : GroupSums(w, of, S, C)[c] \in Nat
         /\ SumFunctionOnSet(GroupSums(w, of, S, C), C) = SumFunctionOnSet(w, Into(of, S, C))
<1> DEFINE g == GroupSums(w, of, S, C)
           G == {s \in SUBSET C : SumFunctionOnSet(g, s) = SumFunctionOnSet(w, Into(of, S, s))}
<1>1. \A c \in C : g[c] \in Nat /\ g[c] = SumFunctionOnSet(w, Group(of, S, c))
  <2> TAKE c \in C
  <2>1. IsFiniteSet(Group(of, S, c)) /\ \A i \in Group(of, S, c) : w[i] \in Nat
    BY FS_Subset DEF Group
  <2>2. g[c] = SumFunctionOnSet(w, Group(of, S, c))
    BY DEF GroupSums
  <2> HIDE DEF g
  <2> QED
    BY <2>1, <2>2, SumType
<1>2. {} \in G
  <2>1. Into(of, S, {}) = {}
    BY DEF Into
  <2> QED
    BY <2>1, SumEmpty
<1>3. ASSUME NEW s \in SUBSET C, NEW x \in C \ s, s \in G
      PROVE  s \cup {x} \in G
  <2>1. IsFiniteSet(s \cup {x}) /\ (s \cup {x}) \ {x} = s /\ x \in s \cup {x}
        /\ s \cup {x} \in SUBSET C
    BY FS_Subset
  <2>2. SumFunctionOnSet(g, s \cup {x}) = g[x] + SumFunctionOnSet(g, s)
    <3>1. \A y \in s \cup {x} : g[y] \in Nat
      BY <1>1, <2>1
    <3> HIDE DEF g
    <3>2. SumFunctionOnSet(g, s \cup {x}) = g[x] + SumFunctionOnSet(g, (s \cup {x}) \ {x})
      BY ONLY <2>1, <3>1, SumWithout
    <3> QED
      BY <2>1, <3>2
  <2>3. /\ Into(of, S, s \cup {x}) = Group(of, S, x) \cup Into(of, S, s)
        /\ Group(of, S, x) \cap Into(of, S, s) = {}
        /\ IsFiniteSet(Group(of, S, x)) /\ IsFiniteSet(Into(of, S, s))
        /\ \A i \in Group(of, S, x) \cup Into(of, S, s) : w[i] \in Nat
    BY FS_Subset DEF Group, Into
  <2>4. SumFunctionOnSet(w, Into(of, S, s \cup {x}))
           = SumFunctionOnSet(w, Group(of, S, x)) + SumFunctionOnSet(w, Into(of, S, s))
    <3>1. SumFunctionOnSet(w, Group(of, S, x) \cup Into(of, S, s))
           = SumFunctionOnSet(w, Group(of, S, x)) + SumFunctionOnSet(w, Into(of, S, s))
      BY ONLY <2>3, SumUnion
    <3> QED
      BY <2>3, <3>1
  <2>5. g[x] = SumFunctionOnSet(w, Group(of, S, x))
    BY <1>1
  <2>6. SumFunctionOnSet(g, s) = SumFunctionOnSet(w, Into(of, S, s))
    BY <1>3
  <2>7. SumFunctionOnSet(g, s \cup {x}) = SumFunctionOnSet(w, Into(of, S, s \cup {x}))
    BY ONLY <2>2, <2>4, <2>5, <2>6
  <2> QED
    BY <2>1, <2>7
<1>4. C \in G
  <2> HIDE DEF G
  <2> QED
    BY <1>2, <1>3, BySubsets
<1> QED
  BY <1>1, <1>4

-----------------------------------------------------------------------------
(* Comparing tuples: the first difference decides, and with keys that all  *)
(* differ there is a best element and an order.                            *)
Earlier(key, S) == {p \in S \X S : Exceeds(key[p[1]], key[p[2]])}
IsKey(key, S, m) ==
  /\ \A x \in S : key[x] \in [1 .. m -> Int]
  /\ \A x, y \in S : x # y => key[x] # key[y]

LEMMA FirstOfTwo ==
  ASSUME NEW m \in Nat, NEW a \in [1 .. m -> Int], NEW b \in [1 .. m -> Int], a # b
  PROVE  Exceeds(a, b) \/ Exceeds(b, a)
<1> DEFINE T == {k \in Nat : k \in 1 .. m /\ a[k] # b[k]}
<1>1. PICK k \in T : \A j \in T : k <= j
  <2>1. T \in SUBSET Nat /\ T # {}
    OBVIOUS
  <2> HIDE DEF T
  <2> QED
    BY <2>1, LeastNat
<1>2. k \in 1 .. m /\ a[k] # b[k] /\ a[k] \in Int /\ b[k] \in Int
  BY <1>1
<1>3. \A j \in 1 .. k - 1 : a[j] = b[j]
  <2> TAKE j \in 1 .. k - 1
  <2>1. j \in Nat /\ j \in 1 .. m /\ ~(k <= j)
    BY <1>2
  <2>2. j \notin T
    <3> HIDE DEF T
    <3> QED
      BY <1>1, <2>1
  <2> QED
    BY <2>1, <2>2
<1> QED
  BY <1>2, <1>3 DEF Exceeds

LEMMA ExceedsAll ==
  ASSUME NEW m \in Nat, NEW a \in [1 .. m -> Int], NEW b \in [1 .. m -> Int],
         NEW c \in [1 .. m -> Int], Exceeds(a, b), Exceeds(b, c)
  PROVE  Exceeds(a, c)
<1>1. PICK k \in 1 .. m : a[k] > b[k] /\ \A j \in 1 .. k - 1 : a[j] = b[j]
  BY DEF Exceeds
<1>2. PICK l \in 1 .. m : b[l] > c[l] /\ \A j \in 1 .. l - 1 : b[j] = c[j]
  BY DEF Exceeds
<1>3. CASE k <= l
  <2>1. a[k] > c[k]
    <3>1. a[k] \in Int /\ b[k] \in Int /\ c[k] \in Int
      BY <1>1
    <3>2. CASE k = l
      BY <1>1, <1>2, <3>1, <3>2
    <3>3. CASE k < l
      <4>1. k \in 1 .. l - 1
        BY <1>1, <1>2, <3>3
      <4> QED
        BY <1>1, <1>2, <3>1, <4>1
    <3> QED
      BY <1>1, <1>2, <1>3, <3>2, <3>3
  <2>2. \A j \in 1 .. k - 1 : a[j] = c[j]
    BY <1>1, <1>2, <1>3
  <2> QED
    BY <2>1, <2>2 DEF Exceeds
<1>4. CASE l < k
  <2>1. l \in 1 .. k - 1 /\ a[l] = b[l]
    BY <1>1, <1>2, <1>4
  <2>2. \A j \in 1 .. l - 1 : a[j] = c[j]
    BY <1>1, <1>2, <1>4
  <2> QED
    BY <1>2, <2>1, <2>2 DEF Exceeds
<1> QED
  BY <1>1, <1>2, <1>3, <1>4

LEMMA EarlierOrders ==
  ASSUME NEW m \in Nat, NEW S, NEW key, IsKey(key, S, m)
  PROVE  IsOrder(Earlier(key, S), S)
<1>1. \A x, y \in S : <<x, y>> \in Earlier(key, S) <=> Exceeds(key[x], key[y])
  BY DEF Earlier
<1>2. \A x \in S : ~ Exceeds(key[x], key[x])
  BY DEF Exceeds, IsKey
<1>3. \A x, y \in S : x # y => Exceeds(key[x], key[y]) \/ Exceeds(key[y], key[x])
  BY FirstOfTwo DEF IsKey
<1>4. \A x, y, z \in S : Exceeds(key[x], key[y]) /\ Exceeds(key[y], key[z]) => Exceeds(key[x], key[z])
  BY ExceedsAll DEF IsKey
<1> QED
  BY <1>1, <1>2, <1>3, <1>4 DEF IsOrder

Ahead(key, S, x) == {y \in S : Exceeds(key[y], key[x])}
SortedBy(key, S) ==
  [k \in 1 .. Cardinality(S) |-> CHOOSE x \in S : Cardinality(Ahead(key, S, x)) = k - 1]
LEMMA SortedLists ==
  ASSUME NEW m \in Nat, NEW S, IsFiniteSet(S), NEW key, IsKey(key, S, m)
  PROVE  /\ Lists(SortedBy(key, S), S)
         /\ \A j, k \in 1 .. Cardinality(S) :
               j < k => Exceeds(key[SortedBy(key, S)[j]], key[SortedBy(key, S)[k]])
<1> DEFINE R == Earlier(key, S)
<1>1. IsOrder(R, S)
  BY EarlierOrders
<1>2. SortedBy(key, S) = InOrder(R, S)
  <2>1. \A x \in S : Below(R, S, x) = Ahead(key, S, x)
    BY DEF Below, Earlier, Ahead
  <2> HIDE DEF R
  <2>2. ASSUME NEW k \in 1 .. Cardinality(S)
        PROVE  SortedBy(key, S)[k] = InOrder(R, S)[k]
    <3>1. SortedBy(key, S)[k] = CHOOSE x \in S : Cardinality(Ahead(key, S, x)) = k - 1
      BY DEF SortedBy
    <3>2. InOrder(R, S)[k] = CHOOSE x \in S : Cardinality(Below(R, S, x)) = k - 1
      BY DEF InOrder
    <3>3. (CHOOSE x \in S : Cardinality(Ahead(key, S, x)) = k - 1)
            = CHOOSE x \in S : Cardinality(Below(R, S, x)) = k - 1
      BY <2>1
    <3> QED
      BY <3>1, <3>2, <3>3
  <2>3. SortedBy(key, S) = [k \in 1 .. Cardinality(S) |-> SortedBy(key, S)[k]]
    BY DEF SortedBy
  <2>4. InOrder(R, S) = [k \in 1 .. Cardinality(S) |-> InOrder(R, S)[k]]
    BY DEF InOrder
  <2> QED
    BY <2>2, <2>3, <2>4
<1>3. /\ Lists(InOrder(R, S), S)
      /\ \A j, k \in 1 .. Cardinality(S) : j < k => <<InOrder(R, S)[j], InOrder(R, S)[k]>> \in R
  <2> HIDE DEF R
  <2> QED
    BY <1>1, InOrderFacts
<1>4. \A x, y : <<x, y>> \in R => Exceeds(key[x], key[y])
  BY DEF Earlier
<1> HIDE DEF R
<1> QED
  BY <1>2, <1>3, <1>4

BestBy(key, S) == CHOOSE x \in S : \A y \in S \ {x} : Exceeds(key[x], key[y])
LEMMA BestIs ==
  ASSUME NEW m \in Nat, NEW S, IsFiniteSet(S), S # {}, NEW key, IsKey(key, S, m)
  PROVE  BestBy(key, S) \in S /\ \A y \in S \ {BestBy(key, S)} : Exceeds(key[BestBy(key, S)], key[y])
<1> DEFINE seq == SortedBy(key, S)
<1>1. /\ Lists(seq, S)
      /\ \A j, k \in 1 .. Cardinality(S) : j < k => Exceeds(key[seq[j]], key[seq[k]])
  BY SortedLists
<1> HIDE DEF seq
<1>2. Cardinality(S) \in Nat /\ Cardinality(S) >= 1
  BY FS_CardinalityType, FS_EmptySet
<1>3. seq[1] \in S
  BY <1>1, <1>2 DEF Lists
<1>4. ASSUME NEW y \in S \ {seq[1]} PROVE Exceeds(key[seq[1]], key[y])
  <2>1. PICK k \in 1 .. Len(seq) : seq[k] = y
    BY <1>1 DEF Lists
  <2>2. k \in 1 .. Cardinality(S) /\ 1 < k /\ 1 \in 1 .. Cardinality(S)
    BY <1>1, <1>2, <1>4, <2>1 DEF Lists
  <2> QED
    BY <1>1, <2>1, <2>2
<1> QED
  BY <1>3, <1>4 DEF BestBy

LEMMA SeedChosen ==
  ASSUME NEW S \in SUBSET Int, IsFiniteSet(S), S # {}, NEW f, \A x \in S : f[x] \in Int
  PROVE  ChooseSeed(S, f) \in S
<1> DEFINE key == [x \in S |-> <<f[x], -x>>]
<1>1. IsKey(key, S, 2)
  BY DEF IsKey
<1>2. \E x \in S : \A y \in S \ {x} : Exceeds(key[x], key[y])
  <2> HIDE DEF key
  <2> QED
    BY <1>1, BestIs
<1>3. \E x \in S : \A y \in S \ {x} : Exceeds(<<f[x], -x>>, <<f[y], -y>>)
  BY <1>2
<1> HIDE DEF key
<1> QED
  BY <1>3 DEF ChooseSeed, Best

-----------------------------------------------------------------------------
(* A fold over a sequence of length m, taken step by step. *)
StepsIn(m, A, step) == \A k \in 1 .. m : \A b \in A : step[<<k, b>>] \in A
Folds(m, A, base, step, F) ==
  /\ F[{}] = base
  /\ \A s \in SUBSET (1 .. m) :
        s # {} /\ F[s \ {Latest(s)}] \in A => F[s] = step[<<Latest(s), F[s \ {Latest(s)}]>>]
Unfolds(m, A, base, step, F) ==
  /\ F[1 .. 0] = base
  /\ \A k \in 0 .. m : F[1 .. k] \in A
  /\ \A k \in 1 .. m : F[1 .. k] = step[<<k, F[1 .. k - 1]>>]
Made(m, A, base, step, h) ==
  /\ h = [s \in SUBSET (1 .. m) |-> h[s]]
  /\ h[{}] = base
  /\ \A s \in SUBSET (1 .. m) : s # {} =>
        /\ h[s \ {Latest(s)}] \in A /\ Latest(s) \in 1 .. m
        /\ h[s] = step[<<Latest(s), h[s \ {Latest(s)}]>>]

LEMMA FoldIs ==
  ASSUME NEW m \in Nat, NEW A, NEW base \in A, NEW step, StepsIn(m, A, step),
         NEW F, Folds(m, A, base, step, F)
  PROVE  Unfolds(m, A, base, step, F)
<1> USE DEF StepsIn, Folds
<1> DEFINE G == {k \in 0 .. m : F[1 .. k] \in A}
<1>1. 1 .. 0 = {} /\ 0 \in G
  OBVIOUS
<1>2. ASSUME NEW k \in 1 .. m, F[1 .. k - 1] \in A
      PROVE  F[1 .. k] = step[<<k, F[1 .. k - 1]>>] /\ F[1 .. k] \in A
  <2>1. /\ 1 .. k \in SUBSET (1 .. m) /\ 1 .. k # {}
        /\ Latest(1 .. k) = k /\ (1 .. k) \ {k} = 1 .. k - 1
    BY LatestOfPrefix
  <2>2. F[1 .. k] = step[<<k, F[1 .. k - 1]>>]
    BY <1>2, <2>1
  <2> QED
    BY <1>2, <2>2
<1>3. \A k \in 0 .. m - 1 : k \in G => k + 1 \in G
  <2> SUFFICES ASSUME NEW k \in 0 .. m - 1, k \in G PROVE k + 1 \in G
    OBVIOUS
  <2>1. k + 1 \in 1 .. m /\ (k + 1) - 1 = k /\ k + 1 \in 0 .. m
    OBVIOUS
  <2> QED
    BY <1>2, <2>1
<1>4. \A k \in 0 .. m : k \in G
  <2> HIDE DEF G
  <2> QED
    BY <1>1, <1>3, ByNumbers
<1>5. \A k \in 1 .. m : F[1 .. k - 1] \in A
  <2> TAKE k \in 1 .. m
  <2>1. k - 1 \in 0 .. m
    OBVIOUS
  <2>2. k - 1 \in G
    BY <1>4, <2>1
  <2> QED
    BY <2>2
<1> QED
  BY <1>1, <1>2, <1>4, <1>5 DEF Unfolds

(* The function that CHOOSE takes for a fold is a fold. *)
LEMMA FoldMade ==
  ASSUME NEW m \in Nat, NEW A, NEW base \in A, NEW step, StepsIn(m, A, step)
  PROVE  \E h : Made(m, A, base, step, h)
<1> USE DEF StepsIn
<1> DEFINE S == 1 .. m
           pick == [s \in SUBSET S |-> Latest(s)]
           act == [c \in S \X A |-> step[c]]
<1>1. act \in [S \X A -> A]
  <2>1. \A c \in S \X A : step[c] \in A
    <3> TAKE c \in S \X A
    <3>1. c[1] \in S /\ c[2] \in A /\ c = <<c[1], c[2]>>
      OBVIOUS
    <3> QED
      BY <3>1
  <2> QED
    BY <2>1
<1>2. IsPick(pick, S) /\ IsFiniteSet(S)
  <2>1. IsFiniteSet(S)
    <3>1. 1 \in Int /\ m \in Int
      OBVIOUS
    <3> QED
      BY ONLY <3>1, FS_Interval
  <2> QED
    BY <2>1, LatestIsPick
<1>3. PICK h : Folding(A, base, act, pick, SUBSET S, h)
  <2> HIDE DEF S, act, pick
  <2> QED
    BY <1>1, <1>2, FoldExists
<1>4. h \in [SUBSET S -> A] /\ h[{}] = base
  <2> HIDE DEF S, act, pick
  <2>1. {} \in SUBSET S
    OBVIOUS
  <2> QED
    BY <1>3, <2>1 DEF Folding
<1>5. ASSUME NEW s \in SUBSET S, s # {}
      PROVE  /\ h[s \ {Latest(s)}] \in A /\ Latest(s) \in S
             /\ h[s] = step[<<Latest(s), h[s \ {Latest(s)}]>>]
  <2>1. pick[s] = Latest(s) /\ Latest(s) \in S /\ s \ {Latest(s)} \in SUBSET S
    BY <1>5, LatestFacts
  <2>2. h[s] = act[<<pick[s], h[s \ {pick[s]}]>>]
    <3> HIDE DEF S, act, pick
    <3> QED
      BY <1>3, <1>5 DEF Folding
  <2> HIDE DEF S, pick
  <2>3. h[s \ {Latest(s)}] \in A
    <3> HIDE DEF act
    <3> QED
      BY <1>4, <2>1
  <2>4. act[<<Latest(s), h[s \ {Latest(s)}]>>] = step[<<Latest(s), h[s \ {Latest(s)}]>>]
    BY <2>1, <2>3
  <2> QED
    BY <2>1, <2>2, <2>3, <2>4
<1> HIDE DEF act, pick
<1> QED
  BY <1>4, <1>5 DEF Made

-----------------------------------------------------------------------------
(* Pairing: every node gets a number, and every number has a node. *)
PairStart(a) == [of |-> [j \in DOMAIN a |-> Unpaired], n |-> 0]
MatesOf(a, free, i) ==
  IF free = {} THEN {}
  ELSE {Best(free, LAMBDA j : <<Cardinality(a[j] \cap a[i]), -Cardinality(a[j]), -j>>)}
PairOf(a, p, i) == {i} \cup MatesOf(a, {j \in a[i] : p.of[j] = Unpaired}, i)
PairStep(a, p, i) ==
  IF p.of[i] # Unpaired THEN p
  ELSE [of |-> [j \in DOMAIN a |-> IF j \in PairOf(a, p, i) THEN p.n ELSE p.of[j]], n |-> p.n + 1]
PairOrder(a) ==
  Sorted(DOMAIN a, LAMBDA i, j : Exceeds(<<Cardinality(a[i]), -i>>, <<Cardinality(a[j]), -j>>))
PairSteps(a, h) ==
  [s \in SUBSET (DOMAIN PairOrder(a)) |->
      IF s = {} THEN PairStart(a)
      ELSE PairStep(a, h[s \ {Latest(s)}], PairOrder(a)[Latest(s)])]
PairFold(a) == CHOOSE h : h = PairSteps(a, h)

LEMMA PairingUnfolded ==
  ASSUME NEW a
  PROVE  Pairing(a) = PairFold(a)[DOMAIN PairOrder(a)]
  BY Zenon DEF Pairing, FoldLeft, MapThenFoldSet, PairFold, PairSteps, PairStart, PairStep, PairOf,
               MatesOf, PairOrder, Latest


LEMMA PairOrderLists ==
  ASSUME NEW n \in Nat, NEW a \in [0 .. n - 1 -> SUBSET (0 .. n - 1)]
  PROVE  Lists(PairOrder(a), 0 .. n - 1)
<1> DEFINE D == 0 .. n - 1
           key == [i \in D |-> <<Cardinality(a[i]), -i>>]
<1>1. IsFiniteSet(D) /\ \A i \in D : Cardinality(a[i]) \in Int
  <2>1. IsFiniteSet(D)
    <3>1. 0 \in Int /\ n - 1 \in Int
      OBVIOUS
    <3> QED
      BY ONLY <3>1, FS_Interval
  <2>2. \A i \in D : IsFiniteSet(a[i])
    BY <2>1, FS_Subset
  <2> QED
    BY <2>1, <2>2, FS_CardinalityType
<1>2. IsKey(key, D, 2)
  BY <1>1 DEF IsKey
<1>3. Lists(SortedBy(key, D), D)
  <2> HIDE DEF key, D
  <2> QED
    BY <1>1, <1>2, SortedLists
<1>4. PairOrder(a) = SortedBy(key, D)
  <2>1. \A x \in D : Ahead(key, D, x)
                       = {y \in D : Exceeds(<<Cardinality(a[y]), -y>>, <<Cardinality(a[x]), -x>>)}
    BY DEF Ahead
  <2>2. DOMAIN a = D
    OBVIOUS
  <2> HIDE DEF key, D
  <2>6. PairOrder(a) = [k \in 1 .. Cardinality(DOMAIN a) |-> CHOOSE x \in DOMAIN a :
           Cardinality({y \in DOMAIN a : Exceeds(<<Cardinality(a[y]), -y>>, <<Cardinality(a[x]), -x>>)}) = k - 1]
    BY Zenon DEF PairOrder, Sorted
  <2>3. ASSUME NEW k \in 1 .. Cardinality(D)
        PROVE  PairOrder(a)[k] = SortedBy(key, D)[k]
    <3>1. SortedBy(key, D)[k] = CHOOSE x \in D : Cardinality(Ahead(key, D, x)) = k - 1
      BY DEF SortedBy
    <3>2. PairOrder(a)[k] = CHOOSE x \in D :
             Cardinality({y \in D : Exceeds(<<Cardinality(a[y]), -y>>, <<Cardinality(a[x]), -x>>)}) = k - 1
      BY <2>2, <2>6
    <3>3. (CHOOSE x \in D : Cardinality(Ahead(key, D, x)) = k - 1) = CHOOSE x \in D :
             Cardinality({y \in D : Exceeds(<<Cardinality(a[y]), -y>>, <<Cardinality(a[x]), -x>>)}) = k - 1
      BY <2>1
    <3> QED
      BY <3>1, <3>2, <3>3
  <2>4. DOMAIN PairOrder(a) = 1 .. Cardinality(D) /\ PairOrder(a) = [k \in 1 .. Cardinality(D) |-> PairOrder(a)[k]]
    <3> DEFINE At(k) == CHOOSE x \in DOMAIN a :
           Cardinality({y \in DOMAIN a : Exceeds(<<Cardinality(a[y]), -y>>, <<Cardinality(a[x]), -x>>)}) = k - 1
    <3>1. PairOrder(a) = [k \in 1 .. Cardinality(DOMAIN a) |-> At(k)]
      BY <2>6
    <3> HIDE DEF At
    <3> QED
      BY <2>2, <3>1
  <2>5. SortedBy(key, D) = [k \in 1 .. Cardinality(D) |-> SortedBy(key, D)[k]]
    BY DEF SortedBy
  <2> QED
    BY <2>3, <2>4, <2>5
<1> QED
  BY <1>3, <1>4

Numbered(D, p) ==
  /\ p.n \in Nat /\ p.of \in [D -> Int]
  /\ \A j \in D : p.of[j] = Unpaired \/ p.of[j] \in 0 .. p.n - 1
  /\ \A c \in 0 .. p.n - 1 : \E j \in D : p.of[j] = c
Numberings(D) == {p \in [of : [D -> Int], n : Nat] : Numbered(D, p)}

LEMMA MatesInside ==
  ASSUME NEW n \in Nat, NEW a \in [0 .. n - 1 -> SUBSET (0 .. n - 1)],
         NEW i \in 0 .. n - 1, NEW free \in SUBSET (0 .. n - 1)
  PROVE  MatesOf(a, free, i) \subseteq free
<1> DEFINE D == 0 .. n - 1
           key == [j \in free |-> <<Cardinality(a[j] \cap a[i]), -Cardinality(a[j]), -j>>]
<1>1. SUFFICES ASSUME free # {}
               PROVE  Best(free, LAMBDA j : <<Cardinality(a[j] \cap a[i]), -Cardinality(a[j]), -j>>) \in free
  BY DEF MatesOf
<1>2. IsFiniteSet(free) /\ \A j \in free : Cardinality(a[j]) \in Int /\ Cardinality(a[j] \cap a[i]) \in Int
  <2>1. IsFiniteSet(D)
    <3>1. 0 \in Int /\ n - 1 \in Int
      OBVIOUS
    <3> QED
      BY ONLY <3>1, FS_Interval
  <2>2. \A j \in free : IsFiniteSet(a[j]) /\ IsFiniteSet(a[j] \cap a[i])
    <3>1. \A j \in free : a[j] \in SUBSET D /\ a[j] \cap a[i] \in SUBSET D
      OBVIOUS
    <3> QED
      BY <2>1, <3>1, FS_Subset
  <2>3. \A j \in free : Cardinality(a[j]) \in Nat /\ Cardinality(a[j] \cap a[i]) \in Nat
    BY <2>2, FS_CardinalityType
  <2>4. IsFiniteSet(free)
    BY <2>1, FS_Subset
  <2> QED
    BY <2>3, <2>4
<1>3. IsKey(key, free, 3)
  BY <1>2 DEF IsKey
<1>4. \E x \in free : \A y \in free \ {x} : Exceeds(key[x], key[y])
  <2> HIDE DEF key
  <2> QED
    BY <1>1, <1>2, <1>3, BestIs
<1>5. \E x \in free : \A y \in free \ {x} :
         Exceeds(<<Cardinality(a[x] \cap a[i]), -Cardinality(a[x]), -x>>,
                 <<Cardinality(a[y] \cap a[i]), -Cardinality(a[y]), -y>>)
  BY <1>4
<1> HIDE DEF key
<1> QED
  BY <1>5 DEF Best

LEMMA PairStepKeeps ==
  ASSUME NEW n \in Nat, NEW a \in [0 .. n - 1 -> SUBSET (0 .. n - 1)],
         NEW i \in 0 .. n - 1, NEW p \in Numberings(0 .. n - 1)
  PROVE  /\ PairStep(a, p, i) \in Numberings(0 .. n - 1)
         /\ PairStep(a, p, i).of[i] # Unpaired
         /\ \A j \in 0 .. n - 1 : p.of[j] # Unpaired => PairStep(a, p, i).of[j] # Unpaired
<1> DEFINE D == 0 .. n - 1
           q == PairStep(a, p, i)
           two == PairOf(a, p, i)
<1>1. p \in [of : [D -> Int], n : Nat] /\ Numbered(D, p) /\ DOMAIN a = D
  BY DEF Numberings
<1>2. CASE p.of[i] # Unpaired
  BY <1>2 DEF PairStep
<1>3. CASE p.of[i] = Unpaired
  <2>1. i \in two /\ two \subseteq D /\ \A j \in two : p.of[j] = Unpaired
    <3> DEFINE free == {j \in a[i] : p.of[j] = Unpaired}
    <3>1. free \in SUBSET D
      OBVIOUS
    <3> HIDE DEF free
    <3>2. MatesOf(a, free, i) \subseteq free
      BY <3>1, MatesInside
    <3> QED
      BY <1>3, <3>1, <3>2 DEF PairOf, free
  <2> HIDE DEF two
  <2>2. q = [of |-> [j \in D |-> IF j \in two THEN p.n ELSE p.of[j]], n |-> p.n + 1]
    BY <1>1, <1>3 DEF PairStep, two
  <2> HIDE DEF q
  <2>3. /\ q \in [of : [D -> Int], n : Nat] /\ q.n = p.n + 1 /\ q.of \in [D -> Int]
        /\ \A j \in D : q.of[j] = IF j \in two THEN p.n ELSE p.of[j]
    BY <1>1, <2>2
  <2>4. Numbered(D, q)
    <3>1. ASSUME NEW j \in D PROVE q.of[j] = Unpaired \/ q.of[j] \in 0 .. q.n - 1
      <4>1. p.n \in Nat /\ (p.of[j] = Unpaired \/ p.of[j] \in 0 .. p.n - 1)
        BY <1>1 DEF Numbered
      <4>2. CASE j \in two
        BY <2>3, <4>1, <4>2
      <4>3. CASE j \notin two
        BY <2>3, <4>1, <4>3
      <4> QED
        BY <4>2, <4>3
    <3>2. ASSUME NEW c \in 0 .. q.n - 1 PROVE \E j \in D : q.of[j] = c
      <4>1. CASE c = p.n
        BY <2>1, <2>3, <4>1
      <4>2. CASE c # p.n
        <5>1. c \in 0 .. p.n - 1
          BY <1>1, <2>3, <4>2
        <5>2. PICK j \in D : p.of[j] = c
          BY <1>1, <5>1 DEF Numbered
        <5>3. j \notin two
          BY <2>1, <5>1, <5>2 DEF Unpaired
        <5> QED
          BY <2>3, <5>2, <5>3
      <4> QED
        BY <4>1, <4>2
    <3> QED
      BY <1>1, <2>3, <3>1, <3>2 DEF Numbered
  <2>5. p.n # Unpaired
    BY <1>1 DEF Unpaired
  <2> QED
    BY <2>1, <2>3, <2>4, <2>5 DEF Numberings, q
<1> QED
  BY <1>2, <1>3

LEMMA PairingFacts ==
  ASSUME NEW n \in Nat, NEW a \in [0 .. n - 1 -> SUBSET (0 .. n - 1)]
  PROVE  /\ Pairing(a).n \in Nat
         /\ Pairing(a).of \in [0 .. n - 1 -> 0 .. Pairing(a).n - 1]
         /\ \A c \in 0 .. Pairing(a).n - 1 : \E j \in 0 .. n - 1 : Pairing(a).of[j] = c
<1> DEFINE D == 0 .. n - 1
           A == Numberings(D)
           order == PairOrder(a)
           m == Len(order)
           base == PairStart(a)
           step == [c \in (1 .. m) \X A |-> PairStep(a, c[2], order[c[1]])]
           F == PairFold(a)
<1>1. m \in Nat /\ DOMAIN order = 1 .. m /\ (\A k \in 1 .. m : order[k] \in D)
      /\ \A i \in D : \E k \in 1 .. m : order[k] = i
  <2>1. Lists(order, D)
    BY PairOrderLists
  <2> HIDE DEF order, D
  <2> QED
    BY <2>1 DEF Lists
<1>2. base \in A
  <2>1. DOMAIN a = D
    OBVIOUS
  <2>2. base = [of |-> [j \in D |-> Unpaired], n |-> 0]
    BY <2>1 DEF PairStart
  <2>3. base \in [of : [D -> Int], n : Nat] /\ base.n = 0 /\ \A j \in D : base.of[j] = Unpaired
    BY <2>2 DEF Unpaired
  <2> HIDE DEF base, D
  <2> QED
    BY <2>3 DEF Numberings, Numbered
<1>3. \A k \in 1 .. m : \A b \in A : step[<<k, b>>] = PairStep(a, b, order[k]) /\ step[<<k, b>>] \in A
  <2> TAKE k \in 1 .. m
  <2> TAKE b \in A
  <2>1. step[<<k, b>>] = PairStep(a, b, order[k])
    <3> HIDE DEF A, m, order
    <3> QED
      OBVIOUS
  <2>2. PairStep(a, b, order[k]) \in A
    BY <1>1, PairStepKeeps
  <2> HIDE DEF step, A, m, order
  <2> QED
    BY <2>1, <2>2
<1> HIDE DEF A, m, order, base, step
<1>16. StepsIn(m, A, step)
  BY <1>3 DEF StepsIn
<1>4. PICK h : Made(m, A, base, step, h)
  BY <1>1, <1>2, <1>16, FoldMade
<1>5. h = PairSteps(a, h)
  <2>1. \A s \in SUBSET (1 .. m) :
           h[s] = IF s = {} THEN base ELSE PairStep(a, h[s \ {Latest(s)}], order[Latest(s)])
    BY <1>3, <1>4 DEF Made
  <2>2. h = [s \in SUBSET (1 .. m) |->
                IF s = {} THEN base ELSE PairStep(a, h[s \ {Latest(s)}], order[Latest(s)])]
    BY <1>4, <2>1 DEF Made
  <2> QED
    BY <1>1, <2>2 DEF PairSteps, order, base
<1>6. F = PairSteps(a, F)
  BY <1>5 DEF PairFold
<1> HIDE DEF F
<1>7. \A s \in SUBSET (1 .. m) :
         F[s] = IF s = {} THEN base ELSE PairStep(a, F[s \ {Latest(s)}], order[Latest(s)])
  <2>1. F = [s \in SUBSET (1 .. m) |->
                IF s = {} THEN base ELSE PairStep(a, F[s \ {Latest(s)}], order[Latest(s)])]
    BY <1>1, <1>6 DEF PairSteps, order, base
  <2> QED
    BY <2>1
<1>8. /\ \A k \in 0 .. m : F[1 .. k] \in A
      /\ \A k \in 1 .. m : F[1 .. k] = step[<<k, F[1 .. k - 1]>>]
  <2>1. F[{}] = base
    BY <1>7
  <2>2. \A s \in SUBSET (1 .. m) :
           s # {} /\ F[s \ {Latest(s)}] \in A => F[s] = step[<<Latest(s), F[s \ {Latest(s)}]>>]
    BY <1>1, <1>3, <1>7, LatestFacts
  <2>3. Unfolds(m, A, base, step, F)
    BY <1>1, <1>2, <1>16, <2>1, <2>2, FoldIs DEF Folds
  <2> QED
    BY <2>3 DEF Unfolds
<1> DEFINE PairedUpTo(k) == \A l \in 1 .. k : F[1 .. k].of[order[l]] # Unpaired
           G == {k \in 0 .. m : PairedUpTo(k)}
<1>9. 0 \in G
  BY <1>1
<1>10. ASSUME NEW k \in 0 .. m - 1, k \in G PROVE k + 1 \in G
  <2>1. k + 1 \in 1 .. m /\ (k + 1) - 1 = k /\ k \in 0 .. m /\ k + 1 \in 0 .. m
    BY <1>1
  <2>2. F[1 .. k] \in A /\ F[1 .. k + 1] = PairStep(a, F[1 .. k], order[k + 1])
    BY <1>3, <1>8, <2>1
  <2>3. order[k + 1] \in D
    BY <1>1, <2>1
  <2>4. /\ F[1 .. k + 1].of[order[k + 1]] # Unpaired
        /\ \A j \in D : F[1 .. k].of[j] # Unpaired => F[1 .. k + 1].of[j] # Unpaired
    BY <2>2, <2>3, PairStepKeeps DEF A
  <2>5. ASSUME NEW l \in 1 .. k + 1 PROVE F[1 .. k + 1].of[order[l]] # Unpaired
    <3>1. CASE l = k + 1
      BY <2>4, <3>1
    <3>2. CASE l # k + 1
      <4>1. l \in 1 .. k /\ l \in 1 .. m
        BY <1>1, <2>1, <3>2
      <4>2. F[1 .. k].of[order[l]] # Unpaired
        BY <1>10, <4>1
      <4>3. order[l] \in D
        BY <1>1, <4>1
      <4> QED
        BY <2>4, <4>2, <4>3
    <3> QED
      BY <3>1, <3>2
  <2> QED
    BY <2>1, <2>5
<1>11. m \in G
  <2>1. \A k \in 0 .. m : k \in G
    <3> HIDE DEF G
    <3> QED
      BY <1>1, <1>9, <1>10, ByNumbers
  <2> QED
    BY <1>1, <2>1
<1>12. Pairing(a) = F[1 .. m] /\ F[1 .. m] \in A
  BY <1>1, <1>8, PairingUnfolded DEF F, order
<1> DEFINE p == F[1 .. m]
<1>13. Numbered(D, p) /\ \A j \in D : p.of[j] # Unpaired
  <2>1. \A j \in D : p.of[j] # Unpaired
    BY <1>1, <1>11
  <2> QED
    BY <1>12, <2>1 DEF A, Numberings
<1> HIDE DEF p, G
<1>14. p.n \in Nat /\ p.of \in [D -> 0 .. p.n - 1] /\ \A c \in 0 .. p.n - 1 : \E j \in D : p.of[j] = c
  <2>1. p.of \in [D -> Int] /\ \A j \in D : p.of[j] \in 0 .. p.n - 1
    BY <1>13 DEF Numbered
  <2> QED
    BY <1>13, <2>1 DEF Numbered
<1>15. Pairing(a) = p
  BY <1>12 DEF p
<1> QED
  BY <1>14, <1>15

-----------------------------------------------------------------------------
(* Seeds: as many different nodes as there are ranks. *)
SeedRating(n, distance, degree, i) ==
  IF distance[i] = n THEN <<1, 0, degree[i], -i>> ELSE <<0, distance[i], degree[i], -i>>
SeedStep(a, degree, seeds) ==
  Append(seeds, Best(DOMAIN a \ ToSet(seeds),
      LAMBDA i : SeedRating(Cardinality(DOMAIN a), Distances(a, ToSet(seeds)), degree, i)))
SeedSteps(a, degree, ranks, h) ==
  [s \in SUBSET (DOMAIN Sweep(ranks)) |->
      IF s = {} THEN <<ChooseSeed(DOMAIN a, degree)>> ELSE SeedStep(a, degree, h[s \ {Latest(s)}])]
SeedFold(a, degree, ranks) == CHOOSE h : h = SeedSteps(a, degree, ranks, h)

LEMMA SeedsUnfolded ==
  ASSUME NEW a, NEW degree, NEW ranks
  PROVE  SpreadSeeds(a, degree, ranks) = SeedFold(a, degree, ranks)[DOMAIN Sweep(ranks)]
  BY Zenon DEF SpreadSeeds, FoldLeft, MapThenFoldSet, SeedFold, SeedSteps, SeedStep, SeedRating,
               Sweep, Latest

Outside(within, n, i) == {k \in 1 .. n : i \notin within[k]}
Counted(a, within) == [i \in DOMAIN a |-> Cardinality(Outside(within, Cardinality(DOMAIN a), i))]
LEMMA DistancesUnfolded ==
  ASSUME NEW a, NEW s
  PROVE  \E within : Distances(a, s) = Counted(a, within)
  BY Zenon DEF Distances, FoldLeft, MapThenFoldSet, Counted, Outside

LEMMA IntervalFinite ==
  ASSUME NEW n \in Nat
  PROVE  /\ IsFiniteSet(0 .. n - 1) /\ Cardinality(0 .. n - 1) = n
         /\ IsFiniteSet(1 .. n) /\ Cardinality(1 .. n) = n
<1>1. 0 \in Int /\ n - 1 \in Int /\ 1 \in Int /\ n \in Int
  OBVIOUS
<1>2. IsFiniteSet(0 .. n - 1) /\ Cardinality(0 .. n - 1) = IF 0 > n - 1 THEN 0 ELSE (n - 1) - 0 + 1
  BY ONLY <1>1, FS_Interval
<1>3. IsFiniteSet(1 .. n) /\ Cardinality(1 .. n) = IF 1 > n THEN 0 ELSE n - 1 + 1
  BY ONLY <1>1, FS_Interval
<1> QED
  BY <1>2, <1>3

LEMMA DistanceTypes ==
  ASSUME NEW n \in Nat, NEW a, DOMAIN a = 0 .. n - 1, NEW s
  PROVE  \A i \in 0 .. n - 1 : Distances(a, s)[i] \in Int
<1>1. PICK within : Distances(a, s) = Counted(a, within)
  BY DistancesUnfolded
<1>2. Cardinality(DOMAIN a) = n
  BY IntervalFinite
<1> TAKE i \in 0 .. n - 1
<1>3. Outside(within, n, i) \in SUBSET (1 .. n)
  BY DEF Outside
<1>4. Cardinality(Outside(within, n, i)) \in Nat
  BY <1>3, IntervalFinite, FS_Subset, FS_CardinalityType
<1> QED
  BY <1>1, <1>2, <1>4 DEF Counted

LEMMA SetOf ==
  ASSUME NEW S, NEW seq \in Seq(S)
  PROVE  /\ \A x \in ToSet(seq) : x \in S /\ \E k \in 1 .. Len(seq) : seq[k] = x
         /\ \A k \in 1 .. Len(seq) : seq[k] \in ToSet(seq)
         /\ ToSet(seq) \subseteq S /\ Len(seq) \in Nat
<1>1. DOMAIN seq = 1 .. Len(seq) /\ Len(seq) \in Nat /\ \A k \in 1 .. Len(seq) : seq[k] \in S
  OBVIOUS
<1> QED
  BY ONLY <1>1 DEF ToSet

Distinct(seq) == \A j, k \in 1 .. Len(seq) : j # k => seq[j] # seq[k]
LEMMA DistinctRoom ==
  ASSUME NEW n \in Nat, NEW seq \in Seq(0 .. n - 1), Len(seq) < n
  PROVE  (0 .. n - 1) \ ToSet(seq) # {}
<1> SUFFICES ASSUME (0 .. n - 1) \subseteq ToSet(seq) PROVE FALSE
  OBVIOUS
<1> DEFINE f == [x \in 0 .. n - 1 |-> CHOOSE k \in 1 .. Len(seq) : seq[k] = x]
<1>1. Len(seq) \in Nat /\ \A x \in ToSet(seq) : \E k \in 1 .. Len(seq) : seq[k] = x
  <2> HIDE DEF f
  <2> QED
    BY SetOf
<1>2. ASSUME NEW x \in 0 .. n - 1 PROVE f[x] \in 1 .. Len(seq) /\ seq[f[x]] = x
  <2>1. \E k \in 1 .. Len(seq) : seq[k] = x
    BY <1>1
  <2>2. f[x] = CHOOSE k \in 1 .. Len(seq) : seq[k] = x
    OBVIOUS
  <2> HIDE DEF f
  <2> QED
    BY <2>1, <2>2
<1>3. f \in [0 .. n - 1 -> 1 .. Len(seq)]
  BY <1>2
<1> HIDE DEF f
<1>4. /\ IsFiniteSet(0 .. n - 1) /\ Cardinality(0 .. n - 1) = n
      /\ IsFiniteSet(1 .. Len(seq)) /\ Cardinality(1 .. Len(seq)) = Len(seq)
  BY <1>1, IntervalFinite
<1>5. \E x, y \in 0 .. n - 1 : x # y /\ f[x] = f[y]
  <2>1. Cardinality(1 .. Len(seq)) < Cardinality(0 .. n - 1)
    BY <1>4
  <2> HIDE DEF f
  <2> QED
    BY ONLY <1>3, <1>4, <2>1, FS_PigeonHole
<1> QED
  BY <1>2, <1>5

Nothing == CHOOSE y \in {} : TRUE
LEMMA SeedAppended ==
  ASSUME NEW n \in Nat, NEW a, DOMAIN a = 0 .. n - 1,
         NEW degree, \A i \in 0 .. n - 1 : degree[i] \in Int, NEW q
  PROVE  \E x : SeedStep(a, degree, q) = Append(q, x)
                 /\ (x \in (0 .. n - 1) \ ToSet(q) \/ ((0 .. n - 1) \ ToSet(q) = {} /\ x = Nothing))
<1> DEFINE D == 0 .. n - 1
           rest == D \ ToSet(q)
           distance == Distances(a, ToSet(q))
           key == [i \in rest |-> SeedRating(n, distance, degree, i)]
           best == CHOOSE x \in rest : \A y \in rest \ {x} :
            Exceeds(SeedRating(n, distance, degree, x), SeedRating(n, distance, degree, y))
<1>1. SeedStep(a, degree, q) = Append(q, best)
  <2> HIDE DEF key, distance
  <2>1. Cardinality(DOMAIN a) = n
    BY IntervalFinite
  <2> QED
    BY <2>1 DEF SeedStep, Best, distance
<1>2. CASE rest # {}
  <2>1. IsFiniteSet(rest)
    BY IntervalFinite, FS_Subset
  <2>2. IsKey(key, rest, 4)
    <3>1. \A i \in rest : distance[i] \in Int /\ degree[i] \in Int /\ i \in Int
      BY DistanceTypes
    <3> HIDE DEF distance
    <3>2. \A i \in rest : key[i] \in [1 .. 4 -> Int] /\ key[i][4] = -i
      BY <3>1 DEF SeedRating
    <3> HIDE DEF key
    <3>3. \A x, y \in rest : x # y => key[x][4] # key[y][4]
      BY <3>1, <3>2
    <3> HIDE DEF rest
    <3> QED
      BY <3>2, <3>3 DEF IsKey
  <2>3. \E x \in rest : \A y \in rest \ {x} : Exceeds(key[x], key[y])
    <3> HIDE DEF key, rest
    <3> QED
      BY <1>2, <2>1, <2>2, BestIs
  <2>4. \E x \in rest : \A y \in rest \ {x} :
           Exceeds(SeedRating(n, distance, degree, x), SeedRating(n, distance, degree, y))
    <3> HIDE DEF distance
    <3> QED
      BY <2>3
  <2>5. best \in rest
    <3> HIDE DEF rest, distance
    <3> QED
      BY <2>4
  <2> HIDE DEF best
  <2> QED
    BY <1>1, <2>5
<1>3. CASE rest = {}
  <2>1. best = Nothing
    <3> HIDE DEF rest, distance
    <3> QED
      BY <1>3 DEF Nothing
  <2> HIDE DEF best
  <2> QED
    BY <1>1, <1>3, <2>1
<1> QED
  BY <1>2, <1>3

SeedLists(D, k) == {q \in Seq(D) : Len(q) = k /\ Distinct(q)}
LEMMA SeedStepKeeps ==
  ASSUME NEW n \in Nat, NEW a, DOMAIN a = 0 .. n - 1,
         NEW degree, \A i \in 0 .. n - 1 : degree[i] \in Int,
         NEW k \in 0 .. n - 1, NEW q \in SeedLists(0 .. n - 1, k)
  PROVE  SeedStep(a, degree, q) \in SeedLists(0 .. n - 1, k + 1)
<1> DEFINE D == 0 .. n - 1
<1>1. q \in Seq(D) /\ Distinct(q) /\ Len(q) = k /\ k \in Nat /\ k < n
  BY DEF SeedLists
<1>2. PICK x \in D \ ToSet(q) : SeedStep(a, degree, q) = Append(q, x)
  <2>1. D \ ToSet(q) # {}
    BY <1>1, DistinctRoom
  <2>2. \E x : SeedStep(a, degree, q) = Append(q, x) /\ (x \in D \ ToSet(q) \/ (D \ ToSet(q) = {} /\ x = Nothing))
    BY SeedAppended
  <2> HIDE DEF D
  <2> QED
    BY <2>1, <2>2
<1>3. x \in D /\ \A j \in 1 .. k : q[j] # x
  <2>1. \A j \in 1 .. k : q[j] \in ToSet(q)
    <3> HIDE DEF D
    <3> QED
      BY <1>1, SetOf
  <2> QED
    BY <2>1
<1> HIDE DEF D
<1>4. Append(q, x) \in Seq(D) /\ Len(Append(q, x)) = k + 1
      /\ \A j \in 1 .. k + 1 : Append(q, x)[j] = IF j = k + 1 THEN x ELSE q[j]
  BY <1>1, <1>3
<1>5. Distinct(Append(q, x))
  BY <1>1, <1>3, <1>4 DEF Distinct
<1> QED
  BY <1>1, <1>2, <1>4, <1>5 DEF SeedLists, D


LEMMA SeedsFacts ==
  ASSUME NEW n \in Nat, NEW a, DOMAIN a = 0 .. n - 1,
         NEW degree, \A i \in 0 .. n - 1 : degree[i] \in Int, NEW ranks \in 1 .. n
  PROVE  /\ SpreadSeeds(a, degree, ranks) \in Seq(0 .. n - 1)
         /\ Len(SpreadSeeds(a, degree, ranks)) = ranks
         /\ Distinct(SpreadSeeds(a, degree, ranks))
<1> DEFINE D == 0 .. n - 1
           V == D \cup {Nothing}
           A == Seq(V)
           m == ranks - 1
           seed == ChooseSeed(DOMAIN a, degree)
           base == <<seed>>
           step == [c \in (1 .. m) \X A |-> SeedStep(a, degree, c[2])]
           F == SeedFold(a, degree, ranks)
<1>1. m \in Nat /\ DOMAIN Sweep(ranks) = 1 .. m
  BY DEF Sweep
<1>2. base \in SeedLists(D, 1) /\ base \in A
  <2>1. seed \in D
    <3>1. D \in SUBSET Int /\ D # {} /\ DOMAIN a = D
      <4>1. 0 \in D
        OBVIOUS
      <4>2. \A x \in D : x \in Int
        OBVIOUS
      <4>3. DOMAIN a = D
        OBVIOUS
      <4> HIDE DEF D
      <4> QED
        BY <4>1, <4>2, <4>3
    <3>2. IsFiniteSet(D) /\ \A i \in D : degree[i] \in Int
      BY IntervalFinite
    <3> HIDE DEF D
    <3> QED
      BY <3>1, <3>2, SeedChosen
  <2> HIDE DEF seed, D
  <2>2. base \in Seq(D) /\ Len(base) = 1
    BY <2>1
  <2>3. base \in Seq(V)
    BY <2>1
  <2> HIDE DEF base, V
  <2>4. \A j, k \in 1 .. 1 : j = k
    OBVIOUS
  <2> QED
    BY <2>2, <2>3, <2>4 DEF SeedLists, Distinct, A
<1>3. \A q \in A : SeedStep(a, degree, q) \in A
  <2> TAKE q \in A
  <2>1. PICK x \in V : SeedStep(a, degree, q) = Append(q, x)
    <3>1. \E x : SeedStep(a, degree, q) = Append(q, x) /\ (x \in D \/ x = Nothing)
      BY SeedAppended
    <3> QED
      BY <3>1
  <2> HIDE DEF V
  <2> QED
    BY <2>1
<1>4. \A k \in 0 .. n - 1 : \A q \in SeedLists(D, k) : SeedStep(a, degree, q) \in SeedLists(D, k + 1)
  BY SeedStepKeeps
<1> HIDE DEF A, base, m, D
<1>5. \A k \in 1 .. m : \A q \in A : step[<<k, q>>] = SeedStep(a, degree, q)
  OBVIOUS
<1> HIDE DEF step
<1>6. StepsIn(m, A, step)
  BY <1>3, <1>5 DEF StepsIn
<1>7. PICK h : Made(m, A, base, step, h)
  BY <1>1, <1>2, <1>6, FoldMade
<1>8. h = SeedSteps(a, degree, ranks, h)
  <2>1. \A s \in SUBSET (1 .. m) : h[s] = IF s = {} THEN base ELSE SeedStep(a, degree, h[s \ {Latest(s)}])
    BY <1>5, <1>7 DEF Made
  <2>2. h = [s \in SUBSET (1 .. m) |-> IF s = {} THEN base ELSE SeedStep(a, degree, h[s \ {Latest(s)}])]
    BY <1>7, <2>1 DEF Made
  <2> QED
    BY <1>1, <2>2 DEF SeedSteps, base
<1>9. F = SeedSteps(a, degree, ranks, F)
  BY <1>8 DEF SeedFold
<1> HIDE DEF F
<1>10. \A s \in SUBSET (1 .. m) : F[s] = IF s = {} THEN base ELSE SeedStep(a, degree, F[s \ {Latest(s)}])
  <2>1. F = [s \in SUBSET (1 .. m) |-> IF s = {} THEN base ELSE SeedStep(a, degree, F[s \ {Latest(s)}])]
    BY <1>1, <1>9 DEF SeedSteps, base
  <2> QED
    BY <2>1
<1>11. Unfolds(m, A, base, step, F)
  <2>1. F[{}] = base
    BY <1>10
  <2>2. \A s \in SUBSET (1 .. m) :
           s # {} /\ F[s \ {Latest(s)}] \in A => F[s] = step[<<Latest(s), F[s \ {Latest(s)}]>>]
    BY <1>1, <1>5, <1>10, LatestFacts
  <2>3. Folds(m, A, base, step, F)
    BY <2>1, <2>2 DEF Folds
  <2> QED
    BY <1>1, <1>2, <1>6, <2>3, FoldIs
<1> DEFINE G == {k \in 0 .. m : F[1 .. k] \in SeedLists(D, k + 1)}
<1>12. 0 \in G
  <2>1. F[1 .. 0] = base
    BY <1>11 DEF Unfolds
  <2> QED
    BY <1>1, <1>2, <2>1
<1>13. ASSUME NEW k \in 0 .. m - 1, k \in G PROVE k + 1 \in G
  <2>1. k + 1 \in 1 .. m /\ (k + 1) - 1 = k /\ k \in 0 .. m /\ k + 1 \in 0 .. n - 1
    BY <1>1 DEF m
  <2>2. F[1 .. k] \in A /\ F[1 .. k + 1] = step[<<k + 1, F[1 .. k]>>]
    BY <1>11, <2>1 DEF Unfolds
  <2>3. F[1 .. k + 1] = SeedStep(a, degree, F[1 .. k])
    BY <1>5, <2>1, <2>2
  <2>4. F[1 .. k] \in SeedLists(D, k + 1)
    BY <1>13
  <2> QED
    BY <1>1, <1>4, <2>1, <2>3, <2>4
<1>14. m \in G
  <2>1. \A k \in 0 .. m : k \in G
    <3> HIDE DEF G
    <3> QED
      BY <1>1, <1>12, <1>13, ByNumbers
  <2> QED
    BY <1>1, <2>1
<1>15. SpreadSeeds(a, degree, ranks) = F[1 .. m]
  BY <1>1, SeedsUnfolded DEF F
<1>16. m + 1 = ranks
  BY DEF m
<1> HIDE DEF m
<1> QED
  BY <1>14, <1>15, <1>16 DEF SeedLists, D

-----------------------------------------------------------------------------
(* A graph as the levels of the hierarchy hold it: nodes are numbered from *)
(* zero, neighbours are mutual, and the weights stand for all the rows.    *)
IsGraph(a, w, total) ==
  /\ DOMAIN a = 0 .. Cardinality(DOMAIN a) - 1 /\ IsFiniteSet(DOMAIN a)
  /\ a \in [DOMAIN a -> SUBSET DOMAIN a]
  /\ \A i, j \in DOMAIN a : j \in a[i] => i # j /\ i \in a[j]
  /\ w \in [DOMAIN a -> Nat \ {0}]
  /\ SumFunctionOnSet(w, DOMAIN a) = total

(* Every coarse node weighs what the nodes that went to it weigh. *)
Members(of, c) == {i \in DOMAIN of : of[i] = c}
Merges(of, fine, coarse) ==
  /\ of \in [DOMAIN fine -> DOMAIN coarse]
  /\ \A c \in DOMAIN coarse : coarse[c] = SumFunctionOnSet(fine, Members(of, c))


LEMMA GraphFacts ==
  ASSUME NEW a, NEW w, NEW total, IsGraph(a, w, total)
  PROVE  /\ Cardinality(DOMAIN a) \in Nat /\ IsFiniteSet(DOMAIN a)
         /\ DOMAIN a = 0 .. Cardinality(DOMAIN a) - 1
         /\ a \in [0 .. Cardinality(DOMAIN a) - 1 -> SUBSET (0 .. Cardinality(DOMAIN a) - 1)]
         /\ \A i, j \in DOMAIN a : j \in a[i] => i # j /\ i \in a[j]
         /\ \A i \in DOMAIN a : w[i] \in Nat /\ w[i] >= 1 /\ w[i] <= total
         /\ DOMAIN w = DOMAIN a
         /\ total \in Nat /\ TotalWeight(w) = total
<1>1. /\ DOMAIN a = 0 .. Cardinality(DOMAIN a) - 1 /\ IsFiniteSet(DOMAIN a)
      /\ a \in [DOMAIN a -> SUBSET DOMAIN a]
      /\ \A i, j \in DOMAIN a : j \in a[i] => i # j /\ i \in a[j]
      /\ w \in [DOMAIN a -> Nat \ {0}]
      /\ SumFunctionOnSet(w, DOMAIN a) = total
  BY DEF IsGraph
<1>2. Cardinality(DOMAIN a) \in Nat
  BY <1>1, FS_CardinalityType
<1>3. \A i \in DOMAIN a : w[i] \in Nat /\ w[i] >= 1
  BY <1>1
<1>4. total \in Nat
  BY <1>1, <1>3, SumType
<1>5. ASSUME NEW i \in DOMAIN a PROVE w[i] <= total
  <2> DEFINE D == DOMAIN a
  <2>1. IsFiniteSet(D) /\ (\A x \in D : w[x] \in Nat) /\ i \in D
    BY <1>1, <1>3
  <2>2. SumFunctionOnSet(w, D) = w[i] + SumFunctionOnSet(w, D \ {i})
    <3> HIDE DEF D
    <3> QED
      BY ONLY <2>1, SumWithout
  <2>3. SumFunctionOnSet(w, D \ {i}) \in Nat
    <3>1. IsFiniteSet(D \ {i}) /\ \A x \in D \ {i} : w[x] \in Nat
      BY <2>1, FS_Subset
    <3> HIDE DEF D
    <3> QED
      BY <3>1, SumType
  <2> QED
    BY <1>1, <1>3, <2>2, <2>3
<1>6. DOMAIN w = DOMAIN a /\ TotalWeight(w) = total
  BY <1>1 DEF TotalWeight, SumFunction
<1>7. a \in [0 .. Cardinality(DOMAIN a) - 1 -> SUBSET (0 .. Cardinality(DOMAIN a) - 1)]
  <2> DEFINE D == DOMAIN a
             N == Cardinality(D)
  <2>1. D = 0 .. N - 1 /\ a \in [D -> SUBSET D]
    BY <1>1
  <2> HIDE DEF D, N
  <2> QED
    BY <2>1 DEF D, N
<1> QED
  BY <1>1, <1>2, <1>3, <1>4, <1>5, <1>6, <1>7

MergedAdj(a, of, c) == {of[j] : j \in UNION {a[i] : i \in {x \in DOMAIN a : of[x] = c}}} \ {c}
MergedWeight(w, a, of, c) == SumFunctionOnSet(w, {x \in DOMAIN a : of[x] = c})
LEMMA CoarsenIs ==
  ASSUME NEW a, NEW w
  PROVE  /\ Coarsen(a, w).of = Pairing(a).of
         /\ Coarsen(a, w).adj = [c \in 0 .. Pairing(a).n - 1 |-> MergedAdj(a, Pairing(a).of, c)]
         /\ Coarsen(a, w).weights = [c \in 0 .. Pairing(a).n - 1 |-> MergedWeight(w, a, Pairing(a).of, c)]
<1>1. Coarsen(a, w) = [adj |-> [c \in 0 .. Pairing(a).n - 1 |-> MergedAdj(a, Pairing(a).of, c)],
                       weights |-> [c \in 0 .. Pairing(a).n - 1 |-> MergedWeight(w, a, Pairing(a).of, c)],
                       of |-> Pairing(a).of]
  BY Zenon DEF Coarsen, MergedAdj, MergedWeight
<1> DEFINE x == [c \in 0 .. Pairing(a).n - 1 |-> MergedAdj(a, Pairing(a).of, c)]
           y == [c \in 0 .. Pairing(a).n - 1 |-> MergedWeight(w, a, Pairing(a).of, c)]
<1>2. Coarsen(a, w) = [adj |-> x, weights |-> y, of |-> Pairing(a).of]
  BY <1>1
<1>3. Coarsen(a, w).of = Pairing(a).of /\ Coarsen(a, w).adj = x /\ Coarsen(a, w).weights = y
  <2> HIDE DEF x, y
  <2> QED
    BY <1>2
<1> QED
  BY <1>3

(* Merging pairs keeps a graph a graph, and every row in it. *)
LEMMA CoarsenFacts ==
  ASSUME NEW a, NEW w, NEW total, IsGraph(a, w, total)
  PROVE  /\ IsGraph(Coarsen(a, w).adj, Coarsen(a, w).weights, total)
         /\ Merges(Coarsen(a, w).of, w, Coarsen(a, w).weights)
<1> DEFINE D == DOMAIN a
           n == Cardinality(D)
           of == Pairing(a).of
           m == Pairing(a).n
           C == 0 .. m - 1
           ca == Coarsen(a, w).adj
           cw == Coarsen(a, w).weights
<1>1. /\ n \in Nat /\ IsFiniteSet(D) /\ D = 0 .. n - 1 /\ a \in [0 .. n - 1 -> SUBSET (0 .. n - 1)]
      /\ \A i, j \in D : j \in a[i] => i # j /\ i \in a[j]
      /\ \A i \in D : w[i] \in Nat /\ w[i] >= 1
      /\ DOMAIN w = D
  BY GraphFacts
<1>2. m \in Nat /\ of \in [D -> C] /\ \A c \in C : \E j \in D : of[j] = c
  <2> HIDE DEF n
  <2>1. m \in Nat /\ of \in [0 .. n - 1 -> C] /\ \A c \in C : \E j \in 0 .. n - 1 : of[j] = c
    BY <1>1, PairingFacts
  <2> HIDE DEF of, m, D
  <2> QED
    BY <1>1, <2>1
<1>3. Coarsen(a, w).of = of /\ ca = [c \in C |-> MergedAdj(a, of, c)] /\ cw = [c \in C |-> MergedWeight(w, a, of, c)]
  BY CoarsenIs
<1> HIDE DEF of, m, ca, cw, n
<1>4. IsFiniteSet(C) /\ Cardinality(C) = m
  BY <1>2, IntervalFinite
<1>5. \A c, d \in C : d \in ca[c] <=> d # c /\ \E i, j \in D : of[i] = c /\ of[j] = d /\ j \in a[i]
  <2> TAKE c, d \in C
  <2>1. ca[c] = MergedAdj(a, of, c)
    BY <1>3
  <2>2. \A i \in D : a[i] \subseteq D
    BY <1>1
  <2> QED
    BY <2>1, <2>2 DEF MergedAdj
<1>6. ca \in [C -> SUBSET C] /\ DOMAIN ca = C
  <2>1. \A c \in C : MergedAdj(a, of, c) \subseteq C
    <3>1. \A i \in D : a[i] \subseteq D /\ of[i] \in C
      BY <1>1, <1>2
    <3> HIDE DEF C
    <3> QED
      BY <3>1 DEF MergedAdj
  <2> HIDE DEF C
  <2> QED
    BY <1>3, <2>1
<1>7. \A c, d \in C : d \in ca[c] => c # d /\ c \in ca[d]
  BY <1>1, <1>5
<1>8. Merges(of, w, cw)
  <2>1. \A c \in C : cw[c] = SumFunctionOnSet(w, Members(of, c))
    <3> TAKE c \in C
    <3>1. Members(of, c) = {x \in D : of[x] = c}
      BY <1>2 DEF Members
    <3> QED
      BY <1>3, <3>1 DEF MergedWeight
  <2>2. DOMAIN cw = C /\ DOMAIN w = D
    BY <1>1, <1>3
  <2> HIDE DEF C, D
  <2> QED
    BY <1>2, <2>1, <2>2 DEF Merges
<1>9. /\ \A c \in C : cw[c] \in Nat
      /\ SumFunctionOnSet(cw, C) = SumFunctionOnSet(w, D)
  <2> DEFINE g == GroupSums(w, of, D, C)
  <2>1. /\ \A c \in C : g[c] \in Nat
        /\ SumFunctionOnSet(g, C) = SumFunctionOnSet(w, Into(of, D, C))
    <3> HIDE DEF C, D
    <3> QED
      BY <1>1, <1>4, SumGroups DEF g
  <2>2. Into(of, D, C) = D
    BY <1>2 DEF Into
  <2>3. g = cw
    <3>1. \A c \in C : MergedWeight(w, a, of, c) = SumFunctionOnSet(w, Group(of, D, c))
      BY DEF MergedWeight, Group
    <3> HIDE DEF C, D
    <3> QED
      BY <1>3, <3>1 DEF GroupSums, g
  <2> HIDE DEF g, C, D
  <2> QED
    BY <2>1, <2>2, <2>3
<1>10. \A c \in C : cw[c] >= 1
  <2> TAKE c \in C
  <2> DEFINE M == {x \in D : of[x] = c}
  <2>1. IsFiniteSet(M) /\ \A x \in M : w[x] \in Nat
    BY <1>1, FS_Subset
  <2>2. PICK j \in M : TRUE
    BY <1>2
  <2>3. cw[c] = SumFunctionOnSet(w, M)
    BY <1>3 DEF MergedWeight
  <2>4. w[j] \in Nat /\ w[j] >= 1
    BY <1>1, <2>2
  <2> HIDE DEF M
  <2>5. SumFunctionOnSet(w, M) = w[j] + SumFunctionOnSet(w, M \ {j})
    BY <2>1, <2>2, SumWithout
  <2>6. SumFunctionOnSet(w, M \ {j}) \in Nat
    BY <2>1, <2>2, SumPart
  <2> QED
    BY <2>3, <2>4, <2>5, <2>6
<1>11. cw \in [C -> Nat \ {0}]
  <2>1. \A c \in C : cw[c] \in Nat \ {0}
    BY <1>9, <1>10
  <2> HIDE DEF C
  <2> QED
    BY <1>3, <2>1
<1>12. SumFunctionOnSet(cw, C) = total
  BY <1>9 DEF IsGraph
<1>13. C = 0 .. Cardinality(C) - 1
  BY <1>4
<1>14. IsGraph(ca, cw, total)
  <2> HIDE DEF C
  <2> QED
    BY <1>4, <1>6, <1>7, <1>11, <1>12, <1>13 DEF IsGraph
<1> QED
  BY <1>3, <1>8, <1>14 DEF ca, cw

-----------------------------------------------------------------------------
(* Loads: what the owners of the nodes of D with weights w make of them. *)
Owned(o, r) == {i \in DOMAIN o : o[i] = r}
IsOwnership(D, w, o, ranks) ==
  /\ IsFiniteSet(D) /\ \A i \in D : w[i] \in Nat
  /\ ranks \in Nat /\ o \in [D -> (0 .. ranks - 1) \cup {NoRank}]

LEMMA LoadFacts ==
  ASSUME NEW D, NEW w, NEW o, NEW ranks, IsOwnership(D, w, o, ranks)
  PROVE  /\ LoadsOf(o, w, ranks) \in [0 .. ranks - 1 -> Nat]
         /\ \A r \in 0 .. ranks - 1 : LoadsOf(o, w, ranks)[r] = SumFunctionOnSet(w, Owned(o, r))
         /\ \A r : /\ IsFiniteSet(Owned(o, r)) /\ Owned(o, r) \subseteq D
                   /\ \A i \in Owned(o, r) : w[i] \in Nat
<1>1. \A r : /\ IsFiniteSet(Owned(o, r)) /\ Owned(o, r) \subseteq D
             /\ \A i \in Owned(o, r) : w[i] \in Nat
  <2> TAKE r
  <2>1. Owned(o, r) \subseteq D
    BY DEF Owned, IsOwnership
  <2> QED
    BY <2>1, FS_Subset DEF IsOwnership
<1>2. LoadsOf(o, w, ranks) = [r \in 0 .. ranks - 1 |-> SumFunctionOnSet(w, Owned(o, r))]
  BY DEF LoadsOf, Owned
<1>3. \A r \in 0 .. ranks - 1 : SumFunctionOnSet(w, Owned(o, r)) \in Nat
  BY <1>1, SumType
<1> QED
  BY <1>1, <1>2, <1>3

(* Every row belongs to one rank or is free. *)
LEMMA LoadsAddUp ==
  ASSUME NEW D, NEW w, NEW o, NEW ranks, IsOwnership(D, w, o, ranks)
  PROVE  /\ SumFunctionOnSet(LoadsOf(o, w, ranks), 0 .. ranks - 1) + SumFunctionOnSet(w, Owned(o, NoRank))
              = SumFunctionOnSet(w, D)
         /\ SumFunctionOnSet(LoadsOf(o, w, ranks), 0 .. ranks - 1) \in Nat
         /\ SumFunctionOnSet(w, Owned(o, NoRank)) \in Nat
<1> DEFINE R == 0 .. ranks - 1
           g == GroupSums(w, o, D, R)
           taken == Into(o, D, R)
<1>1. IsFiniteSet(D) /\ (\A i \in D : w[i] \in Nat) /\ IsFiniteSet(R) /\ DOMAIN o = D
      /\ \A i \in D : o[i] \in R \/ o[i] = NoRank
  BY IntervalFinite DEF IsOwnership
<1>2. NoRank \notin R
  BY DEF NoRank
<1>3. SumFunctionOnSet(g, R) = SumFunctionOnSet(w, taken)
  <2> HIDE DEF R
  <2> QED
    BY <1>1, SumGroups
<1>4. g = LoadsOf(o, w, ranks)
  <2>1. \A r \in R : Group(o, D, r) = Owned(o, r)
    BY <1>1 DEF Group, Owned
  <2>2. LoadsOf(o, w, ranks) = [r \in R |-> SumFunctionOnSet(w, Owned(o, r))]
    BY DEF LoadsOf, Owned
  <2> HIDE DEF R
  <2> QED
    BY <2>1, <2>2 DEF GroupSums
<1>5. D \ taken = Owned(o, NoRank)
  BY <1>1, <1>2 DEF Owned, Into
<1>6. /\ SumFunctionOnSet(w, D) = SumFunctionOnSet(w, taken) + SumFunctionOnSet(w, D \ taken)
      /\ SumFunctionOnSet(w, taken) \in Nat /\ SumFunctionOnSet(w, D \ taken) \in Nat
  <2>1. taken \in SUBSET D
    BY DEF Into
  <2>2. IsFiniteSet(D) /\ \A i \in D : w[i] \in Nat
    BY <1>1
  <2> HIDE DEF taken
  <2> QED
    BY ONLY <2>1, <2>2, SumPart
<1> HIDE DEF g, taken
<1> QED
  BY <1>3, <1>4, <1>5, <1>6

(* A claim of free nodes, *)
Raised(x, p, e) == [x EXCEPT ![p] = @ + e]
Claiming(o, s, r) == [i \in DOMAIN o |-> IF i \in s THEN r ELSE o[i]]
LEMMA ClaimLoads ==
  ASSUME NEW D, NEW w, NEW o, NEW ranks, IsOwnership(D, w, o, ranks),
         NEW s \in SUBSET Owned(o, NoRank), NEW r \in 0 .. ranks - 1
  PROVE  /\ IsOwnership(D, w, Claiming(o, s, r), ranks)
         /\ LoadsOf(Claiming(o, s, r), w, ranks) = Raised(LoadsOf(o, w, ranks), r, SumFunctionOnSet(w, s))
<1> DEFINE q == Claiming(o, s, r)
           R == 0 .. ranks - 1
<1>1. /\ DOMAIN o = D /\ s \subseteq D /\ \A i \in s : o[i] = NoRank
  BY DEF IsOwnership, Owned
<1>2. NoRank \notin R
  BY DEF NoRank, IsOwnership
<1>3. IsOwnership(D, w, q, ranks)
  BY <1>1 DEF Claiming, IsOwnership
<1>4. Owned(q, r) = Owned(o, r) \cup s /\ Owned(o, r) \cap s = {}
  BY <1>1, <1>2 DEF Owned, Claiming
<1>5. \A p \in R : p # r => Owned(q, p) = Owned(o, p)
  BY <1>1, <1>2 DEF Owned, Claiming
<1>6. SumFunctionOnSet(w, Owned(q, r)) = SumFunctionOnSet(w, Owned(o, r)) + SumFunctionOnSet(w, s)
  <2>1. IsFiniteSet(s) /\ IsFiniteSet(Owned(o, r)) /\ \A i \in Owned(o, r) \cup s : w[i] \in Nat
    BY <1>1, LoadFacts, FS_Subset DEF IsOwnership
  <2>2. SumFunctionOnSet(w, Owned(o, r) \cup s) = SumFunctionOnSet(w, Owned(o, r)) + SumFunctionOnSet(w, s)
    BY ONLY <1>4, <2>1, SumUnion
  <2> QED
    BY <1>4, <2>2
<1> HIDE DEF q, R
<1>7. /\ LoadsOf(q, w, ranks) \in [R -> Nat] /\ LoadsOf(o, w, ranks) \in [R -> Nat]
      /\ \A p \in R : LoadsOf(q, w, ranks)[p] = SumFunctionOnSet(w, Owned(q, p))
      /\ \A p \in R : LoadsOf(o, w, ranks)[p] = SumFunctionOnSet(w, Owned(o, p))
  BY <1>3, LoadFacts DEF R
<1>8. r \in R
  BY DEF R
<1>9. LoadsOf(q, w, ranks) = Raised(LoadsOf(o, w, ranks), r, SumFunctionOnSet(w, s))
  <2> DEFINE x == LoadsOf(q, w, ranks)
             y == LoadsOf(o, w, ranks)
             e == SumFunctionOnSet(w, s)
  <2>1. x \in [R -> Nat] /\ y \in [R -> Nat] /\ x[r] = y[r] + e /\ \A p \in R : p # r => x[p] = y[p]
    BY <1>5, <1>6, <1>7, <1>8
  <2> HIDE DEF x, y, e
  <2>2. x = Raised(y, r, e)
    BY <1>8, <2>1 DEF Raised
  <2> QED
    BY <2>2 DEF x, y, e
<1> QED
  BY <1>3, <1>9 DEF q

LEMMA SumOne ==
  ASSUME NEW w, NEW i, w[i] \in Nat
  PROVE  SumFunctionOnSet(w, {i}) = w[i]
<1>1. IsFiniteSet({i}) /\ (\A x \in {i} : w[x] \in Nat) /\ i \in {i} /\ {i} \ {i} = {}
  BY FS_Singleton
<1>2. SumFunctionOnSet(w, {i}) = w[i] + SumFunctionOnSet(w, {i} \ {i})
  BY ONLY <1>1, SumWithout
<1>3. SumFunctionOnSet(w, {i} \ {i}) = 0
  BY <1>1, SumEmpty
<1> QED
  BY <1>2, <1>3

(* of one, *)
LEMMA ClaimOne ==
  ASSUME NEW D, NEW w, NEW o, NEW ranks, IsOwnership(D, w, o, ranks),
         NEW i \in Owned(o, NoRank), NEW r \in 0 .. ranks - 1
  PROVE  /\ IsOwnership(D, w, [o EXCEPT ![i] = r], ranks)
         /\ LoadsOf([o EXCEPT ![i] = r], w, ranks) = Raised(LoadsOf(o, w, ranks), r, w[i])
<1>1. DOMAIN o = D /\ i \in D /\ w[i] \in Nat /\ {i} \in SUBSET Owned(o, NoRank)
  BY DEF IsOwnership, Owned
<1>2. [o EXCEPT ![i] = r] = Claiming(o, {i}, r)
  BY <1>1 DEF Claiming, IsOwnership
<1>3. SumFunctionOnSet(w, {i}) = w[i]
  BY <1>1, SumOne
<1> QED
  BY <1>1, <1>2, <1>3, ClaimLoads

Moved(x, p, t, e) == [x EXCEPT ![p] = @ - e, ![t] = @ + e]
(* and a move from one rank to another. *)
LEMMA MoveLoads ==
  ASSUME NEW D, NEW w, NEW o, NEW ranks, IsOwnership(D, w, o, ranks),
         NEW i \in D, o[i] # NoRank, NEW t \in 0 .. ranks - 1, t # o[i]
  PROVE  /\ IsOwnership(D, w, [o EXCEPT ![i] = t], ranks)
         /\ o[i] \in 0 .. ranks - 1
         /\ LoadsOf(o, w, ranks)[o[i]] - w[i] \in Nat
         /\ LoadsOf([o EXCEPT ![i] = t], w, ranks)
              = Moved(LoadsOf(o, w, ranks), o[i], t, w[i])
<1> DEFINE q == [o EXCEPT ![i] = t]
           R == 0 .. ranks - 1
           p == o[i]
<1>1. DOMAIN o = D /\ w[i] \in Nat /\ p \in R /\ t \in R /\ p # t /\ q \in [D -> R \cup {NoRank}]
      /\ \A j \in D : q[j] = IF j = i THEN t ELSE o[j]
  BY DEF IsOwnership
<1>2. IsOwnership(D, w, q, ranks)
  BY <1>1 DEF IsOwnership
<1> HIDE DEF q, R, p
<1>3. p = o[i] /\ q = [o EXCEPT ![i] = t]
  BY DEF p, q
<1>4. DOMAIN q = D
  BY <1>1
<1>5. /\ Owned(q, t) = Owned(o, t) \cup {i} /\ i \notin Owned(o, t)
      /\ Owned(o, p) = Owned(q, p) \cup {i} /\ i \notin Owned(q, p)
      /\ \A r \in R : r # p /\ r # t => Owned(q, r) = Owned(o, r)
  BY <1>1, <1>3, <1>4 DEF Owned
<1>6. ASSUME NEW S, IsFiniteSet(S), \A j \in S : w[j] \in Nat, i \notin S
      PROVE  SumFunctionOnSet(w, S \cup {i}) = SumFunctionOnSet(w, S) + w[i]
  <2>1. IsFiniteSet({i}) /\ S \cap {i} = {} /\ \A j \in S \cup {i} : w[j] \in Nat
    BY <1>1, <1>6, FS_Singleton
  <2>2. SumFunctionOnSet(w, S \cup {i}) = SumFunctionOnSet(w, S) + SumFunctionOnSet(w, {i})
    BY ONLY <1>6, <2>1, SumUnion
  <2> QED
    BY <1>1, <2>2, SumOne
<1>7. /\ LoadsOf(q, w, ranks) \in [R -> Nat] /\ LoadsOf(o, w, ranks) \in [R -> Nat]
      /\ \A r \in R : LoadsOf(q, w, ranks)[r] = SumFunctionOnSet(w, Owned(q, r))
      /\ \A r \in R : LoadsOf(o, w, ranks)[r] = SumFunctionOnSet(w, Owned(o, r))
      /\ IsFiniteSet(Owned(o, t)) /\ IsFiniteSet(Owned(q, p))
      /\ \A j \in Owned(o, t) : w[j] \in Nat
      /\ \A j \in Owned(q, p) : w[j] \in Nat
  BY <1>2, LoadFacts DEF R
<1> DEFINE x == LoadsOf(q, w, ranks)
           y == LoadsOf(o, w, ranks)
<1>8. /\ x[t] = y[t] + w[i] /\ y[p] = x[p] + w[i]
      /\ \A r \in R : r # p /\ r # t => x[r] = y[r]
      /\ x \in [R -> Nat] /\ y \in [R -> Nat]
  <2>1. /\ SumFunctionOnSet(w, Owned(o, t) \cup {i}) = SumFunctionOnSet(w, Owned(o, t)) + w[i]
        /\ SumFunctionOnSet(w, Owned(q, p) \cup {i}) = SumFunctionOnSet(w, Owned(q, p)) + w[i]
    BY <1>5, <1>6, <1>7
  <2> QED
    BY <1>1, <1>5, <1>7, <2>1
<1> HIDE DEF x, y
<1>9. x = Moved(y, p, t, w[i]) /\ y[p] - w[i] \in Nat
  BY <1>1, <1>8 DEF Moved
<1> QED
  BY <1>1, <1>2, <1>9 DEF x, y, p, q, R


(* Each rank starts with its seed, *)
Planted(D, seeds) ==
  [i \in D |-> IF i \in ToSet(seeds) THEN (CHOOSE k \in DOMAIN seeds : seeds[k] = i) - 1 ELSE NoRank]
LEMMA PlantedLoads ==
  ASSUME NEW D, NEW w, IsFiniteSet(D), \A i \in D : w[i] \in Nat,
         NEW seeds \in Seq(D), Distinct(seeds), NEW ranks \in Nat, Len(seeds) = ranks
  PROVE  /\ IsOwnership(D, w, Planted(D, seeds), ranks)
         /\ \A r \in 0 .. ranks - 1 :
               seeds[r + 1] \in D /\ LoadsOf(Planted(D, seeds), w, ranks)[r] = w[seeds[r + 1]]
<1> DEFINE q == Planted(D, seeds)
<1>1. DOMAIN seeds = 1 .. ranks /\ \A k \in 1 .. ranks : seeds[k] \in D
  OBVIOUS
<1>2. \A k \in 1 .. ranks : seeds[k] \in ToSet(seeds) /\ q[seeds[k]] = k - 1
  <2> TAKE k \in 1 .. ranks
  <2>1. seeds[k] \in ToSet(seeds)
    BY SetOf
  <2>2. \A j \in 1 .. ranks : seeds[j] = seeds[k] => j = k
    BY DEF Distinct
  <2>3. (CHOOSE j \in DOMAIN seeds : seeds[j] = seeds[k]) = k
    BY <1>1, <2>2
  <2> QED
    BY <1>1, <2>1, <2>3 DEF Planted
<1>3. \A i \in D : i \notin ToSet(seeds) => q[i] = NoRank
  BY DEF Planted
<1>4. \A i \in ToSet(seeds) : \E k \in 1 .. ranks : i = seeds[k]
  BY SetOf
<1>5. DOMAIN q = D /\ q \in [D -> (0 .. ranks - 1) \cup {NoRank}]
  <2>1. \A i \in D : q[i] \in (0 .. ranks - 1) \cup {NoRank}
    <3> TAKE i \in D
    <3>1. CASE i \in ToSet(seeds)
      <4>1. PICK k \in 1 .. ranks : i = seeds[k]
        BY <1>4, <3>1
      <4>2. q[i] = k - 1
        BY <1>2, <4>1
      <4> QED
        BY <4>2
    <3>2. CASE i \notin ToSet(seeds)
      BY <1>3, <3>2
    <3> QED
      BY <3>1, <3>2
  <2>2. q = [i \in D |-> q[i]]
    BY DEF Planted
  <2> HIDE DEF q
  <2> QED
    BY <2>1, <2>2
<1> HIDE DEF q
<1>6. IsOwnership(D, w, q, ranks)
  BY <1>5 DEF IsOwnership
<1>7. ASSUME NEW r \in 0 .. ranks - 1 PROVE LoadsOf(q, w, ranks)[r] = w[seeds[r + 1]]
  <2>1. r + 1 \in 1 .. ranks /\ (r + 1) - 1 = r
    OBVIOUS
  <2>2. seeds[r + 1] \in D /\ q[seeds[r + 1]] = r
    BY <1>1, <1>2, <2>1
  <2>3. ASSUME NEW i \in D, q[i] = r PROVE i = seeds[r + 1]
    <3>1. i \in ToSet(seeds)
      BY <1>3, <2>3 DEF NoRank
    <3>2. PICK k \in 1 .. ranks : i = seeds[k]
      BY <1>4, <3>1
    <3>3. k - 1 = r
      BY <1>2, <2>3, <3>2
    <3> QED
      BY <3>2, <3>3
  <2>4. Owned(q, r) = {seeds[r + 1]}
    BY <1>5, <2>2, <2>3 DEF Owned
  <2>5. LoadsOf(q, w, ranks)[r] = SumFunctionOnSet(w, Owned(q, r))
    BY <1>6, LoadFacts
  <2>6. SumFunctionOnSet(w, {seeds[r + 1]}) = w[seeds[r + 1]]
    BY <2>2, SumOne
  <2> QED
    BY <2>4, <2>5, <2>6
<1> QED
  BY <1>1, <1>6, <1>7 DEF q

(* and the nodes of the finer level go to the rank of their aggregate. *)
Projected(D, o, of) == [i \in D |-> o[of[i]]]
LEMMA ProjectedLoads ==
  ASSUME NEW D, IsFiniteSet(D), NEW fine, DOMAIN fine = D, \A i \in D : fine[i] \in Nat,
         NEW C, NEW coarse, DOMAIN coarse = C, NEW of, Merges(of, fine, coarse),
         NEW o, NEW ranks, IsOwnership(C, coarse, o, ranks)
  PROVE  /\ IsOwnership(D, fine, Projected(D, o, of), ranks)
         /\ LoadsOf(Projected(D, o, of), fine, ranks) = LoadsOf(o, coarse, ranks)
<1> DEFINE q == Projected(D, o, of)
           R == 0 .. ranks - 1
<1>1. /\ of \in [D -> C] /\ IsFiniteSet(C) /\ DOMAIN o = C /\ ranks \in Nat
      /\ o \in [C -> R \cup {NoRank}]
      /\ \A c \in C : coarse[c] \in Nat /\ coarse[c] = SumFunctionOnSet(fine, Members(of, c))
  BY DEF Merges, IsOwnership
<1>2. DOMAIN q = D /\ q \in [D -> R \cup {NoRank}] /\ \A i \in D : q[i] = o[of[i]]
  <2> HIDE DEF R
  <2> QED
    BY <1>1 DEF Projected
<1>3. IsOwnership(D, fine, q, ranks)
  BY <1>1, <1>2 DEF IsOwnership
<1> HIDE DEF q, R
<1>4. ASSUME NEW r \in R
      PROVE  SumFunctionOnSet(fine, Owned(q, r)) = SumFunctionOnSet(coarse, Owned(o, r))
  <2> DEFINE S == Owned(o, r)
             g == GroupSums(fine, of, D, S)
  <2>1. S \subseteq C /\ IsFiniteSet(S)
    BY <1>1, FS_Subset DEF Owned
  <2>2. Owned(q, r) = Into(of, D, S)
    BY <1>1, <1>2 DEF Owned, Into
  <2> HIDE DEF S
  <2>3. /\ \A c \in S : g[c] \in Nat
        /\ SumFunctionOnSet(g, S) = SumFunctionOnSet(fine, Into(of, D, S))
    <3> HIDE DEF g
    <3> QED
      BY <2>1, SumGroups DEF g
  <2>4. \A c \in S : coarse[c] = g[c]
    <3> TAKE c \in S
    <3>1. Members(of, c) = Group(of, D, c)
      BY <1>1 DEF Members, Group
    <3>2. g[c] = SumFunctionOnSet(fine, Group(of, D, c))
      BY DEF GroupSums
    <3> HIDE DEF g
    <3> QED
      BY <1>1, <2>1, <3>1, <3>2
  <2> HIDE DEF g
  <2>5. SumFunctionOnSet(g, S) = SumFunctionOnSet(coarse, S)
    BY ONLY <2>1, <2>3, <2>4, SumEq
  <2> QED
    BY <2>2, <2>3, <2>5 DEF S
<1>5. /\ LoadsOf(q, fine, ranks) \in [R -> Nat] /\ LoadsOf(o, coarse, ranks) \in [R -> Nat]
      /\ \A p \in R : LoadsOf(q, fine, ranks)[p] = SumFunctionOnSet(fine, Owned(q, p))
      /\ \A p \in R : LoadsOf(o, coarse, ranks)[p] = SumFunctionOnSet(coarse, Owned(o, p))
  BY <1>3, LoadFacts DEF R
<1>6. LoadsOf(q, fine, ranks) = LoadsOf(o, coarse, ranks)
  BY <1>4, <1>5
<1> QED
  BY <1>3, <1>6 DEF q

LEMMA MovedBack ==
  ASSUME NEW R, NEW L \in [R -> Nat], NEW a \in R, NEW b \in R, a # b, NEW e \in Nat
  PROVE  Moved(Moved(L, a, b, e), b, a, e) = L
<1> DEFINE x == Moved(L, a, b, e)
           y == Moved(x, b, a, e)
<1>1. /\ x \in [R -> Int] /\ x[a] = L[a] - e /\ x[b] = L[b] + e
      /\ \A r \in R : r # a /\ r # b => x[r] = L[r]
  BY DEF Moved
<1> HIDE DEF x
<1>2. /\ y \in [R -> Int] /\ y[b] = x[b] - e /\ y[a] = x[a] + e
      /\ \A r \in R : r # a /\ r # b => y[r] = x[r]
  BY <1>1 DEF Moved
<1> HIDE DEF y
<1>3. \A r \in R : y[r] = L[r]
  BY <1>1, <1>2
<1>4. y = L
  BY <1>2, <1>3
<1> QED
  BY <1>4 DEF y, x

(* Two nodes of the same weight trade places. *)
LEMMA SwapLoads ==
  ASSUME NEW D, NEW w, NEW o, NEW ranks, IsOwnership(D, w, o, ranks),
         NEW x \in D, NEW y \in D, w[x] = w[y],
         o[x] \in 0 .. ranks - 1, o[y] \in 0 .. ranks - 1
  PROVE  /\ IsOwnership(D, w, [o EXCEPT ![x] = o[y], ![y] = o[x]], ranks)
         /\ LoadsOf([o EXCEPT ![x] = o[y], ![y] = o[x]], w, ranks) = LoadsOf(o, w, ranks)
<1>1. DOMAIN o = D /\ NoRank \notin 0 .. ranks - 1 /\ ranks \in Nat
      /\ o \in [D -> (0 .. ranks - 1) \cup {NoRank}]
  BY DEF NoRank, IsOwnership
<1>2. CASE o[x] = o[y]
  <2>1. [o EXCEPT ![x] = o[y], ![y] = o[x]] = o
    BY <1>1, <1>2
  <2> QED
    BY <2>1
<1>3. CASE o[x] # o[y]
  <2> DEFINE L == LoadsOf(o, w, ranks)
             once == [o EXCEPT ![x] = o[y]]
  <2>1. /\ o[x] # NoRank /\ o[y] # NoRank /\ x # y /\ w[x] \in Nat
    BY <1>1, <1>3 DEF IsOwnership
  <2>2. /\ IsOwnership(D, w, once, ranks)
        /\ LoadsOf(once, w, ranks) = Moved(L, o[x], o[y], w[x])
    BY <1>3, <2>1, MoveLoads
  <2>3. once[y] = o[y]
    BY <1>1, <2>1
  <2>4. [o EXCEPT ![x] = o[y], ![y] = o[x]] = [once EXCEPT ![y] = o[x]]
    BY <1>1, <2>1
  <2>5. L \in [0 .. ranks - 1 -> Nat]
    BY LoadFacts
  <2> HIDE DEF once, L
  <2>6. once[y] # NoRank /\ o[x] # once[y]
    BY <1>3, <2>1, <2>3
  <2>7. /\ IsOwnership(D, w, [once EXCEPT ![y] = o[x]], ranks)
        /\ LoadsOf([once EXCEPT ![y] = o[x]], w, ranks)
             = Moved(LoadsOf(once, w, ranks), once[y], o[x], w[y])
    BY ONLY <2>2, <2>6, y \in D, o[x] \in 0 .. ranks - 1, MoveLoads
  <2>8. Moved(Moved(L, o[x], o[y], w[x]), o[y], o[x], w[x]) = L
    BY ONLY <1>3, <2>1, <2>5, o[x] \in 0 .. ranks - 1, o[y] \in 0 .. ranks - 1, MovedBack
  <2> QED
    BY <2>2, <2>3, <2>4, <2>7, <2>8, w[x] = w[y] DEF L
<1> QED
  BY <1>2, <1>3

(* The targets add up to the rows, and every rank has one. *)
LEMMA TargetFacts ==
  ASSUME NEW n \in Nat, NEW ranks \in 1 .. n
  PROVE  /\ BalancedTargets(n, ranks) \in [0 .. ranks - 1 -> Nat]
         /\ \A r \in 0 .. ranks - 1 : BalancedTargets(n, ranks)[r] >= 1
         /\ SumFunctionOnSet(BalancedTargets(n, ranks), 0 .. ranks - 1) = n
<1> DEFINE R == 0 .. ranks - 1
           f == BalancedTargets(n, ranks)
           q == n \div ranks
           rem == n % ranks
<1>1. ranks \in Nat /\ ranks > 0
  OBVIOUS
<1>2. q \in Nat /\ rem \in 0 .. ranks - 1 /\ n = ranks * q + rem
  BY <1>1
<1>3. \A r \in R : f[r] = q + (IF r < rem THEN 1 ELSE 0)
  BY DEF BalancedTargets
<1> HIDE DEF q, rem, f
<1>4. q >= 1
  <2> SUFFICES ASSUME q = 0 PROVE FALSE
    BY <1>2
  <2>1. ranks * q = 0
    BY <1>1
  <2> QED
    BY <1>2, <2>1
<1>5. f \in [R -> Nat] /\ \A r \in R : f[r] >= 1
  <2>1. \A r \in R : f[r] \in Nat /\ f[r] >= 1
    BY <1>2, <1>3, <1>4
  <2>2. f = [r \in R |-> f[r]]
    BY DEF f, BalancedTargets
  <2> HIDE DEF R
  <2> QED
    BY <2>1, <2>2
<1>6. IsFiniteSet(R) /\ Cardinality(R) = ranks
  BY <1>1, IntervalFinite
<1>7. SumFunctionOnSet(f, R) = q * Cardinality(R) + Cardinality({k \in R : k < rem})
  <2>1. \A k \in R : k \in Nat /\ f[k] = q + (IF k < rem THEN 1 ELSE 0)
    BY <1>3
  <2>2. rem \in Nat
    BY <1>2
  <2>3. q \in Nat
    BY <1>2
  <2> HIDE DEF R
  <2> QED
    BY ONLY <1>6, <2>1, <2>2, <2>3, TargetsSum
<1>8. Cardinality({k \in R : k < rem}) = rem
  <2>1. {k \in R : k < rem} = 0 .. rem - 1
    BY <1>2
  <2>2. rem \in Nat
    BY <1>2
  <2>3. Cardinality(0 .. rem - 1) = rem
    BY ONLY <2>2, IntervalFinite
  <2> QED
    BY <2>1, <2>3
<1>9. q * ranks = ranks * q
  BY <1>1, <1>2
<1> QED
  BY <1>2, <1>5, <1>6, <1>7, <1>8, <1>9 DEF f, R

-----------------------------------------------------------------------------
(* Queues and proposals hold nodes. *)
LEMMA AmongType ==
  ASSUME NEW V, NEW seq \in Seq(V), NEW S
  PROVE  Among(seq, S) \in Seq(V)
<1> DEFINE P == {k \in DOMAIN seq : seq[k] \in S}
           kept == Ascending(P)
<1>1. DOMAIN seq = 1 .. Len(seq) /\ Len(seq) \in Nat /\ \A k \in 1 .. Len(seq) : seq[k] \in V
  OBVIOUS
<1>2. IsFiniteSet(P) /\ P \in SUBSET Int /\ P \subseteq DOMAIN seq
  BY <1>1, IntervalFinite, FS_Subset
<1>3. Among(seq, S) = [k \in DOMAIN kept |-> seq[kept[k]]]
  BY DEF Among
<1> HIDE DEF P
<1>4. Lists(kept, P)
  BY <1>2, AscendingFacts
<1> HIDE DEF kept
<1>5. Len(kept) \in Nat /\ DOMAIN kept = 1 .. Len(kept) /\ \A k \in 1 .. Len(kept) : kept[k] \in DOMAIN seq
  <2>1. kept \in Seq(P)
    BY <1>4 DEF Lists
  <2>2. kept \in Seq(DOMAIN seq)
    BY <1>2, <2>1, SeqMonotonic
  <2> QED
    BY <2>2
<1>6. \A k \in 1 .. Len(kept) : seq[kept[k]] \in V
  BY <1>1, <1>5
<1>7. [k \in 1 .. Len(kept) |-> seq[kept[k]]] \in Seq(V)
  BY <1>5, <1>6, SeqDef
<1> QED
  BY <1>3, <1>5, <1>7

LEMMA AscendingType ==
  ASSUME NEW D \in SUBSET Int, IsFiniteSet(D), NEW S \in SUBSET D
  PROVE  Ascending(S) \in Seq(D)
<1>1. IsFiniteSet(S) /\ S \in SUBSET Int
  BY FS_Subset
<1>2. Ascending(S) \in Seq(S)
  BY <1>1, AscendingFacts DEF Lists
<1> QED
  BY <1>2, SeqMonotonic

LEMMA FlattenType ==
  ASSUME NEW V, NEW n \in Nat, NEW lists \in [1 .. n -> Seq(V)]
  PROVE  FlattenSeq(lists) \in Seq(V)
<1>1. Len(lists) = n
  BY SeqDef, LenProperties
<1>2. CASE n = 0
  <2>1. lists = << >>
    BY <1>2
  <2>2. FlattenSeq(<< >>) = << >>
    BY Zenon DEF FlattenSeq
  <2>3. << >> \in Seq(V)
    OBVIOUS
  <2> QED
    BY ONLY <2>1, <2>2, <2>3
<1>3. CASE n >= 1
  <2> DEFINE F == Flat(lists)
             G == {k \in 0 .. n : k = 0 \/ F[k] \in Seq(V)}
  <2>1. FlattenSeq(lists) = F[n]
    BY <1>1, <1>3, FlatUnfolded
  <2>2. F[1] = lists[1] /\ \A k \in 2 .. n : F[k] = F[k - 1] \o lists[k]
    <3>1. Joins(F, lists, n)
      BY <1>3, FlatIs
    <3> HIDE DEF F
    <3> QED
      BY <3>1 DEF Joins
  <2> HIDE DEF F
  <2>3. 0 \in G
    OBVIOUS
  <2>4. ASSUME NEW k \in 0 .. n - 1, k \in G PROVE k + 1 \in G
    <3>1. k + 1 \in 1 .. n /\ lists[k + 1] \in Seq(V)
      OBVIOUS
    <3>2. CASE k = 0
      BY <2>2, <3>1, <3>2
    <3>3. CASE k # 0
      <4>1. k + 1 \in 2 .. n /\ (k + 1) - 1 = k /\ F[k] \in Seq(V)
        BY <2>4, <3>3
      <4>2. F[k + 1] = F[k] \o lists[k + 1]
        BY <2>2, <4>1
      <4>3. F[k] \o lists[k + 1] \in Seq(V)
        BY <3>1, <4>1
      <4>4. F[k + 1] \in Seq(V) /\ k + 1 \in 0 .. n
        BY <3>1, <4>2, <4>3
      <4> QED
        BY <4>4
    <3> QED
      BY <3>2, <3>3
  <2>5. \A k \in 0 .. n : k \in G
    <3> HIDE DEF G
    <3> QED
      BY <2>3, <2>4, ByNumbers
  <2>6. n \in 0 .. n /\ n # 0
    BY <1>3
  <2> QED
    BY <2>1, <2>5, <2>6
<1> QED
  BY <1>2, <1>3

-----------------------------------------------------------------------------
(* The swaps of a pass: candidates, pairs of them, pairs of ranks. *)
GraphAtHand == IsGraph(adj, weights, input.matrix.n)

LEMMA NodesAtHand ==
  ASSUME GraphAtHand
  PROVE  /\ Size \in Nat /\ IsFiniteSet(NodeSet) /\ NodeSet = 0 .. Size - 1 /\ NodeSet \in SUBSET Int
         /\ adj \in [NodeSet -> SUBSET NodeSet]
         /\ \A i, j \in NodeSet : j \in adj[i] => i # j /\ i \in adj[j]
         /\ \A i \in NodeSet : IsFiniteSet(adj[i]) /\ Cardinality(adj[i]) \in Nat
<1>1. /\ Cardinality(DOMAIN adj) \in Nat /\ IsFiniteSet(DOMAIN adj)
      /\ DOMAIN adj = 0 .. Cardinality(DOMAIN adj) - 1
      /\ \A i, j \in DOMAIN adj : j \in adj[i] => i # j /\ i \in adj[j]
  BY GraphFacts DEF GraphAtHand
<1>2. adj \in [DOMAIN adj -> SUBSET DOMAIN adj]
  BY DEF GraphAtHand, IsGraph
<1>3. \A i \in DOMAIN adj : IsFiniteSet(adj[i]) /\ Cardinality(adj[i]) \in Nat
  <2> TAKE i \in DOMAIN adj
  <2>1. IsFiniteSet(adj[i])
    BY <1>1, <1>2, FS_Subset
  <2> QED
    BY <2>1, FS_CardinalityType
<1>4. DOMAIN adj \in SUBSET Int
  BY <1>1
<1> QED
  BY <1>1, <1>2, <1>3, <1>4 DEF Size, NodeSet

LEMMA LinksType ==
  ASSUME GraphAtHand, NEW i \in NodeSet, NEW r
  PROVE  Links(i, r) \in Nat
<1>1. IsFiniteSet({j \in adj[i] : owners[j] = r})
  BY NodesAtHand, FS_Subset
<1> QED
  BY <1>1, FS_CardinalityType DEF Links

CandidateAt(S, b, k) ==
  CHOOSE x \in S :
    Cardinality({y \in S : Exceeds(<<Gain(y, b), -y>>, <<Gain(x, b), -x>>)}) = k - 1
LEMMA CandidateOrder ==
  ASSUME GraphAtHand, NEW S \in SUBSET NodeSet, NEW b
  PROVE  [k \in 1 .. Cardinality(S) |-> CandidateAt(S, b, k)] \in Seq(S)
<1> DEFINE key == [i \in S |-> <<Gain(i, b), -i>>]
<1>1. IsFiniteSet(S) /\ S \subseteq NodeSet /\ NodeSet \in SUBSET Int
  BY NodesAtHand, FS_Subset
<1>2. \A i \in S : Gain(i, b) \in Int /\ i \in Int
  BY <1>1, LinksType DEF Gain
<1>3. IsKey(key, S, 2)
  BY <1>2 DEF IsKey
<1>4. \A x \in S : Ahead(key, S, x) = {y \in S : Exceeds(<<Gain(y, b), -y>>, <<Gain(x, b), -x>>)}
  BY DEF Ahead
<1> HIDE DEF key
<1>5. Lists(SortedBy(key, S), S)
  BY <1>1, <1>3, SortedLists
<1>6. \A k \in 1 .. Cardinality(S) : CandidateAt(S, b, k) = SortedBy(key, S)[k]
  <2> TAKE k \in 1 .. Cardinality(S)
  <2>1. SortedBy(key, S)[k] = CHOOSE x \in S : Cardinality(Ahead(key, S, x)) = k - 1
    BY DEF SortedBy
  <2>2. CandidateAt(S, b, k) = CHOOSE x \in S : Cardinality(Ahead(key, S, x)) = k - 1
    BY <1>4 DEF CandidateAt
  <2> QED
    BY <2>1, <2>2
<1>7. SortedBy(key, S) = [k \in 1 .. Cardinality(S) |-> SortedBy(key, S)[k]]
  BY DEF SortedBy
<1>8. [k \in 1 .. Cardinality(S) |-> CandidateAt(S, b, k)] = SortedBy(key, S)
  BY <1>6, <1>7
<1> QED
  BY <1>5, <1>8 DEF Lists

OwnedLinked(a, b) == {i \in DOMAIN adj : owners[i] = a /\ Links(i, b) > 0}
Foremost(order) == SubSeq(order, 1, IF Len(order) < 8 THEN Len(order) ELSE 8)
LEMMA CandidatesUnfolded ==
  ASSUME NEW a, NEW b
  PROVE  Candidates(a, b)
           = ToSet(Foremost([k \in 1 .. Cardinality(OwnedLinked(a, b)) |-> CandidateAt(OwnedLinked(a, b), b, k)]))
  BY Zenon DEF Candidates, Sorted, CandidateAt, OwnedLinked, Foremost

LEMMA CandidatesInside ==
  ASSUME GraphAtHand, NEW a, NEW b
  PROVE  Candidates(a, b) \in SUBSET NodeSet
<1> DEFINE S == OwnedLinked(a, b)
           order == [k \in 1 .. Cardinality(S) |-> CandidateAt(S, b, k)]
<1>1. S \in SUBSET NodeSet
  BY DEF OwnedLinked, NodeSet
<1>2. Candidates(a, b) = ToSet(Foremost(order))
  BY CandidatesUnfolded
<1> HIDE DEF S
<1>3. order \in Seq(S)
  BY <1>1, CandidateOrder
<1> HIDE DEF order
<1>4. Foremost(order) \in Seq(S)
  <2> DEFINE m == IF Len(order) < 8 THEN Len(order) ELSE 8
  <2>1. Len(order) \in Nat /\ m \in Nat /\ m <= Len(order)
    BY <1>3
  <2>2. SubSeq(order, 1, m) \in Seq(S)
    <3> HIDE DEF m
    <3>1. \A k \in 1 .. m : order[k] \in S
      BY <1>3, <2>1
    <3>2. SubSeq(order, 1, m) = [k \in 1 .. m |-> order[k]]
      BY <1>3, <2>1
    <3> QED
      BY <2>1, <3>1, <3>2, SeqDef
  <2> QED
    BY <2>2 DEF Foremost
<1>5. ToSet(Foremost(order)) \subseteq S
  BY <1>4, SetOf
<1> QED
  BY <1>1, <1>2, <1>5

PairAt(S, k) ==
  CHOOSE x \in S :
    Cardinality({y \in S : Exceeds(<<Net(y), -y[1], -y[2]>>, <<Net(x), -x[1], -x[2]>>)}) = k - 1
LEMMA PairOrder2 ==
  ASSUME GraphAtHand, NEW S \in SUBSET (NodeSet \X NodeSet)
  PROVE  [k \in 1 .. Cardinality(S) |-> PairAt(S, k)] \in Seq(S)
<1> DEFINE key == [c \in S |-> <<Net(c), -c[1], -c[2]>>]
<1>1. IsFiniteSet(S) /\ NodeSet \in SUBSET Int
  <2>1. IsFiniteSet(NodeSet \X NodeSet)
    BY NodesAtHand, FS_Product
  <2> QED
    BY <2>1, NodesAtHand, FS_Subset
<1>2. \A c \in S : c[1] \in NodeSet /\ c[2] \in NodeSet /\ c = <<c[1], c[2]>>
  OBVIOUS
<1>3. \A c \in S : c[1] \in Int /\ c[2] \in Int /\ Net(c) \in Int
  <2> TAKE c \in S
  <2>1. c[1] \in NodeSet /\ c[2] \in NodeSet /\ c[1] \in Int /\ c[2] \in Int
    BY <1>1, <1>2
  <2>2. \A r : Gain(c[1], r) \in Int /\ Gain(c[2], r) \in Int
    BY <2>1, LinksType DEF Gain
  <2> QED
    BY <2>1, <2>2 DEF Net
<1>4. IsKey(key, S, 3)
  <2>1. \A c \in S : key[c] = <<Net(c), -c[1], -c[2]>> /\ key[c] \in [1 .. 3 -> Int]
    BY <1>3
  <2>2. ASSUME NEW c \in S, NEW d \in S, c # d PROVE key[c] # key[d]
    <3>1. SUFFICES ASSUME key[c] = key[d] PROVE FALSE
      OBVIOUS
    <3>2. -c[1] = -d[1] /\ -c[2] = -d[2]
      BY <2>1, <3>1
    <3>3. c[1] = d[1] /\ c[2] = d[2]
      BY <1>3, <3>2
    <3> QED
      BY <1>2, <2>2, <3>3
  <2> HIDE DEF key
  <2> QED
    BY <2>1, <2>2 DEF IsKey
<1>5. \A x \in S : Ahead(key, S, x)
                     = {y \in S : Exceeds(<<Net(y), -y[1], -y[2]>>, <<Net(x), -x[1], -x[2]>>)}
  BY DEF Ahead
<1> HIDE DEF key
<1>6. Lists(SortedBy(key, S), S)
  BY <1>1, <1>4, SortedLists
<1>7. \A k \in 1 .. Cardinality(S) : PairAt(S, k) = SortedBy(key, S)[k]
  <2> TAKE k \in 1 .. Cardinality(S)
  <2>1. SortedBy(key, S)[k] = CHOOSE x \in S : Cardinality(Ahead(key, S, x)) = k - 1
    BY DEF SortedBy
  <2>2. PairAt(S, k) = CHOOSE x \in S : Cardinality(Ahead(key, S, x)) = k - 1
    BY <1>5 DEF PairAt
  <2> QED
    BY <2>1, <2>2
<1>8. SortedBy(key, S) = [k \in 1 .. Cardinality(S) |-> SortedBy(key, S)[k]]
  BY DEF SortedBy
<1>9. [k \in 1 .. Cardinality(S) |-> PairAt(S, k)] = SortedBy(key, S)
  BY <1>7, <1>8
<1> QED
  BY <1>6, <1>9 DEF Lists

Profitable(a, b) == {c \in Candidates(a, b) \X Candidates(b, a) : Net(c) > 0}
LEMMA PairsUnfolded ==
  ASSUME NEW a, NEW b
  PROVE  PairProposals(a, b) = [k \in 1 .. Cardinality(Profitable(a, b)) |-> PairAt(Profitable(a, b), k)]
  BY Zenon DEF PairProposals, Sorted, PairAt, Profitable

LEMMA PairsInside ==
  ASSUME GraphAtHand, NEW a, NEW b
  PROVE  PairProposals(a, b) \in Seq(NodeSet \X NodeSet)
<1> DEFINE S == Profitable(a, b)
<1>1. S \in SUBSET (NodeSet \X NodeSet)
  BY CandidatesInside DEF Profitable
<1> HIDE DEF S
<1>2. [k \in 1 .. Cardinality(S) |-> PairAt(S, k)] \in Seq(S)
  BY <1>1, PairOrder2
<1>3. [k \in 1 .. Cardinality(S) |-> PairAt(S, k)] \in Seq(NodeSet \X NodeSet)
  BY <1>1, <1>2, SeqMonotonic
<1> QED
  BY <1>3, PairsUnfolded DEF S

Couples == {p \in RankSet \X RankSet : p[1] < p[2]}
CoupleAt(k) ==
  CHOOSE x \in Couples :
    Cardinality({y \in Couples : Exceeds(<<-y[1], -y[2]>>, <<-x[1], -x[2]>>)}) = k - 1
LEMMA CouplesUnfolded == RankPairs = [k \in 1 .. Cardinality(Couples) |-> CoupleAt(k)]
  BY Zenon DEF RankPairs, Sorted, CoupleAt, Couples

LEMMA RankPairsInside ==
  ASSUME Ranks \in Nat
  PROVE  RankPairs \in Seq(RankSet \X RankSet)
<1> DEFINE S == Couples
           key == [p \in S |-> <<-p[1], -p[2]>>]
<1>1. S \in SUBSET (RankSet \X RankSet) /\ IsFiniteSet(RankSet) /\ RankSet \in SUBSET Int
  BY IntervalFinite DEF Couples, RankSet
<1>2. IsFiniteSet(S)
  BY <1>1, FS_Product, FS_Subset
<1> HIDE DEF S
<1>3. \A p \in S : p[1] \in Int /\ p[2] \in Int /\ p = <<p[1], p[2]>>
  <2> TAKE p \in S
  <2>1. p \in RankSet \X RankSet
    BY <1>1
  <2>2. p[1] \in RankSet /\ p[2] \in RankSet /\ p = <<p[1], p[2]>>
    BY <2>1
  <2> QED
    BY <1>1, <2>2
<1>4. IsKey(key, S, 2)
  <2>1. \A p \in S : key[p] = <<-p[1], -p[2]>> /\ key[p] \in [1 .. 2 -> Int]
    BY <1>3
  <2>2. ASSUME NEW p \in S, NEW q \in S, p # q PROVE key[p] # key[q]
    <3>1. SUFFICES ASSUME key[p] = key[q] PROVE FALSE
      OBVIOUS
    <3>2. -p[1] = -q[1] /\ -p[2] = -q[2]
      BY <2>1, <3>1
    <3>3. p[1] = q[1] /\ p[2] = q[2]
      BY <1>3, <3>2
    <3> QED
      BY <1>3, <2>2, <3>3
  <2> HIDE DEF key
  <2> QED
    BY <2>1, <2>2 DEF IsKey
<1>5. \A x \in S : Ahead(key, S, x) = {y \in S : Exceeds(<<-y[1], -y[2]>>, <<-x[1], -x[2]>>)}
  BY DEF Ahead
<1> HIDE DEF key
<1>6. Lists(SortedBy(key, S), S)
  BY <1>2, <1>4, SortedLists
<1>7. \A k \in 1 .. Cardinality(S) : CoupleAt(k) = SortedBy(key, S)[k]
  <2> TAKE k \in 1 .. Cardinality(S)
  <2>1. SortedBy(key, S)[k] = CHOOSE x \in S : Cardinality(Ahead(key, S, x)) = k - 1
    BY DEF SortedBy
  <2>2. CoupleAt(k) = CHOOSE x \in S :
           Cardinality({y \in S : Exceeds(<<-y[1], -y[2]>>, <<-x[1], -x[2]>>)}) = k - 1
    BY DEF CoupleAt, S
  <2>3. CoupleAt(k) = CHOOSE x \in S : Cardinality(Ahead(key, S, x)) = k - 1
    BY <1>5, <2>2
  <2> QED
    BY <2>1, <2>3
<1>8. SortedBy(key, S) = [k \in 1 .. Cardinality(S) |-> SortedBy(key, S)[k]]
  BY DEF SortedBy
<1>9. RankPairs = SortedBy(key, S)
  BY <1>7, <1>8, CouplesUnfolded DEF S
<1> QED
  BY <1>1, <1>6, <1>9, SeqMonotonic DEF Lists

Trades == [a : RankSet, b : RankSet, x : NodeSet, y : NodeSet]
Scored ==
  FlattenSeq([k \in DOMAIN RankPairs |->
    LET a == RankPairs[k][1]  b == RankPairs[k][2]
        pairs == PairProposals(a, b)
    IN  [j \in DOMAIN pairs |-> [a |-> a, b |-> b, x |-> pairs[j][1], y |-> pairs[j][2]]]])
LEMMA ScoredTrades ==
  ASSUME GraphAtHand, Ranks \in Nat
  PROVE  Scored \in Seq(Trades)
<1> DEFINE Listed(k) == LET a == RankPairs[k][1]  b == RankPairs[k][2]
                            pairs == PairProposals(a, b)
                        IN  [j \in DOMAIN pairs |-> [a |-> a, b |-> b, x |-> pairs[j][1], y |-> pairs[j][2]]]
           m == Len(RankPairs)
<1>1. RankPairs \in Seq(RankSet \X RankSet)
  BY RankPairsInside
<1>2. m \in Nat /\ DOMAIN RankPairs = 1 .. m /\ \A k \in 1 .. m : RankPairs[k] \in RankSet \X RankSet
  BY <1>1
<1>3. ASSUME NEW k \in 1 .. m PROVE Listed(k) \in Seq(Trades)
  <2> DEFINE a == RankPairs[k][1]
             b == RankPairs[k][2]
             pairs == PairProposals(a, b)
  <2>1. a \in RankSet /\ b \in RankSet
    BY <1>2
  <2> HIDE DEF a, b
  <2>2. pairs \in Seq(NodeSet \X NodeSet)
    BY PairsInside
  <2>3. Listed(k) = [j \in DOMAIN pairs |-> [a |-> a, b |-> b, x |-> pairs[j][1], y |-> pairs[j][2]]]
    BY DEF a, b
  <2> HIDE DEF pairs, Listed
  <2>4. Len(pairs) \in Nat /\ DOMAIN pairs = 1 .. Len(pairs)
        /\ \A j \in 1 .. Len(pairs) : pairs[j][1] \in NodeSet /\ pairs[j][2] \in NodeSet
    BY <2>2
  <2>5. \A j \in 1 .. Len(pairs) : [a |-> a, b |-> b, x |-> pairs[j][1], y |-> pairs[j][2]] \in Trades
    BY <2>1, <2>4 DEF Trades
  <2>6. Listed(k) \in [1 .. Len(pairs) -> Trades]
    BY <2>3, <2>4, <2>5
  <2> QED
    BY <2>4, <2>6, SeqDef
<1>4. Scored = FlattenSeq([k \in 1 .. m |-> Listed(k)])
  BY <1>2 DEF Scored
<1> HIDE DEF Listed, m
<1>5. [k \in 1 .. m |-> Listed(k)] \in [1 .. m -> Seq(Trades)]
  BY <1>3
<1>6. FlattenSeq([k \in 1 .. m |-> Listed(k)]) \in Seq(Trades)
  BY ONLY <1>2, <1>5, FlattenType
<1> QED
  BY <1>4, <1>6

-----------------------------------------------------------------------------
(* The hierarchy, with the graph at hand as its coarsest level. *)
AdjAt(ls, a, k) == IF k = Len(ls) + 1 THEN a ELSE ls[k].adj
WeightsAt(ls, w, k) == IF k = Len(ls) + 1 THEN w ELSE ls[k].weights
Hierarchy(ls, a, w, total) ==
  /\ ls \in Seq(ToSet(ls))
  /\ \A k \in 1 .. Len(ls) + 1 : IsGraph(AdjAt(ls, a, k), WeightsAt(ls, w, k), total)
  /\ \A k \in 1 .. Len(ls) : Merges(ls[k].of, WeightsAt(ls, w, k), WeightsAt(ls, w, k + 1))
  /\ \A i \in DOMAIN WeightsAt(ls, w, 1) : WeightsAt(ls, w, 1)[i] = 1

Coarsening == {"coarsen", "grow"} \cup Refining
Counting == Growing \cup Refining \cup {"done"}

(* What the calls have in common. *)
CallInv ==
  /\ input \in Inputs
  /\ phase \in {"enter", "coarsen", "done"} \cup Growing \cup Refining \cup Failures
  /\ Hierarchy(levels, adj, weights, input.matrix.n)
  /\ owners \in [NodeSet -> RankSet \cup {NoRank}]
  /\ phase \in Coarsening => input.method = "multilevel" /\ OptionsValid
  /\ phase \in {"region", "multisource"} => input.method = phase /\ levels = <<>>
  /\ phase \in {"coarsen"} \cup Counting => Ranks \in 1 .. input.matrix.n
  /\ phase \in Growing =>
        /\ frontiers \in [RankSet -> Seq(NodeSet)] /\ rank \in 0 .. Ranks
  /\ phase = "enter" => /\ Free = NodeSet /\ loads = [r \in RankSet |-> 0]
                        /\ frontiers = [r \in RankSet |-> <<>>] /\ rank = 0 /\ levels = <<>>
  /\ phase \in {"enter", "coarsen"} \cup Growing => node = 0
  /\ phase = "refine" => node \in 0 .. Size
  /\ phase \in {"score", "swap"} => levels = <<>>
  /\ phase = "swap" => proposals \in Seq(Trades)

(* What the ranks own. *)
LoadInv ==
  /\ phase \in Counting => loads = LoadsOf(owners, weights, Ranks)
  /\ phase = "region" =>
        /\ \A r \in RankSet : loads[r] <= Targets[r] /\ (r < rank => loads[r] = Targets[r])
        /\ rank < Ranks
  /\ phase = "multisource" => \A r \in RankSet : loads[r] <= Targets[r]
  /\ phase \in {"grow"} \cup Refining => \A r \in RankSet : loads[r] <= Cap
  /\ phase = "grow" \/ phase \in {"score", "swap"} => \A r \in RankSet : loads[r] >= 1
  /\ phase = "refine" => \A r \in RankSet : loads[r] >= 1 \/ Floor = 0
  /\ phase \in Refining \cup {"done"} => Free = {}
  /\ phase = "empty rank" => Floor = 0
  /\ phase = "done" =>
        IF input.method = "multilevel"
        THEN \A r \in RankSet : loads[r] \in 1 .. Cap
        ELSE loads = Targets
PartitionInv == CallInv /\ LoadInv

-----------------------------------------------------------------------------
(* The hierarchy grows by one level and loses it again. *)
LEMMA OwnSet ==
  ASSUME NEW S, NEW seq \in Seq(S)
  PROVE  seq \in Seq(ToSet(seq))
<1>1. Len(seq) \in Nat /\ DOMAIN seq = 1 .. Len(seq) /\ seq = [k \in 1 .. Len(seq) |-> seq[k]]
  OBVIOUS
<1>2. \A k \in 1 .. Len(seq) : seq[k] \in ToSet(seq)
  BY <1>1 DEF ToSet
<1>3. [k \in 1 .. Len(seq) |-> seq[k]] \in Seq(ToSet(seq))
  BY <1>1, <1>2, SeqDef
<1> QED
  BY <1>1, <1>3

LEMMA FrontIs ==
  ASSUME NEW S, NEW seq \in Seq(S), seq # << >>
  PROVE  /\ Front(seq) \in Seq(S) /\ Len(Front(seq)) = Len(seq) - 1 /\ Last(seq) = seq[Len(seq)]
         /\ \A k \in 1 .. Len(seq) - 1 : Front(seq)[k] = seq[k]
<1>1. Len(seq) \in Nat /\ Len(seq) >= 1 /\ \A k \in 1 .. Len(seq) : seq[k] \in S
  OBVIOUS
<1>2. Front(seq) = SubSeq(seq, 1, Len(seq) - 1)
  BY DEF Front
<1>3. SubSeq(seq, 1, Len(seq) - 1) = [k \in 1 .. Len(seq) - 1 |-> seq[k]]
  BY <1>1
<1>4. /\ [k \in 1 .. Len(seq) - 1 |-> seq[k]] \in Seq(S)
      /\ Len([k \in 1 .. Len(seq) - 1 |-> seq[k]]) = Len(seq) - 1
  <2>1. Len(seq) - 1 \in Nat /\ \A k \in 1 .. Len(seq) - 1 : seq[k] \in S
    BY <1>1
  <2>2. [k \in 1 .. Len(seq) - 1 |-> seq[k]] \in [1 .. Len(seq) - 1 -> S]
    BY <2>1
  <2> QED
    BY <2>1, <2>2, SeqDef, LenProperties
<1> QED
  BY <1>2, <1>3, <1>4 DEF Last

LEMMA HierarchyTop ==
  ASSUME NEW ls, NEW a, NEW w, NEW total, Hierarchy(ls, a, w, total)
  PROVE  /\ IsGraph(a, w, total) /\ Len(ls) \in Nat
         /\ ls = << >> => \A i \in DOMAIN w : w[i] = 1
<1>1. ls \in Seq(ToSet(ls)) /\ Len(ls) \in Nat
  BY DEF Hierarchy
<1>2. IsGraph(a, w, total)
  <2>1. Len(ls) + 1 \in 1 .. Len(ls) + 1
    BY <1>1
  <2>2. AdjAt(ls, a, Len(ls) + 1) = a /\ WeightsAt(ls, w, Len(ls) + 1) = w
    BY DEF AdjAt, WeightsAt
  <2>3. IsGraph(AdjAt(ls, a, Len(ls) + 1), WeightsAt(ls, w, Len(ls) + 1), total)
    BY <2>1 DEF Hierarchy
  <2> QED
    BY <2>2, <2>3
<1>3. ASSUME ls = << >> PROVE WeightsAt(ls, w, 1) = w
  BY <1>3 DEF WeightsAt
<1> QED
  BY <1>1, <1>2, <1>3 DEF Hierarchy

LEMMA HierarchyGrows ==
  ASSUME NEW ls, NEW a, NEW w, NEW total, Hierarchy(ls, a, w, total),
         NEW b, NEW v, NEW of, IsGraph(b, v, total), Merges(of, w, v)
  PROVE  Hierarchy(Append(ls, [adj |-> a, weights |-> w, of |-> of]), b, v, total)
<1> DEFINE top == [adj |-> a, weights |-> w, of |-> of]
           new == Append(ls, top)
           n == Len(ls)
<1>1. ls \in Seq(ToSet(ls)) /\ n \in Nat
  BY DEF Hierarchy
<1>2. /\ top.adj = a /\ top.weights = w /\ top.of = of
  OBVIOUS
<1> HIDE DEF top
<1>3. /\ Len(new) = n + 1 /\ new[n + 1] = top /\ \A k \in 1 .. n : new[k] = ls[k]
      /\ DOMAIN new = 1 .. n + 1
  BY <1>1
<1>4. new \in Seq(ToSet(new))
  <2>1. ls \in Seq(ToSet(ls) \cup {top})
    BY <1>1, SeqMonotonic
  <2>2. new \in Seq(ToSet(ls) \cup {top})
    BY <2>1
  <2> HIDE DEF new
  <2> QED
    BY <2>2, OwnSet
<1> HIDE DEF new
<1>5. \A k \in 1 .. n + 1 : AdjAt(new, b, k) = AdjAt(ls, a, k) /\ WeightsAt(new, v, k) = WeightsAt(ls, w, k)
  <2> TAKE k \in 1 .. n + 1
  <2>1. k # Len(new) + 1
    BY <1>1, <1>3
  <2>2. AdjAt(new, b, k) = new[k].adj /\ WeightsAt(new, v, k) = new[k].weights
    BY <2>1 DEF AdjAt, WeightsAt
  <2>3. CASE k = n + 1
    BY <1>2, <1>3, <2>2, <2>3 DEF AdjAt, WeightsAt
  <2>4. CASE k # n + 1
    <3>1. k \in 1 .. n
      BY <1>1, <2>4
    <3> QED
      BY <1>3, <2>2, <2>4, <3>1 DEF AdjAt, WeightsAt
  <2> QED
    BY <2>3, <2>4
<1>6. AdjAt(new, b, n + 2) = b /\ WeightsAt(new, v, n + 2) = v
  BY <1>1, <1>3 DEF AdjAt, WeightsAt
<1>7. ASSUME NEW k \in 1 .. Len(new) + 1
      PROVE  IsGraph(AdjAt(new, b, k), WeightsAt(new, v, k), total)
  <2>1. k \in 1 .. n + 1 \/ k = n + 2
    BY <1>1, <1>3
  <2>2. CASE k \in 1 .. n + 1
    BY <1>5, <2>2 DEF Hierarchy
  <2>3. CASE k = n + 2
    BY <1>6, <2>3
  <2> QED
    BY <2>1, <2>2, <2>3
<1>8. ASSUME NEW k \in 1 .. Len(new)
      PROVE  Merges(new[k].of, WeightsAt(new, v, k), WeightsAt(new, v, k + 1))
  <2>1. k \in 1 .. n + 1
    BY <1>3
  <2>2. CASE k = n + 1
    <3>1. WeightsAt(ls, w, n + 1) = w /\ k + 1 = n + 2
      BY <1>1, <2>2 DEF WeightsAt
    <3> QED
      BY <1>2, <1>3, <1>5, <1>6, <2>1, <2>2, <3>1
  <2>3. CASE k # n + 1
    <3>1. k \in 1 .. n /\ k + 1 \in 1 .. n + 1
      BY <1>1, <2>1, <2>3
    <3>2. Merges(ls[k].of, WeightsAt(ls, w, k), WeightsAt(ls, w, k + 1))
      BY <3>1 DEF Hierarchy
    <3> QED
      BY <1>3, <1>5, <2>1, <3>1, <3>2
  <2> QED
    BY <2>2, <2>3
<1>9. WeightsAt(new, v, 1) = WeightsAt(ls, w, 1)
  BY <1>1, <1>5
<1>10. \A i \in DOMAIN WeightsAt(new, v, 1) : WeightsAt(new, v, 1)[i] = 1
  BY <1>9 DEF Hierarchy
<1>11. Hierarchy(new, b, v, total)
  BY <1>4, <1>7, <1>8, <1>10 DEF Hierarchy
<1> QED
  BY <1>11 DEF new, top

LEMMA HierarchyShrinks ==
  ASSUME NEW ls, NEW a, NEW w, NEW total, Hierarchy(ls, a, w, total), ls # << >>
  PROVE  /\ Hierarchy(Front(ls), Last(ls).adj, Last(ls).weights, total)
         /\ Merges(Last(ls).of, Last(ls).weights, w)
<1> DEFINE n == Len(ls)
           new == Front(ls)
           b == Last(ls).adj
           v == Last(ls).weights
<1>1. ls \in Seq(ToSet(ls)) /\ n \in Nat /\ n >= 1 /\ n - 1 \in Nat
  BY DEF Hierarchy
<1>2. /\ Last(ls) = ls[n] /\ new \in Seq(ToSet(ls)) /\ Len(new) = n - 1
      /\ \A k \in 1 .. n - 1 : new[k] = ls[k]
  BY <1>1, FrontIs
<1> HIDE DEF new
<1>3. new \in Seq(ToSet(new))
  BY <1>2, OwnSet
<1>4. \A k \in 1 .. n : AdjAt(new, b, k) = AdjAt(ls, a, k) /\ WeightsAt(new, v, k) = WeightsAt(ls, w, k)
  <2> TAKE k \in 1 .. n
  <2>1. k # n + 1
    BY <1>1
  <2>2. AdjAt(ls, a, k) = ls[k].adj /\ WeightsAt(ls, w, k) = ls[k].weights
    BY <2>1 DEF AdjAt, WeightsAt
  <2>3. CASE k = n
    <3>1. k = Len(new) + 1
      BY <1>1, <1>2, <2>3
    <3> QED
      BY <1>2, <2>2, <2>3, <3>1 DEF AdjAt, WeightsAt
  <2>4. CASE k # n
    <3>1. k \in 1 .. n - 1 /\ k # Len(new) + 1
      BY <1>1, <1>2, <2>4
    <3>2. AdjAt(new, b, k) = new[k].adj /\ WeightsAt(new, v, k) = new[k].weights
      BY <3>1 DEF AdjAt, WeightsAt
    <3> QED
      BY <1>2, <2>2, <3>1, <3>2
  <2> QED
    BY <2>3, <2>4
<1> HIDE DEF b, v
<1>5. \A k \in 1 .. Len(new) + 1 : IsGraph(AdjAt(new, b, k), WeightsAt(new, v, k), total)
  <2> TAKE k \in 1 .. Len(new) + 1
  <2>1. k \in 1 .. n /\ k \in 1 .. n + 1
    BY <1>1, <1>2
  <2> QED
    BY <1>4, <2>1 DEF Hierarchy
<1>6. \A k \in 1 .. Len(new) : Merges(new[k].of, WeightsAt(new, v, k), WeightsAt(new, v, k + 1))
  <2> TAKE k \in 1 .. Len(new)
  <2>1. k \in 1 .. n - 1 /\ k \in 1 .. n /\ k + 1 \in 1 .. n
    BY <1>1, <1>2
  <2>2. Merges(ls[k].of, WeightsAt(ls, w, k), WeightsAt(ls, w, k + 1))
    BY <2>1 DEF Hierarchy
  <2> QED
    BY <1>2, <1>4, <2>1, <2>2
<1>7. WeightsAt(new, v, 1) = WeightsAt(ls, w, 1)
  BY <1>1, <1>4
<1>8. \A i \in DOMAIN WeightsAt(new, v, 1) : WeightsAt(new, v, 1)[i] = 1
  BY <1>7 DEF Hierarchy
<1>9. Hierarchy(new, b, v, total)
  BY <1>3, <1>5, <1>6, <1>8 DEF Hierarchy
<1>10. Merges(ls[n].of, v, w)
  <2>1. n \in 1 .. n /\ n # n + 1
    BY <1>1
  <2>2. Merges(ls[n].of, WeightsAt(ls, w, n), WeightsAt(ls, w, n + 1))
    BY <2>1 DEF Hierarchy
  <2>3. WeightsAt(ls, w, n) = v /\ WeightsAt(ls, w, n + 1) = w
    BY <1>2, <2>1 DEF WeightsAt, v
  <2> QED
    BY <2>2, <2>3
<1> QED
  BY <1>2, <1>9, <1>10 DEF new, b, v

-----------------------------------------------------------------------------
(* What every state of a call gives. *)
LEMMA CapTypes ==
  ASSUME NEW total \in Nat, NEW ranks \in Nat, ranks >= 1, NEW per \in Nat
  PROVE  /\ LoadCap(total, ranks, per) \in Int /\ MinimumLoad(total, ranks, per) \in Int
         /\ per <= 500 => MinimumLoad(total, ranks, per) \in Nat
<1> DEFINE d == ranks * 1000
           x == total * (1000 + per)
           y == total * (1000 - per)
<1>1. d \in Nat /\ d > 0 /\ x \in Int /\ y \in Int
  OBVIOUS
<1>2. per <= 500 => y \in Nat
  <2>1. per <= 500 => 1000 - per \in Nat
    OBVIOUS
  <2> QED
    BY <2>1
<1>3. LoadCap(total, ranks, per) = x \div d /\ MinimumLoad(total, ranks, per) = y \div d
  BY DEF LoadCap, MinimumLoad
<1> HIDE DEF d, x, y
<1>4. x \div d \in Int /\ y \div d \in Int /\ (y \in Nat => y \div d \in Nat)
  BY ONLY <1>1
<1> QED
  BY <1>2, <1>3, <1>4

LEMMA RanksAtHand ==
  ASSUME Ranks \in Nat
  PROVE  IsFiniteSet(RankSet) /\ RankSet \in SUBSET Int
<1>1. IsFiniteSet(0 .. Ranks - 1)
  BY IntervalFinite
<1>2. 0 .. Ranks - 1 \in SUBSET Int
  OBVIOUS
<1> QED
  BY <1>1, <1>2 DEF RankSet

LEMMA Basics ==
  ASSUME CallInv
  PROVE  /\ input.matrix.n \in Nat /\ IsPattern(input.matrix) /\ Ranks \in Nat
         /\ input.method \in Methods /\ input.imbalance_per_mille \in Nat
         /\ GraphAtHand
         /\ Free = Owned(owners, NoRank) /\ IsOwnership(NodeSet, weights, owners, Ranks)
         /\ DOMAIN weights = NodeSet /\ \A i \in NodeSet : weights[i] \in Nat /\ weights[i] >= 1
         /\ TotalWeight(weights) = input.matrix.n
         /\ SumFunctionOnSet(weights, NodeSet) = input.matrix.n
<1>1. /\ input.matrix.n \in Nat /\ IsPattern(input.matrix) /\ Ranks \in Nat
      /\ input.method \in Methods /\ input.imbalance_per_mille \in Nat
  BY InputAssumption DEF CallInv, IsPattern, Ranks
<1>2. GraphAtHand
  BY HierarchyTop DEF CallInv, GraphAtHand
<1>3. /\ DOMAIN weights = NodeSet /\ (\A i \in NodeSet : weights[i] \in Nat /\ weights[i] >= 1)
      /\ TotalWeight(weights) = input.matrix.n
  BY <1>2, GraphFacts DEF GraphAtHand, NodeSet
<1>4. SumFunctionOnSet(weights, NodeSet) = input.matrix.n
  BY <1>2 DEF GraphAtHand, IsGraph, NodeSet
<1>5. Free = Owned(owners, NoRank)
  BY DEF Free, Owned
<1>6. IsOwnership(NodeSet, weights, owners, Ranks)
  <2>1. IsFiniteSet(NodeSet)
    BY <1>2, NodesAtHand
  <2>2. owners \in [NodeSet -> (0 .. Ranks - 1) \cup {NoRank}]
    BY DEF CallInv, RankSet
  <2> QED
    BY <1>1, <1>3, <2>1, <2>2 DEF IsOwnership
<1> QED
  BY <1>1, <1>2, <1>3, <1>4, <1>5, <1>6

LEMMA Bounds ==
  ASSUME CallInv, Ranks >= 1
  PROVE  /\ Cap \in Int /\ Floor \in Int
         /\ OptionsValid => Floor \in Nat
<1>1. /\ input.matrix.n \in Nat /\ Ranks \in Nat /\ input.imbalance_per_mille \in Nat
      /\ TotalWeight(weights) = input.matrix.n
  BY Basics
<1>2. /\ Cap = LoadCap(input.matrix.n, Ranks, input.imbalance_per_mille)
      /\ Floor = MinimumLoad(input.matrix.n, Ranks, input.imbalance_per_mille)
  BY <1>1 DEF Cap, Floor
<1>3. /\ LoadCap(input.matrix.n, Ranks, input.imbalance_per_mille) \in Int
      /\ MinimumLoad(input.matrix.n, Ranks, input.imbalance_per_mille) \in Int
      /\ input.imbalance_per_mille <= 500
            => MinimumLoad(input.matrix.n, Ranks, input.imbalance_per_mille) \in Nat
  BY <1>1, CapTypes
<1> QED
  BY <1>2, <1>3 DEF OptionsValid

(* The finest graph has a node per row. *)
LEMMA Finest ==
  ASSUME CallInv, levels = << >>
  PROVE  /\ \A i \in NodeSet : weights[i] = 1
         /\ Size = input.matrix.n /\ NodeSet = Nodes(input.matrix)
<1>1. \A i \in NodeSet : weights[i] = 1
  BY Basics, HierarchyTop DEF CallInv
<1>2. SumFunctionOnSet(weights, NodeSet) = 1 * Cardinality(NodeSet)
  <2>1. IsFiniteSet(NodeSet) /\ 1 \in {0, 1}
    BY Basics, NodesAtHand
  <2> QED
    BY ONLY <1>1, <2>1, SumConstant
<1>3. Size = Cardinality(NodeSet) /\ Size \in Nat /\ NodeSet = 0 .. Size - 1
  BY Basics, NodesAtHand DEF Size, NodeSet
<1>4. Size = input.matrix.n
  BY <1>2, <1>3, Basics
<1> QED
  BY <1>1, <1>3, <1>4 DEF Nodes

LEMMA SameGraph ==
  ASSUME input' = input, adj' = adj, weights' = weights
  PROVE  /\ Ranks' = Ranks /\ RankSet' = RankSet /\ NodeSet' = NodeSet /\ Size' = Size
         /\ Cap' = Cap /\ Floor' = Floor /\ Targets' = Targets /\ OptionsValid' = OptionsValid
  BY DEF Ranks, RankSet, NodeSet, Size, Cap, Floor, Targets, OptionsValid

(* What the loads tell of the nodes nobody owns. *)
LEMMA FreeLoad ==
  ASSUME CallInv, loads = LoadsOf(owners, weights, Ranks), Ranks \in 1 .. input.matrix.n,
         \A r \in RankSet : loads[r] <= Targets[r]
  PROVE  /\ Free = {} => loads = Targets
         /\ loads = Targets => Free = {}
<1> DEFINE R == 0 .. Ranks - 1
           n == input.matrix.n
           L == LoadsOf(owners, weights, Ranks)
           T == BalancedTargets(n, Ranks)
<1>1. /\ IsOwnership(NodeSet, weights, owners, Ranks) /\ n \in Nat /\ Free = Owned(owners, NoRank)
      /\ SumFunctionOnSet(weights, NodeSet) = n
      /\ \A i \in NodeSet : weights[i] \in Nat /\ weights[i] >= 1
  BY Basics
<1>2. L \in [R -> Nat] /\ Free \subseteq NodeSet /\ IsFiniteSet(Free)
  BY <1>1, LoadFacts
<1>3. /\ SumFunctionOnSet(L, R) + SumFunctionOnSet(weights, Free) = n
      /\ SumFunctionOnSet(L, R) \in Nat /\ SumFunctionOnSet(weights, Free) \in Nat
  BY <1>1, LoadsAddUp
<1>4. T \in [R -> Nat] /\ SumFunctionOnSet(T, R) = n
  BY <1>1, TargetFacts
<1>5. IsFiniteSet(R) /\ RankSet = R /\ Targets = T /\ loads = L
  BY <1>1, IntervalFinite, Basics DEF RankSet, Targets
<1> HIDE DEF R, T, L, n
<1>6. ASSUME Free = {} PROVE L = T
  <2>1. SumFunctionOnSet(weights, Free) = 0
    BY <1>6, SumEmpty
  <2>2. SumFunctionOnSet(T, R) <= SumFunctionOnSet(L, R)
    BY <1>1, <1>3, <1>4, <2>1
  <2>3. \A x \in R : L[x] \in Nat /\ T[x] \in Nat /\ L[x] <= T[x]
    BY <1>2, <1>4, <1>5
  <2>4. \A x \in R : L[x] = T[x]
    BY ONLY <1>5, <2>2, <2>3, SumTight
  <2> QED
    BY <1>2, <1>4, <2>4
<1>7. ASSUME L = T PROVE Free = {}
  <2>1. SumFunctionOnSet(weights, Free) = 0
    BY <1>3, <1>4, <1>7
  <2>2. SUFFICES ASSUME NEW i \in Free PROVE FALSE
    OBVIOUS
  <2>3. \A x \in Free : weights[x] \in Nat
    BY <1>1, <1>2
  <2>4. SumFunctionOnSet(weights, Free) = weights[i] + SumFunctionOnSet(weights, Free \ {i})
    BY ONLY <1>2, <2>2, <2>3, SumWithout
  <2>5. SumFunctionOnSet(weights, Free \ {i}) \in Nat
    <3>1. IsFiniteSet(Free \ {i}) /\ \A x \in Free \ {i} : weights[x] \in Nat
      BY <1>2, <2>3, FS_Subset
    <3> QED
      BY ONLY <3>1, SumType
  <2> QED
    BY <1>1, <1>2, <2>1, <2>2, <2>4, <2>5
<1> QED
  BY <1>5, <1>6, <1>7

-----------------------------------------------------------------------------
(* The invariant: at the start. *)
LEMMA PatternGraph ==
  ASSUME NEW m, IsPattern(m)
  PROVE  IsGraph(UndirectedAdjacency(m), [i \in Nodes(m) |-> 1], m.n)
<1> DEFINE D == Nodes(m)
           a == UndirectedAdjacency(m)
           w == [i \in D |-> 1]
<1>1. m.n \in Nat /\ D = 0 .. m.n - 1 /\ IsFiniteSet(D) /\ Cardinality(D) = m.n
  BY IntervalFinite DEF IsPattern, Nodes
<1>2. \A i \in D : Row(m, i) \subseteq D /\ Column(m, i) \subseteq D
  BY DEF IsPattern, Row, Column
<1>3. a = [i \in D |-> (Row(m, i) \cup Column(m, i)) \ {i}]
  BY DEF UndirectedAdjacency
<1>4. a \in [D -> SUBSET D]
  BY <1>2, <1>3
<1>5. \A i, j \in D : j \in Row(m, i) <=> i \in Column(m, j)
  BY DEF Row, Column
<1>6. DOMAIN a = D /\ \A i \in D : a[i] = (Row(m, i) \cup Column(m, i)) \ {i}
  BY <1>3
<1>7. \A i, j \in D : j \in a[i] => i # j /\ i \in a[j]
  BY <1>5, <1>6
<1>8. SumFunctionOnSet(w, D) = m.n
  <2>1. \A i \in D : w[i] = 1
    OBVIOUS
  <2>2. 1 \in {0, 1}
    OBVIOUS
  <2> HIDE DEF w, D
  <2>3. SumFunctionOnSet(w, D) = 1 * Cardinality(D)
    BY ONLY <1>1, <2>1, <2>2, SumConstant
  <2> QED
    BY <1>1, <2>3
<1>9. w \in [D -> Nat \ {0}]
  OBVIOUS
<1> HIDE DEF a, w, D
<1>10. IsGraph(a, w, m.n)
  BY <1>1, <1>4, <1>6, <1>7, <1>8, <1>9 DEF IsGraph
<1> QED
  BY <1>10 DEF a, w, D

LEMMA HierarchyStarts ==
  ASSUME NEW a, NEW w, NEW total, IsGraph(a, w, total), \A i \in DOMAIN w : w[i] = 1
  PROVE  Hierarchy(<< >>, a, w, total)
<1>1. << >> \in Seq(ToSet(<< >>)) /\ Len(<< >>) = 0
  OBVIOUS
<1>2. AdjAt(<< >>, a, 1) = a /\ WeightsAt(<< >>, w, 1) = w
  BY <1>1 DEF AdjAt, WeightsAt
<1>3. \A k \in 1 .. Len(<< >>) + 1 : k = 1
  BY <1>1
<1>4. \A k \in 1 .. Len(<< >>) : FALSE
  BY <1>1
<1> QED
  BY <1>1, <1>2, <1>3, <1>4 DEF Hierarchy

LEMMA PartitionStarts == ASSUME Init PROVE PartitionInv
<1> USE DEF Init
<1>1. IsPattern(input.matrix) /\ input.matrix.n \in Nat /\ Ranks \in Nat
  BY InputAssumption DEF IsPattern, Ranks
<1>2. Hierarchy(levels, adj, weights, input.matrix.n)
  <2>1. IsGraph(adj, weights, input.matrix.n)
    BY <1>1, PatternGraph
  <2>2. \A i \in DOMAIN weights : weights[i] = 1
    OBVIOUS
  <2> QED
    BY <2>1, <2>2, HierarchyStarts
<1>3. NodeSet = Nodes(input.matrix)
  BY DEF NodeSet, UndirectedAdjacency
<1>4. owners \in [NodeSet -> RankSet \cup {NoRank}] /\ Free = NodeSet
  BY <1>3 DEF Free
<1>5. loads = [r \in RankSet |-> 0] /\ frontiers = [r \in RankSet |-> <<>>]
  OBVIOUS
<1>6. phase = "enter" /\ input \in Inputs /\ rank = 0 /\ node = 0 /\ levels = << >>
  OBVIOUS
<1> HIDE DEF Init
<1>7. CallInv
  BY <1>2, <1>4, <1>5, <1>6 DEF CallInv, Coarsening, Counting, Growing, Refining
<1>8. LoadInv
  BY <1>6 DEF LoadInv, Coarsening, Counting, Growing, Refining
<1> QED
  BY <1>7, <1>8 DEF PartitionInv

-----------------------------------------------------------------------------
(* One lemma per action. *)
LEMMA PlantKeeps ==
  ASSUME CallInv, Ranks \in 1 .. Size,
         NEW degree, \A i \in NodeSet : degree[i] \in Int,
         NEW neighbours, \A i \in NodeSet : neighbours[i] \in Seq(NodeSet),
         PlantSeeds(degree, neighbours)
  PROVE  /\ owners' \in [NodeSet -> RankSet \cup {NoRank}]
         /\ loads' = LoadsOf(owners', weights, Ranks)
         /\ frontiers' \in [RankSet -> Seq(NodeSet)] /\ rank' = 0
         /\ \A r \in RankSet : \E i \in NodeSet : loads'[r] = weights[i]
<1> DEFINE seeds == SpreadSeeds(adj, degree, Ranks)
<1>1. /\ Size \in Nat /\ NodeSet = 0 .. Size - 1 /\ IsFiniteSet(NodeSet)
      /\ \A i \in NodeSet : weights[i] \in Nat
      /\ DOMAIN owners = NodeSet /\ DOMAIN adj = NodeSet /\ Ranks \in Nat
  BY Basics, NodesAtHand DEF CallInv, NodeSet
<1>2. seeds \in Seq(NodeSet) /\ Len(seeds) = Ranks /\ Distinct(seeds)
  <2>1. DOMAIN adj = 0 .. Size - 1 /\ (\A i \in 0 .. Size - 1 : degree[i] \in Int) /\ Size \in Nat
    BY <1>1
  <2>2. /\ SpreadSeeds(adj, degree, Ranks) \in Seq(0 .. Size - 1)
        /\ Len(SpreadSeeds(adj, degree, Ranks)) = Ranks
        /\ Distinct(SpreadSeeds(adj, degree, Ranks))
    BY ONLY <2>1, Ranks \in 1 .. Size, SeedsFacts
  <2> QED
    BY <1>1, <2>2
<1>3. /\ owners' = Planted(NodeSet, seeds)
      /\ loads' = [r \in RankSet |-> weights[seeds[r + 1]]]
      /\ frontiers' = [r \in RankSet |-> Among(neighbours[seeds[r + 1]], DOMAIN adj \ ToSet(seeds))]
      /\ rank' = 0
  BY <1>1 DEF PlantSeeds, Planted
<1> HIDE DEF seeds
<1>4. /\ IsOwnership(NodeSet, weights, owners', Ranks)
      /\ \A r \in RankSet :
            seeds[r + 1] \in NodeSet /\ LoadsOf(owners', weights, Ranks)[r] = weights[seeds[r + 1]]
  <2>1. /\ IsOwnership(NodeSet, weights, Planted(NodeSet, seeds), Ranks)
        /\ \A r \in 0 .. Ranks - 1 :
              seeds[r + 1] \in NodeSet /\ LoadsOf(Planted(NodeSet, seeds), weights, Ranks)[r] = weights[seeds[r + 1]]
    <3>1. /\ IsFiniteSet(NodeSet) /\ (\A i \in NodeSet : weights[i] \in Nat) /\ seeds \in Seq(NodeSet)
          /\ Distinct(seeds) /\ Ranks \in Nat /\ Len(seeds) = Ranks
      BY <1>1, <1>2
    <3> QED
      BY ONLY <3>1, PlantedLoads
  <2> QED
    BY <1>3, <2>1 DEF RankSet
<1>5. LoadsOf(owners', weights, Ranks) = [r \in RankSet |-> LoadsOf(owners', weights, Ranks)[r]]
  BY DEF LoadsOf, RankSet
<1>6. loads' = LoadsOf(owners', weights, Ranks)
  BY <1>3, <1>4, <1>5
<1>7. \A r \in RankSet : \E i \in NodeSet : loads'[r] = weights[i]
  BY <1>3, <1>4
<1>8. \A r \in RankSet : Among(neighbours[seeds[r + 1]], DOMAIN adj \ ToSet(seeds)) \in Seq(NodeSet)
  BY <1>4, AmongType
<1>9. frontiers' \in [RankSet -> Seq(NodeSet)]
  BY <1>3, <1>8
<1>10. owners' \in [NodeSet -> RankSet \cup {NoRank}]
  BY <1>4 DEF IsOwnership, RankSet
<1> QED
  BY <1>3, <1>6, <1>7, <1>9, <1>10

LEMMA RowThenColumnType ==
  ASSUME IsPattern(input.matrix), NEW i \in Nodes(input.matrix)
  PROVE  /\ RowThenColumn(i) \in Seq(Nodes(input.matrix))
         /\ NodeDegree(input.matrix)[i] \in Int
<1> DEFINE D == Nodes(input.matrix)
<1>1. D \in SUBSET Int /\ IsFiniteSet(D)
  BY IntervalFinite DEF Nodes, IsPattern
<1>2. Row(input.matrix, i) \in SUBSET D /\ Column(input.matrix, i) \in SUBSET D
  BY DEF Row, Column, IsPattern
<1>3. /\ Ascending(Row(input.matrix, i) \ {i}) \in Seq(D)
      /\ Ascending(Column(input.matrix, i) \ {i}) \in Seq(D)
  BY <1>1, <1>2, AscendingType
<1>4. Cardinality(Row(input.matrix, i)) \in Nat /\ Cardinality(Column(input.matrix, i)) \in Nat
  BY <1>1, <1>2, FS_Subset, FS_CardinalityType
<1> HIDE DEF D
<1>5. RowThenColumn(i) \in Seq(D)
  BY <1>3 DEF RowThenColumn
<1>6. NodeDegree(input.matrix)[i] = Cardinality(Row(input.matrix, i)) + Cardinality(Column(input.matrix, i))
  BY DEF NodeDegree
<1> QED
  BY <1>4, <1>5, <1>6 DEF D

(* Nobody owns anything before the loops. *)
LEMMA NothingOwned ==
  ASSUME CallInv, Free = NodeSet
  PROVE  LoadsOf(owners, weights, Ranks) = [r \in RankSet |-> 0]
<1>1. NoRank \notin RankSet /\ DOMAIN owners = NodeSet
  BY Basics DEF NoRank, RankSet, CallInv
<1>2. \A r \in RankSet : {i \in DOMAIN owners : owners[i] = r} = {}
  BY <1>1 DEF Free
<1>3. \A r \in RankSet : SumFunctionOnSet(weights, {i \in DOMAIN owners : owners[i] = r}) = 0
  BY <1>2, SumEmpty
<1> QED
  BY <1>3 DEF LoadsOf, RankSet

LEMMA EnterKeeps == ASSUME PartitionInv, Enter PROVE PartitionInv'
<1>1. CallInv /\ phase = "enter" /\ Free = NodeSet /\ loads = [r \in RankSet |-> 0]
      /\ frontiers = [r \in RankSet |-> <<>>] /\ rank = 0 /\ levels = <<>> /\ node = 0
  BY DEF PartitionInv, CallInv, Enter
<1>2. /\ input' = input /\ levels' = levels /\ adj' = adj /\ weights' = weights
      /\ node' = node /\ proposals' = proposals
  BY DEF Enter, graphVars, refineVars
<1>3. /\ Ranks' = Ranks /\ RankSet' = RankSet /\ NodeSet' = NodeSet /\ Size' = Size
      /\ Cap' = Cap /\ Floor' = Floor /\ Targets' = Targets /\ OptionsValid' = OptionsValid
  BY <1>2, SameGraph
<1>4. /\ input.matrix.n \in Nat /\ IsPattern(input.matrix) /\ Ranks \in Nat
      /\ input.method \in Methods /\ Size = input.matrix.n /\ NodeSet = Nodes(input.matrix)
  BY <1>1, Basics, Finest
<1>5. input' \in Inputs /\ Hierarchy(levels', adj', weights', input'.matrix.n)
      /\ owners \in [NodeSet -> RankSet \cup {NoRank}]
  BY <1>1, <1>2 DEF CallInv
<1>6. phase' = IF input.method = "multilevel" /\ ~OptionsValid THEN "invalid options"
                ELSE IF Ranks = 0 \/ Ranks > input.matrix.n THEN "invalid rank count"
                ELSE IF input.method = "multilevel" THEN "coarsen" ELSE input.method
  BY DEF Enter
<1>7. CASE phase' = "multisource"
  <2>1. /\ Ranks \in 1 .. Size /\ Ranks \in 1 .. input.matrix.n /\ input.method = "multisource"
    BY <1>4, <1>6, <1>7
  <2>2. PlantSeeds(NodeDegree(input.matrix), [i \in Nodes(input.matrix) |-> RowThenColumn(i)])
    BY <1>7 DEF Enter
  <2>3. /\ \A i \in NodeSet : NodeDegree(input.matrix)[i] \in Int
        /\ \A i \in NodeSet : [j \in Nodes(input.matrix) |-> RowThenColumn(j)][i] \in Seq(NodeSet)
    BY <1>4, RowThenColumnType
  <2> DEFINE near == [i \in Nodes(input.matrix) |-> RowThenColumn(i)]
  <2> HIDE DEF near
  <2>4. /\ owners' \in [NodeSet -> RankSet \cup {NoRank}]
        /\ loads' = LoadsOf(owners', weights, Ranks)
        /\ frontiers' \in [RankSet -> Seq(NodeSet)] /\ rank' = 0
        /\ \A r \in RankSet : \E i \in NodeSet : loads'[r] = weights[i]
    BY <1>1, <2>1, <2>2, <2>3, PlantKeeps DEF near
  <2>5. \A r \in RankSet : loads'[r] <= Targets[r]
    <3>1. \A r \in RankSet : loads'[r] = 1
      BY <1>1, <2>4, Finest
    <3>2. \A r \in RankSet : Targets[r] \in Nat /\ Targets[r] >= 1
      BY <1>4, <2>1, TargetFacts DEF Targets, RankSet
    <3> QED
      BY <3>1, <3>2
  <2>6. CallInv'
    BY <1>1, <1>2, <1>3, <1>4, <1>5, <1>7, <2>1, <2>4 DEF CallInv, Coarsening, Counting, Growing, Refining
  <2>7. LoadInv'
    BY <1>2, <1>3, <1>7, <2>4, <2>5 DEF LoadInv, Coarsening, Counting, Growing, Refining
  <2> QED
    BY <2>6, <2>7 DEF PartitionInv
<1>8. CASE phase' # "multisource"
  <2>1. owners' = owners /\ loads' = loads /\ frontiers' = frontiers /\ rank' = rank
    BY <1>8 DEF Enter
  <2>2. loads' = LoadsOf(owners', weights', Ranks')
    BY <1>1, <1>2, <1>3, <2>1, NothingOwned
  <2>3. \/ phase' \in {"invalid options", "invalid rank count"}
        \/ /\ phase' = "coarsen" /\ input.method = "multilevel" /\ OptionsValid
           /\ Ranks \in 1 .. input.matrix.n
        \/ phase' = "region" /\ input.method = "region" /\ Ranks \in 1 .. input.matrix.n
    <3>1. CASE input.method = "multilevel" /\ ~OptionsValid
      BY <1>6, <3>1
    <3>2. CASE ~(input.method = "multilevel" /\ ~OptionsValid) /\ (Ranks = 0 \/ Ranks > input.matrix.n)
      BY <1>6, <3>2
    <3>3. CASE ~(input.method = "multilevel" /\ ~OptionsValid) /\ ~(Ranks = 0 \/ Ranks > input.matrix.n)
      <4>1. Ranks \in 1 .. input.matrix.n
        BY <1>4, <3>3
      <4>2. phase' = IF input.method = "multilevel" THEN "coarsen" ELSE input.method
        BY <1>6, <3>3
      <4>3. input.method \in {"region", "multisource", "multilevel"}
        BY <1>4 DEF Methods
      <4> QED
        BY <1>8, <3>3, <4>1, <4>2, <4>3
    <3> QED
      BY <3>1, <3>2, <3>3
  <2>4. phase' = "region" => \A r \in RankSet : loads[r] <= Targets[r] /\ ~(r < rank)
    <3>1. SUFFICES ASSUME phase' = "region", NEW r \in RankSet PROVE loads[r] <= Targets[r] /\ ~(r < rank)
      OBVIOUS
    <3>2. Ranks \in 1 .. input.matrix.n /\ loads[r] = 0 /\ rank = 0 /\ r \in Nat
      BY <1>1, <1>4, <2>3, <3>1 DEF RankSet
    <3>3. Targets[r] \in Nat
      <4>1. input.matrix.n \in Nat /\ RankSet = 0 .. Ranks - 1
        BY <1>4 DEF RankSet
      <4>2. BalancedTargets(input.matrix.n, Ranks) \in [RankSet -> Nat]
        BY ONLY <3>2, <4>1, TargetFacts
      <4> QED
        BY <3>1, <4>2 DEF Targets
    <3> QED
      BY <3>2, <3>3
  <2>5. frontiers' \in [RankSet -> Seq(NodeSet)]
    <3>1. << >> \in Seq(NodeSet)
      OBVIOUS
    <3> QED
      BY <1>1, <2>1, <3>1
  <2>6. owners' \in [NodeSet' -> RankSet' \cup {NoRank}]
    BY <1>3, <1>5, <2>1
  <2>7. CASE phase' \in {"invalid options", "invalid rank count"}
    <3>1. CallInv'
      BY <1>1, <1>2, <1>5, <2>6, <2>7 DEF CallInv, Coarsening, Counting, Growing, Refining, Failures
    <3>2. LoadInv'
      BY <2>7 DEF LoadInv, Coarsening, Counting, Growing, Refining, Failures
    <3> QED
      BY <3>1, <3>2 DEF PartitionInv
  <2>8. CASE phase' = "coarsen" /\ input.method = "multilevel" /\ OptionsValid /\ Ranks \in 1 .. input.matrix.n
    <3>1. CallInv'
      BY <1>1, <1>2, <1>3, <1>5, <2>6, <2>8 DEF CallInv, Coarsening, Counting, Growing, Refining, Failures
    <3>2. LoadInv'
      BY <2>8 DEF LoadInv, Coarsening, Counting, Growing, Refining, Failures
    <3> QED
      BY <3>1, <3>2 DEF PartitionInv
  <2>9. CASE phase' = "region" /\ input.method = "region" /\ Ranks \in 1 .. input.matrix.n
    <3>1. rank' \in 0 .. Ranks /\ rank' < Ranks
      BY <1>1, <1>4, <2>1, <2>9
    <3>2. CallInv'
      BY <1>1, <1>2, <1>3, <1>5, <2>5, <2>6, <2>9, <3>1 DEF CallInv, Coarsening, Counting, Growing, Refining, Failures
    <3>3. LoadInv'
      BY <1>3, <2>1, <2>2, <2>4, <2>9, <3>1
         DEF LoadInv, Coarsening, Counting, Growing, Refining, Failures
    <3> QED
      BY <3>2, <3>3 DEF PartitionInv
  <2> QED
    BY <2>3, <2>7, <2>8, <2>9
<1> QED
  BY <1>7, <1>8

-----------------------------------------------------------------------------
(* Growth: rank r claims the free nodes of s. *)
LEMMA DistinctCount ==
  ASSUME NEW S, NEW seq \in Seq(S), Distinct(seq)
  PROVE  IsFiniteSet(ToSet(seq)) /\ Cardinality(ToSet(seq)) = Len(seq)
<1> DEFINE D == 1 .. Len(seq)
<1>1. Len(seq) \in Nat /\ DOMAIN seq = D /\ seq = [k \in D |-> seq[k]]
  OBVIOUS
<1>2. /\ \A x \in ToSet(seq) : \E k \in D : seq[k] = x
      /\ \A k \in D : seq[k] \in ToSet(seq)
  BY SetOf
<1>3. \A j, k \in D : seq[j] = seq[k] => j = k
  BY DEF Distinct
<1>4. IsFiniteSet(D) /\ Cardinality(D) = Len(seq)
  BY <1>1, IntervalFinite
<1>5. seq \in [D -> ToSet(seq)]
  BY <1>1, <1>2
<1> HIDE DEF D
<1>6. seq \in Bijection(D, ToSet(seq))
  BY <1>2, <1>3, <1>5 DEF Bijection, Injection, Surjection, IsInjective
<1> QED
  BY <1>4, <1>6, FS_Bijection DEF ExistsBijection

Growth == CallInv /\ loads = LoadsOf(owners, weights, Ranks)
LEMMA Claims ==
  ASSUME Growth, NEW s \in SUBSET Free, NEW r \in RankSet
  PROVE  /\ Claiming(owners, s, r) \in [NodeSet -> RankSet \cup {NoRank}]
         /\ LoadsOf(Claiming(owners, s, r), weights, Ranks) = Raised(loads, r, SumFunctionOnSet(weights, s))
         /\ loads \in [RankSet -> Nat]
         /\ SumFunctionOnSet(weights, s) \in Nat
<1>1. /\ IsOwnership(NodeSet, weights, owners, Ranks) /\ Free = Owned(owners, NoRank)
      /\ loads = LoadsOf(owners, weights, Ranks)
  BY Basics DEF Growth
<1>2. /\ IsOwnership(NodeSet, weights, Claiming(owners, s, r), Ranks)
      /\ LoadsOf(Claiming(owners, s, r), weights, Ranks)
           = Raised(LoadsOf(owners, weights, Ranks), r, SumFunctionOnSet(weights, s))
  BY <1>1, ClaimLoads DEF RankSet
<1>3. loads \in [RankSet -> Nat]
  BY <1>1, LoadFacts DEF RankSet
<1>4. SumFunctionOnSet(weights, s) \in Nat
  <2>1. IsFiniteSet(Free) /\ Free \subseteq NodeSet
    BY <1>1, LoadFacts
  <2>2. IsFiniteSet(s) /\ \A i \in s : weights[i] \in Nat
    BY <2>1, FS_Subset, Basics DEF Growth
  <2> QED
    BY ONLY <2>2, SumType
<1>5. Claiming(owners, s, r) \in [NodeSet -> RankSet \cup {NoRank}]
  BY <1>2 DEF IsOwnership, RankSet
<1> QED
  BY <1>1, <1>2, <1>3, <1>4, <1>5

LEMMA ClaimsOne ==
  ASSUME Growth, NEW i \in Free, NEW r \in RankSet, NEW queue \in Seq(NodeSet),
         frontiers \in [RankSet -> Seq(NodeSet)], Claim(r, i, queue)
  PROVE  /\ i \in NodeSet /\ weights[i] \in Nat /\ weights[i] >= 1
         /\ owners' \in [NodeSet -> RankSet \cup {NoRank}]
         /\ loads' = LoadsOf(owners', weights, Ranks)
         /\ frontiers' \in [RankSet -> Seq(NodeSet)]
         /\ loads \in [RankSet -> Nat]
         /\ loads' = Raised(loads, r, weights[i])
<1>1. /\ IsOwnership(NodeSet, weights, owners, Ranks) /\ Free = Owned(owners, NoRank)
      /\ loads = LoadsOf(owners, weights, Ranks)
  BY Basics DEF Growth
<1>2. /\ IsOwnership(NodeSet, weights, [owners EXCEPT ![i] = r], Ranks)
      /\ LoadsOf([owners EXCEPT ![i] = r], weights, Ranks)
           = Raised(LoadsOf(owners, weights, Ranks), r, weights[i])
  <2>1. i \in Owned(owners, NoRank) /\ r \in 0 .. Ranks - 1
    BY <1>1 DEF RankSet
  <2> QED
    BY ONLY <1>1, <2>1, ClaimOne
<1>3. loads \in [RankSet -> Nat]
  BY <1>1, LoadFacts DEF RankSet
<1>4. i \in NodeSet /\ weights[i] \in Nat /\ weights[i] >= 1
  BY <1>1, Basics, LoadFacts DEF Growth
<1>5. /\ owners' = [owners EXCEPT ![i] = r] /\ loads' = Raised(loads, r, weights[i])
      /\ frontiers' = [frontiers EXCEPT ![r] = queue]
  BY DEF Claim, Raised
<1>6. owners' \in [NodeSet -> RankSet \cup {NoRank}]
  BY <1>2, <1>5 DEF IsOwnership, RankSet
<1>7. frontiers' \in [RankSet -> Seq(NodeSet)]
  BY <1>5
<1>8. loads' = LoadsOf(owners', weights, Ranks)
  BY <1>1, <1>2, <1>5
<1> QED
  BY <1>3, <1>4, <1>5, <1>6, <1>7, <1>8

-----------------------------------------------------------------------------
(* Region growth. *)
RegionState ==
  /\ Growth /\ phase = "region" /\ input.method = "region" /\ levels = << >>
  /\ Ranks \in 1 .. input.matrix.n /\ rank \in RankSet /\ rank \in 0 .. Ranks /\ rank < Ranks
  /\ frontiers \in [RankSet -> Seq(NodeSet)] /\ node = 0
  /\ loads \in [RankSet -> Nat] /\ Targets \in [RankSet -> Nat]
  /\ \A r \in RankSet : loads[r] <= Targets[r] /\ (r < rank => loads[r] = Targets[r])
LEMMA RegionFacts == ASSUME PartitionInv, phase = "region" PROVE RegionState
<1>1. /\ Growth /\ input.method = "region" /\ levels = << >> /\ Ranks \in 1 .. input.matrix.n
      /\ rank \in 0 .. Ranks /\ rank < Ranks /\ frontiers \in [RankSet -> Seq(NodeSet)] /\ node = 0
      /\ \A r \in RankSet : loads[r] <= Targets[r] /\ (r < rank => loads[r] = Targets[r])
  BY DEF PartitionInv, CallInv, LoadInv, Growth, Counting, Growing
<1>2. IsOwnership(NodeSet, weights, owners, Ranks) /\ input.matrix.n \in Nat
  BY <1>1, Basics DEF Growth
<1>3. loads \in [RankSet -> Nat]
  BY <1>1, <1>2, LoadFacts DEF RankSet, Growth
<1>4. Targets \in [RankSet -> Nat]
  BY <1>1, <1>2, TargetFacts DEF Targets, RankSet
<1>5. rank \in RankSet
  BY <1>1, <1>2 DEF RankSet
<1> QED
  BY <1>1, <1>3, <1>4, <1>5 DEF RegionState

RegionGrows(e) ==
  /\ UNCHANGED <<graphVars, refineVars, phase, rank>>
  /\ owners' \in [NodeSet -> RankSet \cup {NoRank}]
  /\ loads' = LoadsOf(owners', weights, Ranks)
  /\ loads' = Raised(loads, rank, e) /\ loads[rank] + e <= Targets[rank]
  /\ frontiers' \in [RankSet -> Seq(NodeSet)]
LEMMA RegionStays ==
  ASSUME PartitionInv, phase = "region", loads[rank] < Targets[rank], NEW e \in Nat, RegionGrows(e)
  PROVE  PartitionInv'
<1>1. RegionState
  BY RegionFacts
<1>2. /\ input' = input /\ levels' = levels /\ adj' = adj /\ weights' = weights
      /\ phase' = "region" /\ rank' = rank /\ node' = node
  BY DEF RegionGrows, graphVars, refineVars
<1>3. /\ Ranks' = Ranks /\ RankSet' = RankSet /\ NodeSet' = NodeSet /\ Targets' = Targets
  BY <1>2, SameGraph
<1>4. ASSUME NEW r \in RankSet
      PROVE  loads'[r] <= Targets[r] /\ (r < rank => loads'[r] = Targets[r])
  <2>1. CASE r = rank
    <3>1. loads'[r] = loads[r] + e /\ ~(r < rank)
      BY <1>1, <2>1 DEF RegionGrows, Raised, RegionState
    <3> QED
      BY <2>1, <3>1 DEF RegionGrows
  <2>2. CASE r # rank
    <3>1. loads'[r] = loads[r]
      BY <1>1, <2>2 DEF RegionGrows, Raised, RegionState
    <3> QED
      BY <1>1, <3>1 DEF RegionState
  <2> QED
    BY <2>1, <2>2
<1>5. input' \in Inputs /\ Hierarchy(levels', adj', weights', input'.matrix.n)
  BY <1>1, <1>2 DEF RegionState, Growth, CallInv
<1>6. CallInv'
  BY <1>1, <1>2, <1>3, <1>5 DEF CallInv, RegionState, RegionGrows, Coarsening, Counting, Growing, Refining
<1>7. LoadInv'
  <2>1. loads' = LoadsOf(owners', weights', Ranks') /\ rank' < Ranks'
    <3>1. loads' = LoadsOf(owners', weights, Ranks) /\ rank < Ranks
      BY <1>1 DEF RegionState, RegionGrows
    <3> QED
      BY <1>2, <1>3, <3>1
  <2>2. \A r \in RankSet' : loads'[r] <= Targets'[r] /\ (r < rank' => loads'[r] = Targets'[r])
    BY <1>2, <1>3, <1>4
  <2> QED
    BY <1>2, <2>1, <2>2 DEF LoadInv, Coarsening, Counting, Growing, Refining
<1> QED
  BY <1>6, <1>7 DEF PartitionInv

(* A rank below its target finds a free node. *)
LEMMA FreeLeft ==
  ASSUME Growth, Ranks \in 1 .. input.matrix.n,
         \A r \in RankSet : loads[r] <= Targets[r],
         NEW r \in RankSet, loads[r] < Targets[r], loads[r] \in Nat
  PROVE  Free # {}
<1>1. loads # Targets
  <2>1. SUFFICES ASSUME loads = Targets PROVE FALSE
    OBVIOUS
  <2>2. loads[r] < loads[r]
    BY <2>1
  <2> QED
    BY <2>2
<1> QED
  BY <1>1, FreeLoad DEF Growth

LEMMA SeedIsFree ==
  ASSUME CallInv, levels = << >>, Free # {}
  PROVE  ChooseSeed(Free, NodeDegree(input.matrix)) \in Free
<1>1. Free \subseteq NodeSet /\ NodeSet = Nodes(input.matrix)
  BY Finest DEF CallInv, Free
<1>2. IsFiniteSet(Free) /\ Free \in SUBSET Int
  BY <1>1, Basics, NodesAtHand, FS_Subset
<1>3. \A i \in Free : NodeDegree(input.matrix)[i] \in Int
  BY <1>1, Basics, RowThenColumnType
<1> QED
  BY ONLY <1>2, <1>3, Free # {}, SeedChosen

LEMMA RegionSeedKeeps == ASSUME PartitionInv, RegionSeed PROVE PartitionInv'
<1> DEFINE seed == ChooseSeed(Free, NodeDegree(input.matrix))
<1>1. phase = "region" /\ RegionState
  BY RegionFacts DEF RegionSeed
<1>2. /\ Growth /\ CallInv /\ levels = << >> /\ Ranks \in 1 .. input.matrix.n /\ rank \in RankSet
      /\ loads \in [RankSet -> Nat] /\ frontiers \in [RankSet -> Seq(NodeSet)]
      /\ \A r \in RankSet : loads[r] <= Targets[r]
      /\ Targets \in [RankSet -> Nat]
  BY <1>1 DEF RegionState, Growth
<1>3. loads[rank] < Targets[rank] /\ Claim(rank, seed, <<seed>>) /\ UNCHANGED <<graphVars, refineVars, phase, rank>>
  BY DEF RegionSeed
<1>4. Free # {}
  BY <1>2, <1>3, FreeLeft
<1>5. seed \in Free
  BY <1>2, <1>4, SeedIsFree
<1> HIDE DEF seed
<1>6. <<seed>> \in Seq(NodeSet)
  <2>1. seed \in NodeSet
    BY <1>2, <1>5 DEF Free, CallInv
  <2> QED
    BY <2>1
<1>7. /\ seed \in NodeSet /\ owners' \in [NodeSet -> RankSet \cup {NoRank}]
      /\ loads' = LoadsOf(owners', weights, Ranks)
      /\ frontiers' \in [RankSet -> Seq(NodeSet)]
      /\ loads' = Raised(loads, rank, weights[seed])
  BY <1>2, <1>3, <1>5, <1>6, ClaimsOne
<1>8. weights[seed] = 1
  BY <1>2, <1>7, Finest
<1>9. loads[rank] + 1 <= Targets[rank]
  BY <1>2, <1>3
<1>10. RegionGrows(1)
  BY <1>3, <1>7, <1>8, <1>9 DEF RegionGrows
<1> QED
  BY <1>1, <1>3, <1>10, RegionStays

LEMMA PrefixOf ==
  ASSUME NEW S, NEW seq \in Seq(S), Distinct(seq), NEW m \in 0 .. Len(seq)
  PROVE  /\ SubSeq(seq, 1, m) \in Seq(S) /\ Len(SubSeq(seq, 1, m)) = m
         /\ Distinct(SubSeq(seq, 1, m))
<1>1. Len(seq) \in Nat /\ m \in Nat /\ m <= Len(seq) /\ \A k \in 1 .. Len(seq) : seq[k] \in S
  OBVIOUS
<1>2. SubSeq(seq, 1, m) = [k \in 1 .. m |-> seq[k]]
  BY <1>1
<1>3. [k \in 1 .. m |-> seq[k]] \in [1 .. m -> S]
  BY <1>1
<1>4. [k \in 1 .. m |-> seq[k]] \in Seq(S) /\ Len([k \in 1 .. m |-> seq[k]]) = m
  BY <1>1, <1>3, SeqDef, LenProperties
<1>5. \A j, k \in 1 .. m : j # k => seq[j] # seq[k]
  BY <1>1 DEF Distinct
<1> QED
  BY <1>2, <1>4, <1>5 DEF Distinct

LEMMA RegionExpandKeeps == ASSUME PartitionInv, RegionExpand PROVE PartitionInv'
<1> DEFINE head == Head(frontiers[rank])
           row == Row(input.matrix, head) \cap Free
           column == (Column(input.matrix, head) \cap Free) \ row
           found == Ascending(row) \o Ascending(column)
           room == Targets[rank] - loads[rank]
           claimed == IF Len(found) <= room THEN found ELSE SubSeq(found, 1, room)
<1>1. phase = "region" /\ RegionState
  BY RegionFacts DEF RegionExpand
<1>2. /\ Growth /\ CallInv /\ levels = << >> /\ Ranks \in 1 .. input.matrix.n /\ rank \in RankSet
      /\ loads \in [RankSet -> Nat] /\ frontiers \in [RankSet -> Seq(NodeSet)]
      /\ Targets \in [RankSet -> Nat]
  BY <1>1 DEF RegionState, Growth
<1>3. /\ loads[rank] < Targets[rank] /\ frontiers[rank] # << >> /\ UNCHANGED <<graphVars, refineVars, phase, rank>>
      /\ owners' = [i \in DOMAIN owners |-> IF i \in ToSet(claimed) THEN rank ELSE owners[i]]
      /\ loads' = [loads EXCEPT ![rank] = @ + Len(claimed)]
      /\ frontiers' = [frontiers EXCEPT ![rank] = Tail(@) \o claimed]
  BY DEF RegionExpand
<1>4. Free \subseteq NodeSet /\ IsFiniteSet(Free) /\ Free \in SUBSET Int
  <2>1. Free \subseteq NodeSet
    BY <1>2 DEF Free, CallInv
  <2> QED
    BY <1>2, <2>1, Basics, NodesAtHand, FS_Subset
<1>5. /\ row \in SUBSET Free /\ column \in SUBSET Free /\ row \cap column = {}
  OBVIOUS
<1> HIDE DEF row, column
<1>6. /\ IsFiniteSet(row) /\ IsFiniteSet(column) /\ row \in SUBSET Int /\ column \in SUBSET Int
  BY <1>4, <1>5, FS_Subset
<1>7. Lists(Ascending(row), row) /\ Lists(Ascending(column), column)
  BY <1>6, AscendingFacts
<1>8. Lists(found, row \cup column)
  BY ONLY <1>5, <1>6, <1>7, Joined
<1> HIDE DEF found
<1>9. found \in Seq(Free) /\ Distinct(found) /\ Len(found) \in Nat
  <2>1. found \in Seq(row \cup column) /\ row \cup column \subseteq Free
    BY <1>5, <1>8 DEF Lists
  <2>2. found \in Seq(Free)
    BY <2>1, SeqMonotonic
  <2>3. Distinct(found)
    BY <1>8 DEF Lists, Distinct
  <2>4. Len(found) \in Nat
    BY <2>2
  <2> QED
    BY <2>2, <2>3, <2>4
<1>10. room \in Nat /\ loads[rank] + room = Targets[rank] /\ loads[rank] \in Nat
  <2>1. loads[rank] \in Nat /\ Targets[rank] \in Nat
    BY <1>2
  <2>2. loads[rank] < Targets[rank]
    BY <1>3
  <2> QED
    BY ONLY <2>1, <2>2
<1> HIDE DEF room
<1>11. claimed \in Seq(Free) /\ Distinct(claimed) /\ Len(claimed) \in Nat /\ Len(claimed) <= room
  <2>1. CASE Len(found) <= room
    BY <1>9, <2>1
  <2>2. CASE ~(Len(found) <= room)
    <3>1. room \in 0 .. Len(found) /\ claimed = SubSeq(found, 1, room)
      BY <1>9, <1>10, <2>2
    <3>2. SubSeq(found, 1, room) \in Seq(Free) /\ Len(SubSeq(found, 1, room)) = room
          /\ Distinct(SubSeq(found, 1, room))
      BY <1>9, <3>1, PrefixOf
    <3> HIDE DEF claimed
    <3> QED
      BY <1>10, <3>1, <3>2
  <2> QED
    BY <2>1, <2>2
<1> HIDE DEF claimed
<1> DEFINE s == ToSet(claimed)
<1>12. s \in SUBSET Free /\ IsFiniteSet(s) /\ Cardinality(s) = Len(claimed)
  BY <1>11, SetOf, DistinctCount
<1> HIDE DEF s
<1>13. SumFunctionOnSet(weights, s) = Len(claimed)
  <2>1. (\A x \in s : weights[x] = 1) /\ 1 \in {0, 1}
    BY <1>2, <1>4, <1>12, Finest
  <2>2. SumFunctionOnSet(weights, s) = 1 * Cardinality(s)
    BY ONLY <1>12, <2>1, SumConstant
  <2> QED
    BY <1>11, <1>12, <2>2
<1>14. /\ Claiming(owners, s, rank) \in [NodeSet -> RankSet \cup {NoRank}]
       /\ LoadsOf(Claiming(owners, s, rank), weights, Ranks) = Raised(loads, rank, Len(claimed))
  BY <1>2, <1>12, <1>13, Claims
<1>15. owners' = Claiming(owners, s, rank) /\ loads' = Raised(loads, rank, Len(claimed))
  BY <1>3 DEF Claiming, Raised, s
<1>16. frontiers' \in [RankSet -> Seq(NodeSet)]
  <2>1. Tail(frontiers[rank]) \in Seq(NodeSet)
    BY <1>2, <1>3
  <2>2. claimed \in Seq(NodeSet)
    BY <1>4, <1>11, SeqMonotonic
  <2>3. Tail(frontiers[rank]) \o claimed \in Seq(NodeSet)
    BY <2>1, <2>2
  <2> QED
    BY <1>2, <1>3, <2>3
<1>17. loads[rank] + Len(claimed) <= Targets[rank]
  BY <1>10, <1>11
<1>18. RegionGrows(Len(claimed))
  BY <1>3, <1>14, <1>15, <1>16, <1>17 DEF RegionGrows
<1> QED
  BY <1>1, <1>3, <1>11, <1>18, RegionStays

LEMMA RegionNextKeeps == ASSUME PartitionInv, RegionNext PROVE PartitionInv'
<1>1. phase = "region" /\ RegionState
  BY RegionFacts DEF RegionNext
<1>2. /\ Growth /\ CallInv /\ input.method = "region" /\ levels = << >> /\ Ranks \in 1 .. input.matrix.n
      /\ node = 0 /\ rank \in RankSet /\ rank < Ranks /\ rank \in Nat /\ Ranks \in Nat
      /\ loads \in [RankSet -> Nat] /\ frontiers \in [RankSet -> Seq(NodeSet)]
      /\ Targets \in [RankSet -> Nat] /\ loads = LoadsOf(owners, weights, Ranks)
      /\ \A r \in RankSet : loads[r] <= Targets[r] /\ (r < rank => loads[r] = Targets[r])
  <2>1. CallInv
    BY <1>1 DEF RegionState, Growth
  <2>2. Ranks \in Nat
    BY <2>1, Basics
  <2> QED
    BY <1>1, <2>1, <2>2 DEF RegionState, Growth, RankSet
<1>3. /\ loads[rank] = Targets[rank] /\ rank' = rank + 1
      /\ phase' = IF rank + 1 = Ranks THEN "done" ELSE phase
      /\ input' = input /\ levels' = levels /\ adj' = adj /\ weights' = weights
      /\ owners' = owners /\ loads' = loads /\ frontiers' = frontiers /\ node' = node
  BY DEF RegionNext, graphVars, refineVars
<1>4. /\ Ranks' = Ranks /\ RankSet' = RankSet /\ NodeSet' = NodeSet /\ Targets' = Targets
  BY <1>3, SameGraph
<1>5. \A r \in RankSet : r < rank + 1 => loads[r] = Targets[r]
  <2> TAKE r \in RankSet
  <2>1. r \in Nat
    BY <1>2 DEF RankSet
  <2>2. r < rank + 1 => r < rank \/ r = rank
    BY <1>2, <2>1
  <2> QED
    BY <1>2, <1>3, <2>2
<1>6. /\ input' \in Inputs /\ Hierarchy(levels', adj', weights', input'.matrix.n)
      /\ owners' \in [NodeSet' -> RankSet' \cup {NoRank}]
      /\ rank' \in 0 .. Ranks' /\ Ranks' \in 1 .. input'.matrix.n
      /\ loads' = LoadsOf(owners', weights', Ranks')
  <2>1. rank' \in 0 .. Ranks'
    BY <1>2, <1>3, <1>4
  <2> QED
    BY <1>2, <1>3, <1>4, <2>1 DEF CallInv
<1>7. CASE rank + 1 = Ranks
  <2>1. loads = Targets
    <3>1. \A r \in RankSet : loads[r] = Targets[r]
      <4> TAKE r \in RankSet
      <4>1. r < rank + 1
        BY <1>2, <1>7 DEF RankSet
      <4> QED
        BY <1>5, <4>1
    <3>2. loads \in [RankSet -> Nat] /\ Targets \in [RankSet -> Nat]
      BY <1>2
    <3> QED
      BY ONLY <3>1, <3>2
  <2>2. Free = {}
    BY <1>2, <2>1, FreeLoad
  <2>3. phase' = "done" /\ Free' = {} /\ loads' = Targets' /\ input'.method = "region"
    BY <1>2, <1>3, <1>4, <1>7, <2>1, <2>2 DEF Free
  <2>4. CallInv'
    BY <1>6, <2>3 DEF CallInv, Coarsening, Counting, Growing, Refining
  <2>5. LoadInv'
    BY <1>6, <2>3 DEF LoadInv, Coarsening, Counting, Growing, Refining
  <2> QED
    BY <2>4, <2>5 DEF PartitionInv
<1>8. CASE rank + 1 # Ranks
  <2>1. phase' = "region" /\ rank' < Ranks'
    BY <1>1, <1>2, <1>3, <1>4, <1>8
  <2>2. \A r \in RankSet' : loads'[r] <= Targets'[r] /\ (r < rank' => loads'[r] = Targets'[r])
    BY <1>2, <1>3, <1>4, <1>5
  <2>3. CallInv'
    BY <1>2, <1>3, <1>4, <1>6, <2>1 DEF CallInv, Coarsening, Counting, Growing, Refining
  <2>4. LoadInv'
    BY <1>6, <2>1, <2>2 DEF LoadInv, Coarsening, Counting, Growing, Refining
  <2> QED
    BY <2>3, <2>4 DEF PartitionInv
<1> QED
  BY <1>7, <1>8

(* Growth from several seeds. *)
SourceState ==
  /\ Growth /\ CallInv /\ phase = "multisource" /\ input.method = "multisource" /\ levels = << >>
  /\ Ranks \in 1 .. input.matrix.n /\ rank \in 0 .. Ranks
  /\ frontiers \in [RankSet -> Seq(NodeSet)] /\ node = 0
  /\ loads \in [RankSet -> Nat] /\ Targets \in [RankSet -> Nat]
  /\ \A r \in RankSet : loads[r] <= Targets[r]
LEMMA SourceFacts == ASSUME PartitionInv, phase = "multisource" PROVE SourceState
<1>1. /\ Growth /\ CallInv /\ input.method = "multisource" /\ levels = << >> /\ Ranks \in 1 .. input.matrix.n
      /\ rank \in 0 .. Ranks /\ frontiers \in [RankSet -> Seq(NodeSet)] /\ node = 0
      /\ \A r \in RankSet : loads[r] <= Targets[r]
  BY DEF PartitionInv, CallInv, LoadInv, Growth, Counting, Growing
<1>2. IsOwnership(NodeSet, weights, owners, Ranks) /\ input.matrix.n \in Nat
  BY <1>1, Basics
<1>3. loads \in [RankSet -> Nat]
  BY <1>1, <1>2, LoadFacts DEF RankSet, Growth
<1>4. Targets \in [RankSet -> Nat]
  BY <1>1, <1>2, TargetFacts DEF Targets, RankSet
<1> QED
  BY <1>1, <1>3, <1>4 DEF SourceState

LEMMA SourceStays ==
  ASSUME SourceState, input' = input, levels' = levels, adj' = adj, weights' = weights,
         phase' = phase, rank' \in 0 .. Ranks, node' = node,
         owners' \in [NodeSet -> RankSet \cup {NoRank}],
         loads' = LoadsOf(owners', weights, Ranks),
         frontiers' \in [RankSet -> Seq(NodeSet)],
         \A r \in RankSet : loads'[r] <= Targets[r]
  PROVE  PartitionInv'
<1>1. /\ Ranks' = Ranks /\ RankSet' = RankSet /\ NodeSet' = NodeSet /\ Targets' = Targets
  BY SameGraph
<1>2. /\ input' \in Inputs /\ Hierarchy(levels', adj', weights', input'.matrix.n)
      /\ phase' = "multisource" /\ input'.method = "multisource" /\ levels' = << >> /\ node' = 0
      /\ Ranks' \in 1 .. input'.matrix.n
      /\ owners' \in [NodeSet' -> RankSet' \cup {NoRank}]
      /\ loads' = LoadsOf(owners', weights', Ranks')
      /\ rank' \in 0 .. Ranks'
      /\ frontiers' \in [RankSet' -> Seq(NodeSet')]
  BY <1>1 DEF SourceState, CallInv
<1>3. CallInv'
  BY <1>2 DEF CallInv, Coarsening, Counting, Growing, Refining
<1>4. \A r \in RankSet' : loads'[r] <= Targets'[r]
  BY <1>1
<1>5. LoadInv'
  BY <1>2, <1>4 DEF LoadInv, Coarsening, Counting, Growing, Refining
<1> QED
  BY <1>3, <1>5 DEF PartitionInv

LEMMA SuffixType ==
  ASSUME NEW S, NEW seq \in Seq(S), NEW k \in Nat
  PROVE  SubSeq(seq, k + 1, Len(seq)) \in Seq(S)
  OBVIOUS

LEMMA MultisourceClaimKeeps == ASSUME PartitionInv, MultisourceClaim PROVE PartitionInv'
<1>1. SourceState
  BY SourceFacts DEF MultisourceClaim
<1>2. /\ Growth /\ CallInv /\ levels = << >> /\ Ranks \in 1 .. input.matrix.n /\ rank \in 0 .. Ranks
      /\ frontiers \in [RankSet -> Seq(NodeSet)] /\ loads \in [RankSet -> Nat]
      /\ Targets \in [RankSet -> Nat] /\ (\A r \in RankSet : loads[r] <= Targets[r])
      /\ owners \in [NodeSet -> RankSet \cup {NoRank}] /\ loads = LoadsOf(owners, weights, Ranks)
      /\ Ranks \in Nat
  BY <1>1, Basics DEF SourceState, CallInv, Growth
<1>3. /\ input' = input /\ levels' = levels /\ adj' = adj /\ weights' = weights /\ phase' = phase
      /\ rank' = rank + 1 /\ rank < Ranks /\ node' = node
  BY DEF MultisourceClaim, graphVars, refineVars
<1>4. rank \in RankSet /\ rank' \in 0 .. Ranks
  BY <1>2, <1>3 DEF RankSet
<1>5. CASE loads[rank] >= Targets[rank]
  <2>1. owners' = owners /\ loads' = loads /\ frontiers' = frontiers
    BY <1>5 DEF MultisourceClaim
  <2> QED
    BY <1>1, <1>2, <1>3, <1>4, <2>1, SourceStays
<1>6. CASE ~(loads[rank] >= Targets[rank])
  <2> DEFINE queue == frontiers[rank]
             open == {k \in DOMAIN queue : queue[k] \in Free}
             first == IF open = {} THEN Len(queue) ELSE CHOOSE k \in open : \A j \in open : k <= j
             claimed == IF open = {} THEN ChooseSeed(Free, NodeDegree(input.matrix)) ELSE queue[first]
             fresh == Among(RowThenColumn(claimed), Free)
             rest == SubSeq(queue, first + 1, Len(queue)) \o fresh
  <2>1. Claim(rank, claimed, rest)
    BY <1>6 DEF MultisourceClaim
  <2>2. loads[rank] < Targets[rank] /\ loads[rank] \in Nat /\ Targets[rank] \in Nat
    <3>1. loads[rank] \in Nat /\ Targets[rank] \in Nat
      BY <1>2, <1>4
    <3> QED
      BY <1>6, <3>1
  <2>3. Free # {}
    BY <1>2, <1>4, <2>2, FreeLeft
  <2>4. queue \in Seq(NodeSet) /\ DOMAIN queue = 1 .. Len(queue) /\ Len(queue) \in Nat
    <3>1. queue \in Seq(NodeSet)
      BY <1>2, <1>4
    <3> HIDE DEF queue
    <3> QED
      BY <3>1
  <2> HIDE DEF queue
  <2>5. open \in SUBSET Nat
    BY <2>4
  <2>6. claimed \in Free /\ first \in Nat
    <3>1. CASE open = {}
      <4>1. ChooseSeed(Free, NodeDegree(input.matrix)) \in Free
        BY <1>2, <2>3, SeedIsFree
      <4> QED
        BY <2>4, <3>1, <4>1
    <3>2. CASE open # {}
      <4>1. \E k \in open : \A j \in open : k <= j
        <5> HIDE DEF open
        <5> QED
          BY <2>5, <3>2, LeastNat
      <4>2. first \in open
        BY <3>2, <4>1
      <4>3. queue[first] \in Free
        <5> HIDE DEF first
        <5> QED
          BY <4>2
      <4>4. claimed = queue[first]
        BY <3>2
      <4> HIDE DEF open, first, claimed
      <4> QED
        BY <2>5, <4>2, <4>3, <4>4
    <3> QED
      BY <3>1, <3>2
  <2> HIDE DEF first, open, claimed
  <2>7. claimed \in NodeSet /\ NodeSet = Nodes(input.matrix) /\ IsPattern(input.matrix)
    BY <1>2, <2>6, Finest, Basics DEF Free
  <2>8. fresh \in Seq(NodeSet)
    <3>1. RowThenColumn(claimed) \in Seq(NodeSet)
      BY <2>7, RowThenColumnType
    <3> QED
      BY <3>1, AmongType
  <2> HIDE DEF fresh
  <2>9. rest \in Seq(NodeSet)
    <3>1. SubSeq(queue, first + 1, Len(queue)) \in Seq(NodeSet)
      BY <2>4, <2>6, SuffixType
    <3> QED
      BY <2>8, <3>1
  <2> HIDE DEF rest
  <2>10. /\ owners' \in [NodeSet -> RankSet \cup {NoRank}]
         /\ loads' = LoadsOf(owners', weights, Ranks)
         /\ frontiers' \in [RankSet -> Seq(NodeSet)]
         /\ loads' = Raised(loads, rank, weights[claimed])
    BY <1>2, <1>4, <2>1, <2>6, <2>9, ClaimsOne
  <2>11. weights[claimed] = 1
    BY <1>2, <2>7, Finest
  <2>12. \A r \in RankSet : loads'[r] <= Targets[r]
    <3> TAKE r \in RankSet
    <3>1. loads'[r] = IF r = rank THEN loads[r] + 1 ELSE loads[r]
      BY <1>2, <2>10, <2>11 DEF Raised
    <3> QED
      BY <1>2, <2>2, <3>1
  <2> QED
    BY <1>1, <1>3, <1>4, <2>10, <2>12, SourceStays
<1> QED
  BY <1>5, <1>6

LEMMA MultisourceSweepKeeps == ASSUME PartitionInv, MultisourceSweep PROVE PartitionInv'
<1>1. SourceState
  BY SourceFacts DEF MultisourceSweep
<1>2. /\ Growth /\ CallInv /\ levels = << >> /\ Ranks \in 1 .. input.matrix.n
      /\ frontiers \in [RankSet -> Seq(NodeSet)] /\ input.method = "multisource"
      /\ (\A r \in RankSet : loads[r] <= Targets[r])
      /\ owners \in [NodeSet -> RankSet \cup {NoRank}] /\ loads = LoadsOf(owners, weights, Ranks)
      /\ Ranks \in Nat
  BY <1>1, Basics DEF SourceState, CallInv, Growth
<1>3. /\ input' = input /\ levels' = levels /\ adj' = adj /\ weights' = weights
      /\ rank' = 0 /\ phase' = IF Free = {} THEN "done" ELSE phase
      /\ owners' = owners /\ loads' = loads /\ frontiers' = frontiers /\ node' = node
  BY DEF MultisourceSweep, graphVars, refineVars
<1>4. 0 \in 0 .. Ranks
  BY <1>2
<1>5. CASE Free # {}
  BY <1>1, <1>2, <1>3, <1>4, <1>5, SourceStays
<1>6. CASE Free = {}
  <2>1. loads = Targets
    BY <1>2, <1>6, FreeLoad
  <2>2. /\ Ranks' = Ranks /\ RankSet' = RankSet /\ NodeSet' = NodeSet /\ Targets' = Targets
    BY <1>3, SameGraph
  <2>3. /\ phase' = "done" /\ Free' = {} /\ loads' = Targets' /\ input'.method = "multisource"
        /\ loads' = LoadsOf(owners', weights', Ranks') /\ Ranks' \in 1 .. input'.matrix.n
        /\ input' \in Inputs /\ Hierarchy(levels', adj', weights', input'.matrix.n)
        /\ owners' \in [NodeSet' -> RankSet' \cup {NoRank}]
    BY <1>2, <1>3, <1>6, <2>1, <2>2 DEF Free, CallInv
  <2>4. CallInv'
    BY <2>3 DEF CallInv, Coarsening, Counting, Growing, Refining
  <2>5. LoadInv'
    BY <2>3 DEF LoadInv, Coarsening, Counting, Growing, Refining
  <2> QED
    BY <2>4, <2>5 DEF PartitionInv
<1> QED
  BY <1>5, <1>6

-----------------------------------------------------------------------------
(* The multilevel scheme, down to the coarsest graph. *)
LEMMA CoarsenKeeps == ASSUME PartitionInv, CoarsenOnce PROVE PartitionInv'
<1> DEFINE coarse == Coarsen(adj, weights)
<1>1. /\ CallInv /\ phase = "coarsen" /\ input.method = "multilevel" /\ OptionsValid
      /\ Ranks \in 1 .. input.matrix.n /\ node = 0
      /\ input \in Inputs /\ Hierarchy(levels, adj, weights, input.matrix.n)
  BY DEF PartitionInv, CallInv, CoarsenOnce, Coarsening, Refining
<1>2. /\ levels' = Append(levels, [adj |-> adj, weights |-> weights, of |-> coarse.of])
      /\ adj' = coarse.adj /\ weights' = coarse.weights
      /\ owners' = [c \in DOMAIN coarse.adj |-> NoRank]
      /\ input' = input /\ phase' = phase /\ node' = node
  BY DEF CoarsenOnce, refineVars
<1>3. /\ IsGraph(coarse.adj, coarse.weights, input.matrix.n)
      /\ Merges(coarse.of, weights, coarse.weights)
  BY <1>1, HierarchyTop, CoarsenFacts
<1> HIDE DEF coarse
<1>4. Hierarchy(levels', adj', weights', input'.matrix.n)
  BY <1>1, <1>2, <1>3, HierarchyGrows
<1>5. Ranks' = Ranks /\ RankSet' = RankSet /\ OptionsValid' = OptionsValid
  BY <1>2 DEF Ranks, RankSet, OptionsValid
<1>6. owners' \in [NodeSet' -> RankSet' \cup {NoRank}]
  BY <1>2 DEF NodeSet
<1>7. CallInv'
  BY <1>1, <1>2, <1>4, <1>5, <1>6 DEF CallInv, Coarsening, Counting, Growing, Refining
<1>8. LoadInv'
  BY <1>1, <1>2 DEF LoadInv, Coarsening, Counting, Growing, Refining
<1> QED
  BY <1>7, <1>8 DEF PartitionInv

(* Growth on the coarsest graph. *)
GrowState ==
  /\ Growth /\ CallInv /\ input.method = "multilevel" /\ OptionsValid
  /\ Ranks \in 1 .. input.matrix.n /\ rank \in 0 .. Ranks /\ node = 0
  /\ frontiers \in [RankSet -> Seq(NodeSet)]
  /\ loads \in [RankSet -> Nat] /\ Cap \in Int
  /\ \A r \in RankSet : loads[r] >= 1 /\ loads[r] <= Cap
LEMMA GrowFacts == ASSUME PartitionInv, phase = "grow" PROVE GrowState
<1>1. /\ Growth /\ CallInv /\ input.method = "multilevel" /\ OptionsValid
      /\ Ranks \in 1 .. input.matrix.n /\ rank \in 0 .. Ranks /\ node = 0
      /\ frontiers \in [RankSet -> Seq(NodeSet)]
      /\ \A r \in RankSet : loads[r] >= 1 /\ loads[r] <= Cap
  BY DEF PartitionInv, CallInv, LoadInv, Growth, Coarsening, Counting, Growing
<1>2. IsOwnership(NodeSet, weights, owners, Ranks) /\ input.matrix.n \in Nat
  BY <1>1, Basics
<1>3. loads \in [RankSet -> Nat]
  BY <1>1, <1>2, LoadFacts DEF RankSet, Growth
<1>4. Cap \in Int
  BY <1>1, <1>2, Bounds
<1> QED
  BY <1>1, <1>3, <1>4 DEF GrowState

Heavy ==
  /\ input' = input /\ levels' = levels /\ adj' = adj /\ weights' = weights
  /\ owners' \in [NodeSet -> RankSet \cup {NoRank}]
  /\ loads' = LoadsOf(owners', weights, Ranks)
  /\ \A r \in RankSet : loads'[r] >= 1 /\ loads'[r] <= Cap
LEMMA GrowStays ==
  ASSUME CallInv, input.method = "multilevel", OptionsValid, Ranks \in 1 .. input.matrix.n,
         Heavy, phase' = "grow", rank' \in 0 .. Ranks, node' = 0,
         frontiers' \in [RankSet -> Seq(NodeSet)]
  PROVE  PartitionInv'
<1>1. /\ Ranks' = Ranks /\ RankSet' = RankSet /\ NodeSet' = NodeSet /\ Cap' = Cap
      /\ OptionsValid' = OptionsValid
  BY SameGraph DEF Heavy
<1>2. /\ input' \in Inputs /\ Hierarchy(levels', adj', weights', input'.matrix.n)
      /\ input'.method = "multilevel" /\ OptionsValid'
      /\ Ranks' \in 1 .. input'.matrix.n
      /\ owners' \in [NodeSet' -> RankSet' \cup {NoRank}]
      /\ loads' = LoadsOf(owners', weights', Ranks')
      /\ rank' \in 0 .. Ranks'
      /\ frontiers' \in [RankSet' -> Seq(NodeSet')]
  BY <1>1 DEF Heavy, CallInv
<1>3. CallInv'
  BY <1>2 DEF CallInv, Coarsening, Counting, Growing, Refining
<1>4. \A r \in RankSet' : loads'[r] >= 1 /\ loads'[r] <= Cap'
  BY <1>1 DEF Heavy
<1>5. LoadInv'
  BY <1>2, <1>4 DEF LoadInv, Coarsening, Counting, Growing, Refining
<1> QED
  BY <1>3, <1>5 DEF PartitionInv

LEMMA AdjacentType ==
  ASSUME GraphAtHand, NEW i \in NodeSet
  PROVE  /\ Ascending(adj[i]) \in Seq(NodeSet) /\ Adjacent(i) \in Seq(NodeSet)
         /\ AdjacencyDegree(adj)[i] \in Int
<1>1. /\ NodeSet \in SUBSET Int /\ IsFiniteSet(NodeSet) /\ adj[i] \in SUBSET NodeSet
      /\ Cardinality(adj[i]) \in Nat
  BY NodesAtHand
<1>2. Ascending(adj[i]) \in Seq(NodeSet)
  BY <1>1, AscendingType
<1>3. Adjacent(i) \in Seq(NodeSet)
  BY <1>2, AmongType DEF Adjacent
<1>4. AdjacencyDegree(adj)[i] = Cardinality(adj[i])
  BY DEF AdjacencyDegree, NodeSet
<1> QED
  BY <1>1, <1>2, <1>3, <1>4

LEMMA StartGrowthKeeps == ASSUME PartitionInv, StartGrowth PROVE PartitionInv'
<1>1. /\ CallInv /\ phase = "coarsen" /\ input.method = "multilevel" /\ OptionsValid
      /\ Ranks \in 1 .. input.matrix.n /\ node = 0
      /\ input \in Inputs /\ Hierarchy(levels, adj, weights, input.matrix.n)
      /\ owners \in [NodeSet -> RankSet \cup {NoRank}]
  BY DEF PartitionInv, CallInv, StartGrowth, Coarsening, Refining
<1>2. /\ input' = input /\ levels' = levels /\ adj' = adj /\ weights' = weights /\ node' = node
      /\ phase' = IF \E i \in DOMAIN weights : weights[i] > Cap THEN "aggregate exceeds cap"
                  ELSE IF Size < Ranks THEN "invalid rank count" ELSE "grow"
  BY DEF StartGrowth, graphVars, refineVars
<1>3. CASE phase' # "grow"
  <2>1. owners' = owners /\ phase' \in {"aggregate exceeds cap", "invalid rank count"}
    BY <1>2, <1>3 DEF StartGrowth
  <2>2. RankSet' = RankSet /\ NodeSet' = NodeSet
    BY <1>2, SameGraph
  <2>3. CallInv'
    BY <1>1, <1>2, <2>1, <2>2 DEF CallInv, Coarsening, Counting, Growing, Refining, Failures
  <2>4. LoadInv'
    BY <2>1 DEF LoadInv, Coarsening, Counting, Growing, Refining
  <2> QED
    BY <2>3, <2>4 DEF PartitionInv
<1>4. CASE phase' = "grow"
  <2> DEFINE near == [i \in DOMAIN adj |-> Ascending(adj[i])]
             degree == AdjacencyDegree(adj)
  <2>1. PlantSeeds(degree, near)
    BY <1>4 DEF StartGrowth
  <2>2. /\ GraphAtHand /\ DOMAIN weights = NodeSet /\ Ranks \in Nat /\ Size \in Nat /\ Cap \in Int
        /\ \A i \in NodeSet : weights[i] \in Nat /\ weights[i] >= 1
    BY <1>1, Basics, NodesAtHand, Bounds
  <2>3. /\ ~ \E i \in DOMAIN weights : weights[i] > Cap
        /\ ~(Size < Ranks)
    BY <1>2, <1>4
  <2>4. Ranks \in 1 .. Size
    BY <1>1, <2>2, <2>3
  <2>5. /\ \A i \in NodeSet : near[i] \in Seq(NodeSet)
        /\ \A i \in NodeSet : degree[i] \in Int
    BY <2>2, AdjacentType DEF NodeSet
  <2> HIDE DEF near, degree
  <2>6. /\ owners' \in [NodeSet -> RankSet \cup {NoRank}]
        /\ loads' = LoadsOf(owners', weights, Ranks)
        /\ frontiers' \in [RankSet -> Seq(NodeSet)] /\ rank' = 0
        /\ \A r \in RankSet : \E i \in NodeSet : loads'[r] = weights[i]
    BY <1>1, <2>1, <2>4, <2>5, PlantKeeps
  <2>7. \A r \in RankSet : loads'[r] >= 1 /\ loads'[r] <= Cap
    <3> TAKE r \in RankSet
    <3>1. PICK i \in NodeSet : loads'[r] = weights[i]
      BY <2>6
    <3>2. weights[i] \in Nat /\ weights[i] >= 1 /\ ~(weights[i] > Cap)
      BY <2>2, <2>3, <3>1
    <3> QED
      BY <2>2, <3>1, <3>2
  <2>8. Heavy
    BY <1>2, <2>6, <2>7 DEF Heavy
  <2>9. rank' \in 0 .. Ranks /\ node' = 0
    <3>1. rank' = 0 /\ node' = 0
      BY <1>1, <1>2, <2>6
    <3>2. 0 \in 0 .. Ranks
      BY <2>2
    <3> QED
      BY <3>1, <3>2
  <2> QED
    BY <1>1, <1>4, <2>6, <2>8, <2>9, GrowStays
<1> QED
  BY <1>3, <1>4

(* One claim that fits. *)
LEMMA FittingClaim ==
  ASSUME GrowState, UNCHANGED graphVars, NEW r \in RankSet, NEW i, Fits(r, i),
         NEW queue \in Seq(NodeSet), Claim(r, i, queue)
  PROVE  Heavy /\ frontiers' \in [RankSet -> Seq(NodeSet)]
<1>1. /\ Growth /\ frontiers \in [RankSet -> Seq(NodeSet)] /\ Cap \in Int
      /\ loads \in [RankSet -> Nat] /\ \A p \in RankSet : loads[p] >= 1 /\ loads[p] <= Cap
      /\ i \in Free /\ loads[r] + weights[i] <= Cap
  BY DEF GrowState, Fits
<1>2. /\ i \in NodeSet /\ weights[i] \in Nat /\ weights[i] >= 1
      /\ owners' \in [NodeSet -> RankSet \cup {NoRank}]
      /\ loads' = LoadsOf(owners', weights, Ranks)
      /\ frontiers' \in [RankSet -> Seq(NodeSet)]
      /\ loads' = Raised(loads, r, weights[i])
  BY <1>1, ClaimsOne
<1>3. \A p \in RankSet : loads'[p] >= 1 /\ loads'[p] <= Cap
  <2> TAKE p \in RankSet
  <2>1. loads'[p] = IF p = r THEN loads[p] + weights[i] ELSE loads[p]
    BY <1>1, <1>2 DEF Raised
  <2>2. loads[p] \in Nat /\ loads[p] >= 1 /\ loads[p] <= Cap
    BY <1>1
  <2> QED
    BY <1>1, <1>2, <2>1, <2>2
<1> QED
  BY <1>2, <1>3 DEF Heavy, graphVars

LEMMA GrowthClaimKeeps == ASSUME PartitionInv, GrowthClaim PROVE PartitionInv'
<1> DEFINE queue == frontiers[rank]
           open == {k \in DOMAIN queue : Fits(rank, queue[k])}
           first == IF open = {} THEN Len(queue) + 1 ELSE CHOOSE k \in open : \A j \in open : k <= j
           deferred == Among(SubSeq(queue, 1, first - 1), Free)
           kept == SubSeq(queue, first + 1, Len(queue)) \o deferred
           fitting == {i \in Free : Fits(rank, i)}
           claimed == IF open # {} THEN queue[first] ELSE ChooseSeed(fitting, AdjacencyDegree(adj))
           rest == kept \o Adjacent(claimed)
<1>1. /\ GrowState /\ phase = "grow" /\ rank < Ranks
  BY GrowFacts DEF GrowthClaim
<1>2. /\ Growth /\ CallInv /\ input.method = "multilevel" /\ OptionsValid
      /\ Ranks \in 1 .. input.matrix.n /\ rank \in 0 .. Ranks /\ node = 0 /\ Ranks \in Nat
      /\ frontiers \in [RankSet -> Seq(NodeSet)] /\ GraphAtHand
      /\ owners \in [NodeSet -> RankSet \cup {NoRank}] /\ loads = LoadsOf(owners, weights, Ranks)
      /\ \A r \in RankSet : loads[r] >= 1 /\ loads[r] <= Cap
  BY <1>1, Basics DEF GrowState, Growth, CallInv
<1>3. /\ UNCHANGED graphVars /\ phase' = phase /\ rank' = rank + 1 /\ node' = node
      /\ input' = input /\ levels' = levels /\ adj' = adj /\ weights' = weights
  BY DEF GrowthClaim, graphVars, refineVars
<1>4. rank \in RankSet /\ rank' \in 0 .. Ranks
  BY <1>1, <1>2, <1>3 DEF RankSet
<1>5. queue \in Seq(NodeSet) /\ DOMAIN queue = 1 .. Len(queue) /\ Len(queue) \in Nat
  <2>1. queue \in Seq(NodeSet)
    BY <1>2, <1>4
  <2> HIDE DEF queue
  <2> QED
    BY <2>1
<1> HIDE DEF queue
<1>6. open \in SUBSET (1 .. Len(queue)) /\ \A k \in open : Fits(rank, queue[k])
  BY <1>5
<1>7. /\ first \in 1 .. Len(queue) + 1
      /\ open # {} => first \in open
  <2>1. CASE open = {}
    <3>1. first = Len(queue) + 1
      BY <2>1
    <3> HIDE DEF first
    <3> QED
      BY <1>5, <2>1, <3>1
  <2>2. CASE open # {}
    <3>1. \E k \in open : \A j \in open : k <= j
      <4>1. open \in SUBSET Nat
        BY <1>6
      <4> HIDE DEF open
      <4> QED
        BY <2>2, <4>1, LeastNat
    <3>2. first \in open
      BY <2>2, <3>1
    <3> HIDE DEF first, open
    <3> QED
      BY <1>5, <1>6, <2>2, <3>2
  <2> QED
    BY <2>1, <2>2
<1>8. GrowthClaim
  OBVIOUS
<1>9. IF fitting = {}
      THEN frontiers' = [frontiers EXCEPT ![rank] = kept] /\ UNCHANGED <<owners, loads, changed>>
      ELSE Claim(rank, claimed, rest) /\ changed' = TRUE
  BY <1>8 DEF GrowthClaim, queue
<1>10. fitting # {} => Fits(rank, claimed)
  <2>1. CASE open # {}
    <3>1. claimed = queue[first] /\ first \in open
      BY <1>7, <2>1
    <3> HIDE DEF claimed, first, open, fitting
    <3> QED
      BY <1>6, <3>1
  <2>2. CASE open = {} /\ fitting # {}
    <3>1. claimed = ChooseSeed(fitting, AdjacencyDegree(adj))
      BY <2>2
    <3>2. fitting \subseteq NodeSet
      BY <1>2 DEF Free
    <3>3. fitting \in SUBSET Int /\ IsFiniteSet(fitting) /\ \A i \in fitting : AdjacencyDegree(adj)[i] \in Int
      <4> HIDE DEF fitting
      <4>1. NodeSet \in SUBSET Int /\ IsFiniteSet(NodeSet) /\ \A i \in NodeSet : AdjacencyDegree(adj)[i] \in Int
        BY <1>2, NodesAtHand, AdjacentType
      <4> QED
        BY <3>2, <4>1, FS_Subset
    <3>4. ChooseSeed(fitting, AdjacencyDegree(adj)) \in fitting
      <4> HIDE DEF fitting
      <4> QED
        BY ONLY <2>2, <3>3, SeedChosen
    <3>5. \A i \in fitting : Fits(rank, i)
      OBVIOUS
    <3> HIDE DEF claimed, fitting
    <3> QED
      BY <3>1, <3>4, <3>5
  <2> QED
    BY <2>1, <2>2
<1> HIDE DEF open, first, fitting, claimed
<1>11. kept \in Seq(NodeSet)
  <2>1. first \in Nat /\ first - 1 \in Nat /\ first - 1 <= Len(queue)
    BY <1>5, <1>7
  <2>2. SubSeq(queue, first + 1, Len(queue)) \in Seq(NodeSet)
    BY <1>5, <2>1, SuffixType
  <2>3. SubSeq(queue, 1, first - 1) \in Seq(NodeSet)
    <3>1. \A k \in 1 .. first - 1 : queue[k] \in NodeSet
      BY <1>5, <2>1
    <3>2. SubSeq(queue, 1, first - 1) = [k \in 1 .. first - 1 |-> queue[k]]
      BY <1>5, <2>1
    <3> QED
      BY <2>1, <3>1, <3>2, SeqDef
  <2>4. deferred \in Seq(NodeSet)
    BY <2>3, AmongType
  <2> HIDE DEF deferred
  <2> QED
    BY <2>2, <2>4
<1> HIDE DEF kept
<1>12. CASE fitting = {}
  <2>1. owners' = owners /\ loads' = loads /\ frontiers' \in [RankSet -> Seq(NodeSet)]
    BY <1>2, <1>9, <1>11, <1>12
  <2>2. Heavy
    BY <1>2, <1>3, <2>1 DEF Heavy
  <2> QED
    BY <1>1, <1>2, <1>3, <1>4, <2>1, <2>2, GrowStays
<1>13. CASE fitting # {}
  <2>1. Fits(rank, claimed) /\ Claim(rank, claimed, rest)
    BY <1>9, <1>10, <1>13
  <2>2. claimed \in NodeSet
    BY <1>2, <2>1 DEF Fits, Free
  <2>3. rest \in Seq(NodeSet)
    <3>1. Adjacent(claimed) \in Seq(NodeSet)
      BY <1>2, <2>2, AdjacentType
    <3> QED
      BY <1>11, <3>1
  <2> HIDE DEF rest
  <2>4. Heavy /\ frontiers' \in [RankSet -> Seq(NodeSet)]
    BY <1>1, <1>3, <1>4, <2>1, <2>3, FittingClaim
  <2> QED
    BY <1>1, <1>2, <1>3, <1>4, <2>4, GrowStays
<1> QED
  BY <1>12, <1>13

(* The fallback. *)
Fallback == {c \in RankSet \X Free : Fits(c[1], c[2])}
Lightest == Best(Fallback, LAMBDA c : <<-loads[c[1]], Cardinality(adj[c[2]]), -c[2], -c[1]>>)
LEMMA LightestFits ==
  ASSUME GrowState, Fallback # {}
  PROVE  /\ Lightest \in Fallback
         /\ Lightest[1] \in RankSet /\ Lightest[2] \in NodeSet /\ Fits(Lightest[1], Lightest[2])
<1> DEFINE S == Fallback
           key == [c \in S |-> <<-loads[c[1]], Cardinality(adj[c[2]]), -c[2], -c[1]>>]
<1>1. /\ GraphAtHand /\ loads \in [RankSet -> Nat] /\ Ranks \in Nat
      /\ Free \subseteq NodeSet
  BY Basics DEF GrowState, Free, CallInv
<1>2. /\ NodeSet \in SUBSET Int /\ IsFiniteSet(NodeSet) /\ RankSet \in SUBSET Int /\ IsFiniteSet(RankSet)
      /\ \A i \in NodeSet : Cardinality(adj[i]) \in Nat
  <2>1. IsFiniteSet(RankSet) /\ RankSet \in SUBSET Int
    BY <1>1, RanksAtHand
  <2>2. /\ NodeSet \in SUBSET Int /\ IsFiniteSet(NodeSet)
        /\ \A i \in NodeSet : Cardinality(adj[i]) \in Nat
    BY <1>1, NodesAtHand
  <2> QED
    BY <2>1, <2>2
<1>3. S \in SUBSET (RankSet \X NodeSet) /\ \A c \in S : Fits(c[1], c[2])
  BY <1>1 DEF Fallback
<1> HIDE DEF S
<1>4. IsFiniteSet(S)
  BY <1>2, <1>3, FS_Product, FS_Subset
<1>5. ASSUME NEW c \in S
      PROVE  /\ c[1] \in RankSet /\ c[2] \in NodeSet /\ c = <<c[1], c[2]>>
             /\ c[1] \in Int /\ c[2] \in Int /\ loads[c[1]] \in Int /\ Cardinality(adj[c[2]]) \in Int
  <2>1. c \in RankSet \X NodeSet
    BY <1>3
  <2>2. c[1] \in RankSet /\ c[2] \in NodeSet /\ c = <<c[1], c[2]>>
    BY <2>1
  <2> QED
    BY <1>1, <1>2, <2>2
<1>6. IsKey(key, S, 4)
  <2>1. \A c \in S : /\ key[c] = <<-loads[c[1]], Cardinality(adj[c[2]]), -c[2], -c[1]>>
                     /\ key[c] \in [1 .. 4 -> Int]
    BY <1>5
  <2>2. ASSUME NEW c \in S, NEW d \in S, c # d PROVE key[c] # key[d]
    <3>1. SUFFICES ASSUME key[c] = key[d] PROVE FALSE
      OBVIOUS
    <3>2. -c[1] = -d[1] /\ -c[2] = -d[2]
      BY <2>1, <3>1
    <3>3. c[1] = d[1] /\ c[2] = d[2]
      BY <1>5, <3>2
    <3> QED
      BY <1>5, <2>2, <3>3
  <2> HIDE DEF key
  <2> QED
    BY <2>1, <2>2 DEF IsKey
<1>7. \E x \in S : \A y \in S \ {x} : Exceeds(key[x], key[y])
  <2>1. S # {}
    BY DEF S
  <2> HIDE DEF key
  <2> QED
    BY <1>4, <1>6, <2>1, BestIs
<1>8. \E x \in S : \A y \in S \ {x} :
         Exceeds(<<-loads[x[1]], Cardinality(adj[x[2]]), -x[2], -x[1]>>,
                 <<-loads[y[1]], Cardinality(adj[y[2]]), -y[2], -y[1]>>)
  BY <1>7
<1> HIDE DEF key
<1>9. Lightest \in S
  BY <1>8 DEF Lightest, Best, S
<1> QED
  BY <1>3, <1>5, <1>9 DEF S

LEMMA GrowthSweepKeeps == ASSUME PartitionInv, GrowthSweep PROVE PartitionInv'
<1> DEFINE stuck == Free # {} /\ ~changed
<1>1. GrowState /\ phase = "grow" /\ rank = Ranks
  BY GrowFacts DEF GrowthSweep
<1>2. /\ Growth /\ CallInv /\ input.method = "multilevel" /\ OptionsValid
      /\ Ranks \in 1 .. input.matrix.n /\ node = 0 /\ Ranks \in Nat
      /\ frontiers \in [RankSet -> Seq(NodeSet)] /\ GraphAtHand
      /\ owners \in [NodeSet -> RankSet \cup {NoRank}] /\ loads = LoadsOf(owners, weights, Ranks)
      /\ loads \in [RankSet -> Nat] /\ Cap \in Int
      /\ \A r \in RankSet : loads[r] >= 1 /\ loads[r] <= Cap
  BY <1>1, Basics DEF GrowState, Growth, CallInv
<1>3. /\ phase' = IF Free = {} THEN "refine"
                  ELSE IF stuck /\ Fallback = {} THEN "no capacity" ELSE phase
      /\ IF stuck /\ Fallback # {}
         THEN Claim(Lightest[1], Lightest[2], frontiers[Lightest[1]] \o Adjacent(Lightest[2]))
         ELSE UNCHANGED <<owners, loads, frontiers>>
      /\ rank' = 0 /\ UNCHANGED graphVars /\ node' = node
      /\ input' = input /\ levels' = levels /\ adj' = adj /\ weights' = weights
  BY DEF GrowthSweep, graphVars, refineVars, Fallback, Lightest
<1> HIDE DEF stuck
<1>4. rank' \in 0 .. Ranks /\ node' = 0
  <2>1. 0 \in 0 .. Ranks
    BY <1>2
  <2> QED
    BY <1>2, <1>3, <2>1
<1>5. /\ Ranks' = Ranks /\ RankSet' = RankSet /\ NodeSet' = NodeSet /\ Cap' = Cap /\ Size' = Size
      /\ OptionsValid' = OptionsValid /\ Floor' = Floor
  BY <1>3, SameGraph
<1>6. CASE stuck /\ Fallback # {}
  <2>1. /\ Lightest[1] \in RankSet /\ Lightest[2] \in NodeSet /\ Fits(Lightest[1], Lightest[2])
    BY <1>1, <1>6, LightestFits
  <2>2. Claim(Lightest[1], Lightest[2], frontiers[Lightest[1]] \o Adjacent(Lightest[2]))
    BY <1>3, <1>6
  <2>3. frontiers[Lightest[1]] \o Adjacent(Lightest[2]) \in Seq(NodeSet)
    <3>1. frontiers[Lightest[1]] \in Seq(NodeSet) /\ Adjacent(Lightest[2]) \in Seq(NodeSet)
      BY <1>2, <2>1, AdjacentType
    <3> QED
      BY <3>1
  <2>4. Heavy /\ frontiers' \in [RankSet -> Seq(NodeSet)]
    BY <1>1, <1>3, <2>1, <2>2, <2>3, FittingClaim
  <2>5. phase' = "grow"
    BY <1>1, <1>3, <1>6 DEF stuck
  <2> QED
    BY <1>2, <1>4, <2>4, <2>5, GrowStays
<1>7. CASE ~(stuck /\ Fallback # {})
  <2>1. owners' = owners /\ loads' = loads /\ frontiers' = frontiers
    BY <1>3, <1>7
  <2>2. Heavy
    BY <1>2, <1>3, <2>1 DEF Heavy
  <2>3. CASE phase' = "grow"
    BY <1>2, <1>4, <2>1, <2>2, <2>3, GrowStays
  <2>4. /\ input' \in Inputs /\ Hierarchy(levels', adj', weights', input'.matrix.n)
        /\ input'.method = "multilevel" /\ OptionsValid'
        /\ Ranks' \in 1 .. input'.matrix.n
        /\ owners' \in [NodeSet' -> RankSet' \cup {NoRank}]
        /\ loads' = LoadsOf(owners', weights', Ranks')
        /\ \A r \in RankSet' : loads'[r] >= 1 /\ loads'[r] <= Cap'
    BY <1>2, <1>3, <1>5, <2>1 DEF CallInv
  <2>5. CASE phase' = "refine"
    <3>1. Free' = {}
      BY <1>1, <1>3, <2>1, <2>5 DEF Free
    <3>2. node' \in 0 .. Size'
      <4>1. Size \in Nat
        BY <1>2, NodesAtHand
      <4> QED
        BY <1>4, <1>5, <4>1
    <3>3. CallInv'
      BY <2>4, <2>5, <3>2 DEF CallInv, Coarsening, Counting, Growing, Refining
    <3>4. LoadInv'
      BY <2>4, <2>5, <3>1 DEF LoadInv, Coarsening, Counting, Growing, Refining
    <3> QED
      BY <3>3, <3>4 DEF PartitionInv
  <2>6. CASE phase' = "no capacity"
    <3>1. CallInv'
      BY <2>4, <2>6 DEF CallInv, Coarsening, Counting, Growing, Refining, Failures
    <3>2. LoadInv'
      BY <2>6 DEF LoadInv, Coarsening, Counting, Growing, Refining
    <3> QED
      BY <3>1, <3>2 DEF PartitionInv
  <2>7. phase' \in {"grow", "refine", "no capacity"}
    BY <1>1, <1>3
  <2> QED
    BY <2>3, <2>5, <2>6, <2>7
<1> QED
  BY <1>6, <1>7

-----------------------------------------------------------------------------
(* Refinement of a level. *)
RefineState ==
  /\ Growth /\ CallInv /\ GraphAtHand /\ input.method = "multilevel" /\ OptionsValid
  /\ Ranks \in Nat /\ Ranks \in 1 .. input.matrix.n
  /\ loads \in [RankSet -> Nat] /\ Cap \in Int /\ Floor \in Nat /\ Free = {}
  /\ owners \in [NodeSet -> RankSet] /\ Size \in Nat /\ NodeSet = 0 .. Size - 1
  /\ \A r \in RankSet : loads[r] <= Cap /\ (loads[r] >= 1 \/ Floor = 0)
LEMMA RefineFacts ==
  ASSUME PartitionInv, phase \in Refining
  PROVE  RefineState
<1>1. /\ Growth /\ CallInv /\ input.method = "multilevel" /\ OptionsValid
      /\ Ranks \in 1 .. input.matrix.n /\ Free = {}
      /\ \A r \in RankSet : loads[r] <= Cap /\ (loads[r] >= 1 \/ Floor = 0)
  <2>1. phase = "refine" \/ phase \in {"score", "swap"}
    BY DEF Refining
  <2> QED
    BY <2>1 DEF PartitionInv, CallInv, LoadInv, Growth, Coarsening, Counting, Refining
<1>2. IsOwnership(NodeSet, weights, owners, Ranks) /\ input.matrix.n \in Nat /\ Ranks \in Nat /\ GraphAtHand
  BY <1>1, Basics
<1>3. loads \in [RankSet -> Nat]
  BY <1>1, <1>2, LoadFacts DEF RankSet, Growth
<1>4. Cap \in Int /\ Floor \in Nat
  BY <1>1, <1>2, Bounds
<1>5. owners \in [NodeSet -> RankSet]
  <2>1. owners \in [NodeSet -> RankSet \cup {NoRank}]
    BY <1>1 DEF CallInv
  <2>2. \A i \in NodeSet : owners[i] # NoRank
    BY <1>1, <2>1 DEF Free
  <2> QED
    BY <2>1, <2>2
<1>6. Size \in Nat /\ NodeSet = 0 .. Size - 1
  BY <1>2, NodesAtHand
<1> QED
  BY <1>1, <1>2, <1>3, <1>4, <1>5, <1>6 DEF RefineState

LEMMA RefineStays ==
  ASSUME RefineState, phase' = "refine", input' = input, levels' = levels, adj' = adj, weights' = weights,
         node' \in 0 .. Size, owners' \in [NodeSet -> RankSet], loads' = LoadsOf(owners', weights, Ranks),
         \A r \in RankSet : loads'[r] <= Cap /\ (loads'[r] >= 1 \/ Floor = 0)
  PROVE  PartitionInv'
<1>1. /\ Ranks' = Ranks /\ RankSet' = RankSet /\ NodeSet' = NodeSet /\ Cap' = Cap /\ Size' = Size
      /\ OptionsValid' = OptionsValid /\ Floor' = Floor
  BY SameGraph
<1>2. /\ input' \in Inputs /\ Hierarchy(levels', adj', weights', input'.matrix.n)
      /\ input'.method = "multilevel" /\ OptionsValid'
      /\ Ranks' \in 1 .. input'.matrix.n
      /\ owners' \in [NodeSet' -> RankSet' \cup {NoRank}]
      /\ loads' = LoadsOf(owners', weights', Ranks')
      /\ node' \in 0 .. Size'
  BY <1>1 DEF RefineState, CallInv
<1>3. Free' = {}
  <2>1. NoRank \notin RankSet
    BY DEF NoRank, RankSet, RefineState
  <2>2. \A i \in NodeSet : owners'[i] # NoRank
    BY <2>1
  <2> QED
    BY <2>2 DEF Free
<1>4. CallInv'
  BY <1>2 DEF CallInv, Coarsening, Counting, Growing, Refining
<1>5. \A r \in RankSet' : loads'[r] <= Cap' /\ (loads'[r] >= 1 \/ Floor' = 0)
  BY <1>1
<1>6. LoadInv'
  BY <1>2, <1>3, <1>5 DEF LoadInv, Coarsening, Counting, Growing, Refining
<1> QED
  BY <1>4, <1>6 DEF PartitionInv

Destination(i) == Best(MoveTargets(i), LAMBDA r : <<Links(i, r), -r>>)
LEMMA DestinationIs ==
  ASSUME RefineState, NEW i \in NodeSet, MoveTargets(i) # {}
  PROVE  Destination(i) \in MoveTargets(i)
<1> DEFINE S == MoveTargets(i)
           key == [r \in S |-> <<Links(i, r), -r>>]
<1>1. RankSet \in SUBSET Int /\ IsFiniteSet(RankSet)
  BY RanksAtHand DEF RefineState
<1>2. S \in SUBSET Int /\ IsFiniteSet(S) /\ S # {}
  <2>1. S \in SUBSET RankSet
    BY DEF MoveTargets
  <2> QED
    BY <1>1, <2>1, FS_Subset
<1>3. \A r : Links(i, r) \in Nat
  BY LinksType DEF RefineState
<1> HIDE DEF S
<1>4. IsKey(key, S, 2)
  BY <1>2, <1>3 DEF IsKey
<1>5. \E x \in S : \A y \in S \ {x} : Exceeds(key[x], key[y])
  <2> HIDE DEF key
  <2> QED
    BY <1>2, <1>4, BestIs
<1>6. \E x \in S : \A y \in S \ {x} : Exceeds(<<Links(i, x), -x>>, <<Links(i, y), -y>>)
  BY <1>5
<1> HIDE DEF key
<1> QED
  BY <1>6 DEF Destination, Best, S

(* A node that moves. *)
Moves(i, t) ==
  /\ i \in NodeSet /\ MayLeave(i) /\ t \in MoveTargets(i)
  /\ owners' = [owners EXCEPT ![i] = t]
LEMMA MoveKeepsLoads ==
  ASSUME RefineState, NEW i, NEW t, Moves(i, t)
  PROVE  /\ owners' \in [NodeSet -> RankSet]
         /\ LoadsOf(owners', weights, Ranks) = Moved(loads, owners[i], t, weights[i])
         /\ \A r \in RankSet : /\ Moved(loads, owners[i], t, weights[i])[r] <= Cap
                               /\ Moved(loads, owners[i], t, weights[i])[r] >= 1 \/ Floor = 0
<1>1. /\ i \in NodeSet /\ loads[owners[i]] - weights[i] >= Floor
      /\ t \in RankSet /\ t # owners[i] /\ loads[t] + weights[i] <= Cap
      /\ owners' = [owners EXCEPT ![i] = t]
  BY DEF Moves, MayLeave, MoveTargets
<1>2. /\ IsOwnership(NodeSet, weights, owners, Ranks) /\ loads = LoadsOf(owners, weights, Ranks)
      /\ owners \in [NodeSet -> RankSet] /\ loads \in [RankSet -> Nat] /\ Cap \in Int /\ Floor \in Nat
      /\ weights[i] \in Nat /\ weights[i] >= 1 /\ owners[i] \in RankSet
      /\ \A r \in RankSet : loads[r] <= Cap /\ (loads[r] >= 1 \/ Floor = 0)
  BY <1>1, Basics DEF RefineState, Growth
<1>3. owners[i] # NoRank /\ t \in 0 .. Ranks - 1
  BY <1>1, <1>2 DEF NoRank, RankSet
<1>4. /\ LoadsOf(owners, weights, Ranks)[owners[i]] - weights[i] \in Nat
      /\ LoadsOf([owners EXCEPT ![i] = t], weights, Ranks)
           = Moved(LoadsOf(owners, weights, Ranks), owners[i], t, weights[i])
  <2>1. /\ IsOwnership(NodeSet, weights, owners, Ranks) /\ i \in NodeSet
        /\ owners[i] # NoRank /\ t \in 0 .. Ranks - 1 /\ t # owners[i]
    BY <1>1, <1>2, <1>3
  <2> QED
    BY ONLY <2>1, MoveLoads
<1>5. owners' \in [NodeSet -> RankSet]
  BY <1>1, <1>2
<1>6. LoadsOf(owners', weights, Ranks) = Moved(loads, owners[i], t, weights[i])
  BY <1>1, <1>2, <1>4
<1>7. ASSUME NEW r \in RankSet
      PROVE  /\ Moved(loads, owners[i], t, weights[i])[r] <= Cap
             /\ Moved(loads, owners[i], t, weights[i])[r] >= 1 \/ Floor = 0
  <2>1. loads[r] \in Nat /\ loads[r] <= Cap /\ (loads[r] >= 1 \/ Floor = 0)
    BY <1>2
  <2>2. Moved(loads, owners[i], t, weights[i])[r]
          = IF r = t THEN loads[r] + weights[i] ELSE IF r = owners[i] THEN loads[r] - weights[i] ELSE loads[r]
    BY <1>1, <1>2 DEF Moved
  <2> QED
    BY <1>1, <1>2, <2>1, <2>2
<1> QED
  BY <1>5, <1>6, <1>7

LEMMA RefineNodeKeeps == ASSUME PartitionInv, RefineNode PROVE PartitionInv'
<1>1. /\ phase = "refine" /\ node < Size /\ phase' = phase /\ node' = node + 1
      /\ input' = input /\ levels' = levels /\ adj' = adj /\ weights' = weights
  BY DEF RefineNode, graphVars
<1>2. RefineState
  BY <1>1, RefineFacts DEF Refining
<1>3. node \in 0 .. Size /\ Size \in Nat /\ NodeSet = 0 .. Size - 1
  BY <1>1, <1>2 DEF PartitionInv, CallInv, RefineState
<1>4. node \in NodeSet /\ node' \in 0 .. Size
  BY <1>1, <1>3
<1>5. CASE MayLeave(node) /\ MoveTargets(node) # {}
  <2>1. /\ owners' = [owners EXCEPT ![node] = Destination(node)]
        /\ loads' = [loads EXCEPT ![owners[node]] = @ - weights[node],
                                  ![Destination(node)] = @ + weights[node]]
    BY <1>5 DEF RefineNode, Destination
  <2>2. Moves(node, Destination(node))
    BY <1>2, <1>4, <1>5, <2>1, DestinationIs DEF Moves
  <2>3. loads' = Moved(loads, owners[node], Destination(node), weights[node])
    BY <2>1 DEF Moved
  <2>4. /\ owners' \in [NodeSet -> RankSet] /\ loads' = LoadsOf(owners', weights, Ranks)
        /\ \A r \in RankSet : loads'[r] <= Cap /\ (loads'[r] >= 1 \/ Floor = 0)
    BY <1>2, <2>2, <2>3, MoveKeepsLoads
  <2> QED
    BY <1>1, <1>2, <1>4, <2>4, RefineStays
<1>6. CASE ~(MayLeave(node) /\ MoveTargets(node) # {})
  <2>1. owners' = owners /\ loads' = loads
    BY <1>6 DEF RefineNode
  <2>2. /\ owners' \in [NodeSet -> RankSet] /\ loads' = LoadsOf(owners', weights, Ranks)
        /\ \A r \in RankSet : loads'[r] <= Cap /\ (loads'[r] >= 1 \/ Floor = 0)
    BY <1>2, <2>1 DEF RefineState, Growth
  <2> QED
    BY <1>1, <1>2, <1>4, <2>2, RefineStays
<1> QED
  BY <1>5, <1>6

LEMMA RefinePassKeeps == ASSUME PartitionInv, RefinePass PROVE PartitionInv'
<1>1. /\ phase = "refine" /\ phase' = phase /\ node' = 0
      /\ input' = input /\ levels' = levels /\ adj' = adj /\ weights' = weights
      /\ owners' = owners /\ loads' = loads
  BY DEF RefinePass, graphVars
<1>2. RefineState
  BY <1>1, RefineFacts DEF Refining
<1>3. /\ owners' \in [NodeSet -> RankSet] /\ loads' = LoadsOf(owners', weights, Ranks)
      /\ \A r \in RankSet : loads'[r] <= Cap /\ (loads'[r] >= 1 \/ Floor = 0)
  BY <1>1, <1>2 DEF RefineState, Growth
<1>4. node' \in 0 .. Size
  BY <1>1, <1>2 DEF RefineState
<1> QED
  BY <1>1, <1>2, <1>3, <1>4, RefineStays

-----------------------------------------------------------------------------
(* The end of a level. *)
LEMMA RankLoad ==
  ASSUME RefineState, NEW r \in RankSet
  PROVE  /\ (\A i \in NodeSet : owners[i] # r) => loads[r] = 0
         /\ (\E i \in NodeSet : owners[i] = r) => loads[r] >= 1
<1>1. /\ IsOwnership(NodeSet, weights, owners, Ranks) /\ loads = LoadsOf(owners, weights, Ranks)
      /\ DOMAIN owners = NodeSet
      /\ \A i \in NodeSet : weights[i] \in Nat /\ weights[i] >= 1
  BY Basics DEF RefineState, Growth
<1>2. loads[r] = SumFunctionOnSet(weights, Owned(owners, r))
  BY <1>1, LoadFacts DEF RankSet
<1>3. /\ IsFiniteSet(Owned(owners, r)) /\ Owned(owners, r) \subseteq NodeSet
      /\ \A i \in Owned(owners, r) : weights[i] \in Nat
  BY <1>1, LoadFacts
<1>4. ASSUME \A i \in NodeSet : owners[i] # r PROVE loads[r] = 0
  <2>1. Owned(owners, r) = {}
    BY <1>1, <1>4 DEF Owned
  <2> QED
    BY <1>2, <2>1, SumEmpty
<1>5. ASSUME NEW i \in NodeSet, owners[i] = r PROVE loads[r] >= 1
  <2>1. i \in Owned(owners, r)
    BY <1>1, <1>5 DEF Owned
  <2> DEFINE S == Owned(owners, r)
  <2>2. IsFiniteSet(S) /\ (\A x \in S : weights[x] \in Nat) /\ i \in S
    BY <1>3, <2>1
  <2> HIDE DEF S
  <2>3. SumFunctionOnSet(weights, S) = weights[i] + SumFunctionOnSet(weights, S \ {i})
    BY ONLY <2>2, SumWithout
  <2>4. SumFunctionOnSet(weights, S \ {i}) \in Nat
    <3>1. IsFiniteSet(S \ {i}) /\ \A x \in S \ {i} : weights[x] \in Nat
      BY <2>2, FS_Subset
    <3> QED
      BY ONLY <3>1, SumType
  <2> QED
    BY <1>1, <1>2, <2>3, <2>4 DEF S
<1> QED
  BY <1>4, <1>5

(* Going to the finer graph moves no load. *)
LEMMA Descends ==
  ASSUME RefineState, levels # << >>, input' = input,
         levels' = Front(levels), adj' = Last(levels).adj, weights' = Last(levels).weights,
         owners' = Projected(DOMAIN Last(levels).adj, owners, Last(levels).of),
         loads' = LoadsOf(owners', weights', Ranks)
  PROVE  /\ loads' = loads /\ owners' \in [NodeSet' -> RankSet]
         /\ Hierarchy(levels', adj', weights', input.matrix.n)
<1> DEFINE D == DOMAIN Last(levels).adj
           fine == Last(levels).weights
           of == Last(levels).of
<1>1. /\ Hierarchy(levels', adj', weights', input.matrix.n) /\ Merges(of, fine, weights)
  BY HierarchyShrinks DEF RefineState, CallInv
<1>2. IsGraph(adj', weights', input.matrix.n)
  BY <1>1, HierarchyTop
<1>3. /\ DOMAIN adj' = D /\ weights' = fine /\ NodeSet' = D
  BY DEF NodeSet
<1>4. /\ IsFiniteSet(D) /\ DOMAIN fine = D /\ \A i \in D : fine[i] \in Nat
  BY <1>2, <1>3, GraphFacts
<1>5. /\ IsOwnership(NodeSet, weights, owners, Ranks) /\ DOMAIN weights = NodeSet
      /\ loads = LoadsOf(owners, weights, Ranks) /\ owners \in [NodeSet -> RankSet]
  BY Basics DEF RefineState, Growth
<1> HIDE DEF D, fine, of
<1>6. LoadsOf(Projected(D, owners, of), fine, Ranks) = LoadsOf(owners, weights, Ranks)
  BY ONLY <1>1, <1>4, <1>5, ProjectedLoads
<1>7. owners' = Projected(D, owners, of)
  BY DEF D, of
<1>8. loads' = loads
  BY <1>3, <1>5, <1>6, <1>7
<1>9. of \in [D -> NodeSet]
  BY <1>1, <1>4, <1>5 DEF Merges
<1>10. owners' \in [D -> RankSet]
  BY <1>5, <1>7, <1>9 DEF Projected
<1> QED
  BY <1>1, <1>3, <1>8, <1>10

LEMMA RefineEndKeeps == ASSUME PartitionInv, RefineEnd PROVE PartitionInv'
<1>1. phase = "refine" /\ node' = 0 /\ input' = input
  BY DEF RefineEnd
<1>2. RefineState
  BY <1>1, RefineFacts DEF Refining
<1>3. /\ Growth /\ CallInv /\ input.method = "multilevel" /\ OptionsValid /\ Ranks \in Nat
      /\ Ranks \in 1 .. input.matrix.n /\ Free = {} /\ loads = LoadsOf(owners, weights, Ranks)
      /\ owners \in [NodeSet -> RankSet] /\ Size \in Nat /\ loads \in [RankSet -> Nat]
      /\ \A r \in RankSet : loads[r] <= Cap /\ (loads[r] >= 1 \/ Floor = 0)
      /\ input \in Inputs /\ Hierarchy(levels, adj, weights, input.matrix.n)
      /\ DOMAIN owners = NodeSet
  BY <1>2 DEF RefineState, Growth, CallInv
<1>4. CASE levels = << >> \/ EmptyRank
  <2>1. /\ phase' = IF EmptyRank THEN "empty rank" ELSE "score"
        /\ levels' = levels /\ adj' = adj /\ weights' = weights /\ owners' = owners /\ loads' = loads
    BY <1>4 DEF RefineEnd
  <2>2. /\ Ranks' = Ranks /\ RankSet' = RankSet /\ NodeSet' = NodeSet /\ Cap' = Cap /\ Size' = Size
        /\ OptionsValid' = OptionsValid /\ Floor' = Floor
    BY <1>1, <2>1, SameGraph
  <2>3. /\ input' \in Inputs /\ Hierarchy(levels', adj', weights', input'.matrix.n)
        /\ input'.method = "multilevel" /\ OptionsValid'
        /\ Ranks' \in 1 .. input'.matrix.n
        /\ owners' \in [NodeSet' -> RankSet' \cup {NoRank}]
        /\ loads' = LoadsOf(owners', weights', Ranks')
        /\ Free' = {}
    BY <1>1, <1>3, <2>1, <2>2 DEF Free
  <2>4. CASE EmptyRank
    <3>1. PICK r \in RankSet : \A i \in NodeSet : owners[i] # r
      BY <1>3, <2>4 DEF EmptyRank
    <3>2. loads[r] = 0
      BY <1>2, <3>1, RankLoad
    <3>3. Floor' = 0
      BY <1>3, <2>2, <3>2
    <3>4. phase' = "empty rank"
      BY <2>1, <2>4
    <3>5. CallInv'
      BY <2>3, <3>4 DEF CallInv, Coarsening, Counting, Growing, Refining, Failures
    <3>6. LoadInv'
      BY <3>3, <3>4 DEF LoadInv, Coarsening, Counting, Growing, Refining
    <3> QED
      BY <3>5, <3>6 DEF PartitionInv
  <2>5. CASE ~EmptyRank
    <3>1. phase' = "score" /\ levels' = << >>
      BY <1>4, <2>1, <2>5
    <3>2. \A r \in RankSet : \E i \in NodeSet : owners[i] = r
      BY <1>3, <2>5 DEF EmptyRank
    <3>3. \A r \in RankSet' : loads'[r] <= Cap' /\ loads'[r] >= 1
      BY <1>2, <1>3, <2>1, <2>2, <3>2, RankLoad
    <3>4. CallInv'
      BY <2>3, <3>1 DEF CallInv, Coarsening, Counting, Growing, Refining
    <3>5. LoadInv'
      BY <2>3, <3>1, <3>3 DEF LoadInv, Coarsening, Counting, Growing, Refining
    <3> QED
      BY <3>4, <3>5 DEF PartitionInv
  <2> QED
    BY <2>4, <2>5
<1>5. CASE ~(levels = << >> \/ EmptyRank)
  <2>1. /\ levels' = Front(levels) /\ adj' = Last(levels).adj /\ weights' = Last(levels).weights
        /\ owners' = Projected(DOMAIN Last(levels).adj, owners, Last(levels).of)
        /\ loads' = LoadsOf(owners', weights', Ranks) /\ phase' = phase
    BY <1>5 DEF RefineEnd, Projected
  <2>2. /\ loads' = loads /\ owners' \in [NodeSet' -> RankSet]
        /\ Hierarchy(levels', adj', weights', input.matrix.n)
    BY <1>1, <1>2, <1>5, <2>1, Descends
  <2>3. /\ Ranks' = Ranks /\ RankSet' = RankSet /\ OptionsValid' = OptionsValid
    BY <1>1 DEF Ranks, RankSet, OptionsValid
  <2>4. IsGraph(adj', weights', input.matrix.n)
    BY <2>2, HierarchyTop
  <2>5. TotalWeight(weights') = input.matrix.n /\ Cardinality(DOMAIN adj') \in Nat
    BY <2>4, GraphFacts
  <2>6. Cap' = Cap /\ Floor' = Floor
    BY <1>1, <1>3, <2>3, <2>5, Basics DEF Cap, Floor
  <2>7. node' \in 0 .. Size'
    BY <1>1, <2>5 DEF Size
  <2>8. Free' = {}
    <3>1. NoRank \notin RankSet
      BY <1>3 DEF NoRank, RankSet
    <3>2. \A i \in NodeSet' : owners'[i] # NoRank
      BY <2>2, <3>1
    <3> QED
      BY <2>2, <3>2 DEF Free
  <2>9. /\ phase' = "refine" /\ input' \in Inputs /\ Hierarchy(levels', adj', weights', input'.matrix.n)
        /\ input'.method = "multilevel" /\ OptionsValid'
        /\ Ranks' \in 1 .. input'.matrix.n
        /\ owners' \in [NodeSet' -> RankSet' \cup {NoRank}]
        /\ loads' = LoadsOf(owners', weights', Ranks')
    BY <1>1, <1>3, <2>1, <2>2, <2>3
  <2>10. CallInv'
    BY <2>7, <2>9 DEF CallInv, Coarsening, Counting, Growing, Refining
  <2>11. \A r \in RankSet' : loads'[r] <= Cap' /\ (loads'[r] >= 1 \/ Floor' = 0)
    BY <1>3, <2>2, <2>3, <2>6
  <2>12. LoadInv'
    BY <2>8, <2>9, <2>11 DEF LoadInv, Coarsening, Counting, Growing, Refining
  <2> QED
    BY <2>10, <2>12 DEF PartitionInv
<1> QED
  BY <1>4, <1>5

-----------------------------------------------------------------------------
(* Pair swaps on the finest graph. *)
SwapState == RefineState /\ levels = << >> /\ \A r \in RankSet : loads[r] >= 1
LEMMA SwapFacts ==
  ASSUME PartitionInv, phase \in {"score", "swap"}
  PROVE  SwapState
<1>1. RefineState
  BY RefineFacts DEF Refining
<1>2. levels = << >> /\ \A r \in RankSet : loads[r] >= 1
  BY DEF PartitionInv, CallInv, LoadInv
<1> QED
  BY <1>1, <1>2 DEF SwapState

LEMMA SwapStays ==
  ASSUME SwapState, phase' \in {"score", "swap", "done"}, input' = input, levels' = levels, adj' = adj,
         weights' = weights, loads' = loads,
         owners' \in [NodeSet -> RankSet], LoadsOf(owners', weights, Ranks) = loads,
         phase' = "swap" => proposals' \in Seq(Trades)
  PROVE  PartitionInv'
<1>1. /\ Ranks' = Ranks /\ RankSet' = RankSet /\ NodeSet' = NodeSet /\ Cap' = Cap /\ Size' = Size
      /\ OptionsValid' = OptionsValid /\ Floor' = Floor
  BY SameGraph
<1>2. /\ RefineState /\ levels = << >> /\ CallInv /\ input.method = "multilevel" /\ OptionsValid
      /\ Ranks \in 1 .. input.matrix.n
      /\ \A r \in RankSet : loads[r] \in Nat /\ loads[r] <= Cap /\ loads[r] >= 1
  BY DEF SwapState, RefineState
<1>3. /\ input' \in Inputs /\ Hierarchy(levels', adj', weights', input'.matrix.n)
      /\ input'.method = "multilevel" /\ OptionsValid'
      /\ Ranks' \in 1 .. input'.matrix.n
      /\ owners' \in [NodeSet' -> RankSet' \cup {NoRank}]
      /\ loads' = LoadsOf(owners', weights', Ranks')
      /\ levels' = << >>
  BY <1>1, <1>2 DEF CallInv
<1>4. Free' = {}
  <2>1. NoRank \notin RankSet
    BY <1>2 DEF NoRank, RankSet, RefineState
  <2>2. \A i \in NodeSet : owners'[i] # NoRank
    BY <2>1
  <2> QED
    BY <2>2 DEF Free
<1>5. Trades' = Trades
  BY <1>1 DEF Trades
<1>6. CallInv'
  BY <1>3, <1>5 DEF CallInv, Coarsening, Counting, Growing, Refining
<1>7. /\ \A r \in RankSet' : loads'[r] <= Cap' /\ loads'[r] >= 1
      /\ \A r \in RankSet' : loads'[r] \in 1 .. Cap'
  <2>1. Cap \in Int
    BY <1>2 DEF RefineState
  <2> QED
    BY <1>1, <1>2, <2>1
<1>8. LoadInv'
  BY <1>3, <1>4, <1>7 DEF LoadInv, Coarsening, Counting, Growing, Refining
<1> QED
  BY <1>6, <1>8 DEF PartitionInv

LEMMA OwnersNow ==
  ASSUME SwapState
  PROVE  owners \in [NodeSet -> RankSet] /\ LoadsOf(owners, weights, Ranks) = loads
BY DEF SwapState, RefineState, Growth

LEMMA ScoreKeeps == ASSUME PartitionInv, Score PROVE PartitionInv'
<1>1. /\ phase = "score" /\ phase' = "swap" /\ input' = input /\ levels' = levels /\ adj' = adj
      /\ weights' = weights /\ owners' = owners /\ loads' = loads /\ proposals' = Scored
  BY DEF Score, graphVars, Scored
<1>2. SwapState
  BY <1>1, SwapFacts
<1>3. Scored \in Seq(Trades)
  BY <1>2, ScoredTrades DEF SwapState, RefineState
<1> QED
  BY <1>1, <1>2, <1>3, OwnersNow, SwapStays

Swapped(c) == [owners EXCEPT ![c.x] = c.b, ![c.y] = c.a]
LEMMA SwapsKeepLoads ==
  ASSUME SwapState, NEW c \in Trades, Accepted(c)
  PROVE  /\ Swapped(c) \in [NodeSet -> RankSet] /\ LoadsOf(Swapped(c), weights, Ranks) = loads
         /\ Swapped(c) = [owners EXCEPT ![c.x] = owners[c.y], ![c.y] = owners[c.x]]
<1>1. /\ c.x \in NodeSet /\ c.y \in NodeSet /\ c.a \in RankSet /\ c.b \in RankSet
      /\ owners[c.x] = c.a /\ owners[c.y] = c.b
  BY DEF Trades, Accepted
<1>2. owners \in [NodeSet -> RankSet] /\ LoadsOf(owners, weights, Ranks) = loads
  BY OwnersNow
<1>3. Swapped(c) = [owners EXCEPT ![c.x] = owners[c.y], ![c.y] = owners[c.x]]
  BY <1>1 DEF Swapped
<1>4. /\ IsOwnership(NodeSet, weights, owners, Ranks) /\ weights[c.x] = weights[c.y]
      /\ owners[c.x] \in 0 .. Ranks - 1 /\ owners[c.y] \in 0 .. Ranks - 1
  BY <1>1, Basics, Finest DEF SwapState, RefineState, RankSet
<1>5. LoadsOf([owners EXCEPT ![c.x] = owners[c.y], ![c.y] = owners[c.x]], weights, Ranks)
        = LoadsOf(owners, weights, Ranks)
  BY <1>1, <1>4, SwapLoads
<1>6. Swapped(c) \in [NodeSet -> RankSet]
  BY <1>1, <1>2 DEF Swapped
<1> QED
  BY <1>2, <1>3, <1>5, <1>6

LEMMA SwapKeeps == ASSUME PartitionInv, Swap PROVE PartitionInv'
<1> DEFINE c == Head(proposals)
<1>1. /\ phase = "swap" /\ proposals # << >> /\ phase' = phase /\ input' = input /\ levels' = levels
      /\ adj' = adj /\ weights' = weights /\ loads' = loads /\ proposals' = Tail(proposals)
  BY DEF Swap, graphVars
<1>2. SwapState /\ proposals \in Seq(Trades)
  BY <1>1, SwapFacts DEF PartitionInv, CallInv
<1>3. c \in Trades /\ Tail(proposals) \in Seq(Trades)
  BY <1>1, <1>2
<1>4. IF Accepted(c) THEN owners' = Swapped(c) ELSE owners' = owners
  BY DEF Swap, Swapped
<1> HIDE DEF c
<1>5. owners' \in [NodeSet -> RankSet] /\ LoadsOf(owners', weights, Ranks) = loads
  BY <1>2, <1>3, <1>4, SwapsKeepLoads, OwnersNow
<1> QED
  BY <1>1, <1>2, <1>3, <1>5, SwapStays

LEMMA SwapPassKeeps == ASSUME PartitionInv, SwapPass PROVE PartitionInv'
<1>1. /\ phase = "swap" /\ phase' \in {"score", "done"} /\ input' = input /\ levels' = levels
      /\ adj' = adj /\ weights' = weights /\ owners' = owners /\ loads' = loads
  BY DEF SwapPass, graphVars
<1>2. SwapState
  BY <1>1, SwapFacts
<1> QED
  BY <1>1, <1>2, OwnersNow, SwapStays

LEMMA StutterKeeps == ASSUME PartitionInv, UNCHANGED vars PROVE PartitionInv'
<1>1. /\ input' = input /\ phase' = phase /\ levels' = levels /\ adj' = adj /\ weights' = weights
      /\ owners' = owners /\ loads' = loads /\ frontiers' = frontiers /\ rank' = rank /\ node' = node
      /\ proposals' = proposals
  BY DEF vars
<1>2. /\ Ranks' = Ranks /\ RankSet' = RankSet /\ NodeSet' = NodeSet /\ Cap' = Cap /\ Size' = Size
      /\ OptionsValid' = OptionsValid /\ Floor' = Floor /\ Targets' = Targets
  BY <1>1, SameGraph
<1>3. Free' = Free /\ Trades' = Trades
  BY <1>1, <1>2 DEF Free, Trades
<1>4. CallInv'
  BY <1>1, <1>2, <1>3 DEF PartitionInv, CallInv
<1>5. LoadInv'
  BY <1>1, <1>2, <1>3 DEF PartitionInv, LoadInv
<1> QED
  BY <1>4, <1>5 DEF PartitionInv

LEMMA StepKeeps == ASSUME PartitionInv, Next PROVE PartitionInv'
<1>1. CASE Enter
  BY <1>1, EnterKeeps
<1>2. CASE RegionSeed \/ RegionExpand \/ RegionNext
  BY <1>2, RegionSeedKeeps, RegionExpandKeeps, RegionNextKeeps
<1>3. CASE MultisourceClaim \/ MultisourceSweep
  BY <1>3, MultisourceClaimKeeps, MultisourceSweepKeeps
<1>4. CASE CoarsenOnce \/ StartGrowth
  BY <1>4, CoarsenKeeps, StartGrowthKeeps
<1>5. CASE GrowthClaim \/ GrowthSweep
  BY <1>5, GrowthClaimKeeps, GrowthSweepKeeps
<1>6. CASE RefineNode \/ RefinePass \/ RefineEnd
  BY <1>6, RefineNodeKeeps, RefinePassKeeps, RefineEndKeeps
<1>7. CASE Score \/ Swap \/ SwapPass
  BY <1>7, ScoreKeeps, SwapKeeps, SwapPassKeeps
<1>8. CASE Finished
  <2>1. UNCHANGED vars
    BY <1>8 DEF Finished
  <2> QED
    BY <2>1, StutterKeeps
<1> QED
  BY <1>1, <1>2, <1>3, <1>4, <1>5, <1>6, <1>7, <1>8 DEF Next

(* The invariant of the three partitioners: the hierarchy is a chain of     *)
(* graphs whose weights add up to the rows, each level the merged one       *)
(* below it, and what a rank is believed to own is what it owns.            *)
THEOREM PartitionAlways == Spec => []PartitionInv
<1>1. Init => PartitionInv
  BY PartitionStarts
<1>2. PartitionInv /\ [Next]_vars => PartitionInv'
  BY StepKeeps, StutterKeeps
<1> QED
  BY <1>1, <1>2, PTL DEF Spec

(* Loads are those of the owners and within the tolerance, and a partition  *)
(* that is returned gives every row away and every rank a row, for every    *)
(* matrix, number of ranks and options.                                     *)
THEOREM PartitionsBalanced == Spec => []Balanced
<1>1. ASSUME PartitionInv PROVE Balanced
  <2>1. phase \in Growing \cup Refining \cup {"done"} => loads = LoadsOf(owners, weights, Ranks)
    BY <1>1 DEF PartitionInv, LoadInv, Counting
  <2>2. phase \in Refining \cup {"grow"} => \A r \in RankSet : loads[r] <= Cap
    BY <1>1 DEF PartitionInv, LoadInv
  <2>3. /\ phase \in Refining \cup {"done"} => Free = {}
        /\ phase = "empty rank" => Floor = 0
        /\ phase = "done" =>
              IF input.method = "multilevel"
              THEN \A r \in RankSet : loads[r] \in 1 .. Cap
              ELSE loads = Targets
    BY <1>1 DEF PartitionInv, LoadInv
  <2> QED
    BY <2>1, <2>2, <2>3 DEF Balanced
<1> QED
  BY <1>1, PartitionAlways, PTL

-----------------------------------------------------------------------------
(* The cut. Edges of it that touch a node, and those that do not. *)
IsEdges(a) ==
  /\ DOMAIN a \in SUBSET Int /\ IsFiniteSet(DOMAIN a)
  /\ a \in [DOMAIN a -> SUBSET DOMAIN a]
  /\ \A i, j \in DOMAIN a : j \in a[i] => i # j /\ i \in a[j]
IsCut(a, o, p) == p[1] < p[2] /\ p[2] \in a[p[1]] /\ o[p[1]] # o[p[2]]
CutOff(a, o, i) == {p \in (DOMAIN a) \X (DOMAIN a) : IsCut(a, o, p) /\ p[1] # i /\ p[2] # i}
CutAt(a, o, i) == {p \in (DOMAIN a) \X (DOMAIN a) : IsCut(a, o, p) /\ (p[1] = i \/ p[2] = i)}
CutLinks(a, o, i) == {j \in a[i] : o[j] # o[i]}
Away(a, o, i, r) == {j \in a[i] : o[j] # r}
Touch(a, o, i, r) == {j \in a[i] : o[j] = r}
Edge(i, j) == IF i < j THEN <<i, j>> ELSE <<j, i>>

LEMMA CountBoth ==
  ASSUME NEW A, NEW B, IsFiniteSet(A), IsFiniteSet(B), A \cap B = {}
  PROVE  Cardinality(A \cup B) = Cardinality(A) + Cardinality(B)
<1>1. Cardinality(A \cup B) = Cardinality(A) + Cardinality(B) - Cardinality(A \cap B)
  BY FS_Union
<1>2. Cardinality(A \cap B) = 0 /\ Cardinality(A) \in Nat /\ Cardinality(B) \in Nat
  BY FS_EmptySet, FS_CardinalityType
<1> QED
  BY <1>1, <1>2

LEMMA CutAtNode ==
  ASSUME NEW a, NEW o, IsEdges(a), NEW i \in DOMAIN a
  PROVE  /\ IsFiniteSet(CutAt(a, o, i)) /\ IsFiniteSet(CutLinks(a, o, i))
         /\ Cardinality(CutAt(a, o, i)) = Cardinality(CutLinks(a, o, i))
<1> DEFINE S == CutLinks(a, o, i)
           T == CutAt(a, o, i)
           f == [j \in S |-> Edge(i, j)]
<1>1. /\ DOMAIN a \in SUBSET Int /\ IsFiniteSet(DOMAIN a) /\ a[i] \in SUBSET DOMAIN a /\ i \in Int
      /\ \A k \in DOMAIN a : a[k] \subseteq DOMAIN a
      /\ \A k, j \in DOMAIN a : j \in a[k] => k # j /\ k \in a[j]
  BY DEF IsEdges
<1>2. /\ \A j \in S : j \in DOMAIN a /\ j \in Int /\ j # i /\ j \in a[i] /\ i \in a[j] /\ o[j] # o[i]
      /\ S \subseteq DOMAIN a
  BY <1>1 DEF CutLinks
<1>3. IsFiniteSet(S)
  BY <1>1, <1>2, FS_Subset
<1>4. \A j \in S : Edge(i, j) \in T
  <2> TAKE j \in S
  <2>1. j \in DOMAIN a /\ j \in Int /\ j # i /\ j \in a[i] /\ i \in a[j] /\ o[j] # o[i]
    BY <1>2
  <2>2. CASE i < j
    <3>1. Edge(i, j) = <<i, j>> /\ <<i, j>>[1] = i /\ <<i, j>>[2] = j
      BY <2>2 DEF Edge
    <3> QED
      BY <2>1, <2>2, <3>1 DEF CutAt, IsCut
  <2>3. CASE ~(i < j)
    <3>1. Edge(i, j) = <<j, i>> /\ <<j, i>>[1] = j /\ <<j, i>>[2] = i /\ j < i
      BY <1>1, <2>1, <2>3 DEF Edge
    <3> QED
      BY <2>1, <3>1 DEF CutAt, IsCut
  <2> QED
    BY <2>2, <2>3
<1>5. \A j, k \in S : Edge(i, j) = Edge(i, k) => j = k
  <2> TAKE j, k \in S
  <2>1. j \in Int /\ k \in Int /\ i \in Int
    BY <1>1, <1>2
  <2> QED
    BY <2>1 DEF Edge
<1>6. \A p \in T : \E j \in S : Edge(i, j) = p
  <2> TAKE p \in T
  <2>1. /\ p[1] \in DOMAIN a /\ p[2] \in DOMAIN a /\ p = <<p[1], p[2]>>
        /\ p[1] < p[2] /\ p[2] \in a[p[1]] /\ o[p[1]] # o[p[2]] /\ (p[1] = i \/ p[2] = i)
    BY DEF CutAt, IsCut
  <2>2. p[1] \in Int /\ p[2] \in Int
    BY <1>1, <2>1
  <2>3. CASE p[1] = i
    <3>1. p[2] \in S
      BY <2>1, <2>3 DEF CutLinks
    <3>2. Edge(i, p[2]) = p
      BY <2>1, <2>3 DEF Edge
    <3> QED
      BY <3>1, <3>2
  <2>4. CASE p[2] = i
    <3>1. p[1] \in S
      BY <1>1, <2>1, <2>4 DEF CutLinks
    <3>2. Edge(i, p[1]) = p
      BY <2>1, <2>2, <2>4 DEF Edge
    <3> QED
      BY <3>1, <3>2
  <2> QED
    BY <2>1, <2>3, <2>4
<1> HIDE DEF S, T
<1>7. f \in Bijection(S, T)
  <2>1. f \in [S -> T]
    BY <1>4
  <2>2. \A j, k \in S : f[j] = f[k] => j = k
    BY <1>5
  <2>3. \A p \in T : \E j \in S : f[j] = p
    BY <1>6
  <2> HIDE DEF f
  <2> QED
    BY <2>1, <2>2, <2>3 DEF Bijection, Injection, Surjection, IsInjective
<1>8. IsFiniteSet(T) /\ Cardinality(T) = Cardinality(S)
  BY <1>3, <1>7, FS_Bijection DEF ExistsBijection
<1> QED
  BY <1>3, <1>8 DEF S, T

LEMMA CutSplits ==
  ASSUME NEW a, NEW o, IsEdges(a), NEW i \in DOMAIN a
  PROVE  /\ Cut(a, o) = Cardinality(CutOff(a, o, i)) + Cardinality(CutLinks(a, o, i))
         /\ Cut(a, o) \in Nat /\ Cardinality(CutOff(a, o, i)) \in Nat
         /\ Cardinality(CutLinks(a, o, i)) \in Nat
<1> DEFINE A == CutOff(a, o, i)
           B == CutAt(a, o, i)
<1>1. IsFiniteSet(B) /\ IsFiniteSet(CutLinks(a, o, i)) /\ Cardinality(B) = Cardinality(CutLinks(a, o, i))
  BY CutAtNode
<1>2. IsFiniteSet(A)
  <2>1. IsFiniteSet((DOMAIN a) \X (DOMAIN a))
    BY FS_Product DEF IsEdges
  <2>2. A \in SUBSET ((DOMAIN a) \X (DOMAIN a))
    BY DEF CutOff
  <2> QED
    BY <2>1, <2>2, FS_Subset
<1>3. A \cap B = {}
  BY DEF CutOff, CutAt
<1>4. Cut(a, o) = Cardinality(A \cup B)
  <2>1. A \cup B = {p \in (DOMAIN a) \X (DOMAIN a) :
                      p[1] < p[2] /\ p[2] \in a[p[1]] /\ o[p[1]] # o[p[2]]}
    BY DEF CutOff, CutAt, IsCut
  <2> QED
    BY <2>1 DEF Cut
<1> HIDE DEF A, B
<1>5. Cardinality(A \cup B) = Cardinality(A) + Cardinality(B)
  BY ONLY <1>1, <1>2, <1>3, CountBoth
<1>6. Cardinality(A) \in Nat /\ Cardinality(B) \in Nat
  BY <1>1, <1>2, FS_CardinalityType
<1> QED
  BY <1>1, <1>4, <1>5, <1>6 DEF A

LEMMA TouchOrAcross ==
  ASSUME NEW a, NEW o, IsEdges(a), NEW i \in DOMAIN a, NEW r
  PROVE  /\ Cardinality(Touch(a, o, i, r)) \in Nat /\ IsFiniteSet(Touch(a, o, i, r))
         /\ Cardinality(a[i]) \in Nat
         /\ Cardinality(Away(a, o, i, r)) \in Nat
         /\ Cardinality(Away(a, o, i, r)) + Cardinality(Touch(a, o, i, r)) = Cardinality(a[i])
<1> DEFINE A == Away(a, o, i, r)
           B == Touch(a, o, i, r)
<1>1. IsFiniteSet(a[i])
  BY FS_Subset DEF IsEdges
<1>2. IsFiniteSet(A) /\ IsFiniteSet(B) /\ A \cap B = {} /\ A \cup B = a[i]
  BY <1>1, FS_Subset DEF Touch, Away
<1> HIDE DEF A, B
<1>3. Cardinality(a[i]) = Cardinality(A) + Cardinality(B)
  BY ONLY <1>2, CountBoth
<1>4. Cardinality(A) \in Nat /\ Cardinality(B) \in Nat
  BY <1>2, FS_CardinalityType
<1> QED
  BY <1>2, <1>3, <1>4 DEF A, B

(* A node that goes from one owner to another trades the links it had to   *)
(* the new one for those to the old one.                                   *)
LEMMA MoveCut ==
  ASSUME NEW a, NEW o, IsEdges(a), NEW i \in DOMAIN a, NEW t, DOMAIN o = DOMAIN a
  PROVE  /\ Cut(a, [o EXCEPT ![i] = t]) + Cardinality(Touch(a, o, i, t))
              = Cut(a, o) + Cardinality(Touch(a, o, i, o[i]))
         /\ Cut(a, [o EXCEPT ![i] = t]) \in Nat /\ Cut(a, o) \in Nat
         /\ Cardinality(Touch(a, o, i, t)) \in Nat /\ Cardinality(Touch(a, o, i, o[i])) \in Nat
<1> DEFINE q == [o EXCEPT ![i] = t]
<1>1. q[i] = t /\ \A j \in DOMAIN a : j # i => q[j] = o[j]
  OBVIOUS
<1> HIDE DEF q
<1>2. CutOff(a, q, i) = CutOff(a, o, i)
  BY <1>1 DEF CutOff, IsCut
<1>3. \A j \in a[i] : j \in DOMAIN a /\ j # i
  BY DEF IsEdges
<1>4. CutLinks(a, q, i) = Away(a, o, i, t)
  BY <1>1, <1>3 DEF CutLinks, Away
<1>5. CutLinks(a, o, i) = Away(a, o, i, o[i])
  BY DEF CutLinks, Away
<1>6. /\ Cut(a, q) = Cardinality(CutOff(a, o, i)) + Cardinality(Away(a, o, i, t))
      /\ Cut(a, o) = Cardinality(CutOff(a, o, i)) + Cardinality(Away(a, o, i, o[i]))
      /\ Cut(a, q) \in Nat /\ Cut(a, o) \in Nat /\ Cardinality(CutOff(a, o, i)) \in Nat
  BY <1>2, <1>4, <1>5, CutSplits
<1>7. /\ Cardinality(Away(a, o, i, t)) + Cardinality(Touch(a, o, i, t)) = Cardinality(a[i])
      /\ Cardinality(Away(a, o, i, o[i])) + Cardinality(Touch(a, o, i, o[i])) = Cardinality(a[i])
      /\ Cardinality(Away(a, o, i, t)) \in Nat /\ Cardinality(Touch(a, o, i, t)) \in Nat
      /\ Cardinality(Away(a, o, i, o[i])) \in Nat /\ Cardinality(Touch(a, o, i, o[i])) \in Nat
      /\ Cardinality(a[i]) \in Nat
  <2>1. /\ Cardinality(Away(a, o, i, t)) + Cardinality(Touch(a, o, i, t)) = Cardinality(a[i])
        /\ Cardinality(Away(a, o, i, t)) \in Nat /\ Cardinality(Touch(a, o, i, t)) \in Nat
        /\ Cardinality(a[i]) \in Nat
    BY TouchOrAcross
  <2>2. /\ Cardinality(Away(a, o, i, o[i])) + Cardinality(Touch(a, o, i, o[i])) = Cardinality(a[i])
        /\ Cardinality(Away(a, o, i, o[i])) \in Nat /\ Cardinality(Touch(a, o, i, o[i])) \in Nat
    BY TouchOrAcross
  <2> QED
    BY <2>1, <2>2
<1> DEFINE c1 == Cut(a, q)
           c2 == Cut(a, o)
           off == Cardinality(CutOff(a, o, i))
           n1 == Cardinality(Away(a, o, i, t))
           n2 == Cardinality(Away(a, o, i, o[i]))
           t1 == Cardinality(Touch(a, o, i, t))
           t2 == Cardinality(Touch(a, o, i, o[i]))
           all == Cardinality(a[i])
<1>8. /\ c1 = off + n1 /\ c2 = off + n2 /\ n1 + t1 = all /\ n2 + t2 = all
      /\ c1 \in Nat /\ c2 \in Nat /\ off \in Nat /\ n1 \in Nat /\ n2 \in Nat /\ t1 \in Nat /\ t2 \in Nat
      /\ all \in Nat
  BY <1>6, <1>7
<1> HIDE DEF c1, c2, off, n1, n2, t1, t2, all
<1>9. c1 + t1 = c2 + t2
  BY ONLY <1>8
<1> QED
  BY <1>8, <1>9 DEF c1, c2, t1, t2, q

-----------------------------------------------------------------------------
(* Two nodes that trade owners: the edge between them is cut before and after. *)
Beside(a, o, i, k, r) == {j \in a[i] \ {k} : o[j] = r}
LEMMA TouchBeside ==
  ASSUME NEW a, NEW o, IsEdges(a), NEW i \in DOMAIN a, NEW k, NEW r
  PROVE  /\ Cardinality(Touch(a, o, i, r))
              = Cardinality(Beside(a, o, i, k, r)) + (IF k \in a[i] /\ o[k] = r THEN 1 ELSE 0)
         /\ Cardinality(Beside(a, o, i, k, r)) \in Nat
<1> DEFINE A == Touch(a, o, i, r)
           B == Beside(a, o, i, k, r)
<1>1. IsFiniteSet(A)
  BY TouchOrAcross
<1>2. B = A \ {k} /\ (k \in A <=> k \in a[i] /\ o[k] = r)
  BY DEF Touch, Beside
<1> HIDE DEF A, B
<1>3. IsFiniteSet(A \ {k}) /\ Cardinality(A \ {k}) = IF k \in A THEN Cardinality(A) - 1 ELSE Cardinality(A)
  BY <1>1, FS_RemoveElement
<1>4. Cardinality(A) \in Nat /\ Cardinality(A \ {k}) \in Nat
  BY <1>1, <1>3, FS_CardinalityType
<1>5. Cardinality(A) = Cardinality(B) + (IF k \in A THEN 1 ELSE 0)
  BY <1>2, <1>3, <1>4
<1> QED
  BY <1>2, <1>4, <1>5 DEF A, B

Improvement(a, o, x, y) ==
  (Cardinality(Beside(a, o, x, y, o[y])) - Cardinality(Beside(a, o, x, y, o[x])))
  + (Cardinality(Beside(a, o, y, x, o[x])) - Cardinality(Beside(a, o, y, x, o[y])))
Exchanged(o, x, y) == [o EXCEPT ![x] = o[y], ![y] = o[x]]
LEMMA SwapCut ==
  ASSUME NEW a, NEW o, IsEdges(a), NEW x \in DOMAIN a, NEW y \in DOMAIN a, DOMAIN o = DOMAIN a, o[x] # o[y]
  PROVE  /\ Cut(a, Exchanged(o, x, y)) = Cut(a, o) - Improvement(a, o, x, y)
         /\ Cut(a, o) \in Nat /\ Improvement(a, o, x, y) \in Int
<1> DEFINE p == o[x]
           q == o[y]
           once == [o EXCEPT ![x] = q]
           twice == [once EXCEPT ![y] = p]
           e == IF y \in a[x] THEN 1 ELSE 0
           xq == Cardinality(Beside(a, o, x, y, q))
           xp == Cardinality(Beside(a, o, x, y, p))
           yq == Cardinality(Beside(a, o, y, x, q))
           yp == Cardinality(Beside(a, o, y, x, p))
           c0 == Cut(a, o)
           c1 == Cut(a, once)
           c2 == Cut(a, twice)
<1>1. x # y /\ p # q
  OBVIOUS
<1>2. DOMAIN once = DOMAIN a /\ once[x] = q /\ once[y] = q /\ \A j \in DOMAIN a : j # x => once[j] = o[j]
  BY <1>1
<1>3. Exchanged(o, x, y) = twice
  BY <1>1 DEF Exchanged
<1> HIDE DEF once
<1>4. y \in a[x] <=> x \in a[y]
  BY DEF IsEdges
<1>5. /\ Cardinality(Touch(a, o, x, q)) = xq + e
      /\ Cardinality(Touch(a, o, x, p)) = xp
      /\ xq \in Nat /\ xp \in Nat
  <2>1. /\ Cardinality(Touch(a, o, x, q)) = xq + (IF y \in a[x] /\ o[y] = q THEN 1 ELSE 0) /\ xq \in Nat
    BY TouchBeside
  <2>2. /\ Cardinality(Touch(a, o, x, p)) = xp + (IF y \in a[x] /\ o[y] = p THEN 1 ELSE 0) /\ xp \in Nat
    BY TouchBeside
  <2> HIDE DEF xq, xp
  <2> QED
    BY <1>1, <2>1, <2>2
<1>6. /\ Beside(a, once, y, x, q) = Beside(a, o, y, x, q)
      /\ Beside(a, once, y, x, p) = Beside(a, o, y, x, p)
  BY <1>2 DEF Beside, IsEdges
<1>7. /\ Cardinality(Touch(a, once, y, q)) = yq + e
      /\ Cardinality(Touch(a, once, y, p)) = yp
      /\ yq \in Nat /\ yp \in Nat
  <2>1. /\ Cardinality(Touch(a, once, y, q)) = yq + (IF x \in a[y] /\ once[x] = q THEN 1 ELSE 0)
        /\ yq \in Nat
    BY <1>6, TouchBeside
  <2>2. /\ Cardinality(Touch(a, once, y, p)) = yp + (IF x \in a[y] /\ once[x] = p THEN 1 ELSE 0)
        /\ yp \in Nat
    BY <1>6, TouchBeside
  <2> HIDE DEF yq, yp
  <2> QED
    BY <1>1, <1>2, <1>4, <2>1, <2>2
<1>8. c1 + Cardinality(Touch(a, o, x, q)) = c0 + Cardinality(Touch(a, o, x, p)) /\ c1 \in Nat /\ c0 \in Nat
  BY MoveCut DEF once
<1>9. c2 + Cardinality(Touch(a, once, y, p)) = c1 + Cardinality(Touch(a, once, y, q)) /\ c2 \in Nat
  BY <1>2, MoveCut
<1>10. Improvement(a, o, x, y) = (xq - xp) + (yp - yq)
  BY DEF Improvement
<1>11. e \in {0, 1}
  OBVIOUS
<1> HIDE DEF e, xq, xp, yq, yp, c0, c1, c2
<1>12. c1 + (xq + e) = c0 + xp /\ c2 + yp = c1 + (yq + e)
  BY <1>5, <1>7, <1>8, <1>9
<1>13. c2 = c0 - ((xq - xp) + (yp - yq))
  BY <1>5, <1>7, <1>8, <1>9, <1>11, <1>12
<1>14. Improvement(a, o, x, y) \in Int
  BY <1>5, <1>7, <1>10
<1> QED
  BY <1>3, <1>8, <1>10, <1>13, <1>14 DEF c0, c2

LEMMA EdgesAtHand ==
  ASSUME RefineState
  PROVE  IsEdges(adj) /\ DOMAIN owners = DOMAIN adj
<1>1. GraphAtHand /\ owners \in [NodeSet -> RankSet]
  BY DEF RefineState
<1>2. IsFiniteSet(NodeSet) /\ NodeSet \in SUBSET Int
  BY <1>1, NodesAtHand
<1> QED
  BY <1>1, <1>2 DEF IsEdges, GraphAtHand, IsGraph, NodeSet

LEMMA MoveImproves ==
  ASSUME RefineState, NEW i, NEW t, Moves(i, t)
  PROVE  Cut(adj, owners') < Cut(adj, owners)
<1>1. i \in DOMAIN adj /\ owners' = [owners EXCEPT ![i] = t] /\ Links(i, t) > Links(i, owners[i])
  BY DEF Moves, MoveTargets, NodeSet
<1>2. /\ Cut(adj, owners') + Cardinality(Touch(adj, owners, i, t))
           = Cut(adj, owners) + Cardinality(Touch(adj, owners, i, owners[i]))
      /\ Cut(adj, owners') \in Nat /\ Cut(adj, owners) \in Nat
      /\ Cardinality(Touch(adj, owners, i, t)) \in Nat
      /\ Cardinality(Touch(adj, owners, i, owners[i])) \in Nat
  BY <1>1, EdgesAtHand, MoveCut
<1>3. Cardinality(Touch(adj, owners, i, t)) > Cardinality(Touch(adj, owners, i, owners[i]))
  BY <1>1 DEF Links, Touch
<1> QED
  BY <1>2, <1>3

LEMMA GainIs ==
  ASSUME NEW c, owners[c.x] = c.a, owners[c.y] = c.b
  PROVE  ExactGain(c) = Improvement(adj, owners, c.x, c.y)
BY DEF ExactGain, Improvement, Beside

LEMMA SwapImproves ==
  ASSUME SwapState, NEW c \in Trades, Accepted(c)
  PROVE  Cut(adj, Swapped(c)) < Cut(adj, owners)
<1>1. /\ c.x \in DOMAIN adj /\ c.y \in DOMAIN adj /\ owners[c.x] = c.a /\ owners[c.y] = c.b
      /\ ExactGain(c) > 0
  BY DEF Trades, Accepted, NodeSet
<1> DEFINE x == c.x
           y == c.y
<1>2. Improvement(adj, owners, x, y) > 0
  BY <1>1, GainIs
<1>3. Swapped(c) = Exchanged(owners, x, y)
  BY SwapsKeepLoads DEF Exchanged
<1>4. IsEdges(adj) /\ DOMAIN owners = DOMAIN adj /\ x \in DOMAIN adj /\ y \in DOMAIN adj
  BY <1>1, EdgesAtHand DEF SwapState
<1> HIDE DEF x, y
<1>5. owners[x] # owners[y]
  <2>1. SUFFICES ASSUME owners[x] = owners[y] PROVE FALSE
    OBVIOUS
  <2>2. /\ Cardinality(Beside(adj, owners, x, y, owners[x])) \in Nat
        /\ Cardinality(Beside(adj, owners, y, x, owners[x])) \in Nat
    BY <1>4, TouchBeside
  <2>3. Improvement(adj, owners, x, y) = 0
    BY <2>1, <2>2 DEF Improvement
  <2> QED
    BY <1>2, <2>3
<1>6. /\ Cut(adj, Swapped(c)) = Cut(adj, owners) - Improvement(adj, owners, x, y)
      /\ Cut(adj, owners) \in Nat /\ Improvement(adj, owners, x, y) \in Int
  BY <1>3, <1>4, <1>5, SwapCut
<1> QED
  BY <1>2, <1>6

(* One step of refinement. *)
Improving ==
  /\ phase \in {"refine", "swap"} /\ levels' = levels /\ owners' # owners
        => Cut(adj, owners') < Cut(adj, owners)
  /\ levels' # levels /\ phase = "refine" => loads' = loads
LEMMA RefineNodeImproves == ASSUME PartitionInv, RefineNode PROVE Improving
<1>1. phase = "refine" /\ node < Size /\ levels' = levels
  BY DEF RefineNode, graphVars
<1>2. RefineState
  BY <1>1, RefineFacts DEF Refining
<1>3. node \in 0 .. Size /\ Size \in Nat /\ NodeSet = 0 .. Size - 1
  BY <1>1, <1>2 DEF PartitionInv, CallInv, RefineState
<1>4. ASSUME owners' # owners PROVE Cut(adj, owners') < Cut(adj, owners)
  <2>1. /\ MayLeave(node) /\ MoveTargets(node) # {}
        /\ owners' = [owners EXCEPT ![node] = Destination(node)]
    BY <1>4 DEF RefineNode, Destination
  <2>2. Moves(node, Destination(node))
    BY <1>1, <1>2, <1>3, <2>1, DestinationIs DEF Moves
  <2> QED
    BY <1>2, <2>2, MoveImproves
<1> QED
  BY <1>1, <1>4 DEF Improving

LEMMA RefineEndImproves == ASSUME PartitionInv, RefineEnd PROVE Improving
<1>1. phase = "refine" /\ input' = input
  BY DEF RefineEnd
<1>2. RefineState
  BY <1>1, RefineFacts DEF Refining
<1>3. CASE levels = << >> \/ EmptyRank
  BY <1>3 DEF RefineEnd, Improving
<1>4. CASE ~(levels = << >> \/ EmptyRank)
  <2>1. /\ levels' = Front(levels) /\ adj' = Last(levels).adj /\ weights' = Last(levels).weights
        /\ owners' = Projected(DOMAIN Last(levels).adj, owners, Last(levels).of)
        /\ loads' = LoadsOf(owners', weights', Ranks)
    BY <1>4 DEF RefineEnd, Projected
  <2>2. loads' = loads
    BY <1>1, <1>2, <1>4, <2>1, Descends
  <2>3. levels' # levels
    <3>1. levels \in Seq(ToSet(levels)) /\ levels # << >>
      BY <1>2, <1>4 DEF RefineState, CallInv, Hierarchy
    <3>2. Len(Front(levels)) = Len(levels) - 1 /\ Len(levels) \in Nat
      BY <3>1, FrontIs
    <3> QED
      BY <2>1, <3>2
  <2> QED
    BY <2>2, <2>3 DEF Improving
<1> QED
  BY <1>3, <1>4

LEMMA SwapImprovesCut == ASSUME PartitionInv, Swap PROVE Improving
<1> DEFINE c == Head(proposals)
<1>1. phase = "swap" /\ proposals # << >> /\ levels' = levels
  BY DEF Swap, graphVars
<1>2. SwapState /\ proposals \in Seq(Trades)
  BY <1>1, SwapFacts DEF PartitionInv, CallInv
<1>3. c \in Trades
  BY <1>1, <1>2
<1>4. IF Accepted(c) THEN owners' = Swapped(c) ELSE owners' = owners
  BY DEF Swap, Swapped
<1> HIDE DEF c
<1>5. ASSUME owners' # owners PROVE Cut(adj, owners') < Cut(adj, owners)
  BY <1>2, <1>3, <1>4, <1>5, SwapImproves
<1> QED
  BY <1>1, <1>5 DEF Improving

LEMMA StepImproves == ASSUME PartitionInv, Next PROVE Improving
<1>1. CASE Enter \/ RegionSeed \/ RegionExpand \/ RegionNext \/ MultisourceClaim \/ MultisourceSweep
  BY <1>1, Zenon DEF Enter, RegionSeed, RegionExpand, RegionNext, MultisourceClaim, MultisourceSweep, Improving
<1>2. CASE CoarsenOnce \/ StartGrowth \/ GrowthClaim \/ GrowthSweep \/ Score
  BY <1>2 DEF CoarsenOnce, StartGrowth, GrowthClaim, GrowthSweep, Score, Improving
<1>3. CASE RefinePass \/ SwapPass
  BY <1>3 DEF RefinePass, SwapPass, graphVars, Improving
<1>4. CASE Finished
  BY <1>4 DEF Finished, vars, Improving
<1> QED
  BY <1>1, <1>2, <1>3, <1>4, RefineNodeImproves, RefineEndImproves, SwapImprovesCut, Zenon DEF Next

(* Every node that refinement moves and every pair it swaps lowers the cut  *)
(* of the graph at hand, although the pairs were scored before others were  *)
(* swapped; and the projection to the finer graph moves no load.            *)
THEOREM RefinementImproves == Spec => CutDecreases
<1>1. PartitionInv /\ [Next]_vars => [Improving]_vars
  BY StepImproves
<1> QED
  BY <1>1, PartitionAlways, PTL DEF Spec, CutDecreases, Improving
=============================================================================
