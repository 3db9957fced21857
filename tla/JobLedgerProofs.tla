--------------------------- MODULE JobLedgerProofs ---------------------------
(* Proofs about the abstract ledger, for any set of jobs and executors.      *)
EXTENDS JobLedger, FiniteSetTheorems, TLAPS

(* Holder sets stay finite although Executors need not be: an executor joins *)
(* one at a time.                                                            *)
HoldersFinite == \A j \in Jobs : IsFiniteSet(holders[j])

(* The inductive invariant.  Licensed is the induction hypothesis proper:    *)
(* AtMostOncePerClaim is not inductive, a second executor alive would break  *)
(* it with its next step.                                                    *)
IInv == TypeOK /\ HoldersFinite /\ Licensed /\ AnsweredWasApplied

(* The rows, holders and counters always have their types.                   *)
THEOREM LedgerTypeCorrect == Spec => []TypeOK
<1>1. Init => TypeOK
  BY DEF Init, TypeOK, RowStates
<1>2. TypeOK /\ [Next]_vars => TypeOK'
  <2> SUFFICES ASSUME TypeOK, [Next]_vars PROVE TypeOK'
    OBVIOUS
  <2> USE DEF TypeOK, RowStates
  <2>1. ASSUME NEW e \in Executors, NEW j \in Jobs, Claim(e, j) PROVE TypeOK'
    BY <2>1 DEF Claim
  <2>2. ASSUME NEW e \in Executors, NEW j \in Jobs, Apply(e, j) PROVE TypeOK'
    BY <2>2 DEF Apply
  <2>3. ASSUME NEW e \in Executors, NEW j \in Jobs, Release(e, j) PROVE TypeOK'
    BY <2>3 DEF Release
  <2>4. ASSUME NEW j \in Jobs, Answer(j) PROVE TypeOK'
    BY <2>4 DEF Answer
  <2>5. ASSUME NEW E \in SUBSET Executors, Die(E) PROVE TypeOK'
    BY <2>5 DEF Die
  <2>6. ASSUME NEW S \in SUBSET Jobs, Sweep(S) PROVE TypeOK'
    BY <2>6 DEF Sweep
  <2>7. CASE UNCHANGED vars
    BY <2>7 DEF vars
  <2> QED
    BY <2>1, <2>2, <2>3, <2>4, <2>5, <2>6, <2>7 DEF Next
<1> QED
  BY <1>1, <1>2, PTL DEF Spec

-----------------------------------------------------------------------------
(* What one executor more or less does to a finite holder set.               *)
LEMMA HolderCount ==
  ASSUME NEW H, IsFiniteSet(H), NEW e
  PROVE  /\ Cardinality(H) \in Nat
         /\ IsFiniteSet(H \cup {e}) /\ IsFiniteSet(H \ {e})
         /\ e \notin H => Cardinality(H \cup {e}) = Cardinality(H) + 1
         /\ e \in H => Cardinality(H \ {e}) = Cardinality(H) - 1
BY FS_CardinalityType, FS_AddElement, FS_RemoveElement

(* Losing holders never raises the count.                                    *)
LEMMA FewerHolders ==
  ASSUME NEW H, IsFiniteSet(H), NEW E
  PROVE  /\ IsFiniteSet(H \ E)
         /\ Cardinality(H \ E) \in Nat
         /\ Cardinality(H) \in Nat
         /\ Cardinality(H \ E) <= Cardinality(H)
BY FS_Subset, FS_CardinalityType

THEOREM IInvInductive == IInv /\ TypeOK' /\ [Next]_vars => IInv'
<1> SUFFICES ASSUME IInv, TypeOK', [Next]_vars PROVE IInv'
  OBVIOUS
<1> USE DEF IInv, TypeOK, RowStates, HoldersFinite
<1>1. ASSUME NEW e \in Executors, NEW j \in Jobs, Claim(e, j) PROVE IInv'
  <2>1. HoldersFinite'
    BY <1>1, HolderCount DEF Claim
  <2>2. Licensed'
    <3> SUFFICES ASSUME NEW k \in Jobs
                 PROVE  Cardinality(holders'[k]) + applied'[k]
                          <= (IF row'[k] = "none" THEN 0 ELSE 1) + premature'[k]
      BY DEF Licensed
    <3>1. CASE k = j
      <4>1. Cardinality(holders'[j]) = Cardinality(holders[j]) + 1
        BY <1>1, HolderCount DEF Claim
      <4>2. Cardinality(holders[j]) \in Nat
        BY HolderCount
      <4> QED
        BY <1>1, <3>1, <4>1, <4>2 DEF Claim, Licensed
    <3>2. CASE k # j
      BY <1>1, <3>2 DEF Claim, Licensed
    <3> QED
      BY <3>1, <3>2
  <2>3. AnsweredWasApplied'
    BY <1>1 DEF Claim, AnsweredWasApplied
  <2> QED
    BY <2>1, <2>2, <2>3
<1>2. ASSUME NEW e \in Executors, NEW j \in Jobs, Apply(e, j) PROVE IInv'
  <2>1. HoldersFinite'
    BY <1>2, HolderCount DEF Apply
  <2>2. Licensed'
    <3> SUFFICES ASSUME NEW k \in Jobs
                 PROVE  Cardinality(holders'[k]) + applied'[k]
                          <= (IF row'[k] = "none" THEN 0 ELSE 1) + premature'[k]
      BY DEF Licensed
    <3>1. CASE k = j
      <4>1. Cardinality(holders'[j]) = Cardinality(holders[j]) - 1
        BY <1>2, HolderCount DEF Apply
      <4>2. Cardinality(holders[j]) \in Nat
        BY HolderCount
      <4> QED
        BY <1>2, <3>1, <4>1, <4>2 DEF Apply, Licensed
    <3>2. CASE k # j
      BY <1>2, <3>2 DEF Apply, Licensed
    <3> QED
      BY <3>1, <3>2
  <2>3. AnsweredWasApplied'
    BY <1>2 DEF Apply, AnsweredWasApplied
  <2> QED
    BY <2>1, <2>2, <2>3
<1>3. ASSUME NEW e \in Executors, NEW j \in Jobs, Release(e, j) PROVE IInv'
  <2>1. HoldersFinite'
    BY <1>3, HolderCount DEF Release
  <2>2. Licensed'
    <3> SUFFICES ASSUME NEW k \in Jobs
                 PROVE  Cardinality(holders'[k]) + applied'[k]
                          <= (IF row'[k] = "none" THEN 0 ELSE 1) + premature'[k]
      BY DEF Licensed
    <3>1. CASE k = j
      <4>1. Cardinality(holders'[j]) = Cardinality(holders[j]) - 1
        BY <1>3, HolderCount DEF Release
      <4>2. Cardinality(holders[j]) \in Nat
        BY HolderCount
      <4> QED
        BY <1>3, <3>1, <4>1, <4>2 DEF Release, Licensed
    <3>2. CASE k # j
      BY <1>3, <3>2 DEF Release, Licensed
    <3> QED
      BY <3>1, <3>2
  <2>3. AnsweredWasApplied'
    BY <1>3 DEF Release, AnsweredWasApplied
  <2> QED
    BY <2>1, <2>2, <2>3
<1>4. ASSUME NEW j \in Jobs, Answer(j) PROVE IInv'
  BY <1>4 DEF Answer, Licensed, AnsweredWasApplied
<1>5. ASSUME NEW E \in SUBSET Executors, Die(E) PROVE IInv'
  <2>1. HoldersFinite'
    BY <1>5, FewerHolders DEF Die
  <2>2. Licensed'
    BY <1>5, FewerHolders DEF Die, Licensed
  <2>3. AnsweredWasApplied'
    BY <1>5 DEF Die, AnsweredWasApplied
  <2> QED
    BY <2>1, <2>2, <2>3
<1>6. ASSUME NEW S \in SUBSET Jobs, Sweep(S) PROVE IInv'
  <2>1. HoldersFinite'
    BY <1>6 DEF Sweep
  <2>2. Licensed'
    <3> SUFFICES ASSUME NEW k \in Jobs
                 PROVE  Cardinality(holders'[k]) + applied'[k]
                          <= (IF row'[k] = "none" THEN 0 ELSE 1) + premature'[k]
      BY DEF Licensed
    <3>1. Cardinality(holders[k]) \in Nat
      BY HolderCount
    <3>2. CASE k \notin S
      BY <1>6, <3>2 DEF Sweep, Licensed
    <3>3. CASE k \in S /\ Premature(k)
      BY <1>6, <3>1, <3>3 DEF Sweep, Licensed
    <3>4. CASE k \in S /\ ~Premature(k)
      <4>1. Cardinality(holders[k]) = 0
        BY <3>4, FS_EmptySet DEF Premature
      <4>2. applied[k] = 0
        BY <3>4 DEF Premature
      <4> QED
        BY <1>6, <3>4, <4>1, <4>2 DEF Sweep
    <3> QED
      BY <3>2, <3>3, <3>4
  <2>3. AnsweredWasApplied'
    BY <1>6 DEF Sweep, AnsweredWasApplied
  <2> QED
    BY <2>1, <2>2, <2>3
<1>7. CASE UNCHANGED vars
  BY <1>7 DEF vars, Licensed, AnsweredWasApplied
<1> QED
  BY <1>1, <1>2, <1>3, <1>4, <1>5, <1>6, <1>7 DEF Next

-----------------------------------------------------------------------------
(* Executions alive and successes are always licensed by the row present and *)
(* the premature sweeps.                                                      *)
THEOREM LedgerInvariant == Spec => []IInv
<1>1. Init => IInv
  BY FS_EmptySet DEF Init, IInv, TypeOK, RowStates, HoldersFinite, Licensed, AnsweredWasApplied
<1>2. TypeOK /\ IInv /\ TypeOK' /\ [Next]_vars => IInv'
  BY IInvInductive
<1> QED
  BY <1>1, <1>2, LedgerTypeCorrect, PTL DEF Spec

(* A job is carried out at most once plus once per premature sweep.          *)
THEOREM LedgerAtMostOnce == Spec => []AtMostOncePerClaim
<1>1. IInv => AtMostOncePerClaim
  <2> SUFFICES ASSUME IInv, NEW j \in Jobs PROVE applied[j] <= 1 + premature[j]
    BY DEF AtMostOncePerClaim
  <2>1. Cardinality(holders[j]) \in Nat
    BY HolderCount DEF IInv, HoldersFinite
  <2> QED
    BY <2>1 DEF IInv, TypeOK, Licensed
<1> QED
  BY <1>1, LedgerInvariant, PTL

(* A stored result is never withdrawn and stops every later execution.       *)
THEOREM LedgerAnswerIsFinal == Spec => AnswerIsFinal
<1>1. TypeOK /\ [Next]_vars =>
        [\A j \in Jobs : row[j] = "done" => row'[j] = "done" /\ holders'[j] \subseteq holders[j]]_vars
  <2> SUFFICES ASSUME TypeOK, Next, NEW j \in Jobs, row[j] = "done"
               PROVE  row'[j] = "done" /\ holders'[j] \subseteq holders[j]
    OBVIOUS
  <2> USE DEF TypeOK, RowStates
  <2>1. ASSUME NEW e \in Executors, NEW k \in Jobs, Claim(e, k) \/ Apply(e, k) \/ Release(e, k)
        PROVE  row'[j] = "done" /\ holders'[j] \subseteq holders[j]
    BY <2>1 DEF Claim, Apply, Release
  <2>2. ASSUME NEW k \in Jobs, Answer(k)
        PROVE  row'[j] = "done" /\ holders'[j] \subseteq holders[j]
    BY <2>2 DEF Answer
  <2>3. ASSUME NEW E \in SUBSET Executors, Die(E)
        PROVE  row'[j] = "done" /\ holders'[j] \subseteq holders[j]
    BY <2>3 DEF Die
  <2>4. ASSUME NEW S \in SUBSET Jobs, Sweep(S)
        PROVE  row'[j] = "done" /\ holders'[j] \subseteq holders[j]
    BY <2>4 DEF Sweep
  <2> QED
    BY <2>1, <2>2, <2>3, <2>4 DEF Next
<1> QED
  BY <1>1, LedgerTypeCorrect, PTL DEF Spec, AnswerIsFinal
=============================================================================
