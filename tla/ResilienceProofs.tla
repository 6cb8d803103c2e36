-------------------------- MODULE ResilienceProofs --------------------------
(***************************************************************************)
(* Theorems about Resilience for every number of callers and every         *)
(* configuration of the breaker.                                           *)
(***************************************************************************)
EXTENDS Resilience, FiniteSetTheorems, TLAPS

USE DEF breakerVars, callVars, GoTo, Return

(***************************************************************************)
(* Every reachable state is well typed, for the breaker's own variables    *)
(* and for the calls, and only running calls count as trials.              *)
(***************************************************************************)
THEOREM TypeCorrect == Spec => []TypeOK
<1> USE ConfigAssumption
<1>1. Init => TypeOK
  <2> SUFFICES ASSUME Init PROVE TypeOK
    OBVIOUS
  <2>1. BreakerTypes /\ CallTypes
    BY DEF Init, BreakerTypes, CallTypes
  <2>2. healthy \in BOOLEAN
    BY Zenon DEF Init
  <2> QED BY <2>1, <2>2 DEF TypeOK
<1>2. TypeOK /\ [Next]_vars => TypeOK'
  <2> SUFFICES ASSUME TypeOK, [Next]_vars PROVE TypeOK'
    OBVIOUS
  <2> USE DEF TypeOK, BreakerTypes, CallTypes
  <2>1. ASSUME NEW c \in Callers, Start(c) PROVE TypeOK'
    BY <2>1 DEF Start
  <2>2. ASSUME NEW c \in Callers, Admit(c) PROVE TypeOK'
    BY <2>2 DEF Admit, BeginTrial
  <2>3. ASSUME NEW c \in Callers, Reject(c) PROVE TypeOK'
    BY <2>3 DEF Reject, Retry
  <2>4. ASSUME NEW c \in Callers, Wake(c) PROVE TypeOK'
    BY <2>4 DEF Wake
  <2>5. ASSUME NEW c \in Callers, Succeed(c) PROVE TypeOK'
    BY <2>5 DEF Succeed, RecordSuccess, CloseCircuit
  <2>6. ASSUME NEW c \in Callers, Fail(c) PROVE TypeOK'
    <3>0. RecordFailure(c) /\ Retry(c) /\ pc[c] = "running"
      BY <2>6 DEF Fail
    <3>1. BreakerTypes' /\ (trialCalls' = {} \/ trialCalls' = trialCalls \ {c})
      BY <3>0 DEF RecordFailure, OpenCircuit
    <3>3. CallTypes'
      BY <3>0, <3>1 DEF Retry
    <3>2. healthy' \in BOOLEAN
      BY <2>6, Zenon DEF Fail
    <3> QED BY <3>1, <3>2, <3>3, Zenon DEF TypeOK
  <2>7. ASSUME NEW c \in Callers, Refuse(c) PROVE TypeOK'
    BY <2>7 DEF Refuse, RecordSuccess, CloseCircuit
  <2>8. ASSUME NEW c \in Callers, CancelBackoff(c) PROVE TypeOK'
    BY <2>8 DEF CancelBackoff
  <2>9. CASE Elapse
    BY <2>9 DEF Elapse
  <2>10. CASE Reset
    BY <2>10 DEF Reset, CloseCircuit
  <2>11. CASE HealthChanges
    BY <2>11 DEF HealthChanges
  <2>12. CASE UNCHANGED vars
    BY <2>12 DEF vars
  <2> QED BY <2>1, <2>2, <2>3, <2>4, <2>5, <2>6, <2>7, <2>8, <2>9, <2>10, <2>11, <2>12 DEF Next, Finish
<1> QED BY <1>1, <1>2, PTL DEF Spec

(***************************************************************************)
(* Trials.  In a half-open period every admitted trial is running or has   *)
(* recorded a success, and the successes are still below the threshold.    *)
(***************************************************************************)
TrialInv ==
  /\ state # "half_open" => trialCalls = {}
  /\ state = "half_open" =>
       /\ Cardinality(trialCalls) <= trials /\ trials <= HalfOpenMaxCalls
       /\ trials <= Cardinality(trialCalls) + successes
       /\ successes < SuccessThreshold

\* Counting the trial calls: they are finitely many, one more or one fewer.
LEMMA TrialCount ==
  ASSUME TypeOK, NEW c \in Callers
  PROVE  /\ Cardinality(trialCalls) \in Nat
         /\ c \notin trialCalls => Cardinality(trialCalls \cup {c}) = Cardinality(trialCalls) + 1
         /\ Cardinality(trialCalls \ {c}) = IF c \in trialCalls THEN Cardinality(trialCalls) - 1
                                                               ELSE Cardinality(trialCalls)
<1>1. IsFiniteSet(trialCalls)
  BY CallersAssumption, FS_Subset DEF TypeOK, CallTypes
<1> QED BY <1>1, FS_CardinalityType, FS_AddElement, FS_RemoveElement

\* An outcome that ends the half-open period leaves no trial calls behind.
LEMMA PeriodOver ==
  ASSUME CloseCircuit \/ OpenCircuit
  PROVE  TrialInv'
BY DEF CloseCircuit, OpenCircuit, TrialInv

LEMMA SuccessKeepsTrials ==
  ASSUME TypeOK, TrialInv, NEW c \in Callers, RecordSuccess(c)
  PROVE  TrialInv'
<1>1. CASE state # "half_open"
  BY <1>1, PeriodOver DEF RecordSuccess
<1>2. CASE state = "half_open" /\ successes + 1 >= SuccessThreshold
  BY <1>2, PeriodOver DEF RecordSuccess
<1>3. CASE state = "half_open" /\ ~(successes + 1 >= SuccessThreshold)
  <2>1. /\ successes' = successes + 1 /\ trialCalls' = trialCalls \ {c}
        /\ UNCHANGED <<state, trials>>
    BY <1>3 DEF RecordSuccess
  <2>2. /\ Cardinality(trialCalls) \in Nat
        /\ Cardinality(trialCalls') = IF c \in trialCalls THEN Cardinality(trialCalls) - 1
                                                         ELSE Cardinality(trialCalls)
    BY <2>1, TrialCount
  <2> QED BY <1>3, <2>1, <2>2, ConfigAssumption DEF TrialInv, TypeOK, BreakerTypes
<1> QED BY <1>1, <1>2, <1>3

LEMMA FailureKeepsTrials ==
  ASSUME TrialInv, NEW c \in Callers, RecordFailure(c)
  PROVE  TrialInv'
<1>1. CASE OpenCircuit
  BY <1>1, PeriodOver
<1>2. CASE state # "half_open" /\ trialCalls' = trialCalls \ {c} /\ UNCHANGED <<state, trials>>
  BY <1>2 DEF TrialInv
<1> QED BY <1>1, <1>2 DEF RecordFailure

LEMMA TrialInvariant == Spec => []TrialInv
<1>1. Init => TrialInv
  BY DEF Init, TrialInv
<1>2. TypeOK /\ TrialInv /\ [Next]_vars => TrialInv'
  <2> SUFFICES ASSUME TypeOK, TrialInv, [Next]_vars PROVE TrialInv'
    OBVIOUS
  <2>1. ASSUME UNCHANGED <<state, successes, trials, trialCalls>> PROVE TrialInv'
    BY <2>1 DEF TrialInv
  <2>2. ASSUME NEW c \in Callers, Admit(c) PROVE TrialInv'
    <3>1. CASE state = "closed"
      BY <2>1, <2>2, <3>1 DEF Admit
    <3>2. CASE state # "closed"
      <4>1. BeginTrial(c) /\ ~Rejects /\ c \notin trialCalls
        BY <2>2, <3>2 DEF Admit, TypeOK, CallTypes
      <4>2. CASE state = "open"
        <5>1. /\ state' = "half_open" /\ trials' = 1 /\ successes' = 0 /\ trialCalls' = {c}
          BY <4>1, <4>2 DEF BeginTrial, TrialInv
        <5> QED BY <5>1, FS_Singleton, ConfigAssumption DEF TrialInv
      <4>3. CASE state = "half_open"
        <5>1. /\ state' = "half_open" /\ trials' = trials + 1 /\ successes' = successes
              /\ trialCalls' = trialCalls \cup {c} /\ trials < HalfOpenMaxCalls
          BY <4>1, <4>3, ConfigAssumption DEF BeginTrial, Rejects, TypeOK, BreakerTypes
        <5> QED BY <5>1, <4>1, <4>3, TrialCount, ConfigAssumption
                DEF TrialInv, TypeOK, BreakerTypes
      <4> QED BY <3>2, <4>2, <4>3 DEF TypeOK, BreakerTypes
    <3> QED BY <3>1, <3>2
  <2>3. ASSUME NEW c \in Callers, Start(c) \/ Reject(c) \/ Wake(c) \/ CancelBackoff(c)
        PROVE  TrialInv'
    BY <2>1, <2>3 DEF Start, Reject, Wake, CancelBackoff
  <2>4. ASSUME NEW c \in Callers, Finish(c) PROVE TrialInv'
    BY <2>4, SuccessKeepsTrials, FailureKeepsTrials DEF Finish, Succeed, Fail, Refuse
  <2>5. CASE Elapse
    BY <2>1, <2>5 DEF Elapse
  <2>6. CASE Reset
    BY <2>6, PeriodOver DEF Reset
  <2>7. CASE HealthChanges
    BY <2>1, <2>7 DEF HealthChanges
  <2>8. CASE UNCHANGED vars
    BY <2>1, <2>8 DEF vars
  <2> QED BY <2>2, <2>3, <2>4, <2>5, <2>6, <2>7, <2>8 DEF Next
<1> QED BY <1>1, <1>2, TypeCorrect, PTL DEF Spec

\* A half-open period never runs more trials at once than it may admit.
THEOREM TrialsAreLimited == Spec => []TrialLimit
<1>1. TypeOK /\ TrialInv => TrialLimit
  <2> SUFFICES ASSUME TypeOK, TrialInv PROVE TrialLimit
    OBVIOUS
  <2>1. CASE state # "half_open"
    BY <2>1, FS_EmptySet, ConfigAssumption DEF TrialInv, TrialLimit
  <2>2. CASE state = "half_open"
    <3>1. IsFiniteSet(trialCalls)
      BY CallersAssumption, FS_Subset DEF TypeOK, CallTypes
    <3>2. Cardinality(trialCalls) \in Nat
      BY <3>1, FS_CardinalityType
    <3> QED BY <2>2, <3>2, ConfigAssumption DEF TrialInv, TrialLimit, TypeOK, BreakerTypes
  <2> QED BY <2>1, <2>2
<1> QED BY <1>1, TrialInvariant, TypeCorrect, PTL

\* A breaker that needs no more successes than it admits trials cannot get
\* stuck half-open: at capacity, some trial is still running.
THEOREM HalfOpenNeverWedges ==
  ASSUME SuccessThreshold <= HalfOpenMaxCalls
  PROVE  Spec => []NeverWedged
<1>1. TypeOK /\ TrialInv => NeverWedged
  <2> SUFFICES ASSUME TypeOK, TrialInv, state = "half_open", trials >= HalfOpenMaxCalls,
                      trialCalls = {}
               PROVE  FALSE
    BY DEF NeverWedged
  <2>1. trials <= successes /\ successes < SuccessThreshold
    BY FS_EmptySet DEF TrialInv, TypeOK, BreakerTypes
  <2> QED BY <2>1, ConfigAssumption DEF TypeOK, BreakerTypes
<1> QED BY <1>1, TrialInvariant, TypeCorrect, PTL
=============================================================================
