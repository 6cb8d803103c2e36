------------------------------ MODULE Resilience ------------------------------
(***************************************************************************)
(* fie_common.resilience: concurrent ResiliencePolicy.execute calls that   *)
(* share one circuit breaker.                                              *)
(*                                                                         *)
(* The breaker's three critical sections (before a call, after a success,  *)
(* after a failure) contain no await, so each is atomic; between them the  *)
(* operation runs, calls overlap, and an outcome may be recorded in a      *)
(* state other than the one that admitted the call.                        *)
(***************************************************************************)
EXTENDS Naturals, FiniteSets

CONSTANTS
  Callers,           \* tasks that call execute on one policy
  MaxAttempts,       \* RetryPolicy.max_attempts
  FailureThreshold,  \* CircuitBreakerConfig.failure_threshold
  HalfOpenMaxCalls,  \* CircuitBreakerConfig.half_open_max_calls
  SuccessThreshold   \* CircuitBreakerConfig.success_threshold

ASSUME CallersAssumption == IsFiniteSet(Callers)
ASSUME ConfigAssumption ==
  /\ MaxAttempts \in Nat \ {0} /\ FailureThreshold \in Nat \ {0}
  /\ HalfOpenMaxCalls \in Nat \ {0} /\ SuccessThreshold \in Nat \ {0}

VARIABLES
  state,       \* the circuit: "closed", "open" or "half_open"
  failures,    \* consecutive_failures, counted up to FailureThreshold
  successes,   \* consecutive_successes
  trials,      \* half_open_calls
  recovery,    \* since opened_at: "none", or the window is "waiting" or "elapsed"
  trialCalls,  \* history: calls of this half-open period still running
  pc,          \* where each call is
  attempt,     \* the attempt each call is on
  healthy      \* environment: the dependency answers without retryable errors

breakerVars == <<state, failures, successes, trials, recovery, trialCalls>>
callVars    == <<pc, attempt>>
vars == <<breakerVars, callVars, healthy>>

Init ==
  /\ state = "closed" /\ failures = 0 /\ successes = 0 /\ trials = 0
  /\ recovery = "none" /\ trialCalls = {}
  /\ pc = [c \in Callers |-> "idle"] /\ attempt = [c \in Callers |-> 0]
  /\ healthy \in BOOLEAN

GoTo(c, location) == pc' = [pc EXCEPT ![c] = location]

(***************************************************************************)
(* Circuit transitions                                                     *)
(***************************************************************************)

\* _close leaves consecutive_successes alone.
CloseCircuit ==
  /\ state' = "closed" /\ failures' = 0 /\ trials' = 0
  /\ recovery' = "none" /\ trialCalls' = {}

\* _open restarts the recovery clock.
OpenCircuit ==
  /\ state' = "open" /\ trials' = 0 /\ successes' = 0
  /\ recovery' = "waiting" /\ trialCalls' = {}

\* A mistake for Rejects: the elapsed recovery window is not consulted.
MutRejects == state = "open" \/ (state = "half_open" /\ trials >= HalfOpenMaxCalls)

Rejects ==
  \/ state = "open" /\ recovery = "waiting"
  \/ state = "half_open" /\ trials >= HalfOpenMaxCalls

\* A mistake for BeginTrial: the call that starts the period is not counted.
MutBeginTrial(c) ==
  /\ state \in {"open", "half_open"}
  /\ state' = "half_open"
  /\ trials' = IF state = "open" THEN 0 ELSE trials + 1
  /\ successes' = IF state = "open" THEN 0 ELSE successes
  /\ trialCalls' = trialCalls \cup {c}
  /\ UNCHANGED <<failures, recovery>>

\* The first call after the recovery window starts a half-open period.
BeginTrial(c) ==
  /\ state \in {"open", "half_open"}
  /\ state' = "half_open"
  /\ trials' = (IF state = "open" THEN 0 ELSE trials) + 1
  /\ successes' = IF state = "open" THEN 0 ELSE successes
  /\ trialCalls' = trialCalls \cup {c}
  /\ UNCHANGED <<failures, recovery>>

\* A mistake for RecordSuccess: one success more than the threshold is needed.
MutRecordSuccess(c) ==
  \/ state # "half_open" /\ CloseCircuit /\ UNCHANGED successes
  \/ /\ state = "half_open"
     /\ successes' = successes + 1
     /\ IF successes > SuccessThreshold
          THEN CloseCircuit
          ELSE failures' = 0 /\ trialCalls' = trialCalls \ {c} /\ UNCHANGED <<state, trials, recovery>>

\* An outcome counts for whatever state the circuit is in when it arrives.
RecordSuccess(c) ==
  \/ /\ state # "half_open"
     /\ CloseCircuit /\ UNCHANGED successes
  \/ /\ state = "half_open"
     /\ successes' = successes + 1
     /\ IF successes + 1 >= SuccessThreshold
          THEN CloseCircuit
          ELSE /\ failures' = 0 /\ trialCalls' = trialCalls \ {c}
               /\ UNCHANGED <<state, trials, recovery>>

\* Counts past the threshold are all alike, so the count stops there.
RecordFailure(c) ==
  \/ /\ state = "half_open"
     /\ OpenCircuit /\ UNCHANGED failures
  \/ /\ state # "half_open"
     /\ failures' = IF failures < FailureThreshold THEN failures + 1 ELSE failures
     /\ IF failures + 1 >= FailureThreshold
          THEN OpenCircuit
          ELSE /\ successes' = 0 /\ trialCalls' = trialCalls \ {c}
               /\ UNCHANGED <<state, trials, recovery>>

(***************************************************************************)
(* Calls: execute, its retry loop and its breaker                          *)
(***************************************************************************)
Start(c) ==
  /\ pc[c] = "idle"
  /\ GoTo(c, "calling")
  /\ attempt' = [attempt EXCEPT ![c] = 1]
  /\ UNCHANGED <<breakerVars, healthy>>

Admit(c) ==
  /\ pc[c] = "calling"
  /\ ~Rejects
  /\ IF state = "closed" THEN UNCHANGED breakerVars ELSE BeginTrial(c)
  /\ GoTo(c, "running")
  /\ UNCHANGED <<attempt, healthy>>

Return(c) == GoTo(c, "idle") /\ attempt' = [attempt EXCEPT ![c] = 0]

\* Mistakes for Retry: one attempt too many, and attempts that are not counted.
MutRetryOnceMore(c) ==
  \/ attempt[c] > MaxAttempts /\ Return(c)
  \/ attempt[c] <= MaxAttempts /\ GoTo(c, "backoff") /\ attempt' = [attempt EXCEPT ![c] = @ + 1]

MutRetryForever(c) == GoTo(c, "backoff") /\ UNCHANGED attempt

\* A retryable error: the last attempt raises it, the others back off.
Retry(c) ==
  \/ attempt[c] >= MaxAttempts /\ Return(c)
  \/ /\ attempt[c] < MaxAttempts
     /\ GoTo(c, "backoff")
     /\ attempt' = [attempt EXCEPT ![c] = @ + 1]

\* CircuitOpenError is itself retryable.
Reject(c) ==
  /\ pc[c] = "calling"
  /\ Rejects
  /\ Retry(c)
  /\ UNCHANGED <<breakerVars, healthy>>

Wake(c) ==
  /\ pc[c] = "backoff"
  /\ GoTo(c, "calling")
  /\ UNCHANGED <<breakerVars, attempt, healthy>>

Succeed(c) ==
  /\ pc[c] = "running"
  /\ RecordSuccess(c)
  /\ Return(c)
  /\ UNCHANGED healthy

\* A timeout or another retryable error.
Fail(c) ==
  /\ pc[c] = "running"
  /\ ~healthy
  /\ RecordFailure(c)
  /\ Retry(c)
  /\ UNCHANGED healthy

\* An error that is not retryable, or the caller's cancellation: recorded as a
\* success and raised.
Refuse(c) ==
  /\ pc[c] = "running"
  /\ RecordSuccess(c)
  /\ Return(c)
  /\ UNCHANGED healthy

\* The caller is cancelled while it sleeps.
CancelBackoff(c) ==
  /\ pc[c] = "backoff"
  /\ Return(c)
  /\ UNCHANGED <<breakerVars, healthy>>

(***************************************************************************)
(* Environment                                                             *)
(***************************************************************************)
Elapse ==
  /\ state = "open" /\ recovery = "waiting"
  /\ recovery' = "elapsed"
  /\ UNCHANGED <<state, failures, successes, trials, trialCalls, callVars, healthy>>

\* The operator forces the circuit closed.
Reset ==
  /\ CloseCircuit /\ successes' = 0
  /\ UNCHANGED <<callVars, healthy>>

HealthChanges == healthy' = ~healthy /\ UNCHANGED <<breakerVars, callVars>>

Finish(c) == Succeed(c) \/ Fail(c) \/ Refuse(c)

Next ==
  \/ \E c \in Callers :
       Start(c) \/ Admit(c) \/ Reject(c) \/ Wake(c) \/ Finish(c) \/ CancelBackoff(c)
  \/ Elapse \/ Reset \/ HealthChanges

Spec == Init /\ [][Next]_vars

\* Traffic continues, the event loop runs every call, with_timeout ends every
\* operation, and time passes.  Health and resets are nobody's obligation.
Fairness ==
  /\ \A c \in Callers :
       WF_vars(Start(c)) /\ WF_vars(Admit(c) \/ Reject(c) \/ Wake(c)) /\ WF_vars(Finish(c))
  /\ WF_vars(Elapse)

FairSpec == Spec /\ Fairness

(***************************************************************************)
(* Types                                                                   *)
(***************************************************************************)
BreakerTypes ==
  /\ state \in {"closed", "open", "half_open"}
  /\ failures \in 0..FailureThreshold /\ successes \in Nat /\ trials \in Nat
  /\ recovery \in {"none", "waiting", "elapsed"}

CallTypes ==
  /\ pc \in [Callers -> {"idle", "calling", "running", "backoff"}]
  /\ attempt \in [Callers -> 0..MaxAttempts]
  /\ trialCalls \subseteq Callers
  /\ \A c \in trialCalls : pc[c] = "running"

\* Every variable has its type, and the calls counted as trials are running.
TypeOK == BreakerTypes /\ CallTypes /\ healthy \in BOOLEAN

(***************************************************************************)
(* Safety                                                                  *)
(***************************************************************************)

\* A half-open period never has more than half_open_max_calls trial calls
\* running, whatever outcomes of earlier periods arrive during it.
TrialLimit == Cardinality(trialCalls) <= HalfOpenMaxCalls

\* A half-open circuit at trial capacity waits for a trial call that is still
\* running: something is left that can close or reopen it.
NeverWedged ==
  state = "half_open" /\ trials >= HalfOpenMaxCalls => trialCalls # {}

(***************************************************************************)
(* Liveness                                                                *)
(***************************************************************************)

\* Every execute call returns or raises: retries are bounded.
EveryCallReturns == \A c \in Callers : pc[c] # "idle" ~> pc[c] = "idle"

\* Once the dependency is healthy for good, the circuit closes for good.
Recovers == <>[]healthy => <>[](state = "closed")
=============================================================================
