---------------------------- MODULE CircuitBreaker ----------------------------
(***************************************************************************)
(* The async circuit breaker of app/resilience/circuit_breaker.py.         *)
(*                                                                         *)
(* One breaker guards one upstream.  Any number of request handlers call   *)
(* it concurrently.  The asyncio lock is never held across an await, so    *)
(* each critical section is one atomic step; the guarded function runs     *)
(* outside the lock, so admissions and outcomes of different calls         *)
(* interleave freely.                                                      *)
(*                                                                         *)
(* Time is relative: the breaker only ever asks whether recovery_seconds   *)
(* have passed since opened_at, so the model keeps the time elapsed since  *)
(* opened_at and stops counting once the answer can no longer change.      *)
(***************************************************************************)
EXTENDS Naturals

CONSTANTS
    Callers,            \* request handlers that may be inside call()
    FailureThreshold,   \* failure_threshold
    RecoverySeconds,    \* recovery_seconds, in ticks
    FailureCap          \* bound: where the model stops counting failures

(* The code only compares the counter with the threshold, so counting may *)
(* stop anywhere at or above it.                                           *)
ASSUME BreakerAssumption ==
    /\ FailureThreshold \in Nat \ {0}
    /\ RecoverySeconds \in Nat
    /\ FailureCap \in Nat
    /\ FailureCap >= FailureThreshold

VARIABLES
    state,         \* _state
    failures,      \* _failures, counted up to FailureCap
    sinceOpened,   \* clock() - _opened_at, counted up to RecoverySeconds
    call           \* call[c]: where caller c is in call()

(* History, read by the properties only. *)
VARIABLES
    outcomes,      \* the last FailureThreshold reported outcomes, newest first
    sinceFailure   \* time since the newest reported failure, saturating

breakerVars == <<state, failures, sinceOpened, call>>
historyVars == <<outcomes, sinceFailure>>
vars == <<breakerVars, historyVars>>

CircuitState == {"closed", "open", "half_open"}

(* "running" and "probing" are the await of func() by a call that was      *)
(* admitted in the closed and in the half-open state; the code does not    *)
(* remember which.  The other values are how the caller's last call()      *)
(* ended: returned, raised, CircuitBreakerOpen, cancelled.                 *)
InFlight == {"running", "probing"}
CallState == InFlight \cup {"none", "returned", "raised", "rejected", "cancelled"}

Outcome == {"none", "success", "failure"}

(* The type of every variable. *)
TypeOK ==
    /\ state \in CircuitState
    /\ failures \in 0 .. FailureCap
    /\ sinceOpened \in 0 .. RecoverySeconds
    /\ call \in [Callers -> CallState]
    /\ outcomes \in [1 .. FailureThreshold -> Outcome]
    /\ sinceFailure \in 0 .. RecoverySeconds

(* __init__: closed, no failures.  opened_at = 0.0 is not read before the  *)
(* first _on_failure that opens the breaker sets it.                       *)
Init ==
    /\ state = "closed"
    /\ failures = 0
    /\ sinceOpened = 0
    /\ call = [c \in Callers |-> "none"]
    /\ outcomes = [i \in 1 .. FailureThreshold |-> "none"]
    /\ sinceFailure = 0

-----------------------------------------------------------------------------
(* The critical sections. *)

(* The condition of _maybe_half_open. *)
RecoveryDue == state = "open" /\ sinceOpened >= RecoverySeconds

(* The state after _maybe_half_open, which every call() runs first. *)
MaybeHalfOpen == IF RecoveryDue THEN "half_open" ELSE state

(* A new outcome enters the history; the oldest one drops out. *)
Record(o) ==
    outcomes' = [i \in 1 .. FailureThreshold |-> IF i = 1 THEN o ELSE outcomes[i - 1]]

(* Fault: a half-open breaker turns every further call away until the      *)
(* probe reports, which a cancelled probe never does.                      *)
AdmitSingleProbe(c) ==
    /\ call[c] \notin InFlight
    /\ MaybeHalfOpen # "open"
    /\ state # "half_open"
    /\ state' = MaybeHalfOpen
    /\ call' = [call EXCEPT ![c] = IF MaybeHalfOpen = "closed" THEN "running" ELSE "probing"]
    /\ UNCHANGED <<failures, sinceOpened, historyVars>>

(* call(), admitted: the breaker is not open once _maybe_half_open has run. *)
Admit(c) ==
    /\ call[c] \notin InFlight
    /\ MaybeHalfOpen # "open"
    /\ state' = MaybeHalfOpen
    /\ call' = [call EXCEPT ![c] = IF MaybeHalfOpen = "closed" THEN "running" ELSE "probing"]
    /\ UNCHANGED <<failures, sinceOpened, historyVars>>

(* call(), rejected: CircuitBreakerOpen is raised and nothing is recorded. *)
Reject(c) ==
    /\ call[c] \notin InFlight
    /\ MaybeHalfOpen = "open"
    /\ call' = [call EXCEPT ![c] = "rejected"]
    /\ UNCHANGED <<state, failures, sinceOpened, historyVars>>

(* Fault: a success closes the breaker and leaves the counter standing. *)
OnSuccessKeepsCount(c) ==
    /\ call[c] \in InFlight
    /\ state' = "closed"
    /\ call' = [call EXCEPT ![c] = "returned"]
    /\ Record("success")
    /\ UNCHANGED <<failures, sinceOpened, sinceFailure>>

(* func() returned: _on_success, whatever the state is by now. *)
OnSuccess(c) ==
    /\ call[c] \in InFlight
    /\ failures' = 0
    /\ state' = "closed"
    /\ call' = [call EXCEPT ![c] = "returned"]
    /\ Record("success")
    /\ UNCHANGED <<sinceOpened, sinceFailure>>

(* The counter after `self._failures += 1`. *)
OneMoreFailure == IF failures < FailureCap THEN failures + 1 ELSE failures

(* Fault: opened_at is stamped only when the breaker was not open yet. *)
OnFailureStampsOnce(c) ==
    /\ call[c] \in InFlight
    /\ failures' = OneMoreFailure
    /\ IF state # "open" /\ (state = "half_open" \/ OneMoreFailure >= FailureThreshold)
         THEN state' = "open" /\ sinceOpened' = 0
         ELSE UNCHANGED <<state, sinceOpened>>
    /\ call' = [call EXCEPT ![c] = "raised"]
    /\ Record("failure")
    /\ sinceFailure' = 0

(* func() raised: _on_failure, then the exception propagates. *)
OnFailure(c) ==
    /\ call[c] \in InFlight
    /\ failures' = OneMoreFailure
    /\ IF state = "half_open" \/ OneMoreFailure >= FailureThreshold
         THEN state' = "open" /\ sinceOpened' = 0
         ELSE UNCHANGED <<state, sinceOpened>>
    /\ call' = [call EXCEPT ![c] = "raised"]
    /\ Record("failure")
    /\ sinceFailure' = 0

(* The task is cancelled while func() is awaited.  CancelledError is not   *)
(* an Exception, so neither _on_failure nor _on_success runs.              *)
Cancel(c) ==
    /\ call[c] \in InFlight
    /\ call' = [call EXCEPT ![c] = "cancelled"]
    /\ UNCHANGED <<state, failures, sinceOpened, historyVars>>

-----------------------------------------------------------------------------
(* The environment. *)

UpTo(n, bound) == IF n < bound THEN n + 1 ELSE n

(* The clock advances. *)
Tick ==
    /\ sinceOpened' = UpTo(sinceOpened, RecoverySeconds)
    /\ sinceFailure' = UpTo(sinceFailure, RecoverySeconds)
    /\ UNCHANGED <<state, failures, call, outcomes>>

Next ==
    \/ \E c \in Callers :
          \/ Admit(c)
          \/ Reject(c)
          \/ OnSuccess(c)
          \/ OnFailure(c)
          \/ Cancel(c)
    \/ Tick

Spec == Init /\ [][Next]_vars

(* func() has an outcome and the breaker is told. *)
Return(c) == OnSuccess(c) \/ OnFailure(c)

(* Time passes, handlers keep calling, and not every call is cancelled     *)
(* before it has an outcome (httpx bounds every wait with a timeout).      *)
Fairness ==
    /\ WF_vars(Tick)
    /\ \A c \in Callers : WF_vars(Admit(c)) /\ SF_vars(Return(c))

FairSpec == Spec /\ Fairness

-----------------------------------------------------------------------------
(* Properties. *)

(* A closed breaker opens with exactly that report which makes the last    *)
(* FailureThreshold outcomes, in the order in which the calls ended, all   *)
(* failures: no overlap of calls, no cancelled call and no earlier trip    *)
(* through open and half_open makes it open sooner or later than that      *)
(* (_on_failure, _on_success).                                             *)
OpensExactlyOnStreak ==
    [][ state = "closed" =>
          (state' # "closed" <=> \A i \in 1 .. FailureThreshold : outcomes'[i] = "failure") ]_vars

(* A call reaches the upstream of a breaker that is not closed only when   *)
(* recovery_seconds have passed since the NEWEST failure anyone reported,  *)
(* not merely since the one that opened the breaker: failures that arrive  *)
(* late from calls admitted earlier restart the wait (_on_failure stamps   *)
(* _opened_at again).                                                      *)
QuietAfterFailure ==
    [][ \A c \in Callers :
          (call[c] \notin InFlight /\ call'[c] \in InFlight /\ state # "closed")
            => sinceFailure >= RecoverySeconds ]_vars

-----------------------------------------------------------------------------
(* What the docstring of the module says, and the code does not do. *)

(* "the breaker opens and rejects calls for recovery_seconds": an open     *)
(* breaker stays open, and so turns every call away, until                 *)
(* recovery_seconds have passed since it opened (call, _on_success).       *)
RejectsForRecoverySeconds ==
    [][ state = "open" /\ sinceOpened < RecoverySeconds => state' = "open" ]_vars

=============================================================================
