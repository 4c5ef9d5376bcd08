----------------------- MODULE ResilientHttpClientProofs -----------------------
(***************************************************************************)
(* The safety properties of CircuitBreaker and of ResilientHttpClient, for *)
(* any number of callers, keys and retries, any threshold and any recovery *)
(* window; and that nothing the client does to its breaker goes past the   *)
(* breaker's own steps.                                                    *)
(***************************************************************************)
EXTENDS ResilientHttpClient, TLAPS

-----------------------------------------------------------------------------
(* The breaker on its own. *)

(* The counter has reached i exactly when the i newest outcomes are        *)
(* failures.                                                               *)
CountIsStreak ==
    \A i \in 1 .. FailureThreshold :
        failures >= i <=> \A j \in 1 .. i : outcomes[j] = "failure"

(* The state is a function of the counter, up to open versus half-open. *)
ClosedIffBelowThreshold == state = "closed" <=> failures < FailureThreshold

(* Away from closed, opened_at is the time of the newest failure. *)
StampIsNewestFailure == state # "closed" => sinceOpened = sinceFailure

(* A half-open breaker has seen a full window without failures. *)
HalfOpenIsQuiet == state = "half_open" => sinceOpened = RecoverySeconds

(* What is inductive: neither safety property is on its own.  The history  *)
(* only determines the state through the counter, and the wait measured    *)
(* by the code only bounds the quiet time through the stamp.               *)
BreakerInv ==
    /\ TypeOK
    /\ CountIsStreak
    /\ ClosedIffBelowThreshold
    /\ StampIsNewestFailure
    /\ HalfOpenIsQuiet

(* The breaker's steps keep its types. *)
LEMMA BreakerTypesKept ==
    TypeOK /\ [Next]_vars => TypeOK'
<1> SUFFICES ASSUME TypeOK, [Next]_vars PROVE TypeOK'
  OBVIOUS
<1> USE BreakerAssumption DEF TypeOK, CircuitState, CallState,
      InFlight, Outcome
<1>1. ASSUME NEW c \in Callers, Admit(c) PROVE TypeOK'
  BY <1>1 DEF Admit, MaybeHalfOpen, historyVars
<1>2. ASSUME NEW c \in Callers, Reject(c) PROVE TypeOK'
  BY <1>2 DEF Reject, historyVars
<1>3. ASSUME NEW c \in Callers, OnSuccess(c) PROVE TypeOK'
  BY <1>3 DEF OnSuccess, Record
<1>4. ASSUME NEW c \in Callers, OnFailure(c) PROVE TypeOK'
  BY <1>4 DEF OnFailure, OneMoreFailure, Record
<1>5. ASSUME NEW c \in Callers, Cancel(c) PROVE TypeOK'
  BY <1>5 DEF Cancel, historyVars
<1>6. CASE Tick
  BY <1>6 DEF Tick, UpTo
<1>7. CASE UNCHANGED vars
  BY <1>7 DEF vars, breakerVars, historyVars
<1> QED
  BY <1>1, <1>2, <1>3, <1>4, <1>5, <1>6, <1>7 DEF Next

(* Initially no outcome is known and the breaker is closed. *)
LEMMA BreakerInvHolds == Init => BreakerInv
<1> SUFFICES ASSUME Init PROVE BreakerInv
    OBVIOUS
<1> USE BreakerAssumption
<1>1. TypeOK
    BY DEF Init, TypeOK, CircuitState, CallState,
       InFlight, Outcome
<1>2. CountIsStreak
  <2> SUFFICES ASSUME NEW i \in 1 .. FailureThreshold
               PROVE  failures >= i <=> \A j \in 1 .. i : outcomes[j] = "failure"
      BY DEF CountIsStreak
  <2>1. ~(failures >= i)
      BY DEF Init
  <2>2. 1 \in 1 .. i /\ outcomes[1] # "failure"
      BY DEF Init
  <2> QED  BY <2>1, <2>2
<1>3. ClosedIffBelowThreshold /\ StampIsNewestFailure /\ HalfOpenIsQuiet
    BY DEF Init, ClosedIffBelowThreshold, StampIsNewestFailure, HalfOpenIsQuiet
<1> QED  BY <1>1, <1>2, <1>3 DEF BreakerInv

(* Reporting an outcome keeps the counter in step with the history. *)
LEMMA SuccessKeepsStreak ==
    ASSUME TypeOK, CountIsStreak, NEW c \in Callers, OnSuccess(c)
    PROVE  CountIsStreak'
<1> USE BreakerAssumption DEF TypeOK
<1> SUFFICES ASSUME NEW i \in 1 .. FailureThreshold
             PROVE  ~(failures' >= i) /\ \E j \in 1 .. i : outcomes'[j] # "failure"
    BY DEF CountIsStreak
<1>1. failures' = 0
    BY DEF OnSuccess
<1>2. 1 \in 1 .. i /\ outcomes'[1] = "success"
    BY DEF OnSuccess, Record
<1> QED  BY <1>1, <1>2

LEMMA FailureKeepsStreak ==
    ASSUME TypeOK, CountIsStreak, NEW c \in Callers, OnFailure(c)
    PROVE  CountIsStreak'
<1> USE BreakerAssumption DEF TypeOK
<1> SUFFICES ASSUME NEW i \in 1 .. FailureThreshold
             PROVE  failures' >= i <=> \A j \in 1 .. i : outcomes'[j] = "failure"
    BY DEF CountIsStreak
<1>1. /\ outcomes'[1] = "failure"
      /\ \A j \in 2 .. FailureThreshold : outcomes'[j] = outcomes[j - 1]
    BY DEF OnFailure, Record
<1>2. failures' >= i <=> failures >= i - 1
    BY DEF OnFailure, OneMoreFailure
<1>3. CASE i = 1
    BY <1>1, <1>2, <1>3
<1>4. CASE i > 1
  <2>1. failures >= i - 1 <=> \A j \in 1 .. (i - 1) : outcomes[j] = "failure"
    <3>1. i - 1 \in 1 .. FailureThreshold
        BY <1>4
    <3> QED  BY <3>1, Zenon DEF CountIsStreak
  <2>2. (\A j \in 1 .. (i - 1) : outcomes[j] = "failure")
          <=> \A j \in 2 .. i : outcomes'[j] = "failure"
    <3>1. ASSUME \A j \in 1 .. (i - 1) : outcomes[j] = "failure", NEW j \in 2 .. i
          PROVE  outcomes'[j] = "failure"
        BY <1>1, <1>4, <3>1
    <3>2. ASSUME \A j \in 2 .. i : outcomes'[j] = "failure", NEW j \in 1 .. (i - 1)
          PROVE  outcomes[j] = "failure"
      <4>1. j + 1 \in 2 .. i /\ j + 1 \in 2 .. FailureThreshold /\ (j + 1) - 1 = j
          BY <1>4
      <4> QED  BY <1>1, <3>2, <4>1
    <3> QED  BY <3>1, <3>2
  <2>3. (\A j \in 2 .. i : outcomes'[j] = "failure")
          <=> \A j \in 1 .. i : outcomes'[j] = "failure"
      BY <1>1, <1>4
  <2> QED  BY <1>2, <2>1, <2>2, <2>3
<1> QED  BY <1>3, <1>4

(* Every step of the breaker keeps its inductive invariant. *)
LEMMA BreakerInvKept == BreakerInv /\ [Next]_vars => BreakerInv'
<1> SUFFICES ASSUME BreakerInv, [Next]_vars PROVE BreakerInv'
    OBVIOUS
<1> USE BreakerAssumption DEF BreakerInv
<1>0. TypeOK'
    BY BreakerTypesKept
<1>1. ASSUME NEW c \in Callers, Admit(c) PROVE BreakerInv'
    BY <1>0, <1>1 DEF Admit, MaybeHalfOpen, RecoveryDue,
       historyVars, TypeOK, CircuitState,
       CountIsStreak, ClosedIffBelowThreshold, StampIsNewestFailure, HalfOpenIsQuiet
<1>2. ASSUME NEW c \in Callers, Reject(c) PROVE BreakerInv'
    BY <1>0, <1>2 DEF Reject, historyVars,
       CountIsStreak, ClosedIffBelowThreshold, StampIsNewestFailure, HalfOpenIsQuiet
<1>3. ASSUME NEW c \in Callers, OnSuccess(c) PROVE BreakerInv'
  <2>1. CountIsStreak'
      BY <1>3, SuccessKeepsStreak
  <2>2. (ClosedIffBelowThreshold /\ StampIsNewestFailure /\ HalfOpenIsQuiet)'
      BY <1>3 DEF OnSuccess, ClosedIffBelowThreshold, StampIsNewestFailure, HalfOpenIsQuiet
  <2> QED  BY <1>0, <2>1, <2>2
<1>4. ASSUME NEW c \in Callers, OnFailure(c) PROVE BreakerInv'
  <2>1. CountIsStreak'
      BY <1>4, FailureKeepsStreak
  <2>2. (ClosedIffBelowThreshold /\ StampIsNewestFailure /\ HalfOpenIsQuiet)'
      BY <1>4 DEF OnFailure, OneMoreFailure, TypeOK, CircuitState,
         ClosedIffBelowThreshold, StampIsNewestFailure, HalfOpenIsQuiet
  <2> QED  BY <1>0, <2>1, <2>2
<1>5. ASSUME NEW c \in Callers, Cancel(c) PROVE BreakerInv'
    BY <1>0, <1>5 DEF Cancel, historyVars,
       CountIsStreak, ClosedIffBelowThreshold, StampIsNewestFailure, HalfOpenIsQuiet
<1>6. CASE Tick
    BY <1>0, <1>6 DEF Tick, UpTo, TypeOK,
       CountIsStreak, ClosedIffBelowThreshold, StampIsNewestFailure, HalfOpenIsQuiet
<1>7. CASE UNCHANGED vars
    BY <1>0, <1>7 DEF vars, breakerVars, historyVars,
       CountIsStreak, ClosedIffBelowThreshold, StampIsNewestFailure, HalfOpenIsQuiet
<1> QED  BY <1>1, <1>2, <1>3, <1>4, <1>5, <1>6, <1>7 DEF Next

(* The inductive invariant holds in every reachable state. *)
THEOREM BreakerInvariant == Spec => []BreakerInv
BY BreakerInvHolds, BreakerInvKept, PTL DEF Spec

-----------------------------------------------------------------------------
(* The breaker's variables keep their types. *)
THEOREM BreakerTypeCorrect == Spec => []TypeOK
<1>1. BreakerInv => TypeOK
    BY DEF BreakerInv
<1> QED  BY <1>1, BreakerInvariant, PTL

(* A closed breaker opens exactly with the report that completes a streak  *)
(* of FailureThreshold failures, for any number of overlapping calls.      *)
THEOREM OpensOnConsecutiveFailures == Spec => OpensExactlyOnStreak
<1> DEFINE AwayIffStreak ==
             state # "closed" <=> \A i \in 1 .. FailureThreshold : outcomes[i] = "failure"
           Opens ==
             state = "closed" =>
               (state' # "closed" <=> \A i \in 1 .. FailureThreshold : outcomes'[i] = "failure")
<1>1. BreakerInv => AwayIffStreak
    BY BreakerAssumption DEF BreakerInv, TypeOK, CountIsStreak, ClosedIffBelowThreshold
<1>2. AwayIffStreak' => [Opens]_vars
    OBVIOUS
<1> QED  BY <1>1, <1>2, BreakerInvariant, PTL DEF OpensExactlyOnStreak

(* A breaker that is not closed lets a call through only after a full      *)
(* recovery window without any reported failure.                           *)
THEOREM QuietAfterEveryFailure == Spec => QuietAfterFailure
<1> DEFINE Quiet ==
      \A c \in Callers :
          (call[c] \notin InFlight /\ call'[c] \in InFlight /\ state # "closed")
            => sinceFailure >= RecoverySeconds
<1>1. BreakerInv /\ [Next]_vars => [Quiet]_vars
  <2> SUFFICES ASSUME BreakerInv, Next,
                      NEW c \in Callers,
                      call[c] \notin InFlight, call'[c] \in InFlight, state # "closed"
               PROVE  sinceFailure >= RecoverySeconds
      OBVIOUS
  <2> USE BreakerAssumption DEF BreakerInv, TypeOK, CircuitState
  <2>1. \E d \in Callers : Admit(d)
    <3>1. ASSUME NEW d \in Callers,
                 Reject(d) \/ OnSuccess(d) \/ OnFailure(d) \/ Cancel(d)
          PROVE  FALSE
        BY <3>1 DEF Reject, OnSuccess, OnFailure, Cancel,
           InFlight
    <3>2. CASE Tick
        BY <3>2 DEF Tick
    <3> QED  BY <3>1, <3>2 DEF Next
  <2>2. RecoveryDue \/ state = "half_open"
      BY <2>1 DEF Admit, MaybeHalfOpen
  <2> QED  BY <2>2 DEF RecoveryDue, StampIsNewestFailure, HalfOpenIsQuiet
<1> QED  BY <1>1, BreakerInvariant, PTL DEF Spec, QuietAfterFailure

-----------------------------------------------------------------------------
(* The client around it. *)

(* The awaits that lie within breaker.call. *)
Requesting == {"waiting", "backoff"}

(* A caller is inside the breaker exactly while it waits for an answer or  *)
(* sleeps before a retry.                                                  *)
InsideTheBreaker ==
    \A c \in Callers : pc[c] \in Requesting <=> call[c] \in InFlight

(* A sleep is followed by an attempt, so there is one left. *)
AttemptsRemain == \A c \in Callers : pc[c] = "backoff" => attempt[c] < MaxRetries

(* What is about to be stored was received. *)
FetchedIsPayload == \A c \in Callers : pc[c] = "fetched" => payload[c] \in Payloads

(* A request sent since the breaker opened was a retry of the call that    *)
(* its caller is in, or was in: an open breaker admits no second one.      *)
SpillIsRetries ==
    state = "open" => \A c \in Callers :
        spilled[c] <= MaxRetries /\ (pc[c] \in Requesting => spilled[c] <= attempt[c])

(* The caller that opened the breaker has not been inside since. *)
OpenerStaysOut ==
    state = "open" => \E c \in Callers : spilled[c] = 0 /\ pc[c] \notin Requesting

(* What is inductive: the bound needs to know where a caller that still    *)
(* sends requests is in its call.                                          *)
ClientInv ==
    /\ ClientTypeOK
    /\ InsideTheBreaker
    /\ AttemptsRemain
    /\ FetchedIsPayload
    /\ SpillIsRetries
    /\ OpenerStaysOut

(* Every step of the client is a step of the breaker or leaves it alone.   *)
LEMMA StepsOfTheBreaker == [ClientNext]_clientVars => [Next]_vars
<1> SUFFICES ASSUME ClientNext PROVE Next \/ UNCHANGED vars
  BY DEF clientVars, breaker, vars, breakerVars, historyVars
<1> USE DEF breaker, vars, breakerVars, historyVars
<1>1. ASSUME NEW c \in Callers,
             \/ \E k \in Keys : Start(c, k)
             \/ CacheHit(c) \/ CacheMiss(c) \/ ReceiveErrorAndBackOff(c) \/ Retry(c)
             \/ Store(c) \/ CacheError(c)
      PROVE  UNCHANGED vars
  BY <1>1 DEF Start, CacheHit, CacheMiss, ReceiveErrorAndBackOff, Retry, Store, CacheError
<1>2. ASSUME NEW c \in Callers,
             \/ Enter(c) \/ ShortCircuit(c)
             \/ ReceivePayload(c) \/ ReceiveErrorAndGiveUp(c) \/ ReceiveGarbage(c)
      PROVE  Next
  BY <1>2 DEF Enter, ShortCircuit, ReceivePayload, ReceiveErrorAndGiveUp, ReceiveGarbage, Fail,
      Next
<1>3. ASSUME NEW c \in Callers, CancelCaller(c)
      PROVE  Next \/ UNCHANGED vars
  BY <1>3 DEF CancelCaller, Next
<1>4. ClientTick \/ (\E k \in Keys : UpstreamChanges(k)) => Next \/ UNCHANGED vars
  BY DEF ClientTick, UpstreamChanges, Next
<1> QED
  BY <1>1, <1>2, <1>3, <1>4 DEF ClientNext, Proceed, Receive

(* Whatever the callers, the upstream and the cache do, the breaker inside *)
(* the client runs as CircuitBreaker describes it: get_json calls it only  *)
(* through breaker.call.                                                   *)
THEOREM ClientImplementsBreaker == ClientSpec => Spec
<1>1. ClientInit => Init
  BY DEF ClientInit
<1> QED
  BY <1>1, StepsOfTheBreaker, PTL DEF ClientSpec, Spec

(* What is proved of the breaker on its own, of the one inside the client: *)
(* it opens exactly when the newest FailureThreshold calls of get_json     *)
(* that got past the cache have failed.                                    *)
COROLLARY ClientOpensOnConsecutiveFailures == ClientSpec => OpensExactlyOnStreak
BY ClientImplementsBreaker, OpensOnConsecutiveFailures, PTL

(* And a breaker that is not closed lets a request of get_json through     *)
(* only after a full recovery window without a failure.                    *)
COROLLARY ClientQuietAfterFailure == ClientSpec => QuietAfterFailure
BY ClientImplementsBreaker, QuietAfterEveryFailure, PTL

-----------------------------------------------------------------------------
(* What a call that ends leaves behind. *)
LEMMA FinishKeepsTypes ==
    ASSUME ClientTypeOK, NEW c \in Callers, NEW r \in Replies, Finish(c, r)
    PROVE  /\ pc' \in [Callers -> Locations]
           /\ key' \in [Callers -> Keys]
           /\ attempt' \in [Callers -> 0 .. MaxRetries]
           /\ payload' \in [Callers -> Payloads \cup {NoPayload}]
           /\ reply' \in [Callers -> Replies]
BY ClientAssumption DEF ClientTypeOK, Finish, Goto, Locations

LEMMA NormalizeReplies == \A p : Normalize(p) \subseteq Replies
BY DEF Normalize, Replies

(* The client's steps keep the types. *)
LEMMA TypesKept ==
    ASSUME ClientInv, [ClientNext]_clientVars
    PROVE  ClientTypeOK'
<1>0. TypeOK'
  BY StepsOfTheBreaker, BreakerTypesKept DEF ClientInv, ClientTypeOK
<1> USE ClientAssumption DEF ClientInv
<1>1. ASSUME NEW c \in Callers, NEW k \in Keys, Start(c, k) PROVE ClientTypeOK'
  BY <1>0, <1>1 DEF ClientTypeOK, Start, Goto, Locations, Replies
<1>2. ASSUME NEW c \in Callers, CacheHit(c) \/ ShortCircuit(c) \/ CacheError(c) \/ CancelCaller(c)
      PROVE  ClientTypeOK'
  <2>1. PICK r \in Replies : Finish(c, r)
    BY <1>2, NormalizeReplies DEF CacheHit, ShortCircuit, CacheError, CancelCaller, Replies
  <2>2. UNCHANGED <<cached, answer, spilled>>
    BY <1>2 DEF CacheHit, ShortCircuit, CacheError, CancelCaller
  <2> QED
    BY <1>0, <2>1, <2>2, FinishKeepsTypes DEF ClientTypeOK
<1>3. ASSUME NEW c \in Callers, CacheMiss(c) \/ Enter(c) \/ ReceiveErrorAndBackOff(c)
      PROVE  ClientTypeOK'
  BY <1>0, <1>3 DEF ClientTypeOK, CacheMiss, Enter, ReceiveErrorAndBackOff, Goto, Locations
<1>4. ASSUME NEW c \in Callers, ReceivePayload(c) PROVE ClientTypeOK'
  BY <1>0, <1>4 DEF ClientTypeOK, ReceivePayload, Goto, Locations
<1>5. ASSUME NEW c \in Callers, ReceiveErrorAndGiveUp(c) \/ ReceiveGarbage(c) PROVE ClientTypeOK'
  <2>1. PICK r \in Replies : Fail(c, r)
    BY <1>5 DEF ReceiveErrorAndGiveUp, ReceiveGarbage, Replies
  <2>2. spilled' \in [Callers -> Nat] /\ UNCHANGED <<cached, answer>>
    BY <2>1 DEF Fail, ClientTypeOK
  <2> QED
    BY <1>0, <2>1, <2>2, FinishKeepsTypes DEF ClientTypeOK, Fail
<1>6. ASSUME NEW c \in Callers, Retry(c) PROVE ClientTypeOK'
  BY <1>0, <1>6 DEF ClientTypeOK, Retry, NextAttempt, AttemptsRemain, Goto, Locations
<1>7. ASSUME NEW c \in Callers, Store(c) PROVE ClientTypeOK'
  <2>1. [payload |-> payload[c], left |-> CacheTtl] \in Entries
    BY <1>7 DEF Store, FetchedIsPayload, Entries
  <2>2. cached' \in [Keys -> Entries \cup {NoPayload}] /\ UNCHANGED <<answer, spilled>>
    BY <1>7, <2>1 DEF Store, ClientTypeOK
  <2>3. PICK r \in Replies : Finish(c, r)
    BY <1>7, NormalizeReplies DEF Store
  <2> QED
    BY <1>0, <2>2, <2>3, FinishKeepsTypes DEF ClientTypeOK
<1>8. CASE ClientTick
  <2>1. \A e \in Entries \cup {NoPayload} : Age(e) \in Entries \cup {NoPayload}
    BY DEF Age, Entries
  <2> QED
    BY <1>0, <1>8, <2>1 DEF ClientTypeOK, ClientTick, client
<1>9. ASSUME NEW k \in Keys, UpstreamChanges(k) PROVE ClientTypeOK'
  BY <1>0, <1>9 DEF ClientTypeOK, UpstreamChanges, client, breaker, vars, breakerVars, historyVars
<1>10. CASE UNCHANGED clientVars
  BY <1>0, <1>10 DEF ClientTypeOK, clientVars, client
<1> QED
  BY <1>1, <1>2, <1>3, <1>4, <1>5, <1>6, <1>7, <1>8, <1>9, <1>10 DEF ClientNext, Proceed, Receive

(* Where a caller is, and where it is in breaker.call. *)
LEMMA InsideKept ==
    ASSUME ClientInv, [ClientNext]_clientVars
    PROVE  InsideTheBreaker'
<1> USE DEF ClientInv, ClientTypeOK, TypeOK, InsideTheBreaker, Requesting, InFlight, Goto, Finish
<1>1. ASSUME NEW c \in Callers, NEW k \in Keys, Start(c, k) PROVE InsideTheBreaker'
  BY <1>1 DEF Start, breaker, vars, breakerVars, historyVars
<1>2. ASSUME NEW c \in Callers, CacheHit(c) \/ CacheMiss(c) \/ Store(c) \/ CacheError(c)
      PROVE  InsideTheBreaker'
  BY <1>2 DEF CacheHit, CacheMiss, Store, CacheError, breaker, vars, breakerVars, historyVars
<1>3. ASSUME NEW c \in Callers, Enter(c) PROVE InsideTheBreaker'
  BY <1>3 DEF Enter, Admit
<1>4. ASSUME NEW c \in Callers, ShortCircuit(c) PROVE InsideTheBreaker'
  BY <1>4 DEF ShortCircuit, Reject
<1>5. ASSUME NEW c \in Callers, ReceivePayload(c) PROVE InsideTheBreaker'
  BY <1>5 DEF ReceivePayload, OnSuccess
<1>6. ASSUME NEW c \in Callers, ReceiveErrorAndGiveUp(c) \/ ReceiveGarbage(c)
      PROVE  InsideTheBreaker'
  <2>1. OnFailure(c) /\ \E r : Finish(c, r)
    BY <1>6 DEF ReceiveErrorAndGiveUp, ReceiveGarbage, Fail
  <2>2. pc'[c] = "idle" /\ \A d \in Callers \ {c} : pc'[d] = pc[d]
    BY <2>1
  <2>3. call'[c] \notin InFlight /\ \A d \in Callers \ {c} : call'[d] = call[d]
    BY <2>1 DEF OnFailure
  <2> QED
    BY <2>2, <2>3
<1>7. ASSUME NEW c \in Callers, ReceiveErrorAndBackOff(c) \/ Retry(c) PROVE InsideTheBreaker'
  BY <1>7 DEF ReceiveErrorAndBackOff, Retry, breaker, vars, breakerVars, historyVars
<1>8. ASSUME NEW c \in Callers, CancelCaller(c) PROVE InsideTheBreaker'
  BY <1>8 DEF CancelCaller, Cancel, breaker, vars, breakerVars, historyVars
<1>9. CASE ClientTick
  BY <1>9 DEF ClientTick, Tick, client
<1>10. CASE (\E k \in Keys : UpstreamChanges(k)) \/ UNCHANGED clientVars
  BY <1>10 DEF UpstreamChanges, clientVars, client,
      breaker, vars, breakerVars, historyVars
<1> QED
  BY <1>1, <1>2, <1>3, <1>4, <1>5, <1>6, <1>7, <1>8, <1>9, <1>10 DEF ClientNext, Proceed, Receive

(* What a caller holds. *)
LEMMA HoldingsKept ==
    ASSUME ClientInv, [ClientNext]_clientVars
    PROVE  AttemptsRemain' /\ FetchedIsPayload'
<1> USE DEF ClientInv, ClientTypeOK, AttemptsRemain, FetchedIsPayload, Goto, Finish
<1>1. ASSUME NEW c \in Callers, NEW k \in Keys, Start(c, k)
      PROVE  AttemptsRemain' /\ FetchedIsPayload'
  BY <1>1 DEF Start
<1>2. ASSUME NEW c \in Callers, CacheMiss(c) \/ Enter(c) PROVE AttemptsRemain' /\ FetchedIsPayload'
  BY <1>2 DEF CacheMiss, Enter
<1>3. ASSUME NEW c \in Callers, ReceivePayload(c) PROVE AttemptsRemain' /\ FetchedIsPayload'
  BY <1>3 DEF ReceivePayload
<1>4. ASSUME NEW c \in Callers, ReceiveErrorAndBackOff(c)
      PROVE  AttemptsRemain' /\ FetchedIsPayload'
  BY <1>4 DEF ReceiveErrorAndBackOff, AttemptsLeft
<1>5. ASSUME NEW c \in Callers, Retry(c) PROVE AttemptsRemain' /\ FetchedIsPayload'
  BY <1>5 DEF Retry
<1>6. ASSUME NEW c \in Callers, NEW r, Finish(c, r) PROVE AttemptsRemain' /\ FetchedIsPayload'
  BY <1>6
<1>7. ASSUME NEW c \in Callers,
             \/ CacheHit(c) \/ ShortCircuit(c) \/ ReceiveErrorAndGiveUp(c) \/ ReceiveGarbage(c)
             \/ Store(c) \/ CacheError(c) \/ CancelCaller(c)
      PROVE  \E r : Finish(c, r)
  BY <1>7 DEF CacheHit, ShortCircuit, ReceiveErrorAndGiveUp, ReceiveGarbage, Fail, Store,
      CacheError, CancelCaller
<1>8. CASE ClientTick \/ (\E k \in Keys : UpstreamChanges(k)) \/ UNCHANGED clientVars
  BY <1>8 DEF ClientTick, UpstreamChanges, clientVars, client
<1> QED
  BY <1>1, <1>2, <1>3, <1>4, <1>5, <1>6, <1>7, <1>8 DEF ClientNext, Proceed, Receive

(* Only retries reach the upstream while the breaker is open.  Admission   *)
(* takes it out of the open state; opening it starts the count again.      *)
LEMMA SpillKept ==
    ASSUME ClientInv, [ClientNext]_clientVars
    PROVE  SpillIsRetries' /\ OpenerStaysOut'
<1> USE ClientAssumption DEF ClientInv, ClientTypeOK, SpillIsRetries, OpenerStaysOut, Requesting
<1>1. ASSUME NEW c \in Callers, NEW k \in Keys, Start(c, k)
      PROVE  SpillIsRetries' /\ OpenerStaysOut'
  BY <1>1 DEF Start, Goto, breaker, vars, breakerVars, historyVars
<1>2. ASSUME NEW c \in Callers, NEW r, Finish(c, r), state' = state, spilled' = spilled
      PROVE  SpillIsRetries' /\ OpenerStaysOut'
  BY <1>2 DEF Finish, Goto
<1>3. ASSUME NEW c \in Callers,
             CacheHit(c) \/ ShortCircuit(c) \/ Store(c) \/ CacheError(c) \/ CancelCaller(c)
      PROVE  (\E r : Finish(c, r)) /\ state' = state /\ spilled' = spilled
  BY <1>3 DEF CacheHit, ShortCircuit, Store, CacheError, CancelCaller, Reject, Cancel,
      breaker, vars, breakerVars, historyVars
<1>4. ASSUME NEW c \in Callers, CacheMiss(c) \/ ReceiveErrorAndBackOff(c)
      PROVE  SpillIsRetries' /\ OpenerStaysOut'
  BY <1>4 DEF CacheMiss, ReceiveErrorAndBackOff, Goto, breaker, vars, breakerVars, historyVars
<1>5. ASSUME NEW c \in Callers, Enter(c) PROVE SpillIsRetries' /\ OpenerStaysOut'
  <2>1. state' # "open"
    BY <1>5 DEF Enter, Admit
  <2> QED
    BY <2>1
<1>6. ASSUME NEW c \in Callers, ReceivePayload(c) PROVE SpillIsRetries' /\ OpenerStaysOut'
  <2>1. state' # "open"
    BY <1>6 DEF ReceivePayload, OnSuccess
  <2> QED
    BY <2>1
<1>7. ASSUME NEW c \in Callers, NEW r, Fail(c, r) PROVE SpillIsRetries' /\ OpenerStaysOut'
  <2>1. CASE state # "open" /\ state' = "open"
    <3>1. spilled' = [d \in Callers |-> 0]
      BY <1>7, <2>1 DEF Fail
    <3>2. /\ pc' = [pc EXCEPT ![c] = "idle"]
          /\ attempt' = [attempt EXCEPT ![c] = 0]
      BY <1>7 DEF Fail, Finish, Goto
    <3> QED
      BY <3>1, <3>2
  <2>2. CASE state = "open"
    BY <1>7, <2>2 DEF Fail, Finish, Goto
  <2>3. CASE state' # "open"
    BY <2>3
  <2> QED
    BY <2>1, <2>2, <2>3
<1>8. ASSUME NEW c \in Callers, ReceiveErrorAndGiveUp(c) \/ ReceiveGarbage(c)
      PROVE  \E r : Fail(c, r)
  BY <1>8 DEF ReceiveErrorAndGiveUp, ReceiveGarbage
<1>9. ASSUME NEW c \in Callers, Retry(c) PROVE SpillIsRetries' /\ OpenerStaysOut'
  <2>1. SpillIsRetries'
    BY <1>9 DEF Retry, NextAttempt, AttemptsRemain, Goto, breaker, vars, breakerVars, historyVars
  <2>2. OpenerStaysOut'
    BY <1>9 DEF Retry, Goto, breaker, vars, breakerVars, historyVars
  <2> QED
    BY <2>1, <2>2
<1>10. CASE ClientTick \/ (\E k \in Keys : UpstreamChanges(k)) \/ UNCHANGED clientVars
  BY <1>10 DEF ClientTick, Tick, UpstreamChanges, clientVars, client,
      breaker, vars, breakerVars, historyVars
<1> QED
  BY <1>1, <1>2, <1>3, <1>4, <1>5, <1>6, <1>7, <1>8, <1>9, <1>10 DEF ClientNext, Proceed, Receive

(* The inductive invariant: an open breaker's upstream is only reached by  *)
(* calls admitted before, each on its way to its last attempt.             *)
THEOREM ClientInvariant == ClientSpec => []ClientInv
<1>1. ClientInit => ClientInv
  <2> SUFFICES ASSUME ClientInit PROVE ClientInv
    OBVIOUS
  <2>1. TypeOK
    BY BreakerAssumption DEF ClientInit, Init, TypeOK, CircuitState,
        CallState, InFlight, Outcome
  <2>2. ClientTypeOK
    BY <2>1, ClientAssumption DEF ClientInit, ClientTypeOK, Locations, Replies, Answers
  <2>3. /\ InsideTheBreaker
        /\ AttemptsRemain
        /\ FetchedIsPayload
    BY DEF ClientInit, Init, InsideTheBreaker, Requesting, InFlight, AttemptsRemain,
        FetchedIsPayload
  <2>4. SpillIsRetries /\ OpenerStaysOut
    BY DEF ClientInit, Init, SpillIsRetries, OpenerStaysOut
  <2> QED
    BY <2>2, <2>3, <2>4 DEF ClientInv
<1>2. ClientInv /\ [ClientNext]_clientVars => ClientInv'
  BY TypesKept, InsideKept, HoldingsKept, SpillKept DEF ClientInv
<1> QED
  BY <1>1, <1>2, PTL DEF ClientSpec

(* The types of the client, its breaker and the cache it shares. *)
THEOREM ClientTypeCorrect == ClientSpec => []ClientTypeOK
<1>1. ClientInv => ClientTypeOK
  BY DEF ClientInv
<1> QED
  BY <1>1, ClientInvariant, PTL

(* For any number of callers and retries: since the breaker opened, the    *)
(* call that opened it has sent nothing, and every other caller at most    *)
(* the retries of one call (call, _get_with_retry).                        *)
THEOREM SpillIsBounded == ClientSpec => []RequestsAfterOpeningBounded
<1>1. ClientInv => RequestsAfterOpeningBounded
  BY DEF ClientInv, SpillIsRetries, OpenerStaysOut, RequestsAfterOpeningBounded
<1> QED
  BY <1>1, ClientInvariant, PTL

=============================================================================
