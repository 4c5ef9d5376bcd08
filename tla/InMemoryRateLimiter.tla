-------------------------- MODULE InMemoryRateLimiter --------------------------
(***************************************************************************)
(* InMemoryRateLimiter of app/core/rate_limit.py: a sliding window per     *)
(* identity, with a sweep that forgets idle identities once per window.    *)
(* The lock is never held across an await, so check is one step.           *)
(*                                                                         *)
(* Timestamps appear as ages: the code only ever compares them with the    *)
(* clock.  Ages stop growing at two windows, where no comparison can tell  *)
(* them apart any more.  A list of hits is a set, for the code filters it, *)
(* counts it and never looks at its order; hits of one instant differ in   *)
(* their number.                                                           *)
(***************************************************************************)
EXTENDS Naturals, FiniteSets

CONSTANTS
    Identities,
    Limit,       \* limit
    Window       \* window_seconds, in ticks

(* What the limiter needs of its parameters. *)
LimiterAssumption ==
    /\ Limit \in Nat \ {0}
    /\ Window \in Nat \ {0}

VARIABLES
    hits,        \* _hits[i]: the remembered hits
    tracked,     \* the keys of _hits
    sinceSweep   \* clock() - _last_sweep

(* History, read by the properties only. *)
VARIABLES
    granted,     \* granted[i]: the requests let through within the last window
    allowed      \* the request checked last was let through

vars == <<hits, tracked, sinceSweep, granted, allowed>>

OldAge == 2 * Window

(* The type of every variable. *)
TypeOK ==
    /\ hits \in [Identities -> SUBSET [age : 0 .. OldAge, nth : Nat]]
    /\ tracked \subseteq Identities
    /\ sinceSweep \in 0 .. Window
    /\ granted \in [Identities -> SUBSET [age : 0 .. Window - 1, nth : Nat]]
    /\ allowed \in BOOLEAN

Init ==
    /\ hits = [i \in Identities |-> {}]
    /\ tracked = {}
    /\ sinceSweep = 0
    /\ granted = [i \in Identities |-> {}]
    /\ allowed = FALSE

(* Fault: a hit counts for one instant longer than the window. *)
RecentTooLong(age) == age <= Window

(* ts > cutoff *)
Recent(age) == age < Window

RecentHits(i) == {h \in hits[i] : Recent(h.age)}

(* now - _last_sweep >= _window *)
SweepDue == sinceSweep = Window

(* Fault: only identities that never hit are dropped. *)
IdleNever == {i \in tracked : hits[i] = {}}

(* The keys _sweep deletes: no hit of theirs is within the window. *)
Idle == {i \in tracked : RecentHits(i) = {}}

(* Fault: the sweep forgets everyone. *)
KeptNone == IF SweepDue THEN {} ELSE tracked

(* The keys and hits that are left when _sweep returns. *)
Kept == IF SweepDue THEN tracked \ Idle ELSE tracked

(* len(recent) >= limit refuses. *)
HasRoom(recent) == Cardinality(recent) < Limit

(* recent.append(now) *)
WithNewHit(recent) ==
    recent \cup {[age |-> 0, nth |-> Cardinality({h \in recent : h.age = 0})]}

(* check: sweep, prune this identity's hits, refuse or remember. *)
Check(i) ==
    LET recent == IF i \in Kept THEN RecentHits(i) ELSE {}
        remembered == IF HasRoom(recent) THEN WithNewHit(recent) ELSE recent
    IN
    /\ allowed' = HasRoom(recent)
    /\ sinceSweep' = IF SweepDue THEN 0 ELSE sinceSweep
    /\ tracked' = Kept \cup {i}
    /\ hits' = [j \in Identities |->
                  IF j = i THEN remembered ELSE IF j \in Kept THEN hits[j] ELSE {}]
    /\ granted' = IF HasRoom(recent) THEN [granted EXCEPT ![i] = WithNewHit(@)] ELSE granted

Older(age) == IF age < OldAge THEN age + 1 ELSE age
AgeAll(S) == {[h EXCEPT !.age = Older(h.age)] : h \in S}
WithinWindow(S) == {h \in S : h.age < Window}

(* The clock advances; the history keeps the grants of the last window. *)
Tick ==
    /\ hits' = [i \in Identities |-> AgeAll(hits[i])]
    /\ granted' = [i \in Identities |-> WithinWindow(AgeAll(granted[i]))]
    /\ sinceSweep' = IF sinceSweep < Window THEN sinceSweep + 1 ELSE sinceSweep
    /\ UNCHANGED <<tracked, allowed>>

Next ==
    \/ \E i \in Identities : Check(i)
    \/ Tick

Spec == Init /\ [][Next]_vars

-----------------------------------------------------------------------------
(* Properties. *)

(* In no window, wherever it starts, are more than `limit` requests of an  *)
(* identity let through, although refused requests prune the list and the  *)
(* sweep, set off by any identity, deletes it (check, _sweep).             *)
NeverOverLimit == \A i \in Identities : Cardinality(granted[i]) <= Limit

(* A request is refused only when the window really is full: forgetting    *)
(* and pruning cost nobody a request, a refused request does not count     *)
(* against the next one (check).                                           *)
RefusedOnlyWhenFull ==
    [][ \A i \in Identities :
          Check(i) /\ ~allowed' => Cardinality(granted[i]) = Limit ]_vars

(* What is remembered is bounded by the traffic of two windows: after any  *)
(* check, no identity is held that has not been heard of for two windows   *)
(* (_sweep).                                                               *)
IdleIdentitiesForgotten ==
    [][ \A i \in Identities :
          Check(i) => \A j \in tracked' : \E h \in hits'[j] : h.age < OldAge ]_vars

=============================================================================
