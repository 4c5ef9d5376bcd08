-------------------------- MODULE TokenSessionsProofs --------------------------
(***************************************************************************)
(* The safety properties of TokenSessions and its refinement of TokenLife, *)
(* for any number of sessions and of requests in progress, any lifetimes   *)
(* and any resolution of the clock.                                        *)
(***************************************************************************)
EXTENDS TokenSessions, TLAPS

Issued(s) == issuedAt[s] # NotIssued

(* The clock has reached the second in which a pair was issued. *)
IssuedInThePast == \A s \in Sessions : Issued(s) => issuedAt[s] <= Second(now)

(* Whatever the denylist holds lasts until the token expires. *)
DenialLasts ==
    \A t \in Tokens : denied[t] # 0 => Issued(t.session) /\ denied[t] >= Exp(t) * TicksPerSecond

(* A revocation that was written is in the denylist. *)
RevokedIsDenied == \A t \in revoked : denied[t] # 0

(* A request in progress is one that was sent, with tokens that we issued. *)
HoldsIssued(h) ==
    /\ req[h] \in Requests
    /\ Issued(req[h].token.session)
    /\ req[h].body # NoSession => Issued(req[h].body)

(* Only a logout revokes, and only one with a body gets to the second      *)
(* token.                                                                  *)
OnItsWay(h) ==
    /\ at[h] \in {"revoke", "set", "body", "farewell"} => req[h].op = "logout"
    /\ at[h] \in {"load", "serve"} => req[h].op # "logout"
    /\ at[h] = "body" \/ hand[h] = "refresh" => req[h].body # NoSession
    /\ hand[h] = "refresh" => at[h] \in {"revoke", "set", "farewell"}

Gone(t) == t \in revoked \/ Expired(t)

(* A ttl in hand reaches the expiry of its token, whenever it is used: it  *)
(* was computed from a second that had begun.                              *)
TtlReachesExpiry(h) ==
    at[h] = "set" =>
        ttl[h] > 0 /\ now + ttl[h] * TicksPerSecond >= Exp(InHand(h)) * TicksPerSecond

(* What a logout has dealt with by now. *)
RevokedSoFar(h) ==
    /\ at[h] = "body" \/ hand[h] = "refresh" => Gone(req[h].token)
    /\ at[h] = "farewell" =>
         Gone(req[h].token) /\ (req[h].body # NoSession => Gone(BodyToken(h)))

(* What a request that arrived with a revoked token may have found. *)
LateIsRefused(h) ==
    late[h] =>
        req[h].token \in revoked /\ (at[h] # "lookup" => Expired(req[h].token))

(* The account was in order at some moment since the request arrived. *)
InOrderMeansEntitled(h) ==
    /\ inOrder /\ req[h].op # "logout" => entitled[h]
    /\ at[h] = "serve" => entitled[h]

HandlerInv(h) ==
    at[h] # "idle" =>
        /\ HoldsIssued(h)
        /\ OnItsWay(h)
        /\ TtlReachesExpiry(h)
        /\ RevokedSoFar(h)
        /\ LateIsRefused(h)
        /\ InOrderMeansEntitled(h)

(* An idle handler starts its next request with the access token. *)
IdleIsClean == \A h \in Handlers : at[h] = "idle" => hand[h] = "access"

(* The properties alone are not inductive: a revocation is computed from   *)
(* one reading of the clock, written later, and read later still, and each *)
(* of those steps may meet any state of the others.                        *)
IInv ==
    /\ TypeOK
    /\ IssuedInThePast
    /\ DenialLasts
    /\ RevokedIsDenied
    /\ IdleIsClean
    /\ \A h \in Handlers : HandlerInv(h)

-----------------------------------------------------------------------------
(* The clock and the tokens. *)

(* A second begins at or before the instant it is read, and the next one   *)
(* after it.                                                               *)
LEMMA SecondBounds ==
    ASSUME NEW t \in Nat
    PROVE  /\ Second(t) \in Nat
           /\ Second(t) * TicksPerSecond <= t
           /\ t < (Second(t) + 1) * TicksPerSecond
BY SessionsAssumption DEF Second

LEMMA SecondMonotonic ==
    ASSUME NEW t \in Nat, NEW u \in Nat, t <= u
    PROVE  Second(t) <= Second(u)
BY SessionsAssumption DEF Second

LEMMA TicksMonotonic ==
    ASSUME NEW a \in Int, NEW b \in Int, a <= b
    PROVE  /\ a * TicksPerSecond \in Int
           /\ b * TicksPerSecond \in Int
           /\ a * TicksPerSecond <= b * TicksPerSecond
BY SessionsAssumption

LEMMA LifetimeBounds ==
    ASSUME NEW type
    PROVE  Lifetime(type) \in 1 .. MaxTtl /\ MaxTtl \in Nat
BY SessionsAssumption DEF Lifetime, MaxTtl

(* The expiry of an issued token is a number, and some time after the      *)
(* issue.                                                                  *)
LEMMA ExpBounds ==
    ASSUME TypeOK, NEW t \in Tokens, Issued(t.session)
    PROVE  /\ issuedAt[t.session] \in Nat
           /\ Exp(t) \in Nat
           /\ Exp(t) * TicksPerSecond \in Nat
           /\ Exp(t) = issuedAt[t.session] + Lifetime(t.type)
<1>1. issuedAt[t.session] \in Nat
    BY DEF TypeOK, Tokens, Issued
<1>2. Lifetime(t.type) \in Nat
    BY LifetimeBounds
<1>3. Exp(t) \in Nat
    BY <1>1, <1>2 DEF Exp
<1> QED  BY <1>1, <1>3, SessionsAssumption DEF Exp

(* What the remaining ttl is worth: it is at most the lifetime, it reaches *)
(* the expiry, and it is zero only once the token has expired.             *)
LEMMA RemainingTtlReaches ==
    ASSUME TypeOK, IssuedInThePast, NEW t \in Tokens, Issued(t.session)
    PROVE  /\ RemainingTtl(t) \in 0 .. MaxTtl
           /\ RemainingTtl(t) > 0 =>
                now + RemainingTtl(t) * TicksPerSecond >= Exp(t) * TicksPerSecond
           /\ RemainingTtl(t) = 0 => Expired(t)
<1>1. now \in Nat /\ Second(now) \in Nat /\ Second(now) * TicksPerSecond <= now
    BY SecondBounds, SessionsAssumption DEF TypeOK
<1>2. /\ Exp(t) \in Nat
      /\ issuedAt[t.session] \in Nat
      /\ Exp(t) = issuedAt[t.session] + Lifetime(t.type)
    BY ExpBounds
<1>3. Lifetime(t.type) \in 1 .. MaxTtl /\ MaxTtl \in Nat
    BY LifetimeBounds
<1>4. issuedAt[t.session] <= Second(now)
    BY DEF IssuedInThePast, Tokens
<1> DEFINE left == Exp(t) - Second(now)
<1>5. left \in Int /\ left <= MaxTtl
    BY <1>1, <1>2, <1>3, <1>4
<1>6. RemainingTtl(t) = IF left > 0 THEN left ELSE 0
    BY DEF RemainingTtl
<1>7. left * TicksPerSecond = Exp(t) * TicksPerSecond - Second(now) * TicksPerSecond
    BY <1>1, <1>2, SessionsAssumption
<1>8. Exp(t) <= Second(now) => Exp(t) * TicksPerSecond <= Second(now) * TicksPerSecond
    BY <1>1, <1>2, TicksMonotonic
<1>9. Exp(t) * TicksPerSecond \in Int /\ Second(now) * TicksPerSecond \in Int
    BY <1>1, <1>2, SessionsAssumption
<1> HIDE DEF left
<1>10. RemainingTtl(t) \in 0 .. MaxTtl
    BY <1>3, <1>5, <1>6
<1>11. ASSUME RemainingTtl(t) > 0
       PROVE  now + RemainingTtl(t) * TicksPerSecond >= Exp(t) * TicksPerSecond
  <2>1. RemainingTtl(t) * TicksPerSecond = Exp(t) * TicksPerSecond - Second(now) * TicksPerSecond
      BY <1>5, <1>6, <1>7, <1>11
  <2> QED  BY <1>1, <1>9, <2>1
<1>12. ASSUME RemainingTtl(t) = 0 PROVE Expired(t)
  <2>1. Exp(t) <= Second(now)
      BY <1>1, <1>2, <1>5, <1>6, <1>12 DEF left
  <2> QED  BY <1>1, <1>8, <1>9, <2>1 DEF Expired
<1> QED  BY <1>10, <1>11, <1>12

-----------------------------------------------------------------------------
(* Steps of others. *)

(* Time does not go back, no pair is issued twice, and what was revoked    *)
(* was.                                                                    *)
OnwardsOnly ==
    /\ now' \in Nat
    /\ now <= now'
    /\ \A s \in Sessions : Issued(s) => issuedAt'[s] = issuedAt[s]
    /\ revoked \subseteq revoked'

(* An issued token keeps its expiry, and stays expired. *)
LEMMA ExpiredForGood ==
    ASSUME TypeOK, OnwardsOnly, NEW t \in Tokens, Issued(t.session)
    PROVE  /\ Issued(t.session)'
           /\ Exp(t)' = Exp(t)
           /\ Expired(t) => Expired(t)'
           /\ Gone(t) => Gone(t)'
<1>1. t.session \in Sessions
    BY DEF Tokens
<1>2. issuedAt'[t.session] = issuedAt[t.session]
    BY <1>1 DEF OnwardsOnly
<1>3. Exp(t)' = Exp(t)
    BY <1>2 DEF Exp
<1>4. Expired(t) => Expired(t)'
  <2>1. Exp(t) * TicksPerSecond \in Nat
      BY ExpBounds
  <2>2. now \in Nat /\ now' \in Nat /\ now <= now'
      BY SessionsAssumption DEF TypeOK, OnwardsOnly
  <2> HIDE DEF Exp
  <2> QED  BY <1>3, <2>1, <2>2 DEF Expired
<1> QED  BY <1>2, <1>3, <1>4 DEF Issued, Gone, OnwardsOnly

(* The request is where it was, with what it held. *)
Untouched(h) ==
    /\ at'[h] = at[h]
    /\ req'[h] = req[h]
    /\ hand'[h] = hand[h]
    /\ ttl'[h] = ttl[h]
    /\ late'[h] = late[h]
    /\ entitled'[h] = entitled[h]

(* The tokens of a request that was sent are tokens. *)
LEMMA TokensOfRequest ==
    ASSUME NEW h \in Handlers, HoldsIssued(h)
    PROVE  /\ req[h].token \in Tokens /\ Issued(req[h].token.session)
           /\ req[h].body # NoSession => BodyToken(h) \in Tokens /\ Issued(BodyToken(h).session)
           /\ hand[h] # "access" => InHand(h) = BodyToken(h)
           /\ hand[h] = "access" => InHand(h) = req[h].token
BY SessionsAssumption DEF HoldsIssued, AnyRequest, BodyToken, InHand, Tokens

(* The token a logout is revoking is one that we issued. *)
LEMMA InHandIssued ==
    ASSUME TypeOK, NEW h \in Handlers, HoldsIssued(h), OnItsWay(h)
    PROVE  InHand(h) \in Tokens /\ Issued(InHand(h).session)
BY TokensOfRequest DEF TypeOK, OnItsWay

(* What others do does not disturb what is known of a request. *)
LEMMA OthersDoNotDisturb ==
    ASSUME TypeOK, OnwardsOnly, inOrder' = inOrder,
           NEW h \in Handlers, HandlerInv(h), Untouched(h)
    PROVE  HandlerInv(h)'
<1> SUFFICES ASSUME at[h] # "idle" PROVE HandlerInv(h)'
    BY DEF HandlerInv, Untouched
<1>0. /\ HoldsIssued(h) /\ OnItsWay(h) /\ TtlReachesExpiry(h)
      /\ RevokedSoFar(h) /\ LateIsRefused(h) /\ InOrderMeansEntitled(h)
    BY DEF HandlerInv
<1>1. /\ req[h].token \in Tokens /\ Issued(req[h].token.session)
      /\ req[h].body # NoSession => BodyToken(h) \in Tokens /\ Issued(BodyToken(h).session)
    BY <1>0, TokensOfRequest
<1>2. InHand(h)' = InHand(h) /\ BodyToken(h)' = BodyToken(h)
    BY DEF InHand, BodyToken, Untouched
<1>3. HoldsIssued(h)'
  <2>1. req[h].token.session \in Sessions /\ (req[h].body # NoSession => req[h].body \in Sessions)
      BY <1>0, SessionsAssumption DEF HoldsIssued, AnyRequest, Tokens
  <2> QED  BY <1>0, <2>1 DEF HoldsIssued, Issued, OnwardsOnly, Untouched
<1>4. OnItsWay(h)'
    BY <1>0 DEF OnItsWay, Untouched
<1>5. TtlReachesExpiry(h)'
  <2> SUFFICES ASSUME at[h] = "set" PROVE TtlReachesExpiry(h)'
      BY DEF TtlReachesExpiry, Untouched
  <2>1. InHand(h) \in Tokens /\ Issued(InHand(h).session)
      BY <1>0, InHandIssued
  <2>2. Exp(InHand(h))' = Exp(InHand(h)) /\ Exp(InHand(h)) * TicksPerSecond \in Nat
      BY <1>2, <2>1, ExpiredForGood, ExpBounds
  <2>3. ttl[h] > 0 /\ now + ttl[h] * TicksPerSecond >= Exp(InHand(h)) * TicksPerSecond
      BY <1>0 DEF TtlReachesExpiry
  <2>4. now \in Nat /\ now' \in Nat /\ now <= now' /\ ttl[h] * TicksPerSecond \in Int
      BY SessionsAssumption DEF TypeOK, OnwardsOnly
  <2>5. now' + ttl[h] * TicksPerSecond >= Exp(InHand(h)) * TicksPerSecond
      BY <2>2, <2>3, <2>4
  <2> QED  BY <2>2, <2>3, <2>5 DEF TtlReachesExpiry, Untouched
<1>6. RevokedSoFar(h)'
  <2>1. Gone(req[h].token) => Gone(req[h].token)'
      BY <1>1, ExpiredForGood DEF Untouched
  <2>2. req[h].body # NoSession /\ Gone(BodyToken(h)) => Gone(BodyToken(h))'
      BY <1>1, <1>2, ExpiredForGood
  <2> QED  BY <1>0, <2>1, <2>2 DEF RevokedSoFar, Untouched
<1>7. LateIsRefused(h)'
  <2>1. Expired(req[h].token) => Expired(req[h].token)'
      BY <1>1, ExpiredForGood DEF Untouched
  <2> QED  BY <1>0, <2>1 DEF LateIsRefused, Untouched, OnwardsOnly
<1>8. InOrderMeansEntitled(h)'
    BY <1>0 DEF InOrderMeansEntitled, Untouched
<1> QED  BY <1>3, <1>4, <1>5, <1>6, <1>7, <1>8 DEF HandlerInv

-----------------------------------------------------------------------------
(* The inductive invariant. *)

(* No pair is issued, nothing is written and nothing goes on at first. *)
LEMMA InitIInv == Init => IInv
<1> SUFFICES ASSUME Init PROVE IInv
    OBVIOUS
<1>1. TypeOK
    BY SessionsAssumption DEF Init, TypeOK, Locations, MaxTtl
<1>2. \A s \in Sessions : ~Issued(s)
    BY DEF Init, Issued
<1> QED  BY <1>1, <1>2 DEF Init, IInv, IssuedInThePast, DenialLasts, RevokedIsDenied,
            IdleIsClean, HandlerInv, Tokens

(* The end of a request leaves a handler that is idle. *)
LEMMA FinishType ==
    ASSUME TypeOK, NEW h \in Handlers, Finish(h)
    PROVE  /\ at' \in [Handlers -> Locations]
           /\ req' \in [Handlers -> Requests \cup {NoRequest}]
           /\ hand' \in [Handlers -> {"access", "refresh"}]
           /\ ttl' \in [Handlers -> 0 .. MaxTtl]
           /\ late' \in [Handlers -> BOOLEAN]
           /\ entitled' \in [Handlers -> BOOLEAN]
<1>1. at' \in [Handlers -> Locations] /\ req' \in [Handlers -> Requests \cup {NoRequest}]
    BY DEF TypeOK, Finish, Goto, Locations
<1>2. hand' \in [Handlers -> {"access", "refresh"}] /\ ttl' \in [Handlers -> 0 .. MaxTtl]
    BY SessionsAssumption DEF TypeOK, Finish, MaxTtl
<1>3. late' \in [Handlers -> BOOLEAN] /\ entitled' \in [Handlers -> BOOLEAN]
    BY DEF TypeOK, Finish
<1> QED  BY <1>1, <1>2, <1>3

(* Every action keeps the types; that of the remaining ttl rests on the    *)
(* pair having been issued in the past.                                    *)
LEMMA TypeStep == IInv /\ [Next]_vars => TypeOK'
<1> SUFFICES ASSUME IInv, [Next]_vars PROVE TypeOK'
    OBVIOUS
<1>0. TypeOK /\ now \in Nat /\ Second(now) \in Nat /\ 0 \in 0 .. MaxTtl
    BY SecondBounds, SessionsAssumption DEF IInv, TypeOK, MaxTtl
<1> USE SessionsAssumption, <1>0 DEF TypeOK, Locations
<1>1. ASSUME NEW s \in Sessions, Login(s) PROVE TypeOK'
    BY <1>1 DEF Login, IssueTokens, request
<1>2. ASSUME NEW h \in Handlers, NEW r \in Requests, Arrive(h, r) PROVE TypeOK'
    BY <1>2 DEF Arrive, Goto
<1>3. ASSUME NEW h \in Handlers, Lookup(h) PROVE TypeOK'
    BY <1>3, FinishType DEF Lookup, Proceed, Goto
<1>4. ASSUME NEW h \in Handlers, LoadUser(h) PROVE TypeOK'
    BY <1>4, FinishType DEF LoadUser, Proceed, Goto
<1>5. ASSUME NEW h \in Handlers, NEW s \in Sessions, Refresh(h, s) PROVE TypeOK'
    BY <1>5 DEF Refresh, IssueTokens, Proceed, Goto
<1>6. ASSUME NEW h \in Handlers, RefreshRefused(h) \/ Answer(h) \/ CacheError(h) PROVE TypeOK'
    BY <1>6, FinishType DEF RefreshRefused, Answer, CacheError
<1>7. ASSUME NEW h \in Handlers, Revoke(h) PROVE TypeOK'
  <2>1. InHand(h) \in Tokens /\ Issued(InHand(h).session)
      BY <1>7, InHandIssued DEF Revoke, IInv, HandlerInv
  <2>2. RemainingTtl(InHand(h)) \in 0 .. MaxTtl
      BY <2>1, RemainingTtlReaches DEF IInv
  <2> QED  BY <1>7, <2>2 DEF Revoke, Goto, AfterRevoke
<1>8. ASSUME NEW h \in Handlers, SetDenied(h) PROVE TypeOK'
  <2>1. InHand(h) \in Tokens
      BY <1>8, InHandIssued DEF SetDenied, IInv, HandlerInv
  <2>2. ttl[h] \in Nat /\ now + ttl[h] * TicksPerSecond \in Nat
      OBVIOUS
  <2> QED  BY <1>8, <2>1, <2>2 DEF SetDenied, Goto, AfterRevoke
<1>9. ASSUME NEW h \in Handlers, DecodeBody(h) PROVE TypeOK'
    BY <1>9 DEF DecodeBody, Goto
<1>10. CASE ChangeAccount
    BY <1>10 DEF ChangeAccount
<1>11. CASE Tick
    BY <1>11 DEF Tick, request
<1>12. CASE UNCHANGED vars
    BY <1>12 DEF vars, request
<1> QED  BY <1>1, <1>2, <1>3, <1>4, <1>5, <1>6, <1>7, <1>8, <1>9, <1>10, <1>11, <1>12 DEF Next

(* Every step goes onwards. *)
LEMMA NextOnwards == IInv /\ [Next]_vars => OnwardsOnly
<1> SUFFICES ASSUME IInv, [Next]_vars PROVE OnwardsOnly
    OBVIOUS
<1>0. TypeOK /\ now \in Nat
    BY SessionsAssumption DEF IInv, TypeOK
<1> USE SessionsAssumption, <1>0 DEF OnwardsOnly, Issued
<1>1. ASSUME NEW s \in Sessions, IssueTokens(s), UNCHANGED <<now, revoked>> PROVE OnwardsOnly
    BY <1>1 DEF IssueTokens, TypeOK
<1>2. ASSUME NEW h \in Handlers, \/ \E r \in Requests : Arrive(h, r)
                                 \/ Lookup(h) \/ LoadUser(h) \/ RefreshRefused(h)
                                 \/ Answer(h) \/ Revoke(h) \/ DecodeBody(h) \/ CacheError(h)
      PROVE  OnwardsOnly
    BY <1>2 DEF Arrive, Lookup, LoadUser, RefreshRefused, Answer, Revoke, DecodeBody, CacheError
<1>3. ASSUME NEW h \in Handlers, SetDenied(h) PROVE OnwardsOnly
    BY <1>3 DEF SetDenied
<1>4. CASE ChangeAccount
    BY <1>4 DEF ChangeAccount
<1>5. CASE Tick
    BY <1>5 DEF Tick
<1>6. CASE UNCHANGED vars
    BY <1>6 DEF vars
<1> QED  BY <1>1, <1>2, <1>3, <1>4, <1>5, <1>6 DEF Next, Login, Refresh

(* Where nothing is written, the denylist goes on holding what it held. *)
LEMMA DenylistKept ==
    ASSUME IInv, OnwardsOnly, denied' = denied, revoked' = revoked
    PROVE  DenialLasts' /\ RevokedIsDenied'
<1>1. ASSUME NEW t \in Tokens, denied[t] # 0
      PROVE  Issued(t.session)' /\ denied[t] >= Exp(t)' * TicksPerSecond
    BY <1>1, ExpiredForGood DEF IInv, DenialLasts
<1> QED  BY <1>1 DEF IInv, DenialLasts, RevokedIsDenied

(* Where nothing is issued, the pairs stay of the past. *)
LEMMA IssuedKept ==
    ASSUME IInv, OnwardsOnly, issuedAt' = issuedAt
    PROVE  IssuedInThePast'
<1> SUFFICES ASSUME NEW s \in Sessions, Issued(s) PROVE issuedAt[s] <= Second(now')
    BY DEF IssuedInThePast, Issued, Second
<1>1. issuedAt[s] \in Nat /\ issuedAt[s] <= Second(now)
    BY DEF IInv, TypeOK, IssuedInThePast, Issued
<1>2. now \in Nat /\ now' \in Nat /\ now <= now'
    BY SessionsAssumption DEF IInv, TypeOK, OnwardsOnly
<1>3. Second(now) \in Nat /\ Second(now') \in Nat /\ Second(now) <= Second(now')
    BY <1>2, SecondBounds, SecondMonotonic
<1> QED  BY <1>1, <1>3

(* A pair is issued now. *)
LEMMA IssueKeeps ==
    ASSUME IInv, NEW s \in Sessions, IssueTokens(s), now' = now
    PROVE  IssuedInThePast'
<1>1. now \in Nat /\ Second(now) \in Nat
    BY SecondBounds, SessionsAssumption DEF IInv, TypeOK
<1>2. issuedAt'[s] = Second(now) /\ \A z \in Sessions \ {s} : issuedAt'[z] = issuedAt[z]
    BY DEF IssueTokens, IInv, TypeOK
<1> QED  BY <1>1, <1>2 DEF IssuedInThePast, Issued, IInv, Second

(* What the steps of one request keep, once that request is looked after. *)
LEMMA OneRequestSteps ==
    ASSUME IInv, OnwardsOnly, inOrder' = inOrder, NEW h \in Handlers, HandlerInv(h)',
           at'[h] = "idle" => hand'[h] = "access",
           \A g \in Handlers \ {h} : Untouched(g)
    PROVE  IdleIsClean' /\ \A g \in Handlers : HandlerInv(g)'
<1>1. ASSUME NEW g \in Handlers, g # h PROVE HandlerInv(g)'
    BY <1>1, OthersDoNotDisturb DEF IInv
<1> QED  BY <1>1 DEF IInv, IdleIsClean, Untouched

(* The end of a request leaves nothing to be said of it. *)
LEMMA FinishKeeps ==
    ASSUME IInv, OnwardsOnly, inOrder' = inOrder, NEW h \in Handlers, Finish(h)
    PROVE  IdleIsClean' /\ \A g \in Handlers : HandlerInv(g)'
<1>1. at'[h] = "idle" /\ hand'[h] = "access"
    BY DEF IInv, TypeOK, Finish, Goto
<1>2. \A g \in Handlers \ {h} : Untouched(g)
    BY DEF IInv, TypeOK, Finish, Goto, Untouched
<1>3. HandlerInv(h)'
    BY <1>1 DEF HandlerInv
<1> QED  BY <1>1, <1>2, <1>3, OneRequestSteps

(* A request that goes on to l takes along what it held. *)
LEMMA ProceedKeeps ==
    ASSUME IInv, OnwardsOnly, inOrder' = inOrder, NEW h \in Handlers, at[h] # "idle",
           NEW l \in {"revoke", "load", "serve"}, Proceed(h, l),
           l = "revoke" <=> req[h].op = "logout",
           hand[h] = "access",
           late[h] => Expired(req[h].token),
           l = "serve" => entitled[h]
    PROVE  IdleIsClean' /\ \A g \in Handlers : HandlerInv(g)'
<1>0. TypeOK /\ HandlerInv(h)
    BY DEF IInv
<1>1. at'[h] = l /\ UNCHANGED <<req, hand, ttl, late, entitled>>
    BY <1>0 DEF TypeOK, Proceed, Goto
<1>2. \A g \in Handlers \ {h} : Untouched(g)
    BY <1>0 DEF TypeOK, Proceed, Goto, Untouched
<1>3. req[h].token \in Tokens /\ Issued(req[h].token.session) /\ HoldsIssued(h)
    BY <1>0, TokensOfRequest DEF HandlerInv
<1>4. HoldsIssued(h)'
  <2>1. req[h].token.session \in Sessions /\ (req[h].body # NoSession => req[h].body \in Sessions)
      BY <1>3, SessionsAssumption DEF HoldsIssued, AnyRequest, Tokens
  <2> QED  BY <1>1, <1>3, <2>1 DEF HoldsIssued, Issued, OnwardsOnly
<1>5. OnItsWay(h)' /\ TtlReachesExpiry(h)' /\ RevokedSoFar(h)'
    BY <1>1 DEF OnItsWay, TtlReachesExpiry, RevokedSoFar
<1>6. LateIsRefused(h)'
  <2>1. Expired(req[h].token) => Expired(req[h].token)'
      BY <1>0, <1>1, <1>3, ExpiredForGood
  <2> QED  BY <1>0, <1>1, <2>1 DEF HandlerInv, LateIsRefused, OnwardsOnly
<1>7. InOrderMeansEntitled(h)'
    BY <1>0, <1>1 DEF HandlerInv, InOrderMeansEntitled
<1>8. HandlerInv(h)'
    BY <1>4, <1>5, <1>6, <1>7 DEF HandlerInv
<1> QED  BY <1>1, <1>2, <1>8, OneRequestSteps

(* A logout that is done with the token in its hand goes on to the next,   *)
(* or has dealt with both.                                                 *)
LEMMA AfterRevokeKeeps ==
    ASSUME IInv, OnwardsOnly, inOrder' = inOrder, NEW h \in Handlers,
           at[h] \in {"revoke", "set"}, at' = [at EXCEPT ![h] = AfterRevoke(h)],
           UNCHANGED <<req, hand, late, entitled>>,
           \A g \in Handlers \ {h} : ttl'[g] = ttl[g],
           Gone(InHand(h))'
    PROVE  IdleIsClean' /\ \A g \in Handlers : HandlerInv(g)'
<1>0. TypeOK /\ HandlerInv(h)
    BY DEF IInv
<1>1. /\ HoldsIssued(h) /\ OnItsWay(h) /\ RevokedSoFar(h)
      /\ LateIsRefused(h) /\ InOrderMeansEntitled(h)
    BY <1>0 DEF HandlerInv
<1>2. at'[h] = AfterRevoke(h) /\ AfterRevoke(h) \in {"body", "farewell"}
    BY <1>0 DEF TypeOK, AfterRevoke
<1>3. \A g \in Handlers \ {h} : Untouched(g)
    BY <1>0 DEF TypeOK, Untouched
<1>4. /\ req[h].token \in Tokens /\ Issued(req[h].token.session)
      /\ hand[h] = "refresh" => InHand(h) = BodyToken(h)
      /\ hand[h] = "access" => InHand(h) = req[h].token
      /\ hand[h] \in {"access", "refresh"}
    BY <1>0, <1>1, TokensOfRequest DEF TypeOK
<1>5. HoldsIssued(h)'
  <2>1. req[h].token.session \in Sessions /\ (req[h].body # NoSession => req[h].body \in Sessions)
      BY <1>1, SessionsAssumption DEF HoldsIssued, AnyRequest, Tokens
  <2> QED  BY <1>1, <2>1 DEF HoldsIssued, Issued, OnwardsOnly
<1>6. OnItsWay(h)'
    BY <1>1, <1>2 DEF OnItsWay, AfterRevoke
<1>7. TtlReachesExpiry(h)' /\ InOrderMeansEntitled(h)'
    BY <1>1, <1>2 DEF TtlReachesExpiry, InOrderMeansEntitled
<1>8. RevokedSoFar(h)'
  <2>1. InHand(h)' = InHand(h) /\ BodyToken(h)' = BodyToken(h)
      BY DEF InHand, BodyToken
  <2>2. Gone(req[h].token) => Gone(req[h].token)'
      BY <1>0, <1>4, ExpiredForGood
  <2>3. CASE hand[h] = "access"
    <3>1. Gone(req[h].token)'
        BY <1>4, <2>1, <2>3
    <3>2. at'[h] = "farewell" => req[h].body = NoSession
        BY <1>2, <2>3 DEF AfterRevoke
    <3> QED  BY <3>1, <3>2 DEF RevokedSoFar
  <2>4. CASE hand[h] = "refresh"
    <3>1. Gone(req[h].token)'
        BY <1>1, <2>2, <2>4 DEF RevokedSoFar
    <3>2. Gone(BodyToken(h))'
        BY <1>4, <2>1, <2>4
    <3> QED  BY <3>1, <3>2 DEF RevokedSoFar
  <2> QED  BY <1>4, <2>3, <2>4
<1>9. LateIsRefused(h)'
  <2>1. Expired(req[h].token) => Expired(req[h].token)'
      BY <1>0, <1>4, ExpiredForGood
  <2> QED  BY <1>1, <1>2, <2>1 DEF LateIsRefused, OnwardsOnly
<1>10. HandlerInv(h)'
    BY <1>5, <1>6, <1>7, <1>8, <1>9 DEF HandlerInv
<1> QED  BY <1>2, <1>3, <1>10, OneRequestSteps

(* revoke computes the ttl. *)
LEMMA RevokeKeeps ==
    ASSUME IInv, OnwardsOnly, NEW h \in Handlers, Revoke(h)
    PROVE  IdleIsClean' /\ \A g \in Handlers : HandlerInv(g)'
<1>0. TypeOK /\ HandlerInv(h) /\ IssuedInThePast
    BY DEF IInv
<1>1. /\ at[h] = "revoke" /\ inOrder' = inOrder
      /\ UNCHANGED <<now, issuedAt, revoked, req, hand, late, entitled>>
      /\ ttl'[h] = RemainingTtl(InHand(h))
      /\ \A g \in Handlers \ {h} : ttl'[g] = ttl[g]
    BY <1>0 DEF Revoke, TypeOK
<1>2. InHand(h) \in Tokens /\ Issued(InHand(h).session)
    BY <1>0, <1>1, InHandIssued DEF HandlerInv
<1>3. /\ RemainingTtl(InHand(h)) \in 0 .. MaxTtl
      /\ RemainingTtl(InHand(h)) > 0 =>
           now + RemainingTtl(InHand(h)) * TicksPerSecond >= Exp(InHand(h)) * TicksPerSecond
      /\ RemainingTtl(InHand(h)) = 0 => Expired(InHand(h))
    BY <1>0, <1>2, RemainingTtlReaches
<1>4. InHand(h)' = InHand(h) /\ Exp(InHand(h))' = Exp(InHand(h))
    BY <1>1 DEF InHand, BodyToken, Exp
<1>5. CASE ttl'[h] > 0
  <2>1. at' = [at EXCEPT ![h] = "set"]
      BY <1>5 DEF Revoke, Goto
  <2>2. at'[h] = "set" /\ \A g \in Handlers \ {h} : Untouched(g)
      BY <1>0, <1>1, <2>1 DEF TypeOK, Untouched
  <2>3. TtlReachesExpiry(h)'
      BY <1>1, <1>3, <1>4, <1>5 DEF TtlReachesExpiry
  <2>4. HoldsIssued(h)' /\ OnItsWay(h)' /\ InOrderMeansEntitled(h)'
      BY <1>0, <1>1, <2>2 DEF HandlerInv, HoldsIssued, OnItsWay, InOrderMeansEntitled, Issued
  <2>5. RevokedSoFar(h)' /\ LateIsRefused(h)'
      BY <1>0, <1>1, <2>2
         DEF HandlerInv, RevokedSoFar, LateIsRefused, Gone, Expired, Exp, BodyToken
  <2>6. HandlerInv(h)'
      BY <2>3, <2>4, <2>5 DEF HandlerInv
  <2> QED  BY <1>1, <2>2, <2>6, OneRequestSteps
<1>6. CASE ~(ttl'[h] > 0)
  <2>1. at' = [at EXCEPT ![h] = AfterRevoke(h)]
      BY <1>6 DEF Revoke, Goto
  <2>2. Expired(InHand(h))
      BY <1>1, <1>3, <1>6, LifetimeBounds
  <2>3. Gone(InHand(h))'
      BY <1>1, <1>4, <2>2 DEF Gone, Expired
  <2> QED  BY <1>1, <2>1, <2>3, AfterRevokeKeeps
<1> QED  BY <1>5, <1>6

(* The entry is written: it lasts until the token expires. *)
LEMMA SetDeniedKeeps ==
    ASSUME IInv, OnwardsOnly, NEW h \in Handlers, SetDenied(h)
    PROVE  DenialLasts' /\ RevokedIsDenied' /\ IdleIsClean' /\ \A g \in Handlers : HandlerInv(g)'
<1>0. TypeOK /\ HandlerInv(h) /\ DenialLasts /\ RevokedIsDenied
    BY DEF IInv
<1>1. /\ at[h] = "set" /\ at' = [at EXCEPT ![h] = AfterRevoke(h)]
      /\ UNCHANGED <<now, inOrder, issuedAt, req, hand, late, entitled>>
      /\ \A g \in Handlers \ {h} : ttl'[g] = ttl[g]
      /\ revoked' = revoked \cup {InHand(h)}
    BY <1>0 DEF SetDenied, Goto, TypeOK
<1>2. InHand(h) \in Tokens /\ Issued(InHand(h).session)
    BY <1>0, <1>1, InHandIssued DEF HandlerInv
<1>3. /\ denied'[InHand(h)] = now + ttl[h] * TicksPerSecond
      /\ \A t \in Tokens \ {InHand(h)} : denied'[t] = denied[t]
    BY <1>0, <1>2 DEF SetDenied, TypeOK
<1>4. ttl[h] > 0 /\ now + ttl[h] * TicksPerSecond >= Exp(InHand(h)) * TicksPerSecond
    BY <1>0, <1>1 DEF HandlerInv, TtlReachesExpiry
<1>5. ttl[h] * TicksPerSecond > 0 /\ ttl[h] * TicksPerSecond \in Nat /\ now \in Nat
    BY <1>0, <1>4, SessionsAssumption DEF TypeOK
<1>6. now + ttl[h] * TicksPerSecond # 0
    BY <1>5
<1>7. \A t \in Tokens : Exp(t)' = Exp(t)
    BY <1>1 DEF Exp
<1>8. DenialLasts'
    BY <1>0, <1>1, <1>2, <1>3, <1>4, <1>7 DEF DenialLasts, Issued
<1>9. RevokedIsDenied'
    BY <1>0, <1>1, <1>3, <1>6 DEF RevokedIsDenied, TypeOK
<1>10. Gone(InHand(h))'
    BY <1>1 DEF Gone, InHand, BodyToken
<1> QED  BY <1>1, <1>8, <1>9, <1>10, AfterRevokeKeeps

(* A request arrives: its tokens have been issued, and it knows of the     *)
(* account and of the revocations what is true now.                        *)
LEMMA ArriveKeeps ==
    ASSUME IInv, OnwardsOnly, NEW h \in Handlers, NEW r \in Requests, Arrive(h, r)
    PROVE  IdleIsClean' /\ \A g \in Handlers : HandlerInv(g)'
<1>0. TypeOK /\ hand[h] = "access"
    BY DEF IInv, IdleIsClean, Arrive
<1>1. /\ at'[h] = "lookup" /\ req'[h] = r
      /\ late'[h] = (r.token \in revoked)
      /\ entitled'[h] = (inOrder /\ r.op # "logout")
      /\ UNCHANGED <<now, inOrder, issuedAt, hand, revoked>>
    BY <1>0 DEF Arrive, Goto, TypeOK
<1>2. \A g \in Handlers \ {h} : Untouched(g)
    BY <1>0 DEF Arrive, Goto, TypeOK, Untouched
<1>3. HoldsIssued(h)'
    BY <1>1 DEF Arrive, Decodes, HoldsIssued, Issued
<1>4. OnItsWay(h)' /\ TtlReachesExpiry(h)' /\ RevokedSoFar(h)'
    BY <1>0, <1>1 DEF OnItsWay, TtlReachesExpiry, RevokedSoFar
<1>5. LateIsRefused(h)' /\ InOrderMeansEntitled(h)'
    BY <1>1 DEF LateIsRefused, InOrderMeansEntitled
<1>6. HandlerInv(h)'
    BY <1>3, <1>4, <1>5 DEF HandlerInv
<1> QED  BY <1>1, <1>2, <1>6, OneRequestSteps

(* The denylist's answer: a token whose revocation was written gets past   *)
(* it only when it has expired.                                            *)
LEMMA LookupKeeps ==
    ASSUME IInv, OnwardsOnly, NEW h \in Handlers, Lookup(h)
    PROVE  IdleIsClean' /\ \A g \in Handlers : HandlerInv(g)'
<1>0. TypeOK /\ HandlerInv(h) /\ DenialLasts /\ RevokedIsDenied /\ inOrder' = inOrder
    BY DEF IInv, Lookup
<1>1. CASE ~Passes(h)
    BY <1>0, <1>1, FinishKeeps DEF Lookup
<1>2. CASE Passes(h)
  <2> DEFINE l == IF req[h].op = "logout" THEN "revoke" ELSE "load"
  <2>1. Proceed(h, l) /\ at[h] = "lookup"
      BY <1>2 DEF Lookup
  <2>2. hand[h] = "access"
      BY <1>0, <2>1 DEF HandlerInv, OnItsWay, TypeOK
  <2>3. ASSUME late[h] PROVE Expired(req[h].token)
    <3>1. req[h].token \in Tokens /\ Issued(req[h].token.session) /\ req[h].token \in revoked
        BY <1>0, <2>1, <2>3, TokensOfRequest DEF HandlerInv, LateIsRefused
    <3>2. /\ denied[req[h].token] \in Nat
          /\ denied[req[h].token] >= Exp(req[h].token) * TicksPerSecond
          /\ ~(denied[req[h].token] > now)
        BY <1>0, <1>2, <3>1 DEF TypeOK, DenialLasts, RevokedIsDenied, Passes, IsRevoked
    <3>3. Exp(req[h].token) * TicksPerSecond \in Nat /\ now \in Nat
        BY <1>0, <3>1, ExpBounds, SessionsAssumption DEF TypeOK
    <3> QED  BY <3>2, <3>3 DEF Expired
  <2>4. l \in {"revoke", "load", "serve"} /\ l # "serve" /\ (l = "revoke" <=> req[h].op = "logout")
      OBVIOUS
  <2> HIDE DEF l
  <2> QED  BY <1>0, <2>1, <2>2, <2>3, <2>4, ProceedKeeps
<1> QED  BY <1>1, <1>2

(* The account is loaded. *)
LEMMA LoadKeeps ==
    ASSUME IInv, OnwardsOnly, NEW h \in Handlers,
           \/ LoadUser(h) \/ RefreshRefused(h)
           \/ \E s \in Sessions : Refresh(h, s)
    PROVE  IdleIsClean' /\ \A g \in Handlers : HandlerInv(g)'
<1>0. TypeOK /\ HandlerInv(h) /\ inOrder' = inOrder /\ at[h] = "load"
    BY DEF IInv, LoadUser, RefreshRefused, Refresh
<1>1. CASE Finish(h)
    BY <1>0, <1>1, FinishKeeps
<1>2. CASE ~Finish(h)
  <2>1. Proceed(h, "serve") /\ inOrder
      BY <1>2 DEF LoadUser, RefreshRefused, Refresh, LetsIn
  <2>2. /\ hand[h] = "access" /\ req[h].op # "logout" /\ entitled[h]
        /\ late[h] => Expired(req[h].token)
      BY <1>0, <2>1 DEF HandlerInv, OnItsWay, LateIsRefused, InOrderMeansEntitled, TypeOK
  <2> QED  BY <1>0, <2>1, <2>2, ProceedKeeps
<1> QED  BY <1>1, <1>2

(* The refresh token of the body: one that does not decode has expired,    *)
(* for it was issued.                                                      *)
LEMMA DecodeBodyKeeps ==
    ASSUME IInv, OnwardsOnly, NEW h \in Handlers, DecodeBody(h)
    PROVE  IdleIsClean' /\ \A g \in Handlers : HandlerInv(g)'
<1>0. TypeOK /\ HandlerInv(h)
    BY DEF IInv
<1>1. /\ at[h] = "body"
      /\ UNCHANGED <<now, inOrder, issuedAt, revoked, req, ttl, late, entitled>>
    BY DEF DecodeBody
<1>2. \A g \in Handlers \ {h} : Untouched(g)
    BY <1>0, <1>1 DEF DecodeBody, Goto, TypeOK, Untouched
<1>3. /\ HoldsIssued(h) /\ OnItsWay(h) /\ RevokedSoFar(h)
      /\ LateIsRefused(h) /\ InOrderMeansEntitled(h)
    BY <1>0, <1>1 DEF HandlerInv
<1>4. req[h].body # NoSession /\ Issued(req[h].body) /\ Gone(req[h].token)
    BY <1>1, <1>3 DEF OnItsWay, RevokedSoFar, HoldsIssued
<1>5. /\ \A t : Gone(t)' <=> Gone(t)
      /\ \A t : Expired(t)' <=> Expired(t)
      /\ BodyToken(h)' = BodyToken(h)
    BY <1>1 DEF Gone, Expired, Exp, BodyToken
<1>6. HoldsIssued(h)'
    BY <1>1, <1>3 DEF HoldsIssued, Issued
<1>7. CASE Decodes(BodyToken(h), "refresh")
  <2>1. at'[h] = "revoke" /\ hand'[h] = "refresh"
      BY <1>0, <1>7 DEF DecodeBody, Goto, TypeOK
  <2>2. OnItsWay(h)' /\ TtlReachesExpiry(h)' /\ RevokedSoFar(h)'
      BY <1>1, <1>3, <1>4, <1>5, <2>1 DEF OnItsWay, TtlReachesExpiry, RevokedSoFar
  <2>3. LateIsRefused(h)' /\ InOrderMeansEntitled(h)'
      BY <1>1, <1>3, <1>5, <2>1 DEF LateIsRefused, InOrderMeansEntitled
  <2>4. HandlerInv(h)'
      BY <1>6, <2>2, <2>3 DEF HandlerInv
  <2> QED  BY <1>1, <1>2, <2>1, <2>4, OneRequestSteps
<1>8. CASE ~Decodes(BodyToken(h), "refresh")
  <2>1. at'[h] = "farewell" /\ hand' = hand
      BY <1>0, <1>8 DEF DecodeBody, Goto, TypeOK
  <2>2. Gone(BodyToken(h))
      BY <1>4, <1>8 DEF Gone, Decodes, BodyToken, Issued
  <2>3. OnItsWay(h)' /\ TtlReachesExpiry(h)' /\ RevokedSoFar(h)'
      BY <1>1, <1>3, <1>4, <1>5, <2>1, <2>2 DEF OnItsWay, TtlReachesExpiry, RevokedSoFar
  <2>4. LateIsRefused(h)' /\ InOrderMeansEntitled(h)'
      BY <1>1, <1>3, <1>5, <2>1 DEF LateIsRefused, InOrderMeansEntitled
  <2>5. HandlerInv(h)'
      BY <1>6, <2>3, <2>4 DEF HandlerInv
  <2> QED  BY <1>1, <1>2, <2>1, <2>5, OneRequestSteps
<1> QED  BY <1>7, <1>8

(* The account changes under the requests. *)
LEMMA ChangeAccountKeeps ==
    ASSUME IInv, ChangeAccount
    PROVE  IdleIsClean' /\ \A g \in Handlers : HandlerInv(g)'
<1> SUFFICES ASSUME NEW h \in Handlers, at[h] # "idle" PROVE HandlerInv(h)'
    BY DEF IInv, IdleIsClean, ChangeAccount, HandlerInv
<1>1. /\ HoldsIssued(h) /\ OnItsWay(h) /\ TtlReachesExpiry(h) /\ RevokedSoFar(h)
      /\ LateIsRefused(h) /\ InOrderMeansEntitled(h)
    BY DEF IInv, HandlerInv
<1>2. /\ UNCHANGED <<now, issuedAt, at, req, hand, ttl, late, revoked>>
      /\ entitled'[h] = (entitled[h] \/ (inOrder' /\ at[h] # "idle" /\ req[h].op # "logout"))
    BY DEF ChangeAccount
<1>3. HoldsIssued(h)' /\ OnItsWay(h)' /\ LateIsRefused(h)'
    BY <1>1, <1>2 DEF HoldsIssued, OnItsWay, LateIsRefused, Issued, Expired, Exp
<1>4. TtlReachesExpiry(h)' /\ RevokedSoFar(h)'
    BY <1>1, <1>2 DEF TtlReachesExpiry, RevokedSoFar, Gone, Expired, Exp, InHand, BodyToken
<1>5. InOrderMeansEntitled(h)'
    BY <1>1, <1>2 DEF InOrderMeansEntitled
<1> QED  BY <1>3, <1>4, <1>5 DEF HandlerInv

(* Every action keeps the inductive invariant. *)
LEMMA NextIInv == IInv /\ [Next]_vars => IInv'
<1> SUFFICES ASSUME IInv, [Next]_vars PROVE IInv'
    OBVIOUS
<1>0. TypeOK' /\ OnwardsOnly
    BY TypeStep, NextOnwards
<1> DEFINE Requesting == IdleIsClean /\ \A g \in Handlers : HandlerInv(g)
           Denylist == DenialLasts /\ RevokedIsDenied
<1> SUFFICES IssuedInThePast' /\ Denylist' /\ Requesting'
    BY <1>0 DEF IInv
<1>1. ASSUME NEW s \in Sessions, Login(s)
      PROVE  IssuedInThePast' /\ Denylist' /\ Requesting'
  <2>1. \A g \in Handlers : Untouched(g)
      BY <1>1 DEF Login, request, Untouched
  <2>2. \A g \in Handlers : HandlerInv(g)'
      BY <1>0, <1>1, <2>1, OthersDoNotDisturb DEF IInv, Login
  <2>3. IdleIsClean'
      BY <1>1 DEF Login, request, IInv, IdleIsClean
  <2> QED  BY <1>0, <1>1, <2>2, <2>3, IssueKeeps, DenylistKept DEF Login
<1>2. ASSUME NEW h \in Handlers,
             \/ \E r \in Requests : Arrive(h, r)
             \/ Lookup(h) \/ LoadUser(h) \/ RefreshRefused(h)
             \/ Answer(h) \/ Revoke(h) \/ DecodeBody(h) \/ CacheError(h)
      PROVE  IssuedInThePast' /\ Denylist' /\ Requesting'
  <2>1. IssuedInThePast' /\ Denylist'
    <3>1. issuedAt' = issuedAt /\ denied' = denied /\ revoked' = revoked
        BY <1>2 DEF Arrive, Lookup, LoadUser, RefreshRefused, Answer, Revoke, DecodeBody, CacheError
    <3> QED  BY <1>0, <3>1, IssuedKept, DenylistKept
  <2>2. CASE Answer(h) \/ CacheError(h)
      BY <1>0, <2>1, <2>2, FinishKeeps DEF Answer, CacheError
  <2> QED  BY <1>0, <1>2, <2>1, <2>2, ArriveKeeps, LookupKeeps, LoadKeeps, RevokeKeeps,
              DecodeBodyKeeps
<1>3. ASSUME NEW h \in Handlers, NEW s \in Sessions, Refresh(h, s)
      PROVE  IssuedInThePast' /\ Denylist' /\ Requesting'
    BY <1>0, <1>3, LoadKeeps, IssueKeeps, DenylistKept DEF Refresh
<1>4. ASSUME NEW h \in Handlers, SetDenied(h)
      PROVE  IssuedInThePast' /\ Denylist' /\ Requesting'
  <2>1. issuedAt' = issuedAt
      BY <1>4 DEF SetDenied
  <2> QED  BY <1>0, <1>4, <2>1, SetDeniedKeeps, IssuedKept
<1>5. CASE ChangeAccount
  <2>1. issuedAt' = issuedAt /\ denied' = denied /\ revoked' = revoked
      BY <1>5 DEF ChangeAccount
  <2> QED  BY <1>0, <1>5, <2>1, ChangeAccountKeeps, IssuedKept, DenylistKept
<1>6. CASE Tick \/ UNCHANGED vars
  <2>1. UNCHANGED <<inOrder, issuedAt, denied, request, revoked>>
      BY <1>6 DEF Tick, vars
  <2>2. \A g \in Handlers : Untouched(g)
      BY <2>1 DEF request, Untouched
  <2>3. \A g \in Handlers : HandlerInv(g)'
      BY <1>0, <2>1, <2>2, OthersDoNotDisturb DEF IInv
  <2>4. IdleIsClean'
      BY <2>1 DEF request, IInv, IdleIsClean
  <2> QED  BY <1>0, <2>1, <2>3, <2>4, IssuedKept, DenylistKept
<1> QED  BY <1>1, <1>2, <1>3, <1>4, <1>5, <1>6 DEF Next

-----------------------------------------------------------------------------
(* The theorems. *)

(* The inductive invariant holds in every reachable state. *)
THEOREM SessionsInvariant == Spec => []IInv
BY InitIInv, NextIInv, PTL DEF Spec

(* The variables of the sessions keep their types; that the remaining ttl  *)
(* is never more than a lifetime is part of it (_remaining_ttl).           *)
THEOREM SessionsTypeCorrect == Spec => []TypeOK
<1>1. IInv => TypeOK
    BY DEF IInv
<1> QED  BY <1>1, SessionsInvariant, PTL

(* A token whose revocation was written before the request arrived gets    *)
(* past the denylist only once it has expired (is_revoked, revoke).        *)
THEOREM RevokedTokensAreRefused == Spec => []RevokedTokenRefused
<1>1. IInv => RevokedTokenRefused
    BY DEF IInv, HandlerInv, LateIsRefused, RevokedTokenRefused
<1> QED  BY <1>1, SessionsInvariant, PTL

(* A logout that reports success has revoked both tokens or found them     *)
(* expired (logout, revoke).                                               *)
THEOREM LogoutsRevokeBoth == Spec => []LogoutRevokesBoth
<1>1. IInv => LogoutRevokesBoth
    BY DEF IInv, HandlerInv, RevokedSoFar, Gone, LogoutRevokesBoth
<1> QED  BY <1>1, SessionsInvariant, PTL

(* No request is served to an account that was out of order throughout     *)
(* (get_current_user, require_admin, refresh).                             *)
THEOREM ServesAccountsInOrder == Spec => []ServedWhileInOrder
<1>1. IInv => ServedWhileInOrder
    BY DEF IInv, HandlerInv, InOrderMeansEntitled, ServedWhileInOrder
<1> QED  BY <1>1, SessionsInvariant, PTL

-----------------------------------------------------------------------------
(* The refinement of TokenLife. *)

(* The life of one token. *)
StatusOf(t) ==
    IF issuedAt[t.session] = NotIssued THEN "none"
    ELSE IF Expired(t) THEN "expired"
    ELSE IF IsRevoked(t) THEN "revoked" ELSE "live"

StatusValues == {"none", "live", "revoked", "expired"}

(* Where neither the clock moves, nor a pair is issued, nor the denylist   *)
(* written, no life goes on.                                               *)
LEMMA StatusKept ==
    ASSUME UNCHANGED <<now, issuedAt, denied>>
    PROVE  Status' = Status
BY DEF Status, Exp, Expired, IsRevoked

(* issue_tokens begins the life of a pair: it is not expired at once, and  *)
(* nobody can have revoked it.                                             *)
LEMMA IssueIsIssue ==
    ASSUME IInv, IInv', NEW s \in Sessions, IssueTokens(s), UNCHANGED <<now, denied>>
    PROVE  Life!Next
<1> DEFINE T == {t \in Tokens : Status'[t] # Status[t]}
           P == {t \in Tokens : t.session = s}
<1>0. TypeOK /\ DenialLasts /\ TypeOK' /\ now \in Nat
    BY SessionsAssumption DEF IInv, TypeOK
<1>1. issuedAt'[s] = Second(now) /\ \A z \in Sessions \ {s} : issuedAt'[z] = issuedAt[z]
    BY <1>0 DEF IssueTokens, TypeOK
<1>2. ASSUME NEW t \in Tokens, t.session # s PROVE StatusOf(t)' = StatusOf(t)
  <2>1. t.session \in Sessions
      BY DEF Tokens
  <2>2. issuedAt'[t.session] = issuedAt[t.session]
      BY <1>1, <1>2, <2>1
  <2> QED  BY <2>2 DEF StatusOf, Exp, Expired, IsRevoked
<1>3. ASSUME NEW t \in P PROVE StatusOf(t) = "none" /\ StatusOf(t)' = "live"
  <2>1. t.session = s /\ issuedAt[t.session] = NotIssued /\ t \in Tokens
      BY DEF IssueTokens
  <2>2. denied[t] = 0
      BY <1>0, <2>1 DEF DenialLasts, Issued
  <2>3. Second(now) \in Nat /\ now < (Second(now) + 1) * TicksPerSecond
      BY <1>0, SecondBounds
  <2>4. issuedAt'[t.session] # NotIssued
      BY <1>1, <2>1, <2>3, SessionsAssumption
  <2>5. Exp(t)' = Second(now) + Lifetime(t.type) /\ Lifetime(t.type) \in Nat \ {0}
      BY <1>1, <2>1, LifetimeBounds DEF Exp
  <2>6. (Second(now) + 1) * TicksPerSecond <= (Second(now) + Lifetime(t.type)) * TicksPerSecond
      BY <2>3, <2>5, TicksMonotonic
  <2>7. (Second(now) + 1) * TicksPerSecond \in Int
        /\ (Second(now) + Lifetime(t.type)) * TicksPerSecond \in Int
      BY <2>3, <2>5, SessionsAssumption
  <2>8. ~Expired(t)'
      BY <1>0, <2>3, <2>5, <2>6, <2>7 DEF Expired
  <2>9. ~IsRevoked(t)'
      BY <1>0, <2>2 DEF IsRevoked
  <2> QED  BY <2>1, <2>4, <2>8, <2>9 DEF StatusOf
<1>4. \A t \in Tokens : Status[t] = StatusOf(t) /\ Status'[t] = StatusOf(t)'
    BY DEF Status, StatusOf, Expired, Exp, IsRevoked
<1>5. T = P
    BY <1>2, <1>3, <1>4
<1>6. [session |-> s, type |-> "access"] \in P
    BY DEF Tokens
<1>7. Life!Issue(T)
  <2>1. T = {t \in Life!Tokens : t.session = s}
      BY <1>5 DEF Life!Tokens, Tokens
  <2>2. \A t \in T : Status[t] = "none" /\ Status'[t] = "live"
      BY <1>3, <1>4, <1>5
  <2> QED  BY <2>1, <2>2 DEF Life!Issue
<1>8. Status' \in [Tokens -> StatusValues]
    BY DEF Status, StatusValues, Expired, Exp, IsRevoked
<1> QED  BY <1>5, <1>6, <1>7, <1>8 DEF Life!Next, Life!Tokens, Tokens, StatusValues

(* The entry that is written revokes its token, or comes after its expiry  *)
(* or after another entry for it, and then changes nothing.                *)
LEMMA SetDeniedIsRevoke ==
    ASSUME IInv, IInv', NEW h \in Handlers, SetDenied(h), Status' # Status
    PROVE  Life!Next
<1> DEFINE T == {t \in Tokens : Status'[t] # Status[t]}
<1>0. TypeOK /\ HandlerInv(h) /\ now \in Nat /\ at[h] = "set"
    BY SessionsAssumption DEF IInv, TypeOK, SetDenied
<1>1. InHand(h) \in Tokens
    BY <1>0, InHandIssued DEF HandlerInv
<1>2. /\ UNCHANGED <<now, issuedAt>>
      /\ denied'[InHand(h)] = now + ttl[h] * TicksPerSecond
      /\ \A t \in Tokens \ {InHand(h)} : denied'[t] = denied[t]
    BY <1>0, <1>1 DEF SetDenied, TypeOK
<1>3. ttl[h] * TicksPerSecond \in Nat /\ ttl[h] * TicksPerSecond > 0
    BY <1>0, SessionsAssumption DEF TypeOK, HandlerInv, TtlReachesExpiry
<1>4. \A t \in Tokens : Status[t] = StatusOf(t) /\ Status'[t] = StatusOf(t)'
    BY DEF Status, StatusOf, Expired, Exp, IsRevoked
<1>5. \A t \in Tokens \ {InHand(h)} : StatusOf(t)' = StatusOf(t)
    BY <1>2 DEF StatusOf, Exp, Expired, IsRevoked
<1>6. denied'[InHand(h)] > now'
    BY <1>0, <1>2, <1>3
<1>7. \A t \in {InHand(h)} :
        StatusOf(t)' = StatusOf(t) \/ (StatusOf(t) = "live" /\ StatusOf(t)' = "revoked")
    BY <1>2, <1>6 DEF StatusOf, Exp, Expired, IsRevoked
<1>8. Status \in [Tokens -> StatusValues] /\ Status' \in [Tokens -> StatusValues]
    BY DEF Status, StatusValues, Expired, Exp, IsRevoked
<1>9. T # {}
    BY <1>8
<1>10. T = {InHand(h)}
    BY <1>4, <1>5, <1>9
<1>11. Life!Revoke(T)
    BY <1>4, <1>7, <1>10 DEF Life!Revoke
<1> QED  BY <1>8, <1>9, <1>11 DEF Life!Next, Life!Tokens, Tokens, StatusValues

(* Time only lets tokens expire: what is revoked stays so until then,      *)
(* since its entry lasts as long.                                          *)
LEMMA TickIsExpire ==
    ASSUME IInv, IInv', Tick, Status' # Status
    PROVE  Life!Next
<1> DEFINE T == {t \in Tokens : Status'[t] # Status[t]}
<1>0. TypeOK /\ DenialLasts /\ now \in Nat /\ now' = now + 1 /\ UNCHANGED <<issuedAt, denied>>
    BY SessionsAssumption DEF IInv, TypeOK, Tick
<1>1. \A t \in Tokens : Status[t] = StatusOf(t) /\ Status'[t] = StatusOf(t)'
    BY DEF Status, StatusOf, Expired, Exp, IsRevoked
<1>2. ASSUME NEW t \in Tokens, StatusOf(t)' # StatusOf(t)
      PROVE  StatusOf(t) \in {"live", "revoked"} /\ StatusOf(t)' = "expired"
  <2>1. Issued(t.session)
      BY <1>0, <1>2 DEF StatusOf, Issued
  <2>2. Exp(t) * TicksPerSecond \in Nat /\ Exp(t)' = Exp(t)
      BY <1>0, <2>1, ExpBounds DEF Exp
  <2>3. denied[t] \in Nat /\ (denied[t] # 0 => denied[t] >= Exp(t) * TicksPerSecond)
      BY <1>0 DEF TypeOK, DenialLasts
  <2>4. ~Expired(t)' => (IsRevoked(t)' <=> IsRevoked(t))
      BY <1>0, <2>2, <2>3 DEF Expired, IsRevoked
  <2>5. Expired(t) => Expired(t)'
      BY <1>0, <2>2 DEF Expired
  <2> QED  BY <1>0, <1>2, <2>1, <2>4, <2>5 DEF StatusOf, Issued
<1>3. Life!Expire(T)
    BY <1>1, <1>2 DEF Life!Expire
<1>4. Status \in [Tokens -> StatusValues] /\ Status' \in [Tokens -> StatusValues]
    BY DEF Status, StatusValues, Expired, Exp, IsRevoked
<1>5. T # {}
    BY <1>4
<1> QED  BY <1>3, <1>4, <1>5 DEF Life!Next, Life!Tokens, Tokens, StatusValues

(* The denylist and the decoder implement TokenLife: every step is one of  *)
(* its steps or leaves every life as it was (issue_tokens, revoke,         *)
(* is_revoked, decode_token).                                              *)
THEOREM SessionsImplementTokenLife == Spec => ImplementsTokenLife
<1>1. Init => Life!Init
  <2> SUFFICES ASSUME Init PROVE Life!Init
      OBVIOUS
  <2>1. \A t \in Tokens : issuedAt[t.session] = NotIssued
      BY DEF Init, Tokens
  <2>2. Status = [t \in Tokens |-> "none"]
      BY <2>1 DEF Status, Expired, Exp, IsRevoked
  <2> QED  BY <2>2 DEF Life!Init, Life!Tokens, Tokens
<1>2. IInv /\ IInv' /\ [Next]_vars => [Life!Next]_Status
  <2> SUFFICES ASSUME IInv, IInv', [Next]_vars, Status' # Status PROVE Life!Next
      OBVIOUS
  <2>1. ASSUME NEW s \in Sessions, Login(s) PROVE Life!Next
      BY <2>1, IssueIsIssue DEF Login
  <2>2. ASSUME NEW h \in Handlers, NEW s \in Sessions, Refresh(h, s) PROVE Life!Next
      BY <2>2, IssueIsIssue DEF Refresh
  <2>3. ASSUME NEW h \in Handlers, SetDenied(h) PROVE Life!Next
      BY <2>3, SetDeniedIsRevoke
  <2>4. CASE Tick
      BY <2>4, TickIsExpire
  <2>5. ASSUME NEW h \in Handlers,
               \/ \E r \in Requests : Arrive(h, r)
               \/ Lookup(h) \/ LoadUser(h) \/ RefreshRefused(h)
               \/ Answer(h) \/ Revoke(h) \/ DecodeBody(h) \/ CacheError(h)
        PROVE  FALSE
    <3>1. UNCHANGED <<now, issuedAt, denied>>
        BY <2>5 DEF Arrive, Lookup, LoadUser, RefreshRefused, Answer, Revoke, DecodeBody, CacheError
    <3> QED  BY <3>1, StatusKept
  <2>6. CASE ChangeAccount \/ UNCHANGED vars
    <3>1. UNCHANGED <<now, issuedAt, denied>>
        BY <2>6 DEF ChangeAccount, vars
    <3> QED  BY <3>1, StatusKept
  <2> QED  BY <2>1, <2>2, <2>3, <2>4, <2>5, <2>6 DEF Next
<1> QED  BY <1>1, <1>2, SessionsInvariant, PTL DEF Spec, Life!Spec, ImplementsTokenLife

=============================================================================
