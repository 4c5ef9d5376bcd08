----------------------------- MODULE TokenSessions -----------------------------
(***************************************************************************)
(* Tokens and their revocation: app/core/security.py issues and decodes    *)
(* them, app/services/token_blocklist.py keeps the denylist in the shared  *)
(* cache, app/services/auth_service.py logs in, refreshes and logs out,    *)
(* and app/api/deps.py guards requests.                                    *)
(*                                                                         *)
(* Tokens expire on whole seconds, the denylist's entries live for a whole *)
(* number of seconds from whenever they are written, and requests take     *)
(* time between decoding a token, asking the denylist about it and loading *)
(* the account.  The clock therefore ticks in fractions of a second.  All  *)
(* the sessions are those of one account.                                  *)
(***************************************************************************)
EXTENDS Integers, FiniteSets

CONSTANTS
    Sessions,         \* token pairs that may be issued
    Handlers,         \* requests in progress at a time
    TicksPerSecond,
    AccessTtl,        \* access_token_ttl, in seconds
    RefreshTtl,       \* refresh_token_ttl, in seconds
    NoSession,        \* no refresh token in the body of a logout
    Requests,         \* the requests that clients send
    NotIssued, NoRequest,
    MaxNow            \* bound on the clock

(* A pair's tokens differ in the type claim and in the jti. *)
Tokens == [session : Sessions, type : {"access", "refresh"}]

(* Endpoints by the guard they depend on: get_current_user, alone or under *)
(* require_admin; AuthService.refresh; get_access_payload alone.           *)
AnyRequest ==
    [op : {"protected", "refresh"}, token : Tokens, body : {NoSession}]
      \cup [op : {"logout"}, token : Tokens, body : Sessions \cup {NoSession}]

ASSUME SessionsAssumption ==
    /\ TicksPerSecond \in Nat \ {0}
    /\ AccessTtl \in Nat \ {0}
    /\ RefreshTtl \in Nat \ {0}
    /\ NoSession \notin Sessions
    /\ NotIssued \notin Nat
    /\ Requests \subseteq AnyRequest
    /\ NoRequest \notin AnyRequest
    /\ MaxNow \in Nat

VARIABLES
    now,        \* time.time(), in ticks
    inOrder,    \* the users row is there, active and of the role asked for
    issuedAt,   \* issuedAt[s]: the iat of the pair, in seconds
    denied,     \* denied[t]: when the key revoked:<jti> of the cache expires
    at,         \* at[h]: where the request is suspended
    req,        \* req[h]: the endpoint, its token, the refresh token of a logout
    hand,       \* hand[h]: which of the two a logout is revoking
    ttl         \* ttl[h]: the remaining ttl that revoke computed

(* History, read by the properties only. *)
VARIABLES
    revoked,    \* tokens whose revocation has been written
    late,       \* late[h]: the token was revoked before the request arrived
    entitled    \* entitled[h]: the account was in order at some time since

request == <<at, req, hand, ttl, late, entitled>>
vars == <<now, inOrder, issuedAt, denied, request, revoked>>

Locations == {"idle", "lookup", "load", "serve", "revoke", "set", "body", "farewell"}

(* int(time.time()) *)
Second(t) == t \div TicksPerSecond

Lifetime(type) == IF type = "access" THEN AccessTtl ELSE RefreshTtl
MaxTtl == IF AccessTtl > RefreshTtl THEN AccessTtl ELSE RefreshTtl

(* The type of every variable. *)
TypeOK ==
    /\ now \in 0 .. MaxNow
    /\ inOrder \in BOOLEAN
    /\ issuedAt \in [Sessions -> Nat \cup {NotIssued}]
    /\ denied \in [Tokens -> Nat]
    /\ at \in [Handlers -> Locations]
    /\ req \in [Handlers -> Requests \cup {NoRequest}]
    /\ hand \in [Handlers -> {"access", "refresh"}]
    /\ ttl \in [Handlers -> 0 .. MaxTtl]
    /\ revoked \in SUBSET Tokens
    /\ late \in [Handlers -> BOOLEAN]
    /\ entitled \in [Handlers -> BOOLEAN]

Init ==
    /\ now = 0
    /\ inOrder = TRUE
    /\ issuedAt = [s \in Sessions |-> NotIssued]
    /\ denied = [t \in Tokens |-> 0]
    /\ at = [h \in Handlers |-> "idle"]
    /\ req = [h \in Handlers |-> NoRequest]
    /\ hand = [h \in Handlers |-> "access"]
    /\ ttl = [h \in Handlers |-> 0]
    /\ revoked = {}
    /\ late = [h \in Handlers |-> FALSE]
    /\ entitled = [h \in Handlers |-> FALSE]

-----------------------------------------------------------------------------
(* Tokens. *)

(* exp, set by _create_token: the second of issue plus the ttl. *)
Exp(t) == issuedAt[t.session] + Lifetime(t.type)

(* jwt.decode refuses a token once exp <= now. *)
Expired(t) == Exp(t) * TicksPerSecond <= now

(* decode_token: signed by us, not expired, of the expected type. *)
Decodes(t, type) ==
    /\ issuedAt[t.session] # NotIssued
    /\ ~Expired(t)
    /\ t.type = type

(* is_revoked: the cache still holds revoked:<jti>. *)
IsRevoked(t) == denied[t] > now

(* Fault: the whole seconds are counted from the next one. *)
RemainingTtlRoundedUp(t) ==
    LET left == Exp(t) - (Second(now) + 1) IN IF left > 0 THEN left ELSE 0

(* Fault: the clock's unit is taken for seconds. *)
RemainingTtlInTicks(t) ==
    LET left == Exp(t) * TicksPerSecond - now IN IF left > 0 THEN left ELSE 0

(* _remaining_ttl: max(0, exp - int(time.time())) *)
RemainingTtl(t) == LET left == Exp(t) - Second(now) IN IF left > 0 THEN left ELSE 0

(* issue_tokens: a pair that was not in use before. *)
IssueTokens(s) ==
    /\ issuedAt[s] = NotIssued
    /\ issuedAt' = [issuedAt EXCEPT ![s] = Second(now)]

(* POST /login with good credentials. *)
Login(s) ==
    /\ inOrder
    /\ IssueTokens(s)
    /\ UNCHANGED <<now, inOrder, denied, request, revoked>>

-----------------------------------------------------------------------------
(* Requests. *)

Goto(h, l) == at' = [at EXCEPT ![h] = l]

(* The request goes on to its next await. *)
Proceed(h, l) == Goto(h, l) /\ UNCHANGED <<req, hand, ttl, late, entitled>>

(* The request ends and what it held is gone. *)
Finish(h) ==
    /\ Goto(h, "idle")
    /\ req' = [req EXCEPT ![h] = NoRequest]
    /\ hand' = [hand EXCEPT ![h] = "access"]
    /\ ttl' = [ttl EXCEPT ![h] = 0]
    /\ late' = [late EXCEPT ![h] = FALSE]
    /\ entitled' = [entitled EXCEPT ![h] = FALSE]

ExpectedType(op) == IF op = "refresh" THEN "refresh" ELSE "access"

(* A request arrives with a token that decodes, and the denylist is asked  *)
(* about it (get_access_payload, AuthService.refresh).  One whose token    *)
(* does not decode is refused there and then and changes nothing.          *)
Arrive(h, r) ==
    /\ at[h] = "idle"
    /\ Decodes(r.token, ExpectedType(r.op))
    /\ r.body # NoSession => issuedAt[r.body] # NotIssued
    /\ Goto(h, "lookup")
    /\ req' = [req EXCEPT ![h] = r]
    /\ late' = [late EXCEPT ![h] = r.token \in revoked]
    /\ entitled' = [entitled EXCEPT ![h] = inOrder /\ r.op # "logout"]
    /\ UNCHANGED <<now, inOrder, issuedAt, denied, hand, ttl, revoked>>

(* Fault: a refresh does not ask the denylist. *)
PassesRefreshUnasked(h) == req[h].op = "refresh" \/ ~IsRevoked(req[h].token)

(* The answer of the denylist lets the request through. *)
Passes(h) == ~IsRevoked(req[h].token)

(* is_revoked returned: the request is refused, or goes on to load the     *)
(* account or, a logout, to revoke the token.                              *)
Lookup(h) ==
    /\ at[h] = "lookup"
    /\ IF Passes(h)
         THEN Proceed(h, IF req[h].op = "logout" THEN "revoke" ELSE "load")
         ELSE Finish(h)
    /\ UNCHANGED <<now, inOrder, issuedAt, denied, revoked>>

(* Fault: a row is enough, whatever it says. *)
LetsInAnyRow(h) == TRUE

(* get_by_id returned: get_current_user and refresh want an active row,    *)
(* require_admin the role in that row.                                     *)
LetsIn(h) == inOrder

(* The account is loaded for get_current_user. *)
LoadUser(h) ==
    /\ at[h] = "load"
    /\ req[h].op # "refresh"
    /\ IF LetsIn(h) THEN Proceed(h, "serve") ELSE Finish(h)
    /\ UNCHANGED <<now, inOrder, issuedAt, denied, revoked>>

(* refresh: a new pair is issued.  The refresh token in hand stays good. *)
Refresh(h, s) ==
    /\ at[h] = "load"
    /\ req[h].op = "refresh"
    /\ LetsIn(h)
    /\ IssueTokens(s)
    /\ Proceed(h, "serve")
    /\ UNCHANGED <<now, inOrder, denied, revoked>>

RefreshRefused(h) ==
    /\ at[h] = "load"
    /\ req[h].op = "refresh"
    /\ ~LetsIn(h)
    /\ Finish(h)
    /\ UNCHANGED <<now, inOrder, issuedAt, denied, revoked>>

(* The endpoint answers; a logout's audit row is committed. *)
Answer(h) ==
    /\ at[h] \in {"serve", "farewell"}
    /\ Finish(h)
    /\ UNCHANGED <<now, inOrder, issuedAt, denied, revoked>>

-----------------------------------------------------------------------------
(* POST /logout. *)

BodyToken(h) == [session |-> req[h].body, type |-> "refresh"]

(* The token that the logout is revoking. *)
InHand(h) == IF hand[h] = "access" THEN req[h].token ELSE BodyToken(h)

(* Fault: logout stops after the access token. *)
AfterRevokeStops(h) == "farewell"

(* logout goes on to the refresh token of the body, if there is one. *)
AfterRevoke(h) == IF hand[h] = "access" /\ req[h].body # NoSession THEN "body" ELSE "farewell"

(* revoke: the remaining ttl is computed; zero stores nothing. *)
Revoke(h) ==
    /\ at[h] = "revoke"
    /\ ttl' = [ttl EXCEPT ![h] = RemainingTtl(InHand(h))]
    /\ Goto(h, IF ttl'[h] > 0 THEN "set" ELSE AfterRevoke(h))
    /\ UNCHANGED <<now, inOrder, issuedAt, denied, req, hand, late, entitled, revoked>>

(* The cache executes set(revoked:<jti>, "1", ttl), at some later moment. *)
SetDenied(h) ==
    /\ at[h] = "set"
    /\ denied' = [denied EXCEPT ![InHand(h)] = now + ttl[h] * TicksPerSecond]
    /\ revoked' = revoked \cup {InHand(h)}
    /\ Goto(h, AfterRevoke(h))
    /\ ttl' = [ttl EXCEPT ![h] = 0]
    /\ UNCHANGED <<now, inOrder, issuedAt, req, hand, late, entitled>>

(* logout decodes the refresh token of the body; a TokenError ends the     *)
(* logout well.                                                            *)
DecodeBody(h) ==
    /\ at[h] = "body"
    /\ IF Decodes(BodyToken(h), "refresh")
         THEN Goto(h, "revoke") /\ hand' = [hand EXCEPT ![h] = "refresh"]
         ELSE Goto(h, "farewell") /\ UNCHANGED hand
    /\ UNCHANGED <<now, inOrder, issuedAt, denied, req, ttl, late, entitled, revoked>>

(* The cache does not answer: the request fails where it stands. *)
CacheError(h) ==
    /\ at[h] \in {"lookup", "set"}
    /\ Finish(h)
    /\ UNCHANGED <<now, inOrder, issuedAt, denied, revoked>>

-----------------------------------------------------------------------------
(* Operators disable and enable accounts and change roles, in the database. *)
ChangeAccount ==
    /\ inOrder' = ~inOrder
    /\ entitled' = [h \in Handlers |->
                      entitled[h] \/ (inOrder' /\ at[h] # "idle" /\ req[h].op # "logout")]
    /\ UNCHANGED <<now, issuedAt, denied, at, req, hand, ttl, late, revoked>>

Tick ==
    /\ now < MaxNow
    /\ now' = now + 1
    /\ UNCHANGED <<inOrder, issuedAt, denied, request, revoked>>

Next ==
    \/ \E s \in Sessions : Login(s)
    \/ \E h \in Handlers :
          \/ \E r \in Requests : Arrive(h, r)
          \/ Lookup(h)
          \/ LoadUser(h)
          \/ \E s \in Sessions : Refresh(h, s)
          \/ RefreshRefused(h)
          \/ Answer(h)
          \/ Revoke(h)
          \/ SetDenied(h)
          \/ DecodeBody(h)
          \/ CacheError(h)
    \/ ChangeAccount
    \/ Tick

Spec == Init /\ [][Next]_vars

-----------------------------------------------------------------------------
(* Properties. *)

(* What the requests can see of a token: revoked only while the cache says *)
(* so.                                                                     *)
Status ==
    [t \in Tokens |->
        IF issuedAt[t.session] = NotIssued THEN "none"
        ELSE IF Expired(t) THEN "expired"
        ELSE IF IsRevoked(t) THEN "revoked" ELSE "live"]

Life == INSTANCE TokenLife WITH Types <- {"access", "refresh"}, status <- Status

(* The denylist implements TokenLife.  In particular a revocation that has *)
(* been written holds until the token expires, to the fraction of a        *)
(* second, although the entry's ttl is a whole number of seconds computed  *)
(* from a truncated clock some time before the entry is written, and       *)
(* although several logouts may write it (issue_tokens, revoke,            *)
(* _remaining_ttl, is_revoked, decode_token).                              *)
ImplementsTokenLife == Life!Spec

(* A request that arrives with a token whose revocation had been written   *)
(* gets past the denylist only if its lookup was answered after the token  *)
(* had expired: neither concurrent logouts nor refreshes that were under   *)
(* way open a gap, so a pair that is issued from a revoked refresh token   *)
(* is one whose request overlapped the logout (get_access_payload,         *)
(* refresh, logout).                                                       *)
RevokedTokenRefused ==
    \A h \in Handlers :
        late[h] /\ at[h] \notin {"idle", "lookup"} => Expired(req[h].token)

(* A logout that is about to answer "logged out" has revoked the access    *)
(* token and the refresh token it was given, unless they have expired: one *)
(* that is interrupted half-way does not report success (logout, revoke).  *)
LogoutRevokesBoth ==
    \A h \in Handlers : at[h] = "farewell" =>
        \A t \in {req[h].token}
                 \cup IF req[h].body = NoSession THEN {} ELSE {BodyToken(h)} :
            t \in revoked \/ Expired(t)

(* A request is served only if the account was active, and an admin for    *)
(* the admin's endpoints, at some moment after the request arrived: tokens *)
(* that were issued before the account was disabled, removed or demoted    *)
(* carry nothing over (get_current_user, require_admin, refresh).          *)
ServedWhileInOrder == \A h \in Handlers : at[h] = "serve" => entitled[h]

=============================================================================
