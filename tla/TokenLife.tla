------------------------------ MODULE TokenLife ------------------------------
(***************************************************************************)
(* What the denylist (app/services/token_blocklist.py) promises of a       *)
(* token, clocks and cache entries left aside: it is live from its issue,  *)
(* may be revoked, and expires; what is revoked or expired is never live   *)
(* again.                                                                  *)
(***************************************************************************)
CONSTANTS Sessions, Types

VARIABLE status    \* status[t]: the life of the token so far

Tokens == [session : Sessions, type : Types]

Init == status = [t \in Tokens |-> "none"]

(* issue_tokens: the tokens of a pair come together. *)
Issue(T) ==
    /\ \E s \in Sessions : T = {t \in Tokens : t.session = s}
    /\ \A t \in T : status[t] = "none" /\ status'[t] = "live"

(* revoke: one token at a time. *)
Revoke(T) == \E t \in T : T = {t} /\ status[t] = "live" /\ status'[t] = "revoked"

(* Time passes; some tokens, revoked or not, expire with it. *)
Expire(T) == \A t \in T : status[t] \in {"live", "revoked"} /\ status'[t] = "expired"

(* T: the tokens whose life goes on. *)
Next ==
    LET T == {t \in Tokens : status'[t] # status[t]}
    IN  /\ T # {}
        /\ status' \in [Tokens -> {"none", "live", "revoked", "expired"}]
        /\ Issue(T) \/ Revoke(T) \/ Expire(T)

Spec == Init /\ [][Next]_status

=============================================================================
