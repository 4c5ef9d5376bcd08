------------------------------- MODULE Accounts -------------------------------
(***************************************************************************)
(* Accounts: registration, e-mail verification, login with rehash, and     *)
(* password reset (app/services/auth_service.py over                       *)
(* app/repositories/users.py, driven by app/api/v1/auth.py).               *)
(*                                                                         *)
(* Every request runs in its own database session (get_session): it reads  *)
(* committed rows, writes at its flush, is answered, and becomes visible   *)
(* at its commit: the exit of get_session runs once the response has left  *)
(* (FastAPI, from 0.118 on, for a dependency of the default scope).        *)
(* Between those points other requests, of this process or of another      *)
(* node, do the same.  The database contributes a unique index on the      *)
(* e-mail address and a lock on a written row until the writer ends; an    *)
(* UPDATE names only the columns that changed.                             *)
(***************************************************************************)
EXTENDS Naturals

CONSTANTS
    Users,        \* primary keys (uuids) that may be drawn
    Emails,
    Passwords,
    Handlers,     \* requests in progress at a time
    NoAccount,    \* no committed row
    NoJob,        \* the handler is idle
    NoPassword    \* no reset has been committed

ASSUME AccountsAssumption ==
    /\ NoPassword \notin Passwords
    /\ NoAccount \notin [email : Emails, password : Passwords, outdated : BOOLEAN,
                         verified : BOOLEAN, active : BOOLEAN]

VARIABLES
    account,      \* account[u]: the committed users row
    at,           \* at[h]: what the request does next
    job,          \* job[h]: the endpoint and what the request has read
    resets        \* users with a live reset token in their mailbox

(* History, read by the properties only. *)
VARIABLES
    welcomed,     \* users whose verification mail was handed over
    chosen,       \* chosen[u]: passwords the user registered or reset to
    lastReset     \* lastReset[u]: the newest password a committed reset set

history == <<welcomed, chosen, lastReset>>
accountVars == <<account, at, job, resets, history>>

(* outdated: needs_rehash() is true of the stored hash. *)
Rows == [email : Emails, password : Passwords, outdated : BOOLEAN,
         verified : BOOLEAN, active : BOOLEAN]
Jobs == [op : {"register"}, user : Users, email : Emails, password : Passwords]
          \cup [op : {"rehash", "reset"}, user : Users, password : Passwords]
          \cup [op : {"login", "verify", "search"}, user : Users]

(* The type of every variable. *)
TypeOK ==
    /\ account \in [Users -> Rows \cup {NoAccount}]
    /\ at \in [Handlers -> {"idle", "flush", "mail", "answer", "commit"}]
    /\ job \in [Handlers -> Jobs \cup {NoJob}]
    /\ resets \subseteq Users
    /\ welcomed \subseteq Users
    /\ chosen \in [Users -> SUBSET Passwords]
    /\ lastReset \in [Users -> Passwords \cup {NoPassword}]

(* The table is created empty. *)
Init ==
    /\ account = [u \in Users |-> NoAccount]
    /\ at = [h \in Handlers |-> "idle"]
    /\ job = [h \in Handlers |-> NoJob]
    /\ resets = {}
    /\ welcomed = {}
    /\ chosen = [u \in Users |-> {}]
    /\ lastReset = [u \in Users |-> NoPassword]

-----------------------------------------------------------------------------
(* The database. *)

Exists(u) == account[u] # NoAccount

(* The committed row of an e-mail address, if any (get_by_email). *)
Holds(u, e) == Exists(u) /\ account[u].email = e
Taken(e) == \E u \in Users : Holds(u, e)

(* Fault: the address is not unique in the database. *)
InsertPendingNever(h, e) == FALSE

(* Written and not yet committed by another request: the writer waits. *)
InsertPending(h, e) ==
    \E g \in Handlers \ {h} :
        at[g] \in {"mail", "answer", "commit"} /\ job[g].op = "register" /\ job[g].email = e

(* A written row is locked until its writer ends. *)
Updates == {"rehash", "reset", "verify"}
Locks(g, u) == at[g] \in {"answer", "commit"} /\ job[g].op \in Updates /\ job[g].user = u
Locked(u) == \E g \in Handlers : Locks(g, u)

-----------------------------------------------------------------------------
(* Control. *)

Goto(h, l) == at' = [at EXCEPT ![h] = l]

(* The request starts and has a write to do. *)
Begin(h, l, j) ==
    /\ Goto(h, l)
    /\ job' = [job EXCEPT ![h] = j]

(* The request ends; an open transaction is rolled back. *)
Finish(h) ==
    /\ Goto(h, "idle")
    /\ job' = [job EXCEPT ![h] = NoJob]

(* The request ends where it began: refused, or nothing to write. *)
Return == UNCHANGED <<at, job>>

(* A uuid nobody has drawn yet. *)
Fresh(u) ==
    /\ ~Exists(u)
    /\ u \notin welcomed
    /\ u \notin {job[g].user : g \in {g \in Handlers : at[g] # "idle"}}

(* register: exists_by_email, then a new user object. *)
Register(h, u, e, p) ==
    /\ at[h] = "idle"
    /\ Fresh(u)
    /\ IF Taken(e)
         THEN Return
         ELSE Begin(h, "flush", [op |-> "register", user |-> u, email |-> e, password |-> p])
    /\ UNCHANGED <<account, resets, history>>

(* create: the INSERT waits for a pending one of the same address; a taken *)
(* address is an IntegrityError that nothing translates.                   *)
Insert(h) ==
    /\ at[h] = "flush"
    /\ job[h].op = "register"
    /\ ~InsertPending(h, job[h].email)
    /\ IF Taken(job[h].email) THEN Finish(h) ELSE Goto(h, "mail") /\ UNCHANGED job
    /\ UNCHANGED <<account, resets, history>>

(* _send_verification, before the commit. *)
SendVerification(h) ==
    /\ at[h] = "mail"
    /\ welcomed' = welcomed \cup {job[h].user}
    /\ Goto(h, "answer")
    /\ UNCHANGED <<account, job, resets, chosen, lastReset>>

(* Fault: a mail that cannot be sent does not stop the registration. *)
SendFailureIgnored(h) ==
    /\ at[h] = "mail"
    /\ Goto(h, "answer")
    /\ UNCHANGED <<account, job, resets, history>>

(* send raises: the session is rolled back.  The mail may have left. *)
SendFails(h) ==
    /\ at[h] = "mail"
    /\ Finish(h)
    /\ \/ welcomed' = welcomed \cup {job[h].user}
       \/ UNCHANGED welcomed
    /\ UNCHANGED <<account, resets, chosen, lastReset>>

(* Fault: the hash is refreshed before the password is checked. *)
AcceptsAnything(u, p) == TRUE

(* verify_password against the stored hash, then is_active. *)
Accepts(u, p) == account[u].password = p /\ account[u].active

(* authenticate: the row is read and the password checked; an outdated     *)
(* hash of a good password is to be replaced.  A login writes its audit    *)
(* row in any case, and issues its tokens with the answer.                 *)
Login(h, u, p) ==
    /\ at[h] = "idle"
    /\ Exists(u)
    /\ IF ~Accepts(u, p) THEN Return
       ELSE IF account[u].outdated
         THEN Begin(h, "flush", [op |-> "rehash", user |-> u, password |-> p])
         ELSE Begin(h, "answer", [op |-> "login", user |-> u])
    /\ UNCHANGED <<account, resets, history>>

(* request_password_reset: active accounts are mailed a token. *)
RequestReset(h, u) ==
    /\ at[h] = "idle"
    /\ Exists(u) /\ account[u].active
    /\ resets' = resets \cup {u}
    /\ UNCHANGED <<account, at, job, history>>

(* reset_password with a token that decodes. *)
ResetPassword(h, u, p) ==
    /\ at[h] = "idle"
    /\ u \in resets
    /\ IF Exists(u) /\ account[u].active
         THEN Begin(h, "flush", [op |-> "reset", user |-> u, password |-> p])
         ELSE Return
    /\ UNCHANGED <<account, resets, history>>

(* verify_email with a token that was mailed; its account may not exist. *)
VerifyEmail(h, u) ==
    /\ at[h] = "idle"
    /\ u \in welcomed
    /\ IF Exists(u) /\ ~account[u].verified
         THEN Begin(h, "flush", [op |-> "verify", user |-> u])
         ELSE Return
    /\ UNCHANGED <<account, resets, history>>

(* resend_verification: unverified accounts are mailed another token. *)
ResendVerification(h, u) ==
    /\ at[h] = "idle"
    /\ Exists(u) /\ ~account[u].verified
    /\ welcomed' = welcomed \cup {u}
    /\ UNCHANGED <<account, at, job, resets, chosen, lastReset>>

(* update_password, mark_verified: the UPDATE waits for the row's lock; a  *)
(* row that is gone is a StaleDataError.                                   *)
Update(h) ==
    /\ at[h] = "flush"
    /\ job[h].op \in Updates
    /\ ~Locked(job[h].user)
    /\ IF Exists(job[h].user) THEN Goto(h, "answer") /\ UNCHANGED job ELSE Finish(h)
    /\ UNCHANGED <<account, resets, history>>

(* The response leaves; the session is still open. *)
Answer(h) ==
    /\ at[h] = "answer"
    /\ Goto(h, "commit")
    /\ UNCHANGED <<account, job, resets, history>>

(* Fault: the new row lacks its defaults. *)
NewRowBare(j) == [email |-> j.email, password |-> j.password]

(* create: the columns and the defaults of the model. *)
NewRow(j) ==
    [email |-> j.email, password |-> j.password, outdated |-> FALSE,
     verified |-> FALSE, active |-> TRUE]

(* Fault: a password is written with the flag the row began with. *)
WithPasswordUnverified(row, p) ==
    [row EXCEPT !.password = p, !.outdated = FALSE, !.verified = FALSE]

(* update_password *)
WithPassword(row, p) == [row EXCEPT !.password = p, !.outdated = FALSE]

(* The row as the request's statements leave it. *)
Written(j) ==
    CASE j.op = "register" -> NewRow(j)
      [] j.op \in {"rehash", "reset"} -> WithPassword(account[j.user], j.password)
      [] j.op = "verify" -> [account[j.user] EXCEPT !.verified = TRUE]

(* session.commit of get_session for a request that writes users. *)
Commit(h) ==
    /\ at[h] = "commit"
    /\ account' = IF job[h].op \in Updates \cup {"register"}
                    THEN [account EXCEPT ![job[h].user] = Written(job[h])]
                    ELSE account
    /\ chosen' = IF job[h].op \in {"register", "reset"}
                   THEN [chosen EXCEPT ![job[h].user] = @ \cup {job[h].password}]
                   ELSE chosen
    /\ lastReset' = IF job[h].op = "reset"
                      THEN [lastReset EXCEPT ![job[h].user] = job[h].password]
                      ELSE lastReset
    /\ Finish(h)
    /\ UNCHANGED <<resets, welcomed>>

(* The process or the connection is lost, or the request is cancelled: the *)
(* session is rolled back, also of a request that has been answered.       *)
Abort(h) ==
    /\ at[h] # "idle"
    /\ Finish(h)
    /\ UNCHANGED <<account, resets, history>>

-----------------------------------------------------------------------------
(* The rest of the world: hash parameters move on with a release, accounts *)
(* are disabled and removed in the database, reset tokens expire.          *)
Outdate(u) ==
    /\ Exists(u) /\ ~account[u].outdated
    /\ ~Locked(u)
    /\ account' = [account EXCEPT ![u].outdated = TRUE]
    /\ UNCHANGED <<at, job, resets, history>>

Disable(u) ==
    /\ Exists(u) /\ account[u].active
    /\ ~Locked(u)
    /\ account' = [account EXCEPT ![u].active = FALSE]
    /\ UNCHANGED <<at, job, resets, history>>

Remove(u) ==
    /\ Exists(u)
    /\ ~Locked(u)
    /\ account' = [account EXCEPT ![u] = NoAccount]
    /\ chosen' = [chosen EXCEPT ![u] = {}]
    /\ lastReset' = [lastReset EXCEPT ![u] = NoPassword]
    /\ UNCHANGED <<at, job, resets, welcomed>>

ResetExpires(u) ==
    /\ u \in resets
    /\ resets' = resets \ {u}
    /\ UNCHANGED <<account, at, job, history>>

(* Everything but a commit, and but the removal of an account. *)
Proceed ==
    \/ \E h \in Handlers, u \in Users :
          \/ \E e \in Emails, p \in Passwords : Register(h, u, e, p)
          \/ \E p \in Passwords : Login(h, u, p) \/ ResetPassword(h, u, p)
          \/ RequestReset(h, u)
          \/ VerifyEmail(h, u)
          \/ ResendVerification(h, u)
    \/ \E h \in Handlers :
          \/ Insert(h)
          \/ SendVerification(h)
          \/ SendFails(h)
          \/ Update(h)
          \/ Answer(h)
          \/ Abort(h)
    \/ \E u \in Users : Outdate(u) \/ Disable(u) \/ ResetExpires(u)

Next ==
    \/ Proceed
    \/ \E h \in Handlers : Commit(h)
    \/ \E u \in Users : Remove(u)

Spec == Init /\ [][Next]_accountVars

-----------------------------------------------------------------------------
(* Properties. *)

(* At any moment an address belongs to at most one user, those included    *)
(* who have been told so and whose commit is still to come: of two         *)
(* registrations that both found the address free, the second is not even  *)
(* answered while the first may still commit (register, create, the unique *)
(* index on users.email).                                                  *)
OneOwnerPerAddress ==
    \A e \in Emails :
        LET told == {h \in Handlers :
                       at[h] = "commit" /\ job[h].op = "register" /\ job[h].email = e}
            owners == {u \in Users : Holds(u, e)} \cup {job[h].user : h \in told}
        IN  \A u, v \in owners : u = v

(* An account that exists was sent its verification mail, although mail    *)
(* goes out before the commit and both may fail (register,                 *)
(* _send_verification, get_session).                                       *)
AccountMeansMailed == \A u \in Users : Exists(u) => u \in welcomed

(* The stored password is one that its user registered with or reset to,   *)
(* however logins that rehash, resets and rollbacks overlap (authenticate, *)
(* update_password).                                                       *)
StoredPasswordWasChosen == \A u \in Users : Exists(u) => account[u].password \in chosen[u]

(* A verified address stays verified: a password that is written from a    *)
(* row read before the verification does not carry the old flag back       *)
(* (mark_verified, update_password).                                       *)
VerifiedStaysVerified ==
    [][ \A u \in Users :
          Exists(u) /\ account[u].verified /\ Exists(u)' => account'[u].verified ]_accountVars

-----------------------------------------------------------------------------
(* What the repository's tests say. *)

(* "Old password no longer works; new one does.": after a confirmed reset  *)
(* the stored password is the one it set.                                  *)
ResetSticks ==
    \A u \in Users :
        Exists(u) /\ lastReset[u] # NoPassword => account[u].password = lastReset[u]

=============================================================================
