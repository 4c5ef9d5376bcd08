------------------------------ MODULE UserRecords ------------------------------
(***************************************************************************)
(* What accounts leave behind: the audit log (rows added by app/api/v1/    *)
(* auth.py in the session of the request they are about, dropped by the    *)
(* daily cleanup_audit_log of app/workers/tasks.py) and the search history *)
(* (rows added by app/api/v1/flights.py for a user of get_optional_user).  *)
(* Composed with Accounts: a row is committed with, or lost with, the      *)
(* writes of its request.                                                  *)
(*                                                                         *)
(* search_history.user_id references users.id with ON DELETE CASCADE,      *)
(* which PostgreSQL, the database of docker-compose.yml, enforces;         *)
(* audit_log.actor_id references nothing.                                  *)
(***************************************************************************)
EXTENDS Accounts, Integers, FiniteSets

CONSTANTS
    RetentionDays,   \* retention_days of cleanup_audit_log
    MaxDay,          \* bound on the clock
    MaxRows          \* bound on the audit log

ASSUME RecordsAssumption == RetentionDays \in Nat /\ MaxDay \in Nat /\ MaxRows \in Nat

VARIABLES
    day,        \* the date
    audit,      \* audit_log: actor, action and day of created_at
    searched    \* users with rows in search_history

(* History, read by the properties only. *)
VARIABLE
    events      \* registrations and logins of the retention period

recordVars == <<day, audit, searched, events>>
vars == <<accountVars, recordVars>>

AuditRows == [actor : Users, action : {"user.register", "user.login"}, day : 0 .. MaxDay]

(* The type of every variable. *)
RecordsTypeOK ==
    /\ TypeOK
    /\ day \in 0 .. MaxDay
    /\ audit \subseteq AuditRows
    /\ searched \subseteq Users
    /\ events \subseteq AuditRows

(* The tables are created empty. *)
RecordsInit ==
    /\ Init
    /\ day = 0
    /\ audit = {}
    /\ searched = {}
    /\ events = {}

-----------------------------------------------------------------------------
(* Requests. *)

(* GET /flights/search with a token of u.  get_optional_user loads the row *)
(* and asks neither the denylist nor is_active; without a row the search   *)
(* is anonymous.  The history row is added after the search.               *)
Search(h, u) ==
    /\ at[h] = "idle"
    /\ u \in welcomed
    /\ IF Exists(u) THEN Begin(h, "answer", [op |-> "search", user |-> u]) ELSE Return
    /\ UNCHANGED <<account, resets, history, recordVars>>

AuditRow(j) ==
    [actor |-> j.user, day |-> day,
     action |-> IF j.op = "register" THEN "user.register" ELSE "user.login"]

(* The row that the session of the request holds, stamped at the flush of  *)
(* the commit (session.add in register and login).                         *)
Logged(j) == IF j.op \in {"register", "login", "rehash"} THEN {AuditRow(j)} ELSE {}

(* The history row of a user's search. *)
Remembered(j) == IF j.op = "search" THEN {j.user} ELSE {}

(* Fault: nothing ties the history to its user. *)
OwnerMissingNever(j) == FALSE

(* The foreign key of search_history refuses a row whose user is gone. *)
OwnerMissing(j) == j.op = "search" /\ ~Exists(j.user)

(* session.commit of get_session: everything or nothing. *)
CommitAll(h) ==
    /\ at[h] = "commit"
    /\ ~OwnerMissing(job[h])
    /\ Commit(h)
    /\ audit' = audit \cup Logged(job[h])
    /\ searched' = searched \cup Remembered(job[h])
    /\ events' = IF job[h].op \in {"register", "login", "rehash"}
                   THEN events \cup {AuditRow(job[h])}
                   ELSE events
    /\ Cardinality(audit') <= MaxRows
    /\ UNCHANGED day

CommitRefused(h) ==
    /\ at[h] = "commit"
    /\ OwnerMissing(job[h])
    /\ Abort(h)
    /\ UNCHANGED recordVars

(* The row is deleted in the database, and its history with it. *)
RemoveAll(u) ==
    /\ Remove(u)
    /\ searched' = searched \ {u}
    /\ UNCHANGED <<day, audit, events>>

-----------------------------------------------------------------------------
(* The worker. *)

(* Fault: the day of the cutoff goes as well. *)
TooOldInclusive(row, cutoff) == row.day <= cutoff

(* AuditLog.created_at < cutoff *)
TooOld(row, cutoff) == row.day < cutoff

(* cleanup_audit_log, which beat sends daily and acks_late redelivers when *)
(* a worker is lost: the cutoff is computed on some day, and the DELETE is *)
(* committed then or later, any number of times.  A worker lost before the *)
(* commit changes nothing.                                                 *)
CleanupAuditLog(started) ==
    /\ audit' = {row \in audit : ~TooOld(row, started - RetentionDays)}
    /\ UNCHANGED <<accountVars, day, searched, events>>

NextDay ==
    /\ day < MaxDay
    /\ day' = day + 1
    /\ events' = {e \in events : e.day >= day' - RetentionDays}
    /\ UNCHANGED <<accountVars, audit, searched>>

RecordsNext ==
    \/ Proceed /\ UNCHANGED recordVars
    \/ \E h \in Handlers :
          \/ \E u \in Users : Search(h, u)
          \/ CommitAll(h)
          \/ CommitRefused(h)
    \/ \E u \in Users : RemoveAll(u)
    \/ \E started \in 0 .. day : CleanupAuditLog(started)
    \/ NextDay

RecordsSpec == RecordsInit /\ [][RecordsNext]_vars

-----------------------------------------------------------------------------
(* Properties. *)

(* Whatever was registered or logged in, and committed, within the         *)
(* retention period is in the audit log with its actor: not only does a    *)
(* request commit its row with what it did, also no cleanup, late,         *)
(* repeated or overlapping, takes the row before its time, and the row     *)
(* outlives the account (register, login, _cleanup_audit_log).             *)
RecentEventsLogged == events \subseteq audit

(* No search is remembered for a user who is gone: the account may be      *)
(* removed while the search of its user is under way (search_flights,      *)
(* get_optional_user, SearchHistory.user_id).                              *)
HistoryHasOwner == \A u \in searched : Exists(u)

=============================================================================
