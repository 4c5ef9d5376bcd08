--------------------------- MODULE UserRecordsProofs ---------------------------
(***************************************************************************)
(* The safety properties of Accounts and UserRecords, for any sets of      *)
(* keys, addresses, passwords and requests in progress, any retention      *)
(* period and any overlap of requests, rollbacks, removals and cleanups.   *)
(***************************************************************************)
EXTENDS UserRecords, TLAPS

Busy(h) == at[h] # "idle"

(* A request in progress has a job, and only a writer of users flushes. *)
JobsInPlace ==
    \A h \in Handlers : Busy(h) =>
        /\ job[h] \in Jobs
        /\ at[h] = "flush" => job[h].op \in Updates \cup {"register"}
        /\ at[h] = "mail" => job[h].op = "register"

Registering(h) == Busy(h) /\ job[h].op = "register"

(* The key of a registration is nobody else's: it has no row, and no other *)
(* request works on it.                                                    *)
NewKeysAreFresh ==
    \A h \in Handlers : Registering(h) =>
        /\ ~Exists(job[h].user)
        /\ \A g \in Handlers : Busy(g) /\ job[g].user = job[h].user => g = h

(* The INSERT has been executed and is not committed yet. *)
Inserted(h) == Registering(h) /\ at[h] # "flush"

(* The address of such a row is free, and no other such row has it. *)
AddressesReserved ==
    \A h \in Handlers : Inserted(h) =>
        /\ ~Taken(job[h].email)
        /\ \A g \in Handlers : Inserted(g) /\ job[g].email = job[h].email => g = h

(* The unique index. *)
AddressesUnique ==
    \A u, v \in Users : Exists(u) /\ Exists(v) /\ account[u].email = account[v].email => u = v

(* A locked row is there. *)
LockedRowsExist == \A h \in Handlers : Locks(h, job[h].user) => Exists(job[h].user)

(* A registration that has come to its answer has sent its mail. *)
MailedBeforeAnswer ==
    \A h \in Handlers : Registering(h) /\ at[h] \in {"answer", "commit"} => job[h].user \in welcomed

(* A rehash has a password that was the user's, unless the row is gone. *)
RehashIsOfChosen ==
    \A h \in Handlers :
        Busy(h) /\ job[h].op = "rehash" /\ Exists(job[h].user) => job[h].password \in chosen[job[h].user]

(* The history of events is that of the retention period. *)
EventsAreRecent == \A e \in events : e.day >= day - RetentionDays

(* The properties say what committed rows and answered requests are like;  *)
(* what keeps them so are the conditions under which requests that are     *)
(* under way will commit.                                                  *)
IInv ==
    /\ RecordsTypeOK
    /\ JobsInPlace
    /\ NewKeysAreFresh
    /\ AddressesReserved
    /\ AddressesUnique
    /\ LockedRowsExist
    /\ MailedBeforeAnswer
    /\ RehashIsOfChosen
    /\ EventsAreRecent
    /\ AccountMeansMailed
    /\ StoredPasswordWasChosen
    /\ RecentEventsLogged
    /\ HistoryHasOwner

(* What of the invariant is about requests under way. *)
RequestsInv ==
    /\ JobsInPlace
    /\ NewKeysAreFresh
    /\ AddressesReserved
    /\ LockedRowsExist
    /\ MailedBeforeAnswer
    /\ RehashIsOfChosen

(* What of it is about committed rows. *)
RowsInv ==
    /\ AddressesUnique
    /\ AccountMeansMailed
    /\ StoredPasswordWasChosen

(* What of it is about the records. *)
RecordsInv ==
    /\ EventsAreRecent
    /\ RecentEventsLogged
    /\ HistoryHasOwner

LEMMA IInvParts == IInv <=> RecordsTypeOK /\ RequestsInv /\ RowsInv /\ RecordsInv
BY DEF IInv, RequestsInv, RowsInv, RecordsInv

-----------------------------------------------------------------------------
(* Types. *)

(* What a job holds, by its operation. *)
LEMMA JobFields ==
    ASSUME NEW j \in Jobs
    PROVE  /\ j.user \in Users
           /\ j.op \in {"register", "rehash", "reset", "login", "verify", "search"}
           /\ j.op = "register" => j.email \in Emails
           /\ j.op \in {"register", "rehash", "reset"} => j.password \in Passwords
BY DEF Jobs

(* The row that a commit writes is a row. *)
LEMMA WrittenIsRow ==
    ASSUME TypeOK, NEW j \in Jobs, j.op \in Updates \cup {"register"},
           j.op \in Updates => Exists(j.user)
    PROVE  /\ Written(j) \in Rows
           /\ j.op = "register" => Written(j) = NewRow(j)
           /\ j.op \in {"rehash", "reset"} => Written(j) = WithPassword(account[j.user], j.password)
           /\ j.op = "verify" => Written(j) = [account[j.user] EXCEPT !.verified = TRUE]
<1>1. CASE j.op = "register"
  <2>1. NewRow(j) \in Rows
      BY <1>1, JobFields DEF NewRow, Rows
  <2> QED  BY <1>1, <2>1 DEF Written
<1>2. CASE j.op \in Updates
  <2>1. account[j.user] \in Rows
      BY <1>2, JobFields DEF TypeOK, Exists
  <2>2. j.op \in {"rehash", "reset"} => WithPassword(account[j.user], j.password) \in Rows
      BY <2>1, JobFields DEF WithPassword, Rows
  <2>3. [account[j.user] EXCEPT !.verified = TRUE] \in Rows
      BY <2>1 DEF Rows
  <2> QED  BY <1>2, <2>2, <2>3 DEF Written, Updates
<1> QED  BY <1>1, <1>2

(* Every step of a request keeps the types. *)
LEMMA ProceedType == IInv /\ Proceed => TypeOK'
<1> SUFFICES ASSUME IInv, Proceed PROVE TypeOK'
    OBVIOUS
<1>0. TypeOK
    BY DEF IInv, RecordsTypeOK
<1> USE <1>0 DEF TypeOK
<1>1. ASSUME NEW h \in Handlers, NEW u \in Users, NEW e \in Emails, NEW p \in Passwords,
             Register(h, u, e, p)
      PROVE  TypeOK'
    BY <1>1 DEF Register, Begin, Goto, Return, history, Jobs
<1>2. ASSUME NEW h \in Handlers, NEW u \in Users, NEW p \in Passwords,
             Login(h, u, p) \/ ResetPassword(h, u, p)
      PROVE  TypeOK'
    BY <1>2 DEF Login, ResetPassword, Begin, Goto, Return, history, Jobs
<1>3. ASSUME NEW h \in Handlers, NEW u \in Users,
             RequestReset(h, u) \/ VerifyEmail(h, u) \/ ResendVerification(h, u)
      PROVE  TypeOK'
    BY <1>3 DEF RequestReset, VerifyEmail, ResendVerification, Begin, Goto, Return, history, Jobs
<1>4. ASSUME NEW h \in Handlers, Insert(h) \/ Update(h) \/ Answer(h) \/ Abort(h) PROVE TypeOK'
    BY <1>4 DEF Insert, Update, Answer, Abort, Finish, Goto, history
<1>5. ASSUME NEW h \in Handlers, SendVerification(h) \/ SendFails(h) PROVE TypeOK'
  <2>1. job[h].user \in Users
      BY <1>5, JobFields DEF IInv, JobsInPlace, Busy, SendVerification, SendFails
  <2> QED  BY <1>5, <2>1 DEF SendVerification, SendFails, Finish, Goto, history
<1>6. ASSUME NEW u \in Users, Outdate(u) PROVE TypeOK'
  <2>1. [account[u] EXCEPT !.outdated = TRUE] \in Rows
      BY <1>6 DEF Outdate, Exists, Rows
  <2> QED  BY <1>6, <2>1 DEF Outdate, history
<1>7. ASSUME NEW u \in Users, Disable(u) PROVE TypeOK'
  <2>1. [account[u] EXCEPT !.active = FALSE] \in Rows
      BY <1>7 DEF Disable, Exists, Rows
  <2> QED  BY <1>7, <2>1 DEF Disable, history
<1>8. ASSUME NEW u \in Users, ResetExpires(u) PROVE TypeOK'
    BY <1>8 DEF ResetExpires, history
<1> QED  BY <1>1, <1>2, <1>3, <1>4, <1>5, <1>6, <1>7, <1>8 DEF Proceed

(* What is logged is an audit row. *)
LEMMA AuditRowType ==
    ASSUME RecordsTypeOK, NEW j \in Jobs
    PROVE  AuditRow(j) \in AuditRows
BY JobFields DEF RecordsTypeOK, AuditRow, AuditRows

(* Every action keeps the types. *)
LEMMA TypeStep == IInv /\ [RecordsNext]_vars => RecordsTypeOK'
<1> SUFFICES ASSUME IInv, [RecordsNext]_vars PROVE RecordsTypeOK'
    OBVIOUS
<1>0. TypeOK /\ RecordsTypeOK
    BY DEF IInv, RecordsTypeOK
<1> USE <1>0, RecordsAssumption
<1>1. CASE Proceed /\ UNCHANGED recordVars
    BY <1>1, ProceedType DEF RecordsTypeOK, recordVars
<1>2. ASSUME NEW h \in Handlers, NEW u \in Users, Search(h, u) PROVE RecordsTypeOK'
    BY <1>2 DEF Search, Begin, Goto, Return, history, recordVars, RecordsTypeOK, TypeOK, Jobs
<1>3. ASSUME NEW h \in Handlers, CommitAll(h) PROVE RecordsTypeOK'
  <2>1. job[h] \in Jobs /\ (job[h].op \in Updates => Exists(job[h].user)) /\ at[h] = "commit"
      BY <1>3 DEF CommitAll, IInv, JobsInPlace, Busy, LockedRowsExist, Locks
  <2>2. job[h].user \in Users
      BY <2>1, JobFields
  <2>3. account' \in [Users -> Rows \cup {NoAccount}]
      BY <1>3, <2>1, <2>2, WrittenIsRow DEF CommitAll, Commit, TypeOK
  <2>4. /\ chosen' \in [Users -> SUBSET Passwords]
        /\ lastReset' \in [Users -> Passwords \cup {NoPassword}]
      BY <1>3, <2>1, <2>2, JobFields DEF CommitAll, Commit, TypeOK
  <2>5. /\ at' \in [Handlers -> {"idle", "flush", "mail", "answer", "commit"}]
        /\ job' \in [Handlers -> Jobs \cup {NoJob}]
        /\ UNCHANGED <<resets, welcomed>>
      BY <1>3 DEF CommitAll, Commit, Finish, Goto, TypeOK
  <2>6. audit' \subseteq AuditRows /\ events' \subseteq AuditRows
      BY <1>3, <2>1, AuditRowType DEF CommitAll, Logged, RecordsTypeOK
  <2>7. searched' \subseteq Users /\ day' = day
      BY <1>3, <2>2 DEF CommitAll, Remembered, RecordsTypeOK
  <2> QED  BY <2>3, <2>4, <2>5, <2>6, <2>7 DEF RecordsTypeOK, TypeOK
<1>4. ASSUME NEW h \in Handlers, CommitRefused(h) PROVE RecordsTypeOK'
    BY <1>4 DEF CommitRefused, Abort, Finish, Goto, history, recordVars, RecordsTypeOK, TypeOK
<1>5. ASSUME NEW u \in Users, RemoveAll(u) PROVE RecordsTypeOK'
    BY <1>5 DEF RemoveAll, Remove, RecordsTypeOK, TypeOK
<1>6. ASSUME NEW started \in 0 .. day, CleanupAuditLog(started) PROVE RecordsTypeOK'
    BY <1>6 DEF CleanupAuditLog, accountVars, history, RecordsTypeOK, TypeOK
<1>7. CASE NextDay
    BY <1>7 DEF NextDay, accountVars, history, RecordsTypeOK, TypeOK
<1>8. CASE UNCHANGED vars
    BY <1>8 DEF vars, recordVars, accountVars, history, RecordsTypeOK, TypeOK
<1> QED  BY <1>1, <1>2, <1>3, <1>4, <1>5, <1>6, <1>7, <1>8 DEF RecordsNext

-----------------------------------------------------------------------------
(* Requests that do not commit. *)

(* Of one request: what RequestsInv asks of it where it is now, the        *)
(* others being as they are.                                               *)
Fits(h) ==
    Busy(h) =>
        /\ job[h] \in Jobs
        /\ at[h] = "flush" => job[h].op \in Updates \cup {"register"}
        /\ at[h] = "mail" => job[h].op = "register"
        /\ Registering(h) => ~Exists(job[h].user)
        /\ \A g \in Handlers \ {h} :
             Busy(g) /\ job[g].user = job[h].user => ~Registering(g) /\ ~Registering(h)
        /\ Inserted(h) => ~Taken(job[h].email)
        /\ \A g \in Handlers \ {h} :
             Inserted(g) /\ Inserted(h) => job[g].email # job[h].email
        /\ Locks(h, job[h].user) => Exists(job[h].user)
        /\ Registering(h) /\ at[h] \in {"answer", "commit"} => job[h].user \in welcomed
        /\ job[h].op = "rehash" /\ Exists(job[h].user) => job[h].password \in chosen[job[h].user]

LEMMA AllFit == RequestsInv => \A h \in Handlers : Fits(h)
BY DEF RequestsInv, JobsInPlace, NewKeysAreFresh, AddressesReserved, LockedRowsExist,
       MailedBeforeAnswer, RehashIsOfChosen, Fits, Inserted, Registering

(* A step of one request, in which nothing is committed, is good if the    *)
(* request fits where it gets to.                                          *)
LEMMA OneRequestSteps ==
    ASSUME RequestsInv, NEW h \in Handlers,
           account' = account, chosen' = chosen, welcomed \subseteq welcomed',
           \A g \in Handlers \ {h} : at'[g] = at[g] /\ job'[g] = job[g],
           Fits(h)'
    PROVE  RequestsInv'
<1> USE DEF Busy, Registering, Inserted, Exists, Taken, Holds
<1>1. ASSUME NEW g \in Handlers, g # h
      PROVE  at'[g] = at[g] /\ job'[g] = job[g] /\ Fits(g)
    BY <1>1, AllFit
<1>2. JobsInPlace'
    BY <1>1 DEF JobsInPlace, Fits
<1>3. NewKeysAreFresh'
    BY <1>1 DEF RequestsInv, NewKeysAreFresh, Fits
<1>4. AddressesReserved'
    BY <1>1 DEF RequestsInv, AddressesReserved, Fits
<1>5. LockedRowsExist'
    BY <1>1 DEF LockedRowsExist, Locks, Fits
<1>6. MailedBeforeAnswer'
    BY <1>1 DEF MailedBeforeAnswer, Fits
<1>7. RehashIsOfChosen'
    BY <1>1 DEF RehashIsOfChosen, Fits
<1> QED  BY <1>2, <1>3, <1>4, <1>5, <1>6, <1>7 DEF RequestsInv

(* A request that ends leaves nothing behind. *)
LEMMA FinishKeeps ==
    ASSUME TypeOK, RequestsInv, NEW h \in Handlers, Finish(h),
           account' = account, chosen' = chosen, welcomed \subseteq welcomed'
    PROVE  RequestsInv'
<1>1. at'[h] = "idle" /\ \A g \in Handlers \ {h} : at'[g] = at[g] /\ job'[g] = job[g]
    BY DEF TypeOK, Finish, Goto
<1>2. Fits(h)'
    BY <1>1 DEF Fits, Busy
<1> QED  BY <1>1, <1>2, OneRequestSteps

(* A request that goes on with its job. *)
LEMMA GotoKeeps ==
    ASSUME TypeOK, RequestsInv, NEW h \in Handlers, Busy(h), NEW l \in {"mail", "answer", "commit"},
           Goto(h, l), job' = job, account' = account, chosen' = chosen, welcomed \subseteq welcomed',
           l = "mail" =>
             /\ job[h].op = "register" /\ ~Taken(job[h].email)
             /\ ~InsertPending(h, job[h].email),
           l # "mail" => at[h] # "flush" \/ job[h].op # "register",
           l # "mail" /\ job[h].op = "register" => job[h].user \in welcomed',
           l # "mail" /\ job[h].op \in Updates => Exists(job[h].user)
    PROVE  RequestsInv'
<1>0. Fits(h)
    BY AllFit
<1>1. at'[h] = l /\ \A g \in Handlers \ {h} : at'[g] = at[g] /\ job'[g] = job[g]
    BY DEF TypeOK, Goto
<1> USE DEF Busy, Registering
<1>2. ASSUME NEW g \in Handlers \ {h}, Inserted(g), Inserted(h)' PROVE job[g].email # job[h].email
  <2>1. CASE l = "mail"
    <3>1. at[g] \in {"mail", "answer", "commit"} /\ job[g].op = "register"
        BY <1>2 DEF TypeOK, Inserted
    <3> QED  BY <2>1, <3>1 DEF InsertPending
  <2>2. CASE l # "mail"
      BY <1>0, <1>1, <1>2, <2>2 DEF Inserted, Fits
  <2> QED  BY <2>1, <2>2
<1>3. Inserted(h)' => ~Taken(job[h].email)
    BY <1>0, <1>1 DEF Inserted, Fits
<1>4. Fits(h)'
    BY <1>0, <1>1, <1>2, <1>3 DEF Fits, Inserted, Locks, Exists, Taken, Holds
<1> QED  BY <1>1, <1>4, OneRequestSteps

(* A request that begins: on a fresh key, or on the row of another.  *)
LEMMA BeginKeeps ==
    ASSUME TypeOK, RequestsInv, NEW h \in Handlers, at[h] = "idle", NEW j \in Jobs,
           NEW l \in {"flush", "answer"}, Begin(h, l, j),
           account' = account, chosen' = chosen, welcomed' = welcomed,
           l = "flush" => j.op \in Updates \cup {"register"},
           l = "answer" => j.op \in {"login", "search"},
           j.op = "register" => Fresh(j.user),
           j.op # "register" => Exists(j.user),
           j.op = "rehash" => j.password \in chosen[j.user]
    PROVE  RequestsInv'
<1>1. /\ at'[h] = l /\ job'[h] = j
      /\ \A g \in Handlers \ {h} : at'[g] = at[g] /\ job'[g] = job[g]
    BY DEF TypeOK, Begin, Goto
<1> USE DEF Busy, Registering
<1>2. ASSUME NEW g \in Handlers \ {h}, Busy(g), job[g].user = j.user
      PROVE  ~Registering(g) /\ j.op # "register"
  <2>1. j.op # "register"
      BY <1>2 DEF Fresh
  <2> QED  BY <1>2, <2>1, AllFit DEF Fits
<1>3. j.op = "register" => ~Exists(j.user)
    BY DEF Fresh
<1>4. Fits(h)'
    BY <1>1, <1>2, <1>3 DEF Fits, Inserted, Locks, Exists, Taken, Holds, Updates
<1> QED  BY <1>1, <1>4, OneRequestSteps

(* A column that is neither the address nor the password changes. *)
LEMMA FlagsKeep ==
    ASSUME RequestsInv, RowsInv, UNCHANGED <<at, job, welcomed, chosen>>,
           \A v \in Users : /\ Exists(v)' <=> Exists(v)
                            /\ Exists(v) => /\ account'[v].email = account[v].email
                                            /\ account'[v].password = account[v].password
    PROVE  RequestsInv' /\ RowsInv'
<1>1. \A h \in Handlers : Busy(h) => job[h].user \in Users
    BY JobFields DEF RequestsInv, JobsInPlace
<1>2. RowsInv'
    BY DEF RowsInv, AddressesUnique, AccountMeansMailed, StoredPasswordWasChosen
<1> USE DEF RequestsInv, Busy, Registering
<1>3. JobsInPlace' /\ NewKeysAreFresh' /\ MailedBeforeAnswer'
    BY <1>1 DEF JobsInPlace, NewKeysAreFresh, MailedBeforeAnswer
<1>4. AddressesReserved'
    BY DEF AddressesReserved, Inserted, Taken, Holds
<1>5. LockedRowsExist' /\ RehashIsOfChosen'
    BY <1>1 DEF LockedRowsExist, RehashIsOfChosen, Locks
<1> QED  BY <1>2, <1>3, <1>4, <1>5

LEMMA OutdateOrDisableKeeps ==
    ASSUME TypeOK, RequestsInv, RowsInv, NEW u \in Users, Outdate(u) \/ Disable(u)
    PROVE  /\ RequestsInv' /\ RowsInv'
           /\ \A v \in Users : Exists(v)' <=> Exists(v)
<1>1. account[u] \in Rows /\ NoAccount \notin Rows
    BY AccountsAssumption DEF Outdate, Disable, Exists, TypeOK, Rows
<1>2. /\ account'[u] \in Rows
      /\ account'[u].email = account[u].email /\ account'[u].password = account[u].password
      /\ \A v \in Users \ {u} : account'[v] = account[v]
  <2>1. CASE Outdate(u)
    <3>1. account' = [account EXCEPT ![u] = [account[u] EXCEPT !.outdated = TRUE]]
        BY <2>1 DEF Outdate
    <3> QED  BY <1>1, <3>1 DEF TypeOK, Rows
  <2>2. CASE Disable(u)
    <3>1. account' = [account EXCEPT ![u] = [account[u] EXCEPT !.active = FALSE]]
        BY <2>2 DEF Disable
    <3> QED  BY <1>1, <3>1 DEF TypeOK, Rows
  <2> QED  BY <2>1, <2>2
<1>3. \A v \in Users : Exists(v)' <=> Exists(v)
    BY <1>1, <1>2 DEF Exists
<1>4. UNCHANGED <<at, job, welcomed, chosen>>
    BY DEF Outdate, Disable, history
<1>5. \A v \in Users : Exists(v) => /\ account'[v].email = account[v].email
                                    /\ account'[v].password = account[v].password
    BY <1>2
<1> QED  BY <1>3, <1>4, <1>5, FlagsKeep

(* Nothing but the registrations' mails changes. *)
LEMMA MailKeeps ==
    ASSUME RequestsInv, RowsInv, UNCHANGED <<account, at, job, chosen>>, welcomed \subseteq welcomed'
    PROVE  RequestsInv' /\ RowsInv'
BY DEF RequestsInv, RowsInv, JobsInPlace, NewKeysAreFresh, AddressesReserved, LockedRowsExist,
       MailedBeforeAnswer, RehashIsOfChosen, AddressesUnique, AccountMeansMailed,
       StoredPasswordWasChosen, Busy, Registering, Inserted, Locks, Exists, Taken, Holds

(* Rows stay as they are where nothing is committed. *)
LEMMA RowsKept ==
    ASSUME RowsInv, account' = account, chosen' = chosen, welcomed \subseteq welcomed'
    PROVE  RowsInv'
BY DEF RowsInv, AddressesUnique, AccountMeansMailed, StoredPasswordWasChosen, Exists

(* Everything a request does before its commit keeps the invariant. *)
LEMMA ProceedKeeps ==
    ASSUME IInv, Proceed
    PROVE  /\ RequestsInv' /\ RowsInv'
           /\ \A v \in Users : Exists(v)' <=> Exists(v)
<1>0. TypeOK /\ RequestsInv /\ RowsInv
    BY IInvParts DEF RecordsTypeOK
<1> DEFINE Goal == /\ RequestsInv' /\ RowsInv'
                   /\ \A v \in Users : Exists(v)' <=> Exists(v)
<1>a. ASSUME RequestsInv', account' = account, chosen' = chosen, welcomed \subseteq welcomed'
      PROVE  Goal
    BY <1>0, <1>a, RowsKept DEF Exists
<1>b. ASSUME UNCHANGED <<account, at, job, chosen>>, welcomed \subseteq welcomed'
      PROVE  Goal
    BY <1>0, <1>b, MailKeeps DEF Exists
<1>1. ASSUME NEW h \in Handlers, NEW u \in Users, NEW e \in Emails, NEW p \in Passwords,
             Register(h, u, e, p)
      PROVE  Goal
  <2>1. UNCHANGED <<account, chosen, welcomed>> /\ at[h] = "idle" /\ Fresh(u)
      BY <1>1 DEF Register, history
  <2>2. CASE Taken(e)
      BY <1>1, <1>b, <2>1, <2>2 DEF Register, Return
  <2>3. CASE ~Taken(e)
    <3> DEFINE j == [op |-> "register", user |-> u, email |-> e, password |-> p]
    <3>1. Begin(h, "flush", j) /\ j \in Jobs
        BY <1>1, <2>3 DEF Register, Jobs
    <3>2. j.op = "register" /\ j.user = u
        OBVIOUS
    <3> HIDE DEF j
    <3>3. RequestsInv'
        BY <1>0, <2>1, <3>1, <3>2, BeginKeeps
    <3> QED  BY <1>a, <2>1, <3>3
  <2> QED  BY <2>2, <2>3
<1>2. ASSUME NEW h \in Handlers, NEW u \in Users, NEW p \in Passwords, Login(h, u, p)
      PROVE  Goal
  <2>1. UNCHANGED <<account, chosen, welcomed>> /\ at[h] = "idle" /\ Exists(u)
      BY <1>2 DEF Login, history
  <2>2. CASE ~Accepts(u, p)
      BY <1>2, <1>b, <2>1, <2>2 DEF Login, Return
  <2>3. CASE Accepts(u, p) /\ account[u].outdated
    <3> DEFINE j == [op |-> "rehash", user |-> u, password |-> p]
    <3>1. Begin(h, "flush", j) /\ j \in Jobs
        BY <1>2, <2>3 DEF Login, Jobs
    <3>2. j.op = "rehash" /\ j.user = u /\ j.password = p
        OBVIOUS
    <3>3. p \in chosen[u]
        BY <1>0, <2>1, <2>3 DEF Accepts, RowsInv, StoredPasswordWasChosen
    <3> HIDE DEF j
    <3>4. RequestsInv'
        BY <1>0, <2>1, <3>1, <3>2, <3>3, BeginKeeps DEF Updates
    <3> QED  BY <1>a, <2>1, <3>4
  <2>4. CASE Accepts(u, p) /\ ~account[u].outdated
    <3> DEFINE j == [op |-> "login", user |-> u]
    <3>1. Begin(h, "answer", j) /\ j \in Jobs
        BY <1>2, <2>4 DEF Login, Jobs
    <3>2. j.op = "login" /\ j.user = u
        OBVIOUS
    <3> HIDE DEF j
    <3>3. RequestsInv'
        BY <1>0, <2>1, <3>1, <3>2, BeginKeeps
    <3> QED  BY <1>a, <2>1, <3>3
  <2> QED  BY <2>2, <2>3, <2>4
<1>3. ASSUME NEW h \in Handlers, NEW u \in Users, NEW p \in Passwords, ResetPassword(h, u, p)
      PROVE  Goal
  <2>1. UNCHANGED <<account, chosen, welcomed>> /\ at[h] = "idle"
      BY <1>3 DEF ResetPassword, history
  <2>2. CASE UNCHANGED <<at, job>>
      BY <1>b, <2>1, <2>2
  <2>3. CASE ~(UNCHANGED <<at, job>>)
    <3> DEFINE j == [op |-> "reset", user |-> u, password |-> p]
    <3>1. Begin(h, "flush", j) /\ j \in Jobs /\ Exists(u)
        BY <1>3, <2>3 DEF ResetPassword, Return, Jobs
    <3>2. j.op = "reset" /\ j.user = u
        OBVIOUS
    <3> HIDE DEF j
    <3>3. RequestsInv'
        BY <1>0, <2>1, <3>1, <3>2, BeginKeeps DEF Updates
    <3> QED  BY <1>a, <2>1, <3>3
  <2> QED  BY <2>2, <2>3
<1>4. ASSUME NEW h \in Handlers, NEW u \in Users, VerifyEmail(h, u)
      PROVE  Goal
  <2>1. UNCHANGED <<account, chosen, welcomed>> /\ at[h] = "idle"
      BY <1>4 DEF VerifyEmail, history
  <2>2. CASE UNCHANGED <<at, job>>
      BY <1>b, <2>1, <2>2
  <2>3. CASE ~(UNCHANGED <<at, job>>)
    <3> DEFINE j == [op |-> "verify", user |-> u]
    <3>1. Begin(h, "flush", j) /\ j \in Jobs /\ Exists(u)
        BY <1>4, <2>3 DEF VerifyEmail, Return, Jobs
    <3>2. j.op = "verify" /\ j.user = u
        OBVIOUS
    <3> HIDE DEF j
    <3>3. RequestsInv'
        BY <1>0, <2>1, <3>1, <3>2, BeginKeeps DEF Updates
    <3> QED  BY <1>a, <2>1, <3>3
  <2> QED  BY <2>2, <2>3
<1>5. ASSUME NEW h \in Handlers, NEW u \in Users, RequestReset(h, u) \/ ResendVerification(h, u)
      PROVE  Goal
    BY <1>5, <1>b DEF RequestReset, ResendVerification, history
<1>6. ASSUME NEW h \in Handlers, Insert(h)
      PROVE  Goal
  <2>1. UNCHANGED <<account, chosen, welcomed>> /\ at[h] = "flush" /\ job[h].op = "register"
      BY <1>6 DEF Insert, history
  <2>2. CASE Taken(job[h].email)
      BY <1>0, <1>6, <1>a, <2>1, <2>2, FinishKeeps DEF Insert
  <2>3. CASE ~Taken(job[h].email)
    <3>1. Goto(h, "mail") /\ job' = job /\ ~InsertPending(h, job[h].email) /\ Busy(h)
        BY <1>6, <2>1, <2>3 DEF Insert, Busy
    <3>2. RequestsInv'
        BY <1>0, <2>1, <2>3, <3>1, GotoKeeps
    <3> QED  BY <1>a, <2>1, <3>2
  <2> QED  BY <2>2, <2>3
<1>7. ASSUME NEW h \in Handlers, SendVerification(h)
      PROVE  Goal
  <2>1. /\ UNCHANGED <<account, chosen, job>> /\ welcomed' = welcomed \cup {job[h].user}
        /\ at[h] = "mail" /\ Goto(h, "answer") /\ Busy(h)
      BY <1>7 DEF SendVerification, Busy
  <2>2. job[h].op = "register"
      BY <1>0, <2>1 DEF RequestsInv, JobsInPlace
  <2>3. RequestsInv'
      BY <1>0, <2>1, <2>2, GotoKeeps DEF Updates
  <2> QED  BY <1>a, <2>1, <2>3
<1>8. ASSUME NEW h \in Handlers, SendFails(h) \/ Abort(h)
      PROVE  Goal
  <2>1. Finish(h) /\ UNCHANGED <<account, chosen>> /\ welcomed \subseteq welcomed'
      BY <1>8 DEF SendFails, Abort, history
  <2> QED  BY <1>0, <1>a, <2>1, FinishKeeps
<1>9. ASSUME NEW h \in Handlers, Update(h)
      PROVE  Goal
  <2>1. UNCHANGED <<account, chosen, welcomed>> /\ at[h] = "flush" /\ job[h].op \in Updates
      BY <1>9 DEF Update, history
  <2>2. CASE ~Exists(job[h].user)
      BY <1>0, <1>9, <1>a, <2>1, <2>2, FinishKeeps DEF Update
  <2>3. CASE Exists(job[h].user)
    <3>1. Goto(h, "answer") /\ job' = job /\ Busy(h) /\ job[h].op # "register"
        BY <1>9, <2>1, <2>3 DEF Update, Busy, Updates
    <3>2. RequestsInv'
        BY <1>0, <2>1, <2>3, <3>1, GotoKeeps
    <3> QED  BY <1>a, <2>1, <3>2
  <2> QED  BY <2>2, <2>3
<1>10. ASSUME NEW h \in Handlers, Answer(h)
       PROVE  Goal
  <2>1. /\ UNCHANGED <<account, chosen, welcomed, job>> /\ at[h] = "answer"
        /\ Goto(h, "commit") /\ Busy(h)
      BY <1>10 DEF Answer, Busy, history
  <2>2. Fits(h)
      BY <1>0, AllFit
  <2>3. RequestsInv'
      BY <1>0, <2>1, <2>2, GotoKeeps DEF Fits, Registering, Locks
  <2> QED  BY <1>a, <2>1, <2>3
<1>11. ASSUME NEW u \in Users, Outdate(u) \/ Disable(u)
       PROVE  Goal
    BY <1>0, <1>11, OutdateOrDisableKeeps
<1>12. ASSUME NEW u \in Users, ResetExpires(u)
       PROVE  Goal
    BY <1>12, <1>b DEF ResetExpires, history
<1> QED  BY <1>1, <1>2, <1>3, <1>4, <1>5, <1>6, <1>7, <1>8, <1>9, <1>10, <1>11, <1>12 DEF Proceed

-----------------------------------------------------------------------------
(* Commits and removals. *)

WritesUsers(j) == j.op \in Updates \cup {"register"}

(* What the commit of a request that writes users does to the row of its   *)
(* user, and only to that one.                                             *)
LEMMA CommitEffect ==
    ASSUME IInv, NEW h \in Handlers, Commit(h), WritesUsers(job[h])
    PROVE  /\ job[h] \in Jobs /\ job[h].user \in Users
           /\ \A v \in Users \ {job[h].user} :
                account'[v] = account[v] /\ chosen'[v] = chosen[v]
           /\ account'[job[h].user] = Written(job[h])
           /\ account'[job[h].user] \in Rows /\ account'[job[h].user] # NoAccount
           /\ chosen[job[h].user] \subseteq chosen'[job[h].user]
           /\ account'[job[h].user].password \in chosen'[job[h].user]
           /\ job[h].op = "register" => account'[job[h].user].email = job[h].email
           /\ job[h].op # "register" =>
                /\ Exists(job[h].user)
                /\ account'[job[h].user].email = account[job[h].user].email
                /\ account[job[h].user].verified => account'[job[h].user].verified
<1> DEFINE j == job[h]
           u == job[h].user
<1>0. TypeOK /\ RequestsInv /\ RowsInv /\ Fits(h) /\ at[h] = "commit"
    BY IInvParts, AllFit DEF RecordsTypeOK, Commit
<1>1. j \in Jobs /\ u \in Users /\ (j.op \in Updates => Exists(u))
    BY <1>0, JobFields DEF Fits, Busy, Locks
<1>2. /\ account' = [account EXCEPT ![u] = Written(j)]
      /\ Written(j) \in Rows /\ NoAccount \notin Rows
    BY <1>0, <1>1, WrittenIsRow, AccountsAssumption DEF Commit, WritesUsers, Rows
<1>3. account'[u] = Written(j) /\ \A v \in Users \ {u} : account'[v] = account[v]
    BY <1>0, <1>1, <1>2 DEF TypeOK
<1>4. /\ j.op \in {"register", "reset"} => chosen'[u] = chosen[u] \cup {j.password}
      /\ j.op \notin {"register", "reset"} => chosen'[u] = chosen[u]
      /\ \A v \in Users \ {u} : chosen'[v] = chosen[v]
    BY <1>0, <1>1 DEF Commit, TypeOK
<1>5. CASE j.op = "register"
  <2>1. Written(j).password = j.password /\ Written(j).email = j.email
      BY <1>0, <1>1, <1>5, WrittenIsRow DEF WritesUsers, NewRow, Updates
  <2> QED  BY <1>1, <1>2, <1>3, <1>4, <1>5, <2>1
<1>6. CASE j.op \in {"rehash", "reset"}
  <2>1. Exists(u) /\ account[u] \in Rows
      BY <1>0, <1>1, <1>6 DEF Updates, Exists, TypeOK
  <2>2. Written(j) = [account[u] EXCEPT !.password = j.password, !.outdated = FALSE]
      BY <1>0, <1>1, <1>6, WrittenIsRow DEF WritesUsers, WithPassword, Updates
  <2>3. /\ Written(j).password = j.password /\ Written(j).email = account[u].email
        /\ Written(j).verified = account[u].verified
      BY <2>1, <2>2 DEF Rows
  <2>4. j.op = "rehash" => j.password \in chosen[u]
      BY <1>0, <2>1 DEF Fits, Busy
  <2> QED  BY <1>1, <1>2, <1>3, <1>4, <1>6, <2>1, <2>3, <2>4
<1>7. CASE j.op = "verify"
  <2>1. Exists(u) /\ account[u] \in Rows
      BY <1>0, <1>1, <1>7 DEF Updates, Exists, TypeOK
  <2>2. Written(j) = [account[u] EXCEPT !.verified = TRUE]
      BY <1>0, <1>1, <1>7, WrittenIsRow DEF WritesUsers, Updates
  <2>3. /\ Written(j).password = account[u].password /\ Written(j).email = account[u].email
        /\ Written(j).verified
      BY <2>1, <2>2 DEF Rows
  <2>4. account[u].password \in chosen[u]
      BY <1>0, <1>1, <2>1 DEF RowsInv, StoredPasswordWasChosen
  <2> QED  BY <1>1, <1>2, <1>3, <1>4, <1>7, <2>1, <2>3, <2>4
<1> QED  BY <1>5, <1>6, <1>7 DEF WritesUsers, Updates

(* A commit makes visible what its request had made sure of. *)
LEMMA CommitKeeps ==
    ASSUME IInv, NEW h \in Handlers, Commit(h)
    PROVE  /\ RequestsInv' /\ RowsInv'
           /\ \A v \in Users : Exists(v) => Exists(v)'
<1>0. TypeOK /\ RequestsInv /\ RowsInv /\ Fits(h) /\ at[h] = "commit" /\ welcomed' = welcomed
    BY IInvParts, AllFit DEF RecordsTypeOK, Commit
<1>1. CASE ~WritesUsers(job[h])
  <2>1. account' = account /\ chosen' = chosen /\ Finish(h)
      BY <1>1 DEF Commit, WritesUsers, Updates
  <2> QED  BY <1>0, <2>1, FinishKeeps, RowsKept DEF Exists
<1>2. CASE WritesUsers(job[h])
  <2> DEFINE j == job[h]
             u == job[h].user
  <2>1. /\ j \in Jobs /\ u \in Users
        /\ \A v \in Users \ {u} : account'[v] = account[v] /\ chosen'[v] = chosen[v]
        /\ account'[u] # NoAccount
        /\ chosen[u] \subseteq chosen'[u] /\ account'[u].password \in chosen'[u]
        /\ j.op = "register" => account'[u].email = j.email
        /\ j.op # "register" => Exists(u) /\ account'[u].email = account[u].email
      BY <1>2, CommitEffect
  <2>2. j.op = "register" => ~Exists(u) /\ ~Taken(j.email) /\ u \in welcomed
      BY <1>0 DEF Fits, Busy, Registering, Inserted
  <2>3. at'[h] = "idle" /\ \A g \in Handlers \ {h} : at'[g] = at[g] /\ job'[g] = job[g]
      BY <1>0 DEF Commit, Finish, Goto, TypeOK
  <2>4. \A v \in Users : Exists(v)' <=> v = u \/ Exists(v)
      BY <2>1 DEF Exists
  <2>5. AddressesUnique'
      BY <1>0, <2>1, <2>2, <2>4 DEF RowsInv, AddressesUnique, Taken, Holds
  <2>6. AccountMeansMailed' /\ StoredPasswordWasChosen'
      BY <1>0, <2>1, <2>2, <2>4 DEF RowsInv, AccountMeansMailed, StoredPasswordWasChosen
  <2>7. ASSUME NEW g \in Handlers \ {h}, Busy(g)
        PROVE  /\ Fits(g) /\ job[g].user \in Users
               /\ Registering(g) => job[g].user # u
               /\ Inserted(g) /\ j.op = "register" => job[g].email # j.email
               /\ j.op = "register" => job[g].user # u
    <3>1. Fits(g)
        BY <1>0, AllFit
    <3>2. Busy(h) /\ (j.op = "register" => Inserted(h))
        BY <1>0 DEF Busy, Registering, Inserted
    <3> QED  BY <1>0, <2>7, <3>1, <3>2, JobFields DEF Fits, Registering
  <2> USE DEF Busy, Registering
  <2>8. JobsInPlace' /\ MailedBeforeAnswer'
      BY <1>0, <2>3 DEF RequestsInv, JobsInPlace, MailedBeforeAnswer
  <2>9. NewKeysAreFresh'
      BY <1>0, <2>3, <2>4, <2>7 DEF RequestsInv, NewKeysAreFresh
  <2>10. AddressesReserved'
    <3>1. ASSUME NEW g \in Handlers, Inserted(g)' PROVE ~Taken(job[g].email)'
      <4>1. g # h /\ Inserted(g) /\ Busy(g) /\ job'[g] = job[g]
          BY <2>3, <3>1 DEF Inserted
      <4>2. ~Taken(job[g].email) /\ (j.op = "register" => job[g].email # j.email)
          BY <2>7, <4>1 DEF Fits
      <4>3. ASSUME NEW v \in Users, Exists(v)', account'[v].email = job[g].email PROVE FALSE
        <5>1. CASE v # u
            BY <2>1, <2>4, <4>2, <4>3, <5>1 DEF Taken, Holds
        <5>2. CASE v = u
            BY <2>1, <4>2, <4>3, <5>2 DEF Taken, Holds
        <5> QED  BY <5>1, <5>2
      <4> QED  BY <4>1, <4>3 DEF Taken, Holds
    <3> QED  BY <1>0, <2>3, <3>1 DEF RequestsInv, AddressesReserved, Inserted
  <2>11. LockedRowsExist'
    <3> SUFFICES ASSUME NEW g \in Handlers, Locks(g, job[g].user)' PROVE Exists(job[g].user)'
        BY DEF LockedRowsExist
    <3>1. g # h /\ Busy(g) /\ job'[g] = job[g] /\ Locks(g, job[g].user)
        BY <2>3 DEF Locks
    <3>2. Exists(job[g].user) /\ job[g].user \in Users
        BY <1>0, <2>7, <3>1 DEF RequestsInv, LockedRowsExist
    <3> QED  BY <2>4, <3>1, <3>2
  <2>12. RehashIsOfChosen'
    <3> SUFFICES ASSUME NEW g \in Handlers, Busy(g)', job'[g].op = "rehash", Exists(job[g].user)'
                 PROVE  job'[g].password \in chosen'[job'[g].user]
        BY DEF RehashIsOfChosen
    <3>1. g # h /\ Busy(g) /\ job'[g] = job[g] /\ job[g].user \in Users
        BY <2>3, <2>7
    <3>2. Exists(job[g].user)
        BY <2>1, <2>4, <2>7, <3>1
    <3>3. job[g].password \in chosen[job[g].user]
        BY <1>0, <3>1, <3>2 DEF RequestsInv, RehashIsOfChosen
    <3> QED  BY <2>1, <3>1, <3>3
  <2> QED  BY <2>4, <2>5, <2>6, <2>8, <2>9, <2>10, <2>11, <2>12 DEF RequestsInv, RowsInv
<1> QED  BY <1>1, <1>2

(* A removal takes the row of a user nobody is writing. *)
LEMMA RemoveKeeps ==
    ASSUME IInv, NEW u \in Users, Remove(u)
    PROVE  /\ RequestsInv' /\ RowsInv'
           /\ \A v \in Users : Exists(v)' <=> Exists(v) /\ v # u
<1>0. TypeOK /\ RequestsInv /\ RowsInv
    BY IInvParts DEF RecordsTypeOK
<1>1. /\ UNCHANGED <<at, job, welcomed>> /\ ~Locked(u)
      /\ account'[u] = NoAccount
      /\ \A v \in Users \ {u} : account'[v] = account[v] /\ chosen'[v] = chosen[v]
    BY <1>0 DEF Remove, TypeOK
<1>2. \A v \in Users : Exists(v)' <=> Exists(v) /\ v # u
    BY <1>1 DEF Exists
<1>3. \A h \in Handlers : Busy(h) => job[h].user \in Users
    BY <1>0, JobFields DEF RequestsInv, JobsInPlace
<1>4. RowsInv'
    BY <1>0, <1>1, <1>2 DEF RowsInv, AddressesUnique, AccountMeansMailed, StoredPasswordWasChosen
<1> USE DEF RequestsInv, Busy, Registering
<1>5. JobsInPlace' /\ NewKeysAreFresh' /\ MailedBeforeAnswer'
    BY <1>0, <1>1, <1>2, <1>3 DEF JobsInPlace, NewKeysAreFresh, MailedBeforeAnswer
<1>6. AddressesReserved'
    BY <1>0, <1>1, <1>2 DEF AddressesReserved, Inserted, Taken, Holds
<1>7. LockedRowsExist'
    BY <1>0, <1>1, <1>2, <1>3 DEF LockedRowsExist, Locked, Locks
<1>8. RehashIsOfChosen'
    BY <1>0, <1>1, <1>2, <1>3 DEF RehashIsOfChosen
<1> QED  BY <1>2, <1>4, <1>5, <1>6, <1>7, <1>8

-----------------------------------------------------------------------------
(* The inductive invariant. *)

(* The tables are empty and nobody is at work. *)
LEMMA InitIInv == RecordsInit => IInv
<1> SUFFICES ASSUME RecordsInit PROVE IInv
    OBVIOUS
<1>1. RecordsTypeOK
    BY AccountsAssumption, RecordsAssumption DEF RecordsInit, Init, RecordsTypeOK, TypeOK
<1>2. RequestsInv
    BY DEF RecordsInit, Init, RequestsInv, JobsInPlace, NewKeysAreFresh, AddressesReserved,
       LockedRowsExist, MailedBeforeAnswer, RehashIsOfChosen, Busy, Registering, Inserted, Locks
<1>3. RowsInv
    BY DEF RecordsInit, Init, RowsInv, AddressesUnique, AccountMeansMailed,
       StoredPasswordWasChosen, Exists
<1>4. RecordsInv
    BY DEF RecordsInit, RecordsInv, EventsAreRecent, RecentEventsLogged, HistoryHasOwner
<1> QED  BY <1>1, <1>2, <1>3, <1>4, IInvParts

(* The records, where none is written and no owner goes. *)
LEMMA RecordsKept ==
    ASSUME RecordsTypeOK, RecordsInv, UNCHANGED recordVars,
           \A v \in Users : Exists(v) => Exists(v)'
    PROVE  RecordsInv'
BY DEF RecordsTypeOK, RecordsInv, EventsAreRecent, RecentEventsLogged, HistoryHasOwner, recordVars

(* Every action keeps the inductive invariant. *)
LEMMA NextIInv == IInv /\ [RecordsNext]_vars => IInv'
<1> SUFFICES ASSUME IInv, [RecordsNext]_vars PROVE IInv'
    OBVIOUS
<1> SUFFICES RequestsInv' /\ RowsInv' /\ RecordsInv'
    BY TypeStep DEF IInv, RequestsInv, RowsInv, RecordsInv
<1>0. TypeOK /\ RecordsTypeOK /\ RequestsInv /\ RowsInv /\ RecordsInv
    BY IInvParts DEF RecordsTypeOK
<1>1. CASE Proceed /\ UNCHANGED recordVars
    BY <1>0, <1>1, ProceedKeeps, RecordsKept
<1>2. ASSUME NEW h \in Handlers, NEW u \in Users, Search(h, u)
      PROVE  RequestsInv' /\ RowsInv' /\ RecordsInv'
  <2>1. UNCHANGED <<account, chosen, welcomed, recordVars>> /\ at[h] = "idle"
      BY <1>2 DEF Search, history
  <2>2. RowsInv' /\ RecordsInv'
      BY <1>0, <2>1, RowsKept, RecordsKept DEF Exists
  <2>3. CASE ~Exists(u)
      BY <1>0, <1>2, <2>1, <2>2, <2>3, MailKeeps DEF Search, Return
  <2>4. CASE Exists(u)
    <3> DEFINE j == [op |-> "search", user |-> u]
    <3>1. Begin(h, "answer", j) /\ j \in Jobs
        BY <1>2, <2>4 DEF Search, Jobs
    <3>2. j.op = "search" /\ j.user = u
        OBVIOUS
    <3> HIDE DEF j
    <3>3. RequestsInv'
        BY <1>0, <2>1, <2>4, <3>1, <3>2, BeginKeeps
    <3> QED  BY <2>2, <3>3
  <2> QED  BY <2>3, <2>4
<1>3. ASSUME NEW h \in Handlers, CommitAll(h)
      PROVE  RequestsInv' /\ RowsInv' /\ RecordsInv'
  <2>1. Commit(h) /\ day' = day /\ ~OwnerMissing(job[h])
      BY <1>3 DEF CommitAll
  <2>2. RequestsInv' /\ RowsInv' /\ \A v \in Users : Exists(v) => Exists(v)'
      BY <2>1, CommitKeeps
  <2>3. events' \subseteq audit'
      BY <1>0, <1>3 DEF CommitAll, Logged, RecordsInv, RecentEventsLogged
  <2>4. EventsAreRecent'
    <3>1. AuditRow(job[h]).day = day /\ day >= day - RetentionDays
        BY <1>0, RecordsAssumption DEF AuditRow, RecordsTypeOK
    <3>2. \A e \in events' : e \in events \/ e = AuditRow(job[h])
        BY <1>3 DEF CommitAll
    <3> QED  BY <1>0, <2>1, <3>1, <3>2 DEF RecordsInv, EventsAreRecent
  <2>5. HistoryHasOwner'
    <3>1. ASSUME NEW v \in searched' PROVE v \in Users /\ Exists(v)
      <4>1. job[h].user \in Users
          BY <1>0, <1>3, JobFields DEF CommitAll, RequestsInv, JobsInPlace, Busy
      <4> QED  BY <1>0, <1>3, <4>1 DEF CommitAll, Remembered, OwnerMissing, RecordsInv, HistoryHasOwner,
                  RecordsTypeOK
    <3> QED  BY <2>2, <3>1 DEF HistoryHasOwner
  <2> QED  BY <2>2, <2>3, <2>4, <2>5 DEF RecordsInv, RecentEventsLogged
<1>4. ASSUME NEW h \in Handlers, CommitRefused(h)
      PROVE  RequestsInv' /\ RowsInv' /\ RecordsInv'
  <2>1. Finish(h) /\ UNCHANGED <<account, chosen, welcomed, recordVars>>
      BY <1>4 DEF CommitRefused, Abort, history
  <2> QED  BY <1>0, <2>1, FinishKeeps, RowsKept, RecordsKept DEF Exists
<1>5. ASSUME NEW u \in Users, RemoveAll(u)
      PROVE  RequestsInv' /\ RowsInv' /\ RecordsInv'
  <2>1. Remove(u) /\ searched' = searched \ {u} /\ UNCHANGED <<day, audit, events>>
      BY <1>5 DEF RemoveAll
  <2>2. RequestsInv' /\ RowsInv' /\ \A v \in Users : Exists(v)' <=> Exists(v) /\ v # u
      BY <2>1, RemoveKeeps
  <2>3. HistoryHasOwner'
      BY <1>0, <2>1, <2>2 DEF RecordsInv, HistoryHasOwner, RecordsTypeOK
  <2> QED  BY <1>0, <2>1, <2>2, <2>3 DEF RecordsInv, EventsAreRecent, RecentEventsLogged
<1>6. ASSUME NEW started \in 0 .. day, CleanupAuditLog(started)
      PROVE  RequestsInv' /\ RowsInv' /\ RecordsInv'
  <2>1. /\ UNCHANGED <<account, at, job, chosen, welcomed, day, searched, events>>
        /\ audit' = {row \in audit : ~TooOld(row, started - RetentionDays)}
      BY <1>6 DEF CleanupAuditLog, accountVars, history
  <2>2. RequestsInv' /\ RowsInv'
      BY <1>0, <2>1, MailKeeps
  <2>3. ASSUME NEW e \in events PROVE ~TooOld(e, started - RetentionDays)
    <3>1. e.day \in Nat /\ e.day >= day - RetentionDays
        BY <1>0 DEF RecordsTypeOK, AuditRows, RecordsInv, EventsAreRecent
    <3>2. day \in Nat /\ started \in Nat /\ started <= day
        BY <1>0, RecordsAssumption DEF RecordsTypeOK
    <3> QED  BY <3>1, <3>2, RecordsAssumption DEF TooOld
  <2>4. RecentEventsLogged'
      BY <1>0, <2>1, <2>3 DEF RecordsInv, RecentEventsLogged
  <2> QED  BY <1>0, <2>1, <2>2, <2>4 DEF RecordsInv, EventsAreRecent, HistoryHasOwner, Exists
<1>7. CASE NextDay
  <2>1. /\ UNCHANGED <<account, at, job, chosen, welcomed, audit, searched>>
        /\ events' = {e \in events : e.day >= day' - RetentionDays}
      BY <1>7 DEF NextDay, accountVars, history
  <2>2. RequestsInv' /\ RowsInv'
      BY <1>0, <2>1, MailKeeps
  <2> QED  BY <1>0, <2>1, <2>2
              DEF RecordsInv, EventsAreRecent, RecentEventsLogged, HistoryHasOwner, Exists
<1>8. CASE UNCHANGED vars
  <2>1. UNCHANGED <<account, at, job, chosen, welcomed, recordVars>>
      BY <1>8 DEF vars, accountVars, history
  <2> QED  BY <1>0, <2>1, MailKeeps, RecordsKept DEF Exists
<1> QED  BY <1>1, <1>2, <1>3, <1>4, <1>5, <1>6, <1>7, <1>8 DEF RecordsNext

-----------------------------------------------------------------------------
(* The theorems. *)

(* The inductive invariant holds in every reachable state. *)
THEOREM RecordsInvariant == RecordsSpec => []IInv
BY InitIInv, NextIInv, PTL DEF RecordsSpec

(* The variables of accounts and records keep their types. *)
THEOREM RecordsTypeCorrect == RecordsSpec => []RecordsTypeOK
<1>1. IInv => RecordsTypeOK
    BY DEF IInv
<1> QED  BY <1>1, RecordsInvariant, PTL

(* No address ever belongs to two users, those whose registration has been *)
(* answered and not committed included (register, create).                 *)
THEOREM AddressesHaveOneOwner == RecordsSpec => []OneOwnerPerAddress
<1>1. IInv => OneOwnerPerAddress
  <2> SUFFICES ASSUME IInv, NEW e \in Emails,
                      NEW u \in {v \in Users : Holds(v, e)}
                             \cup {job[h].user : h \in {g \in Handlers :
                                     at[g] = "commit" /\ job[g].op = "register" /\ job[g].email = e}},
                      NEW w \in {v \in Users : Holds(v, e)}
                             \cup {job[h].user : h \in {g \in Handlers :
                                     at[g] = "commit" /\ job[g].op = "register" /\ job[g].email = e}}
               PROVE  u = w
      BY DEF OneOwnerPerAddress
  <2>1. \A h \in Handlers : at[h] = "commit" /\ job[h].op = "register" => Inserted(h)
      BY DEF Inserted, Registering, Busy
  <2>2. AddressesReserved /\ AddressesUnique
      BY DEF IInv
  <2> QED  BY <2>1, <2>2 DEF AddressesReserved, AddressesUnique, Taken, Holds
<1> QED  BY <1>1, RecordsInvariant, PTL

(* Every account was sent its verification mail (register).                *)
THEOREM AccountsWereMailed == RecordsSpec => []AccountMeansMailed
<1>1. IInv => AccountMeansMailed
    BY DEF IInv
<1> QED  BY <1>1, RecordsInvariant, PTL

(* No rehash, reset or rollback stores a password that its user did not    *)
(* choose (authenticate, update_password).                                 *)
THEOREM PasswordsWereChosen == RecordsSpec => []StoredPasswordWasChosen
<1>1. IInv => StoredPasswordWasChosen
    BY DEF IInv
<1> QED  BY <1>1, RecordsInvariant, PTL

(* No cleanup takes the log of a recent event (_cleanup_audit_log). *)
THEOREM EventsAreLogged == RecordsSpec => []RecentEventsLogged
<1>1. IInv => RecentEventsLogged
    BY DEF IInv
<1> QED  BY <1>1, RecordsInvariant, PTL

(* No search is remembered for a user who is gone (search_flights). *)
THEOREM SearchesHaveOwners == RecordsSpec => []HistoryHasOwner
<1>1. IInv => HistoryHasOwner
    BY DEF IInv
<1> QED  BY <1>1, RecordsInvariant, PTL

(* No write takes a verification back, whatever the row was like when its  *)
(* request read it (mark_verified, update_password).                       *)
THEOREM VerificationsLast == RecordsSpec => VerifiedStaysVerified
<1> DEFINE Lasts ==
      \A u \in Users : Exists(u) /\ account[u].verified /\ Exists(u)' => account'[u].verified
<1>1. IInv /\ [RecordsNext]_vars => [Lasts]_accountVars
  <2> SUFFICES ASSUME IInv, RecordsNext PROVE Lasts
      BY DEF vars
  <2>0. TypeOK /\ RequestsInv
      BY IInvParts DEF RecordsTypeOK
  <2>1. CASE Proceed
    <3>1. CASE account' = account
        BY <3>1
    <3>2. ASSUME NEW u \in Users, Outdate(u) \/ Disable(u) PROVE Lasts
      <4>1. account[u] \in Rows
          BY <2>0, <3>2 DEF Outdate, Disable, Exists, TypeOK
      <4>2. \/ account' = [account EXCEPT ![u] = [account[u] EXCEPT !.outdated = TRUE]]
            \/ account' = [account EXCEPT ![u] = [account[u] EXCEPT !.active = FALSE]]
          BY <3>2 DEF Outdate, Disable
      <4>3. /\ account'[u].verified = account[u].verified
            /\ \A v \in Users \ {u} : account'[v] = account[v]
          BY <2>0, <4>1, <4>2 DEF TypeOK, Rows
      <4> QED  BY <4>3
    <3> QED  BY <2>1, <3>1, <3>2
                DEF Proceed, Register, Login, ResetPassword, RequestReset, VerifyEmail,
                    ResendVerification, Insert, SendVerification, SendFails, Update, Answer,
                    Abort, ResetExpires
  <2>2. ASSUME NEW h \in Handlers, CommitAll(h) PROVE Lasts
    <3>1. Commit(h)
        BY <2>2 DEF CommitAll
    <3>2. CASE ~WritesUsers(job[h])
        BY <3>1, <3>2 DEF Commit, WritesUsers
    <3>3. CASE WritesUsers(job[h])
      <4>1. job[h].op = "register" => ~Exists(job[h].user)
          BY <2>0, <3>1 DEF Commit, RequestsInv, NewKeysAreFresh, Registering, Busy
      <4> QED  BY <3>1, <3>3, <4>1, CommitEffect
    <3> QED  BY <3>2, <3>3
  <2>3. ASSUME NEW u \in Users, RemoveAll(u) PROVE Lasts
    <3>1. ~Exists(u)' /\ \A v \in Users \ {u} : account'[v] = account[v]
        BY <2>0, <2>3 DEF RemoveAll, Remove, Exists, TypeOK
    <3> QED  BY <3>1
  <2>4. CASE account' = account
      BY <2>4
  <2> QED  BY <2>1, <2>2, <2>3, <2>4
              DEF RecordsNext, Search, CommitRefused, Abort, CleanupAuditLog, NextDay, accountVars
<1> QED  BY <1>1, RecordsInvariant, PTL DEF RecordsSpec, VerifiedStaysVerified

=============================================================================
