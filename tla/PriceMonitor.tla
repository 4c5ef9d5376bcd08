----------------------------- MODULE PriceMonitor -----------------------------
(***************************************************************************)
(* Price alerts: the API that creates and deletes them                     *)
(* (app/api/v1/price_alerts.py) and the Celery task that checks them       *)
(* (app/workers/tasks.py driving app/services/price_monitor.py).           *)
(*                                                                         *)
(* A run lists the active alerts, works through them in one database       *)
(* session and commits once, at the very end.  Mail leaves immediately;    *)
(* the deactivation of an alert exists only in the session until then.     *)
(* Runs of different workers overlap, a worker may be lost at any await,   *)
(* and the broker redelivers the message of a lost worker                  *)
(* (task_acks_late, task_reject_on_worker_lost).                           *)
(***************************************************************************)
EXTENDS Naturals

CONSTANTS
    Alerts,       \* ids of the alerts that may ever be created
    Workers,      \* worker processes
    Targets,      \* target_amount_minor an alert may have
    Fares,        \* amount_minor a search may find
    NoFare,       \* the search found nothing, or the alert's date is bad
    NoAlert,      \* no alert is between its price check and its notification
    MaxQueue      \* bound: task messages waiting in the broker

ASSUME MonitorAssumption ==
    /\ Targets \subseteq Nat
    /\ Fares \subseteq Nat
    /\ NoFare \notin Fares
    /\ NoAlert \notin Alerts
    /\ MaxQueue \in Nat \ {0}

VARIABLES
    row,       \* row[a]: the committed price_alerts row
    target,    \* target[a]: its target_amount_minor, fixed at creation
    owned,     \* the alerts whose owner's users row exists
    fare,      \* fare[a]: the cheapest fare on the alert's route now
    refused,   \* the alerts whose owner's mail is refused now (external)
    queue,     \* monitor_prices messages waiting in the broker
    busy,      \* the workers inside _monitor_prices
    todo,      \* todo[w]: listed by run_once and not yet checked
    met,       \* met[w]: priced at or below target, not yet notified
    dirty,     \* dirty[w]: set inactive in the session, not yet committed
    told       \* history: the alerts whose owner has received a message

database == <<row, target, owned>>
world == <<fare, refused>>
session == <<busy, todo, met, dirty>>
vars == <<database, world, queue, session, told>>

RowState == {"absent", "active", "inactive", "deleted"}

(* The type of every variable; a worker between two runs has no session. *)
TypeOK ==
    /\ row \in [Alerts -> RowState]
    /\ target \in [Alerts -> Targets]
    /\ owned \subseteq Alerts
    /\ fare \in [Alerts -> Fares \cup {NoFare}]
    /\ refused \subseteq Alerts
    /\ queue \in 0 .. MaxQueue
    /\ busy \subseteq Workers
    /\ todo \in [Workers -> SUBSET Alerts]
    /\ met \in [Workers -> Alerts \cup {NoAlert}]
    /\ dirty \in [Workers -> SUBSET Alerts]
    /\ \A w \in Workers \ busy : todo[w] = {} /\ met[w] = NoAlert /\ dirty[w] = {}
    /\ told \subseteq Alerts

Init ==
    /\ row = [a \in Alerts |-> "absent"]
    /\ target \in [Alerts -> Targets]
    /\ owned = Alerts
    /\ fare \in [Alerts -> Fares \cup {NoFare}]
    /\ refused = {}
    /\ queue = 0
    /\ busy = {}
    /\ todo = [w \in Workers |-> {}]
    /\ met = [w \in Workers |-> NoAlert]
    /\ dirty = [w \in Workers |-> {}]
    /\ told = {}

-----------------------------------------------------------------------------
(* The API.  Each handler's session commits as one transaction. *)

(* POST /price-alerts: a new row, active. *)
CreateAlert(a) ==
    /\ row[a] = "absent"
    /\ a \in owned
    /\ row' = [row EXCEPT ![a] = "active"]
    /\ UNCHANGED <<target, owned, world, queue, session, told>>

(* DELETE /price-alerts/{id}: the row is found for its owner and removed. *)
DeleteAlert(a) ==
    /\ row[a] \in {"active", "inactive"}
    /\ row' = [row EXCEPT ![a] = "deleted"]
    /\ UNCHANGED <<target, owned, world, queue, session, told>>

(* The owner's row is removed in the database; ON DELETE CASCADE takes the *)
(* alert with it.                                                          *)
RemoveOwner(a) ==
    /\ a \in owned
    /\ owned' = owned \ {a}
    /\ row' = [row EXCEPT ![a] = "deleted"]
    /\ UNCHANGED <<target, world, queue, session, told>>

-----------------------------------------------------------------------------
(* The worker. *)

(* The beat schedule puts a message in the broker. *)
Beat ==
    /\ queue < MaxQueue
    /\ queue' = queue + 1
    /\ UNCHANGED <<database, world, session, told>>

(* A worker takes a message; run_once lists the active alerts. *)
ListActive(w) ==
    /\ w \notin busy
    /\ queue > 0
    /\ queue' = queue - 1
    /\ busy' = busy \cup {w}
    /\ todo' = [todo EXCEPT ![w] = {a \in Alerts : row[a] = "active"}]
    /\ UNCHANGED <<database, world, met, dirty, told>>

(* The negation of `cheapest is None or cheapest > target_amount_minor`:   *)
(* minor units are compared, whatever their currency.                      *)
AtOrBelowTarget(a) == fare[a] # NoFare /\ fare[a] <= target[a]

(* _check up to the early return: the next alert of the list, in the order *)
(* the database happened to return, against the fare of this moment.       *)
CheckPrice(w, a) ==
    /\ w \in busy
    /\ met[w] = NoAlert
    /\ a \in todo[w]
    /\ todo' = [todo EXCEPT ![w] = @ \ {a}]
    /\ met' = [met EXCEPT ![w] = IF AtOrBelowTarget(a) THEN a ELSE NoAlert]
    /\ UNCHANGED <<database, world, queue, busy, dirty, told>>

(* The message reaches the owner's mailbox. *)
Deliver(a) == told' = told \cup {a}

(* The alert in hand is set inactive in the session. *)
Deactivate(w) ==
    /\ dirty' = [dirty EXCEPT ![w] = @ \cup {met[w]}]
    /\ met' = [met EXCEPT ![w] = NoAlert]

(* The rest of _check: the owner is looked up and the message goes out. *)
Notify(w) ==
    /\ w \in busy
    /\ met[w] # NoAlert
    /\ met[w] \in owned
    /\ met[w] \notin refused
    /\ Deliver(met[w])
    /\ Deactivate(w)
    /\ UNCHANGED <<database, world, queue, busy, todo>>

(* The same when get_by_id finds no owner: nothing is sent. *)
SkipMissingOwner(w) ==
    /\ w \in busy
    /\ met[w] # NoAlert
    /\ met[w] \notin owned
    /\ Deactivate(w)
    /\ UNCHANGED <<database, world, queue, busy, todo, told>>

(* Fault: the session outlives the run: what an unfinished run set         *)
(* inactive waits for the next one's commit.                               *)
ForgetKeepsSession(w) ==
    /\ busy' = busy \ {w}
    /\ todo' = [todo EXCEPT ![w] = {}]
    /\ met' = [met EXCEPT ![w] = NoAlert]
    /\ UNCHANGED dirty

(* The session is closed: everything in it that is not committed is gone. *)
Forget(w) ==
    /\ busy' = busy \ {w}
    /\ todo' = [todo EXCEPT ![w] = {}]
    /\ met' = [met EXCEPT ![w] = NoAlert]
    /\ dirty' = [dirty EXCEPT ![w] = {}]

(* Fault: the error is logged and the run goes on as if the mail had left. *)
NotifyFailsSilently(w) ==
    /\ w \in busy
    /\ met[w] # NoAlert
    /\ met[w] \in owned \cap refused
    /\ Deactivate(w)
    /\ UNCHANGED <<database, world, queue, busy, todo, told>>

(* send raises.  Nothing catches it: the run ends, its deactivations are   *)
(* rolled back, the message is acknowledged as failed.  The server may     *)
(* have accepted the mail before the error.                                *)
NotifyFails(w) ==
    /\ w \in busy
    /\ met[w] # NoAlert
    /\ met[w] \in owned \cap refused
    /\ Deliver(met[w]) \/ UNCHANGED told
    /\ Forget(w)
    /\ UNCHANGED <<database, world, queue>>

(* Fault: rows are written back whole, as the session has them. *)
CommitMergesRows(w) ==
    /\ w \in busy /\ met[w] = NoAlert /\ todo[w] = {}
    /\ row' = [a \in Alerts |-> IF a \in dirty[w] THEN "inactive" ELSE row[a]]
    /\ Forget(w)
    /\ UNCHANGED <<target, owned, world, queue, told>>

(* run_once returned: commit flushes the updates, each by primary key. *)
Commit(w) ==
    /\ w \in busy /\ met[w] = NoAlert /\ todo[w] = {}
    /\ \A a \in dirty[w] : row[a] # "deleted"
    /\ row' = [a \in Alerts |-> IF a \in dirty[w] THEN "inactive" ELSE row[a]]
    /\ Forget(w)
    /\ UNCHANGED <<target, owned, world, queue, told>>

(* Fault: the commit is tried again on the same session. *)
CommitTriedAgain(w) ==
    /\ w \in busy /\ met[w] = NoAlert /\ todo[w] = {}
    /\ \E a \in dirty[w] : row[a] = "deleted"
    /\ UNCHANGED vars

(* An update that matches no row is a StaleDataError: the commit fails and *)
(* the other deactivations of the run are rolled back with it.  A driver   *)
(* that cannot count the rows of a batch sees it only when the batch is a  *)
(* single update.                                                          *)
CommitFindsRowGone(w) ==
    /\ w \in busy /\ met[w] = NoAlert /\ todo[w] = {}
    /\ \E a \in dirty[w] : row[a] = "deleted"
    /\ Forget(w)
    /\ UNCHANGED <<database, world, queue, told>>

(* The same on a driver that does not count the rows of a batch (asyncpg): *)
(* the updates that match no row do nothing, the others are committed.     *)
CommitSkipsGoneRows(w) ==
    /\ w \in busy /\ met[w] = NoAlert /\ todo[w] = {}
    /\ \E a \in dirty[w] : row[a] = "deleted" /\ dirty[w] # {a}
    /\ row' = [a \in Alerts |->
                 IF a \in dirty[w] /\ row[a] # "deleted" THEN "inactive" ELSE row[a]]
    /\ Forget(w)
    /\ UNCHANGED <<target, owned, world, queue, told>>

(* The worker process is lost; the unacknowledged message is redelivered. *)
Crash(w) ==
    /\ w \in busy
    /\ queue' = IF queue < MaxQueue THEN queue + 1 ELSE queue
    /\ Forget(w)
    /\ UNCHANGED <<database, world, told>>

-----------------------------------------------------------------------------
(* Fares move and mail servers change their minds. *)
FareMoves(a) ==
    /\ \E f \in (Fares \cup {NoFare}) \ {fare[a]} : fare' = [fare EXCEPT ![a] = f]
    /\ UNCHANGED <<database, refused, queue, session, told>>

MailChanges(a) ==
    /\ refused' = IF a \in refused THEN refused \ {a} ELSE refused \cup {a}
    /\ UNCHANGED <<database, fare, queue, session, told>>

(* One step of a run. *)
RunStep(w) ==
    \/ \E a \in Alerts : CheckPrice(w, a)
    \/ Notify(w)
    \/ SkipMissingOwner(w)
    \/ NotifyFails(w)
    \/ Commit(w)
    \/ CommitFindsRowGone(w)
    \/ CommitSkipsGoneRows(w)

Next ==
    \/ \E a \in Alerts :
          CreateAlert(a) \/ DeleteAlert(a) \/ RemoveOwner(a) \/ FareMoves(a) \/ MailChanges(a)
    \/ Beat
    \/ \E w \in Workers : ListActive(w) \/ RunStep(w) \/ Crash(w)

Spec == Init /\ [][Next]_vars

(* The beat keeps beating, idle workers take messages, runs proceed. *)
Fairness ==
    /\ WF_vars(Beat)
    /\ \A w \in Workers : WF_vars(ListActive(w)) /\ WF_vars(RunStep(w))

FairSpec == Spec /\ Fairness

-----------------------------------------------------------------------------
(* Properties. *)

(* An alert is switched off in the database only when its owner has been   *)
(* told: no crash, failed send, overlapping run, deletion or missing owner *)
(* makes a trigger silent (_check, _monitor_prices).                       *)
DeactivatedMeansNotified == \A a \in Alerts : row[a] = "inactive" => a \in told

(* A deleted alert stays deleted, although runs that listed it before hold *)
(* a stale copy that they try to write back (delete_alert, session.commit). *)
DeletedStaysDeleted ==
    [][ \A a \in Alerts : row[a] = "deleted" => row'[a] = "deleted" ]_vars

(* Worker crashes stop. *)
CrashesEnd == <>[][ \A w \in Workers : ~Crash(w) ]_vars

(* When crashes end and every mail server accepts again, no alert stays    *)
(* active while its fare stays at or below the target: rolled-back runs    *)
(* are made up for by later ones (run_once, _check, beat_schedule).        *)
MetAlertsAreSettled ==
    (CrashesEnd /\ <>[](refused = {}))
      => \A a \in Alerts : []<>~(row[a] = "active" /\ AtOrBelowTarget(a))

-----------------------------------------------------------------------------
(* What the repository's documentation and tests say. *)

(* "Checks every active price alert ... and notifies the owner when the    *)
(* target price is met": an owner whose mail is accepted is told, whatever *)
(* happens to the mail of others.                                          *)
EveryMetAlertNotified ==
    CrashesEnd => \A a \in Alerts :
        []<>~(row[a] = "active" /\ AtOrBelowTarget(a) /\ a \notin refused \cup told)

=============================================================================
