-------------------------- MODULE PriceMonitorProofs --------------------------
(***************************************************************************)
(* The safety properties of PriceMonitor, for any number of alerts and     *)
(* workers, overlapping and crashing in any way.                           *)
(***************************************************************************)
EXTENDS PriceMonitor, TLAPS

(* An alert without an owner has no row. *)
OrphansAreDeleted == \A a \in Alerts : a \notin owned => row[a] = "deleted"

(* What a session would deactivate has been announced, or its row is gone  *)
(* and the commit will fail or pass it over.                               *)
PendingAnnounced ==
    \A w \in Workers : \A a \in dirty[w] : a \in told \/ row[a] = "deleted"

(* DeactivatedMeansNotified alone is not inductive: it says nothing of the *)
(* deactivations that sessions hold, which are committed later.            *)
IInv ==
    /\ TypeOK
    /\ OrphansAreDeleted
    /\ PendingAnnounced
    /\ DeactivatedMeansNotified

(* Nothing is stored, held or announced at first. *)
LEMMA InitIInv == Init => IInv
BY MonitorAssumption
   DEF Init, IInv, TypeOK, RowState, OrphansAreDeleted, PendingAnnounced,
       DeactivatedMeansNotified

(* Every action keeps the types. *)
LEMMA TypeStep == TypeOK /\ [Next]_vars => TypeOK'
<1> SUFFICES ASSUME TypeOK, [Next]_vars PROVE TypeOK'
    OBVIOUS
<1> USE MonitorAssumption DEF TypeOK, RowState
<1>1. ASSUME NEW a \in Alerts, CreateAlert(a) PROVE TypeOK'
    BY <1>1 DEF CreateAlert, world, session
<1>2. ASSUME NEW a \in Alerts, DeleteAlert(a) PROVE TypeOK'
    BY <1>2 DEF DeleteAlert, world, session
<1>3. ASSUME NEW a \in Alerts, RemoveOwner(a) PROVE TypeOK'
    BY <1>3 DEF RemoveOwner, world, session
<1>4. ASSUME NEW a \in Alerts, FareMoves(a) PROVE TypeOK'
    BY <1>4 DEF FareMoves, database, session
<1>5. ASSUME NEW a \in Alerts, MailChanges(a) PROVE TypeOK'
    BY <1>5 DEF MailChanges, database, session
<1>6. CASE Beat
    BY <1>6 DEF Beat, database, world, session
<1>7. ASSUME NEW w \in Workers, ListActive(w) PROVE TypeOK'
    BY <1>7 DEF ListActive, database, world
<1>8. ASSUME NEW w \in Workers, NEW a \in Alerts, CheckPrice(w, a) PROVE TypeOK'
    BY <1>8 DEF CheckPrice, database, world
<1>9. ASSUME NEW w \in Workers, Notify(w) PROVE TypeOK'
    BY <1>9 DEF Notify, Deliver, Deactivate, database, world
<1>10. ASSUME NEW w \in Workers, SkipMissingOwner(w) PROVE TypeOK'
    BY <1>10 DEF SkipMissingOwner, Deactivate, database, world
<1>11. ASSUME NEW w \in Workers, NotifyFails(w) PROVE TypeOK'
    BY <1>11 DEF NotifyFails, Deliver, Forget, database, world
<1>12. ASSUME NEW w \in Workers, Commit(w) PROVE TypeOK'
    BY <1>12 DEF Commit, Forget, world
<1>13. ASSUME NEW w \in Workers, CommitFindsRowGone(w) PROVE TypeOK'
    BY <1>13 DEF CommitFindsRowGone, Forget, database, world
<1>14. ASSUME NEW w \in Workers, CommitSkipsGoneRows(w) PROVE TypeOK'
    BY <1>14 DEF CommitSkipsGoneRows, Forget, world
<1>15. ASSUME NEW w \in Workers, Crash(w) PROVE TypeOK'
    BY <1>15 DEF Crash, Forget, database, world
<1>16. CASE UNCHANGED vars
    BY <1>16 DEF vars, database, world, session
<1> QED  BY <1>1, <1>2, <1>3, <1>4, <1>5, <1>6, <1>7, <1>8, <1>9, <1>10, <1>11, <1>12,
            <1>13, <1>14, <1>15, <1>16 DEF Next, RunStep

(* Every action keeps the inductive invariant. *)
LEMMA NextIInv == IInv /\ [Next]_vars => IInv'
<1> SUFFICES ASSUME IInv, [Next]_vars PROVE IInv'
    OBVIOUS
<1> DEFINE Rest == OrphansAreDeleted /\ PendingAnnounced /\ DeactivatedMeansNotified
<1> SUFFICES Rest'
    BY TypeStep DEF IInv
<1>t. TypeOK /\ Rest
    BY DEF IInv
<1> USE MonitorAssumption, <1>t DEF OrphansAreDeleted, PendingAnnounced, DeactivatedMeansNotified
<1>1. ASSUME NEW a \in Alerts, CreateAlert(a) PROVE Rest'
    BY <1>1 DEF CreateAlert, session, TypeOK
<1>2. ASSUME NEW a \in Alerts, DeleteAlert(a) PROVE Rest'
    BY <1>2 DEF DeleteAlert, session, TypeOK
<1>3. ASSUME NEW a \in Alerts, RemoveOwner(a) PROVE Rest'
    BY <1>3 DEF RemoveOwner, session, TypeOK
<1>4. ASSUME NEW a \in Alerts, FareMoves(a) \/ MailChanges(a) PROVE Rest'
    BY <1>4 DEF FareMoves, MailChanges, database, session
<1>5. CASE Beat
    BY <1>5 DEF Beat, database, session
<1>6. ASSUME NEW w \in Workers, ListActive(w) PROVE Rest'
    BY <1>6 DEF ListActive, database
<1>7. ASSUME NEW w \in Workers, NEW a \in Alerts, CheckPrice(w, a) PROVE Rest'
    BY <1>7 DEF CheckPrice, database
<1>8. ASSUME NEW w \in Workers, Notify(w) PROVE Rest'
  <2>1. met[w] \in Alerts
      BY <1>8 DEF Notify, TypeOK
  <2>2. told' = told \cup {met[w]}
      BY <1>8 DEF Notify, Deliver
  <2>3. ASSUME NEW v \in Workers PROVE dirty'[v] \subseteq dirty[v] \cup {met[w]}
      BY <1>8 DEF Notify, Deactivate, TypeOK
  <2>4. PendingAnnounced'
      BY <1>8, <2>2, <2>3 DEF Notify, database, TypeOK
  <2> QED  BY <1>8, <2>2, <2>4 DEF Notify, database
<1>9. ASSUME NEW w \in Workers, SkipMissingOwner(w) PROVE Rest'
  <2>1. met[w] \in Alerts /\ row[met[w]] = "deleted"
      BY <1>9 DEF SkipMissingOwner, TypeOK
  <2>2. ASSUME NEW v \in Workers PROVE dirty'[v] \subseteq dirty[v] \cup {met[w]}
      BY <1>9 DEF SkipMissingOwner, Deactivate, TypeOK
  <2> QED  BY <1>9, <2>1, <2>2 DEF SkipMissingOwner, database
<1>10. ASSUME NEW w \in Workers, NotifyFails(w) PROVE Rest'
  <2>1. told \subseteq told'
      BY <1>10 DEF NotifyFails, Deliver
  <2>2. ASSUME NEW v \in Workers PROVE dirty'[v] \subseteq dirty[v]
      BY <1>10 DEF NotifyFails, Forget, TypeOK
  <2> QED  BY <1>10, <2>1, <2>2 DEF NotifyFails, database, TypeOK
<1>11. ASSUME NEW w \in Workers, Commit(w) \/ CommitSkipsGoneRows(w) PROVE Rest'
  <2> USE DEF Commit, CommitSkipsGoneRows
  <2>1. ASSUME NEW v \in Workers PROVE dirty'[v] \subseteq dirty[v]
      BY <1>11 DEF Forget, TypeOK
  <2>2. \A a \in Alerts : row[a] = "deleted" => row'[a] = "deleted"
      BY <1>11
  <2>3. \A a \in Alerts : row'[a] = "inactive" =>
            row[a] = "inactive" \/ (a \in dirty[w] /\ row[a] # "deleted")
      BY <1>11
  <2>4. told' = told /\ owned' = owned
      BY <1>11
  <2>5. PendingAnnounced'
      BY <2>1, <2>2, <2>4 DEF TypeOK
  <2>6. DeactivatedMeansNotified'
      BY <2>3, <2>4
  <2> QED  BY <2>2, <2>4, <2>5, <2>6
<1>12. ASSUME NEW w \in Workers, CommitFindsRowGone(w) \/ Crash(w) PROVE Rest'
    BY <1>12 DEF CommitFindsRowGone, Crash, Forget, database, TypeOK
<1>13. CASE UNCHANGED vars
    BY <1>13 DEF vars, database, session
<1> QED  BY <1>1, <1>2, <1>3, <1>4, <1>5, <1>6, <1>7, <1>8, <1>9, <1>10, <1>11, <1>12,
            <1>13 DEF Next, RunStep

(* The inductive invariant holds in every reachable state. *)
THEOREM MonitorInvariant == Spec => []IInv
BY InitIInv, NextIInv, PTL DEF Spec

-----------------------------------------------------------------------------
(* The variables keep their types. *)
THEOREM MonitorTypeCorrect == Spec => []TypeOK
<1>1. IInv => TypeOK
    BY DEF IInv
<1> QED  BY <1>1, MonitorInvariant, PTL

(* No alert is switched off without its owner having been told, however    *)
(* many workers run, fail and crash.                                       *)
THEOREM NoSilentTrigger == Spec => []DeactivatedMeansNotified
<1>1. IInv => DeactivatedMeansNotified
    BY DEF IInv
<1> QED  BY <1>1, MonitorInvariant, PTL

(* No run brings back an alert that was deleted after the run listed it.   *)
THEOREM NoStaleWriteBack == Spec => DeletedStaysDeleted
<1> DEFINE Stays == \A a \in Alerts : row[a] = "deleted" => row'[a] = "deleted"
<1>1. IInv /\ [Next]_vars => [Stays]_vars
  <2> SUFFICES ASSUME IInv, Next, NEW a \in Alerts, row[a] = "deleted"
               PROVE  row'[a] = "deleted"
      OBVIOUS
  <2> USE DEF IInv, TypeOK
  <2>1. ASSUME NEW b \in Alerts,
               CreateAlert(b) \/ DeleteAlert(b) \/ RemoveOwner(b) \/ FareMoves(b) \/ MailChanges(b)
        PROVE  row'[a] = "deleted"
      BY <2>1 DEF CreateAlert, DeleteAlert, RemoveOwner, FareMoves, MailChanges, database
  <2>2. ASSUME NEW w \in Workers, Commit(w) \/ CommitSkipsGoneRows(w) PROVE row'[a] = "deleted"
      BY <2>2 DEF Commit, CommitSkipsGoneRows
  <2>3. ASSUME NEW w \in Workers,
               \/ ListActive(w) \/ Crash(w)
               \/ RunStep(w) /\ ~Commit(w) /\ ~CommitSkipsGoneRows(w)
        PROVE  row'[a] = "deleted"
      BY <2>3 DEF ListActive, Crash, RunStep, CheckPrice, Notify, SkipMissingOwner,
         NotifyFails, CommitFindsRowGone, database
  <2>4. CASE Beat
      BY <2>4 DEF Beat, database
  <2> QED  BY <2>1, <2>2, <2>3, <2>4 DEF Next
<1> QED  BY <1>1, MonitorInvariant, PTL DEF Spec, DeletedStaysDeleted

=============================================================================
