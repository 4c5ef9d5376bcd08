---------------------------- MODULE MCPriceMonitor ----------------------------
(* Model-checking instance of PriceMonitor.  A fare is at the target or     *)
(* there is none: the code tells no other fares apart.                      *)
EXTENDS PriceMonitor

CONSTANTS a1, a2, w1, w2

MCAlerts == {a1, a2}
MCWorkers == {w1, w2}

(* One worker already loses an alert behind another one's refused mail. *)
OneWorker == {w1}

=============================================================================
