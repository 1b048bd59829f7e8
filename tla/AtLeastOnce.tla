---------------------------- MODULE AtLeastOnce ----------------------------
(***************************************************************************)
(* What the webhook promises Alertmanager and Nagios about one check: no   *)
(* calls, processes, retries or requests, only the states of its alerts.   *)
(*                                                                         *)
(* Alertmanager counts a state as notified only after Nagios has been told *)
(* or the rules have passed it over, and never goes back to an older one.  *)
(* Nagios may be told more than once, late, and out of order, but never of *)
(* a state the alerts were not in.                                         *)
(***************************************************************************)
EXTENDS Integers

VARIABLES truth,        \* the revision of the alerts' state
          shown,        \* the revision the check in Nagios shows
          settled,      \* the revisions Nagios was told, or the rules ignore
          acked         \* the newest revision that was answered with 200

vars == <<truth, shown, settled, acked>>

Init == /\ truth = 0
        /\ shown = 0
        /\ settled = {0}
        /\ acked = 0

\* The alerts' state changes.
Change == /\ truth' = truth + 1
          /\ UNCHANGED <<shown, settled, acked>>

\* Nagios is told of a state the alerts are or have been in.
Tell(r) == /\ shown' = r
           /\ settled' = settled \cup {r}
           /\ UNCHANGED <<truth, acked>>

\* The rules of the config map no alert of this state.
PassOver(r) == /\ settled' = settled \cup {r}
               /\ UNCHANGED <<truth, shown, acked>>

\* Alertmanager is told that its notification of state r has been dealt with.
Acknowledge(r) == /\ r \in settled
                  /\ r >= acked
                  /\ acked' = r
                  /\ UNCHANGED <<truth, shown, settled>>

\* A notification passed over is answered in the same step.
PassOverNow(r) == /\ r >= acked
                  /\ settled' = settled \cup {r}
                  /\ acked' = r
                  /\ UNCHANGED <<truth, shown>>

Next == \/ Change
        \/ \E r \in 0 .. truth : \/ Tell(r)
                                 \/ PassOver(r)
                                 \/ Acknowledge(r)
                                 \/ PassOverNow(r)

Spec == Init /\ [][Next]_vars
=============================================================================
