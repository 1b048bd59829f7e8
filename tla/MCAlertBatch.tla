---------------------------- MODULE MCAlertBatch ----------------------------
(***************************************************************************)
(* Instance of AlertBatch for TLC.                                         *)
(*                                                                         *)
(* The service check s1 is shared by three firing alerts (critical,        *)
(* warning, and unknown: numerically the largest code, but not the most    *)
(* severe) and two resolved ones, whose state is configured to be unknown; *)
(* the host check h1 by two firing ones; s2 has one alert; and there is    *)
(* one alert for every fate that skips it.                                 *)
(***************************************************************************)
EXTENDS AlertBatch

CONSTANTS crit, warn, unkn, gone1, gone2, down, unre, solo,
          norule, badrule, noname, s1, s2, h1

MCAlerts  == {crit, warn, unkn, gone1, gone2, down, unre, solo,
              norule, badrule, noname}
MCTargets == {s1, s2, h1}
MCCheckTypeOf == [t \in MCTargets |-> IF t = h1 THEN "host" ELSE "service"]
MCFiring == MCAlerts \ {gone1, gone2}
MCFate == [a \in MCAlerts |-> CASE a = norule  -> "unmatched"
                                [] a = badrule -> "error"
                                [] a = noname  -> "invalid"
                                [] OTHER       -> "entry"]
MCTargetOf == [a \in MCAlerts |-> CASE a \in {down, unre} -> h1
                                    [] a = solo           -> s2
                                    [] OTHER              -> s1]
MCCodeOf == [a \in MCAlerts |-> CASE a \in {unkn, gone1, gone2} -> 3
                                  [] a \in {crit, unre}         -> 2
                                  [] a \in {warn, down, solo}   -> 1
                                  [] OTHER                      -> 0]

\* A summary template that takes a firing member for granted, such as
\* {{ (index .FiringAlerts 0).Fingerprint }}, fails on a group in which all
\* members have resolved.
MCSummaryFails == (SUBSET {gone1, gone2}) \ {{}}
=============================================================================
