---------------------------- MODULE StateMapping ----------------------------
(***************************************************************************)
(* The state map of one check type on its way from the config file through *)
(* Parse (internal/config/config.go), which fills in what it leaves out    *)
(* and then validates it, to the resolver, which scores one alert after    *)
(* the other (internal/nrdpstate/state.go).                                *)
(***************************************************************************)
EXTENDS StateResolver

CONSTANT MaxAlerts      \* bound: alerts scored

VARIABLES checkType,    \* the check type whose state map this is
          m,            \* its state map, as written and then as defaulted
          pc,           \* "written", "loaded" or "rejected"
          codes         \* the codes of the alerts scored so far

vars == <<checkType, m, pc, codes>>

-----------------------------------------------------------------------------
Init == /\ checkType \in CheckTypes
        /\ m \in Written
        /\ pc = "written"
        /\ codes = <<>>

\* Parse: defaults first, then validation; a config is taken or rejected.
Load == /\ pc = "written"
        /\ LET d == applyDefaults(checkType, m)
           IN  IF validateStateMap(checkType, d)
               THEN pc' = "loaded" /\ m' = d
               ELSE pc' = "rejected" /\ UNCHANGED m
        /\ UNCHANGED <<checkType, codes>>

\* Parse rejects the config for something else.
Refuse == /\ pc = "written"
          /\ pc' = "rejected"
          /\ UNCHANGED <<checkType, m, codes>>

\* The resolver scores one more alert.
Score == /\ pc = "loaded"
         /\ Len(codes) < MaxAlerts
         /\ \E resolved \in BOOLEAN, s \in Keys :
               codes' = Append(codes, state(checkType, m, resolved, s))
         /\ UNCHANGED <<checkType, m, pc>>

Next == Load \/ Refuse \/ Score

Spec == Init /\ [][Next]_vars

-----------------------------------------------------------------------------
TypeOK == /\ checkType \in CheckTypes
          /\ m \in StateMaps
          /\ pc \in {"written", "loaded", "rejected"}
          /\ codes \in Seq(Codes(checkType))

\* No alert, whatever its status and severity, makes the resolver look up a
\* state name outside the vocabulary of its check type: the zero of a missing
\* key, which reads as OK, is never reported for an alert.
LookupsNeverMiss ==
    pc = "loaded" => \A resolved \in BOOLEAN, s \in Keys :
                        stateName(m, resolved, s) \in DOMAIN States[checkType]

\* Worst returns the most severe of the scored codes, in whatever order they
\* come: no code hides a worse one, although CRITICAL is numerically below
\* UNKNOWN and DOWN below UNREACHABLE.
WorstIsMostSevere ==
    Worst(checkType, codes)
        = WorstOf(checkType, {codes[n] : n \in 1 .. Len(codes)})
=============================================================================
