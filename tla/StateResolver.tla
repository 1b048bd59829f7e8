--------------------------- MODULE StateResolver ---------------------------
(***************************************************************************)
(* How an alert gets its Nagios code: a state map of the config is filled  *)
(* in by applyDefaults and checked by validateStateMap (internal/config),  *)
(* Resolver.state looks the alert up in it, and Worst (both                *)
(* internal/nrdpstate) picks the most severe of several codes.             *)
(*                                                                         *)
(* state looks names up without checking that they exist, and a missing    *)
(* one would read as 0, which is OK: the system relies on Parse to let no  *)
(* state map through that can produce a name outside the vocabulary.       *)
(***************************************************************************)
EXTENDS NagiosStates, Sequences

CONSTANTS Severities,   \* values the severity label takes
          Names         \* what a config writes as a state name

ASSUME NamesAssumption ==
    /\ "" \in Names
    /\ \A t \in CheckTypes : DOMAIN States[t] \subseteq Names

\* An absent label reads as the empty string.
Keys == Severities \cup {""}

\* given is FALSE for a nil Values; an omitted name is the empty string.
StateMaps == [given : BOOLEAN, Values : UNION {[K -> Names] : K \in SUBSET Keys},
              Unmatched : Names, Resolved : Names]

\* A state map as a config file can have it: values only if it gives any.
Written == {w \in StateMaps : w.given \/ DOMAIN w.Values = {}}

-----------------------------------------------------------------------------
(* One state map.                                                          *)

\* The default values, by check type, for the severities of this model.
defaultValues(t) ==
    IF t = "host"
    THEN [s \in Keys \cap {"ok", "warning", "critical", "unknown"} |->
             IF s = "ok" THEN "up" ELSE "down"]
    ELSE [s \in Keys \cap {"ok", "warning", "critical", "unknown"} |-> s]

\* What a state map leaves out is filled in.
applyDefaults(t, w) ==
    [given     |-> TRUE,
     Values    |-> IF w.given THEN w.Values ELSE defaultValues(t),
     Unmatched |-> IF w.Unmatched # "" THEN w.Unmatched
                   ELSE IF t = "host" THEN "down" ELSE "unknown",
     Resolved  |-> IF w.Resolved # "" THEN w.Resolved
                   ELSE IF t = "host" THEN "up" ELSE "ok"]

\* Faulty variant: the state of unmatched severities is only checked for
\* being there.
validateStateMapLax(t, w) ==
    /\ \A s \in DOMAIN w.Values : w.Values[s] \in DOMAIN States[t]
    /\ w.Unmatched # ""
    /\ w.Resolved \in DOMAIN States[t]

\* Every name the map can produce is in the vocabulary (no vocabulary has an
\* empty name).
validateStateMap(t, w) ==
    /\ \A s \in DOMAIN w.Values : w.Values[s] \in DOMAIN States[t]
    /\ w.Unmatched \in DOMAIN States[t]
    /\ w.Resolved \in DOMAIN States[t]

\* The name Resolver.state arrives at: resolution wins over the severity.
stateName(w, resolved, s) ==
    IF resolved THEN w.Resolved
    ELSE IF s \in DOMAIN w.Values THEN w.Values[s]
    ELSE w.Unmatched

\* A map lookup in Go: the zero value for a key that is not there.
lookup(t, name) == IF name \in DOMAIN States[t] THEN States[t][name] ELSE 0

state(t, w, resolved, s) == lookup(t, stateName(w, resolved, s))

-----------------------------------------------------------------------------
(* Several codes.                                                          *)

\* Faulty variant: codes are compared instead of severities.
WorstNumeric(t, list) ==
    LET scan[n \in 0 .. Len(list)] ==
          IF n = 0 THEN 0
          ELSE IF list[n] > scan[n - 1] THEN list[n] ELSE scan[n - 1]
    IN  scan[Len(list)]

\* What Worst has found before the first code.
nothing == [worst |-> 0, rank |-> -1, foreign |-> FALSE]

\* One round of its loop: keep the first of the most severe codes, and leave
\* the loop with a code that the check type cannot hold.
keepWorse(t, sofar, c) ==
    IF sofar.foreign THEN sofar
    ELSE IF c \notin DOMAIN severity[t]
         THEN [sofar EXCEPT !.worst = c, !.foreign = TRUE]
    ELSE IF severity[t][c] > sofar.rank
         THEN [sofar EXCEPT !.worst = c, !.rank = severity[t][c]]
    ELSE sofar

Worst(t, list) ==
    LET scan[n \in 0 .. Len(list)] ==
          IF n = 0 THEN nothing ELSE keepWorse(t, scan[n - 1], list[n])
    IN  scan[Len(list)].worst
=============================================================================
