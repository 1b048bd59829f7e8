---------------------------- MODULE NagiosStates ----------------------------
(***************************************************************************)
(* The state vocabularies of Nagios (internal/config/config.go) and the    *)
(* order of severity that is not the order of the codes                    *)
(* (internal/nrdpstate/state.go).                                          *)
(***************************************************************************)
EXTENDS Integers

CheckTypes == {"service", "host"}

\* Faulty variant: the host states are numbered after the service ones.
StatesMiscoded == [service |-> [ok |-> 0, warning |-> 1, critical |-> 2, unknown |-> 3],
                   host    |-> [up |-> 0, down |-> 2, unreachable |-> 3]]

\* ServiceStates and HostStates: state names to Nagios codes.
States == [service |-> [ok |-> 0, warning |-> 1, critical |-> 2, unknown |-> 3],
           host    |-> [up |-> 0, down |-> 1, unreachable |-> 2]]

\* The codes a check of type t can hold.
Codes(t) == IF t = "host" THEN 0 .. 2 ELSE 0 .. 3

\* ok < warning < unknown < critical, and up < unreachable < down.
severity == [service |-> [c \in 0 .. 3 |-> CASE c = 0 -> 0 [] c = 1 -> 1
                                             [] c = 2 -> 3 [] c = 3 -> 2],
             host    |-> [c \in 0 .. 2 |-> CASE c = 0 -> 0 [] c = 1 -> 2
                                             [] c = 2 -> 1]]

\* The most severe of a set of codes a check of type t can hold; OK or UP for
\* none.  What the loop of Worst computes for codes of the vocabulary.
WorstOf(t, S) ==
    IF S = {} THEN 0
    ELSE CHOOSE c \in S : \A d \in S : severity[t][d] <= severity[t][c]
=============================================================================
