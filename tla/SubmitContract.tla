--------------------------- MODULE SubmitContract ---------------------------
(***************************************************************************)
(* What the webhook handler may rely on when it hands a batch to the NRDP  *)
(* client: nothing about attempts, timers or replies, only the verdict and *)
(* how often NRDP has applied the batch.                                   *)
(*                                                                         *)
(* A positive verdict needs an application that has already happened.  A   *)
(* negative one promises nothing: the batch may have been applied, or may  *)
(* still be applied later, by a POST that is on its way.                   *)
(***************************************************************************)

CONSTANT Attempts       \* one POST each; at most this many applications

VARIABLES verdict,      \* "pending", "ok" or "error"
          applied       \* the attempts NRDP has applied

vars == <<verdict, applied>>

Init == /\ verdict = "pending"
        /\ applied = {}

\* NRDP applies one more POST of the batch, at any time, even after the verdict.
Apply == \E k \in Attempts \ applied :
            /\ applied' = applied \cup {k}
            /\ UNCHANGED verdict

Succeed == /\ verdict = "pending"
           /\ applied # {}
           /\ verdict' = "ok"
           /\ UNCHANGED applied

Fail == /\ verdict = "pending"
        /\ verdict' = "error"
        /\ UNCHANGED applied

Next == Apply \/ Succeed \/ Fail

Spec == Init /\ [][Next]_vars
=============================================================================
