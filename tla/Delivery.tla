------------------------------ MODULE Delivery ------------------------------
(***************************************************************************)
(* How the state of a group of alerts gets from Alertmanager through the   *)
(* webhook (ServeHTTP of cmd/nrdp-webhook/serve.go and of                  *)
(* internal/webhook/handler.go) to the check in Nagios that stands for it, *)
(* while calls overlap, requesters hang up, submissions are retried, and   *)
(* the process is stopped, killed and restarted (runServe).                *)
(*                                                                         *)
(* A call keeps the contract of SubmitContract: of the POSTs of a          *)
(* submission any number may be applied, at any time, even after its       *)
(* verdict or the death of the process; the verdict is positive only after *)
(* one of them.  Alertmanager, NRDP and the supervisor are external.       *)
(***************************************************************************)
EXTENDS Integers

CONSTANTS Slots,        \* calls that can be in flight at a time
          Retries,      \* nrdp.retries
          Firing,       \* the revisions in which some alert is firing
          MaxRev,       \* bound: changes of the alerts' state
          MaxRestarts   \* bound: ends of the process

NoRev == -1
Revs == 0 .. MaxRev
Attempts == 0 .. Retries

CONSTANT NoSlot         \* Alertmanager waits for no call

ASSUME DeliveryAssumption == /\ NoSlot \notin Slots
                             /\ Retries \in Nat
                             /\ MaxRev \in Nat
                             /\ MaxRestarts \in Nat
                             /\ Firing \subseteq Revs

VARIABLES truth,        \* the revision of the alerts' state
          flush,        \* the revision Alertmanager is notifying, if any
          awaits,       \* the call whose answer it waits for, if any
          acked,        \* the last revision it has had a 200 for
          proc,         \* the webhook process
          restarts,     \* how often it has ended
          at,           \* at[s]: where the call in s is
          rev,          \* rev[s]: the revision its payload carries
          applied,      \* applied[s]: those of its POSTs NRDP has applied
          shown,        \* the revision the check in Nagios shows
          settled       \* history: revisions applied, or mapped to nothing

alertmanager == <<flush, awaits, acked>>
process      == <<proc, restarts>>
calls        == <<at, rev, applied>>
nagios       == <<shown, settled>>
vars == <<truth, alertmanager, process, calls, nagios>>

\* "called": not yet mapped; "submitting"; "ok": Submit has returned nil;
\* "answered": Alertmanager has the 200; "stray": it will never get one.  In the
\* last two only POSTs that are still on the wire are left of the call.
Places == {"free", "called", "submitting", "ok", "answered", "stray"}

TypeOK == /\ truth \in Revs
          /\ flush \in Revs \cup {NoRev}
          /\ awaits \in Slots \cup {NoSlot}
          /\ acked \in Revs
          /\ proc \in {"serving", "closing", "down"}
          /\ restarts \in 0 .. MaxRestarts
          /\ at \in [Slots -> Places]
          /\ rev \in [Slots -> Revs]
          /\ applied \in [Slots -> SUBSET Attempts]
          /\ shown \in Revs
          /\ settled \in SUBSET Revs

Init == /\ truth = 0
        /\ flush = NoRev
        /\ awaits = NoSlot
        /\ acked = 0
        /\ proc = "serving"
        /\ restarts = 0
        /\ at = [s \in Slots |-> "free"]
        /\ rev = [s \in Slots |-> 0]
        /\ applied = [s \in Slots |-> {}]
        /\ shown = 0
        /\ settled = {0}

-----------------------------------------------------------------------------
(* Alertmanager: external.                                                 *)

Change == /\ truth < MaxRev
          /\ truth' = truth + 1
          /\ UNCHANGED <<alertmanager, process, calls, nagios>>

\* A notification is due: alerts fire, for the first time or still after
\* repeat_interval, or all of those last notified have resolved.
Flush == /\ flush = NoRev
         /\ truth \in Firing \/ acked \in Firing
         /\ flush' = truth
         /\ UNCHANGED <<truth, awaits, acked, process, calls, nagios>>

\* The notification is POSTed, for the first time or as a retry.
Send(s) == /\ flush # NoRev
           /\ awaits = NoSlot
           /\ proc = "serving"
           /\ at[s] = "free"
           /\ awaits' = s
           /\ at' = [at EXCEPT ![s] = "called"]
           /\ rev' = [rev EXCEPT ![s] = flush]
           /\ applied' = [applied EXCEPT ![s] = {}]
           /\ UNCHANGED <<truth, flush, acked, process, nagios>>

\* The request fails on Alertmanager's side: its timeout, a broken connection,
\* or the response lost to the WriteTimeout of the listener.  It will retry.
HangUp == /\ awaits # NoSlot
          /\ awaits' = NoSlot
          /\ UNCHANGED <<truth, flush, acked, process, calls, nagios>>

\* The time for this notification is over; the next one carries the state as
\* it then is.
Abandon == /\ flush # NoRev
           /\ flush' = NoRev
           /\ awaits' = NoSlot
           /\ UNCHANGED <<truth, acked, process, calls, nagios>>

\* Alertmanager gets a 200 for call s, if it is still there to hear it.
hear200(s) == IF s = awaits
              THEN acked' = rev[s] /\ flush' = NoRev /\ awaits' = NoSlot
              ELSE UNCHANGED alertmanager

\* Alertmanager gets an error for call s: it retries after a 5xx and leaves it
\* at that after a 4xx.
hearError(s) == IF s = awaits
                THEN /\ flush' \in {flush, NoRev}
                     /\ awaits' = NoSlot
                     /\ UNCHANGED acked
                ELSE UNCHANGED alertmanager

-----------------------------------------------------------------------------
(* The webhook's ServeHTTP.                                                *)

alive(s, place) == proc # "down" /\ at[s] = place

go(s, place) == at' = [at EXCEPT ![s] = place]

\* 401, 400, 413 or 503: nothing is submitted.
Refuse(s) == /\ alive(s, "called")
             /\ go(s, "free")
             /\ hearError(s)
             /\ UNCHANGED <<truth, process, rev, applied, nagios>>

\* The config maps none of the alerts: answered with 200 all the same.
Skip(s) == /\ alive(s, "called")
           /\ go(s, "free")
           /\ settled' = settled \cup {rev[s]}
           /\ hear200(s)
           /\ UNCHANGED <<truth, process, rev, applied, shown>>

\* The mapped alerts are handed to Client.Submit, with a context that does not
\* end with the request.
Submit(s) == /\ alive(s, "called")
             /\ go(s, "submitting")
             /\ UNCHANGED <<truth, alertmanager, process, rev, applied, nagios>>

\* Faulty variant: Submit reports success whatever the attempts have brought.
SucceedUnchecked(s) == /\ alive(s, "submitting")
                       /\ go(s, "ok")
                       /\ UNCHANGED <<truth, alertmanager, process, rev, applied,
                                      nagios>>

\* Submit returns nil.
Succeed(s) == /\ alive(s, "submitting")
              /\ applied[s] # {}
              /\ go(s, "ok")
              /\ UNCHANGED <<truth, alertmanager, process, rev, applied, nagios>>

\* Faulty variant: the error is logged, and the answer is 200.
FailUnnoticed(s) == /\ alive(s, "submitting")
                    /\ go(s, IF s = awaits THEN "answered" ELSE "stray")
                    /\ hear200(s)
                    /\ UNCHANGED <<truth, process, rev, applied, nagios>>

\* Faulty variant: the submission has no deadline and does not end.
FailMissing(s) == alive(s, "submitting") /\ FALSE

\* Submit returns an error: 502.
Fail(s) == /\ alive(s, "submitting")
           /\ go(s, "stray")
           /\ hearError(s)
           /\ UNCHANGED <<truth, process, rev, applied, nagios>>

\* The 200 is written, for whoever still waits.
Answer(s) == /\ alive(s, "ok")
             /\ go(s, IF s = awaits THEN "answered" ELSE "stray")
             /\ hear200(s)
             /\ UNCHANGED <<truth, process, rev, applied, nagios>>

Handler(s) == Refuse(s) \/ Skip(s) \/ Submit(s) \/ Succeed(s) \/ Fail(s) \/ Answer(s)

-----------------------------------------------------------------------------
(* The process, and what ends and starts it.                               *)

\* SIGTERM: Shutdown closes the listener, and ListenAndServe returns at once.
Stop == /\ proc = "serving"
        /\ restarts < MaxRestarts
        /\ proc' = "closing"
        /\ UNCHANGED <<truth, alertmanager, restarts, calls, nagios>>

\* Faulty variant: the pending calls are answered on the way out.
ExitAnswering == /\ proc # "down"
                 /\ restarts < MaxRestarts
                 /\ proc' = "down"
                 /\ restarts' = restarts + 1
                 /\ at' = [s \in Slots |-> CASE at[s] = "called" -> "free"
                                             [] at[s] \in {"submitting", "ok"} -> "stray"
                                             [] OTHER -> at[s]]
                 /\ IF awaits = NoSlot THEN UNCHANGED alertmanager ELSE hear200(awaits)
                 /\ UNCHANGED <<truth, rev, applied, nagios>>

\* runServe returns, without waiting for the calls Shutdown waits for, or the
\* process is killed.  The requests it has are cut off; their POSTs that are
\* on the wire are not.
Exit == /\ proc # "down"
        /\ restarts < MaxRestarts
        /\ proc' = "down"
        /\ restarts' = restarts + 1
        /\ at' = [s \in Slots |-> CASE at[s] = "called" -> "free"
                                    [] at[s] \in {"submitting", "ok"} -> "stray"
                                    [] OTHER -> at[s]]
        /\ awaits' = NoSlot
        /\ UNCHANGED <<truth, flush, acked, rev, applied, nagios>>

\* The supervisor starts the process again, and its config loads.
Restart == /\ proc = "down"
           /\ proc' = "serving"
           /\ UNCHANGED <<truth, alertmanager, restarts, calls, nagios>>

-----------------------------------------------------------------------------
(* NRDP and Nagios: external.                                              *)

\* Faulty variant: the loop of Submit makes one attempt too many.
postsOffByOne == 0 .. Retries + 1

\* The POSTs one submission makes.
posts == Attempts

\* One of the POSTs of call s is applied, which may long be over.
Apply(s) == /\ at[s] \in {"submitting", "ok", "answered", "stray"}
            /\ \E k \in posts \ applied[s] :
                  applied' = [applied EXCEPT ![s] = @ \cup {k}]
            /\ shown' = rev[s]
            /\ settled' = settled \cup {rev[s]}
            /\ UNCHANGED <<truth, alertmanager, process, at, rev>>

\* None of its POSTs will be applied any more.
Fade(s) == /\ at[s] \in {"answered", "stray"}
           /\ go(s, "free")
           /\ UNCHANGED <<truth, alertmanager, process, rev, applied, nagios>>

-----------------------------------------------------------------------------
Next == \/ Change \/ Flush \/ HangUp \/ Abandon
        \/ Stop \/ Exit \/ Restart
        \/ \E s \in Slots : Send(s) \/ Handler(s) \/ Apply(s) \/ Fade(s)

Spec == Init /\ [][Next]_vars

\* A goroutine that can run does, the supervisor restarts the process, and no
\* POST is on the wire for ever.  Alertmanager does not give up a notification
\* every time before it has sent it.  If calls for the present state keep
\* coming, neither the credentials and the config nor NRDP turn down every one
\* of them: without that, no webhook could deliver anything.
current(s) == rev[s] = truth

Fairness ==
    /\ WF_vars(Flush) /\ WF_vars(Abandon)
    /\ WF_vars(Exit /\ proc = "closing") /\ WF_vars(Restart)
    /\ \A s \in Slots : WF_vars(Handler(s)) /\ WF_vars(Fade(s))
    /\ SF_vars(\E s \in Slots : Send(s))
    /\ SF_vars(\E s \in Slots : current(s) /\ Submit(s))
    /\ SF_vars(\E s \in Slots : current(s) /\ at[s] = "submitting" /\ Apply(s))

FairSpec == Spec /\ Fairness

-----------------------------------------------------------------------------
\* Whatever Alertmanager counts as notified, Nagios has been told, or the rules
\* map to nothing: not a hang-up, a failed submission, a shutdown nor a kill
\* makes an alert disappear that nobody will send again.
AckedIsSettled == acked \in settled

\* Nobody waits for the answer of call s any more, or has had one.
abandoned(s) == s # awaits /\ at[s] \in {"submitting", "ok", "stray"}

\* Nagios goes back to an older state only by a late POST: of a call that
\* Alertmanager has given up, or of an attempt that was repeated.  A call that is
\* waited for or was answered with 200 sets nothing back for the first time.
StepBackIsStray ==
    [][shown' < shown =>
          \E s \in Slots : /\ applied'[s] # applied[s]
                           /\ abandoned(s) \/ applied[s] # {}]_vars

\* Alerts that fire come to be shown, and come to be shown again if something
\* older has overwritten them, as long as they go on firing.
FiringIsShown ==
    \A r \in Firing : (truth = r) ~> (shown = r \/ truth # r)

\* Seen from outside, the webhook delivers at least once.
Promise == INSTANCE AtLeastOnce

ImplementsAtLeastOnce == Promise!Spec
=============================================================================
