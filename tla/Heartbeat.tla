----------------------------- MODULE Heartbeat -----------------------------
(***************************************************************************)
(* The heartbeat loop, Run and beat of internal/heartbeat/heartbeat.go,    *)
(* under config reloads, slow or failing submissions and shutdown.         *)
(*                                                                         *)
(* Time is discrete and the loop acts at once when its timer fires: what   *)
(* is bounded here are the waits it sets itself.  A submission takes up to *)
(* MaxSubmit, which NrdpClient shows to exist: there is no deadline for    *)
(* the whole of it but the attempts' own.                                  *)
(***************************************************************************)
EXTENDS Integers

CONSTANTS Intervals,    \* heartbeat.interval in the configs of this model
          Hosts,        \* heartbeat.host likewise
          IdleInterval, \* heartbeat.go: the wait while the heartbeat is off
          MaxSubmit     \* the longest a submission takes

ASSUME HeartbeatAssumption == /\ Intervals \subseteq Nat \ {0}
                              /\ IdleInterval \in Nat \ {0}
                              /\ MaxSubmit \in Nat

\* The configs of a run of the server have a longest interval.
ASSUME LongestInterval == \E w \in Intervals \cup {IdleInterval} :
                              \A i \in Intervals \cup {IdleInterval} : i <= w

Configs == [Enabled : BOOLEAN, Interval : Intervals, Host : Hosts]

VARIABLES pc,           \* "top", "wait", "fired", "submit" or "returned"
          cfg,          \* the heartbeat config a reload has made current
          planned,      \* the config the loop read before it waited
          left,         \* what is left of the timer, or of the submission
          beating,      \* the config of the beat in progress
          cancelled,    \* ctx has been cancelled
          unread,       \* history: how long the loop has not looked at a reload
          silent        \* history: time since a beat began, or could not have

vars == <<pc, cfg, planned, left, beating, cancelled, unread, silent>>

\* unread when the loop has seen the current config.
None == -1

Larger(a, b) == IF a < b THEN b ELSE a

\* No wait is longer than this.
MaxWait == CHOOSE w \in Intervals \cup {IdleInterval} :
              \A i \in Intervals \cup {IdleInterval} : i <= w

\* The drain of the new timer is done.
Init == /\ cfg \in Configs
        /\ pc = "top"
        /\ planned = cfg
        /\ left = 0
        /\ beating = cfg
        /\ cancelled = FALSE
        /\ unread = None
        /\ silent = 0

-----------------------------------------------------------------------------
(* The loop.                                                               *)

\* src() has been called: the loop knows the current config.
read == unread' = None

\* Faulty variant: the timer is extended instead of reset.
PlanExtends == /\ pc = "top"
               /\ pc' = "wait"
               /\ planned' = cfg
               /\ left' = left + IF cfg.Enabled THEN cfg.Interval ELSE IdleInterval
               /\ read
               /\ silent' = IF cfg.Enabled /\ unread = None THEN silent ELSE 0
               /\ UNCHANGED <<cfg, beating, cancelled>>

\* Faulty variant: the interval of the config is forgotten.
PlanIdle == /\ pc = "top"
            /\ pc' = "wait"
            /\ planned' = cfg
            /\ left' = IdleInterval
            /\ read
            /\ silent' = IF cfg.Enabled /\ unread = None THEN silent ELSE 0
            /\ UNCHANGED <<cfg, beating, cancelled>>

\* The wait is set from the config of this moment.
Plan == /\ pc = "top"
        /\ pc' = "wait"
        /\ planned' = cfg
        /\ left' = IF cfg.Enabled THEN cfg.Interval ELSE IdleInterval
        /\ read
        /\ silent' = IF cfg.Enabled /\ unread = None THEN silent ELSE 0
        /\ UNCHANGED <<cfg, beating, cancelled>>

\* case <-timer.C
Fire == /\ pc = "wait"
        /\ left = 0
        /\ pc' = "fired"
        /\ UNCHANGED <<cfg, planned, left, beating, cancelled, unread, silent>>

\* Faulty variant: the config read before the wait is used after it.
BeatPlanned == /\ pc = "fired"
               /\ planned.Enabled
               /\ pc' = "submit"
               /\ left' = MaxSubmit
               /\ beating' = planned
               /\ silent' = 0
               /\ read
               /\ UNCHANGED <<cfg, planned, cancelled>>

\* The config is read again; beat builds its checkresult and submits it.
Beat == /\ pc = "fired"
        /\ cfg.Enabled
        /\ pc' = "submit"
        /\ left' = MaxSubmit
        /\ beating' = cfg
        /\ silent' = 0
        /\ read
        /\ UNCHANGED <<cfg, planned, cancelled>>

\* The config has been turned off.
Skip == /\ pc = "fired"
        /\ ~ cfg.Enabled
        /\ pc' = "top"
        /\ read
        /\ UNCHANGED <<cfg, planned, left, beating, cancelled, silent>>

\* Faulty variant: a failed beat ends the loop.
BeatDoneOrReturn == /\ pc = "submit"
                    /\ pc' \in {"top", "returned"}
                    /\ UNCHANGED <<cfg, planned, left, beating, cancelled,
                                   unread, silent>>

\* Submit returns, with or without an error: the loop goes on either way.
BeatDone == /\ pc = "submit"
            /\ pc' = "top"
            /\ UNCHANGED <<cfg, planned, left, beating, cancelled, unread, silent>>

\* Faulty variant: the wait does not listen to the context.
ReturnMissing == pc = "wait" /\ FALSE

\* case <-ctx.Done()
Return == /\ pc = "wait"
          /\ cancelled
          /\ pc' = "returned"
          /\ UNCHANGED <<cfg, planned, left, beating, cancelled, unread, silent>>

Loop == Plan \/ Fire \/ Beat \/ Skip \/ BeatDone \/ Return

-----------------------------------------------------------------------------
(* Its surroundings.                                                       *)

\* A reload makes another heartbeat config current; it takes effect when the
\* loop next looks.
Reload(c) == /\ cfg' = c
             /\ unread' = 0
             /\ UNCHANGED <<pc, planned, left, beating, cancelled, silent>>

Cancel == /\ ~ cancelled
          /\ cancelled' = TRUE
          /\ UNCHANGED <<pc, cfg, planned, left, beating, unread, silent>>

\* Time passes while the loop waits; neither a timer nor a submission runs
\* over.  Once ctx is cancelled, the loop has nothing to wait for.
Tick == /\ pc \in {"wait", "submit"}
        /\ left > 0
        /\ ~ cancelled
        /\ left' = left - 1
        /\ silent' = silent + 1
        /\ unread' = IF unread = None THEN None ELSE unread + 1
        /\ UNCHANGED <<pc, cfg, planned, beating, cancelled>>

Next == Loop \/ Cancel \/ Tick \/ \E c \in Configs : Reload(c)

Spec == Init /\ [][Next]_vars

\* The loop's goroutine runs and the clock advances.
FairSpec == Spec /\ WF_vars(Loop) /\ WF_vars(Tick)

-----------------------------------------------------------------------------
TypeOK == /\ pc \in {"top", "wait", "fired", "submit", "returned"}
          /\ cfg \in Configs
          /\ planned \in Configs
          /\ left \in 0 .. Larger(MaxWait, MaxSubmit)
          /\ beating \in Configs
          /\ cancelled \in BOOLEAN
          /\ unread \in Nat \cup {None}
          /\ silent \in Nat

\* A beat goes where the config of the moment says, and only if that has the
\* heartbeat on, even if a reload came while the loop was waiting: a target
\* that has been given up is not kept fresh.  A reload is noticed as soon as the
\* wait or the submission it meets is over, which may be a wait for an interval
\* given up long ago.
BeatsFollowReload ==
    /\ (pc = "submit" /\ unread = None) => cfg.Enabled /\ beating = cfg
    /\ unread <= Larger(MaxWait, MaxSubmit)

\* While the heartbeat is on, a beat begins at most one interval after the last
\* submission has returned: freshness thresholds need to allow for one interval
\* and one slow submission for each beat that fails.
BeatsKeepComing ==
    (unread = None /\ cfg.Enabled) => silent <= cfg.Interval + MaxSubmit

\* A failed beat does not end the heartbeat: there is always another one, until
\* a reload turns it off or the process shuts down.
HeartbeatGoesOn ==
    (cfg.Enabled /\ ~ cancelled)
        ~> (pc = "submit" \/ ~ cfg.Enabled \/ cancelled)

\* Shutdown ends the loop wherever it is, in a wait or in a submission.
ReturnsOnCancel == cancelled ~> pc = "returned"
=============================================================================
