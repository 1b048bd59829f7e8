--------------------------- MODULE HeartbeatProofs ---------------------------
(***************************************************************************)
(* What holds of the heartbeat for every set of intervals and every length *)
(* of a submission.                                                        *)
(***************************************************************************)
EXTENDS Heartbeat, TLAPS

\* The longest the loop goes without looking at the config.
Blind == Larger(MaxWait, MaxSubmit)

\* What is left of a wait is bounded by the wait's own limit, and a reload the
\* loop has not seen came at most the rest of Blind ago.
WaitInv ==
    /\ pc \in {"top", "wait", "fired", "submit", "returned"}
    /\ cfg \in Configs /\ planned \in Configs /\ beating \in Configs
    /\ cancelled \in BOOLEAN
    /\ left \in Nat /\ silent \in Nat /\ unread \in Nat \cup {None}
    /\ left <= Blind
    /\ pc \in {"top", "fired"} => unread <= Blind
    /\ pc \in {"wait", "submit", "returned"} => unread + left <= Blind

\* While the loop knows the current config: a beat goes where that says, and
\* what is left of the wait or the submission fits into the bound.
BeatInv ==
    unread = None =>
        /\ pc = "submit" => cfg.Enabled /\ beating = cfg /\ silent + left <= MaxSubmit
        /\ cfg.Enabled =>
              /\ pc = "top" => silent <= MaxSubmit
              /\ pc \in {"wait", "returned"} => silent + left <= cfg.Interval + MaxSubmit
              /\ pc = "fired" => silent <= cfg.Interval + MaxSubmit

-----------------------------------------------------------------------------
LEMMA Limits ==
    /\ MaxSubmit \in Nat /\ MaxWait \in Nat /\ Blind \in Nat
    /\ MaxWait <= Blind /\ MaxSubmit <= Blind
    /\ IdleInterval \in Nat /\ IdleInterval <= MaxWait
    /\ \A i \in Intervals : i \in Nat /\ i <= MaxWait
<1>1. Intervals \cup {IdleInterval} \subseteq Nat /\ MaxSubmit \in Nat
  BY HeartbeatAssumption
<1>2. /\ MaxWait \in Intervals \cup {IdleInterval}
      /\ \A i \in Intervals \cup {IdleInterval} : i <= MaxWait
  BY LongestInterval DEF MaxWait
<1>3. MaxWait \in Nat
  BY <1>1, <1>2
<1>4. Blind \in Nat /\ MaxWait <= Blind /\ MaxSubmit <= Blind
  BY <1>1, <1>3 DEF Blind, Larger
<1> QED BY <1>1, <1>2, <1>3, <1>4

\* The wait Plan sets: bounded by Blind, and by the interval if there is one.
LEMMA WaitSet ==
    ASSUME NEW c \in Configs
    PROVE  LET w == IF c.Enabled THEN c.Interval ELSE IdleInterval
           IN  w \in Nat /\ w <= Blind
<1>1. c.Interval \in Intervals
  BY DEF Configs
<1>2. c.Interval \in Nat /\ c.Interval <= MaxWait
  BY <1>1, Limits
<1> QED BY <1>2, Limits

LEMMA WaitInductive ==
    ASSUME WaitInv, [Next]_vars
    PROVE  WaitInv'
<1> USE Limits DEF WaitInv, None
<1>1. CASE Plan
  <2>1. left' \in Nat /\ left' <= Blind
    BY <1>1, WaitSet DEF Plan
  <2>2. silent' \in Nat
    BY <1>1 DEF Plan
  <2> QED BY <1>1, <2>1, <2>2 DEF Plan, read
<1>2. CASE Fire
  BY <1>2 DEF Fire
<1>3. CASE Beat
  BY <1>3 DEF Beat, read
<1>4. CASE Skip
  BY <1>4 DEF Skip, read
<1>5. CASE BeatDone
  BY <1>5 DEF BeatDone
<1>6. CASE Return
  BY <1>6 DEF Return
<1>7. CASE Cancel
  BY <1>7 DEF Cancel
<1>8. CASE Tick
  BY <1>8 DEF Tick
<1>9. ASSUME NEW c \in Configs, Reload(c) PROVE WaitInv'
  BY <1>9 DEF Reload
<1>10. CASE UNCHANGED vars
  BY <1>10 DEF vars
<1> QED BY <1>1, <1>2, <1>3, <1>4, <1>5, <1>6, <1>7, <1>8, <1>9, <1>10 DEF Next, Loop

LEMMA WaitsAreBounded == Spec => []WaitInv
<1>1. Init => WaitInv
  <2> SUFFICES ASSUME Init PROVE WaitInv
    OBVIOUS
  <2>1. 0 <= Blind /\ None <= Blind /\ None \in Nat \cup {None}
    BY Limits DEF None
  <2> QED BY <2>1 DEF Init, WaitInv
<1>2. WaitInv /\ [Next]_vars => WaitInv'
  BY WaitInductive
<1> QED BY <1>1, <1>2, PTL DEF Spec

LEMMA BeatInductive ==
    ASSUME WaitInv, BeatInv, [Next]_vars
    PROVE  BeatInv'
<1>1. cfg \in Configs /\ cfg.Interval \in Nat
  <2>1. cfg \in Configs
    BY DEF WaitInv
  <2> QED BY <2>1, Limits DEF Configs
<1>2. left \in Nat /\ silent \in Nat /\ MaxSubmit \in Nat
  BY Limits DEF WaitInv
<1> USE <1>1, <1>2 DEF BeatInv
<1>3. CASE Plan
  BY <1>3 DEF Plan, read
<1>4. CASE Fire
  BY <1>4 DEF Fire
<1>5. CASE Beat
  BY <1>5 DEF Beat, read
<1>6. CASE Skip
  BY <1>6 DEF Skip, read
<1>7. CASE BeatDone
  BY <1>7 DEF BeatDone
<1>8. CASE Return
  BY <1>8 DEF Return
<1>9. CASE Cancel
  BY <1>9 DEF Cancel
<1>10. CASE Tick
  BY <1>10 DEF Tick, None, WaitInv
<1>11. ASSUME NEW c \in Configs, Reload(c) PROVE BeatInv'
  BY <1>11 DEF Reload, None
<1>12. CASE UNCHANGED vars
  BY <1>12 DEF vars
<1> QED BY <1>3, <1>4, <1>5, <1>6, <1>7, <1>8, <1>9, <1>10, <1>11, <1>12
        DEF Next, Loop

LEMMA BeatsAreTimed == Spec => []BeatInv
<1>1. Init => BeatInv
  BY Limits DEF Init, BeatInv, Configs
<1>2. WaitInv /\ BeatInv /\ [Next]_vars => BeatInv'
  BY BeatInductive
<1> QED BY <1>1, <1>2, WaitsAreBounded, PTL DEF Spec

-----------------------------------------------------------------------------
\* Type correctness.  The timer never holds more than the longest wait.
THEOREM TypeCorrect == Spec => []TypeOK
<1>1. WaitInv => TypeOK
  BY Limits DEF WaitInv, TypeOK, Blind
<1> QED BY <1>1, WaitsAreBounded, PTL

\* Beats follow reloads, and no reload is overlooked for longer than the longest
\* wait or submission.
THEOREM FollowsReload == Spec => []BeatsFollowReload
<1>1. WaitInv /\ BeatInv => BeatsFollowReload
  BY Limits DEF WaitInv, BeatInv, BeatsFollowReload, Blind, None
<1> QED BY <1>1, WaitsAreBounded, BeatsAreTimed, PTL

\* For every interval and length of a submission, the next beat begins in time.
THEOREM NextBeatInTime == Spec => []BeatsKeepComing
<1>1. WaitInv /\ BeatInv => BeatsKeepComing
  <2> SUFFICES ASSUME WaitInv, BeatInv, unread = None, cfg.Enabled
               PROVE  silent <= cfg.Interval + MaxSubmit
    BY DEF BeatsKeepComing
  <2>1. cfg.Interval \in Nat
    BY Limits DEF WaitInv, Configs
  <2> QED BY <2>1, Limits DEF WaitInv, BeatInv
<1> QED BY <1>1, WaitsAreBounded, BeatsAreTimed, PTL
=============================================================================
