--------------------------- MODULE DeliveryProofs ---------------------------
(***************************************************************************)
(* What holds of the delivery of notifications for any number of calls in  *)
(* flight, any number of retries, and any history of the alerts and of the *)
(* process.                                                                *)
(***************************************************************************)
EXTENDS Delivery, TLAPS

\* Alertmanager waits for the call that carries what it is notifying, and never
\* for an older one.
AwaitInv ==
    /\ awaits # NoSlot => /\ flush # NoRev
                          /\ at[awaits] \in {"called", "submitting", "ok"}
                          /\ rev[awaits] = flush
    /\ flush # NoRev => /\ acked <= flush
                        /\ flush <= truth
                        /\ shown <= flush
                        /\ \A s \in Slots : rev[s] <= flush

\* What is shown, carried or acknowledged is a state the alerts have been in.
PastInv == /\ acked <= truth
           /\ shown <= truth
           /\ \A s \in Slots : rev[s] <= truth

\* A positive verdict has a POST behind it, and a POST leaves its mark.
EvidenceInv ==
    /\ acked \in settled
    /\ \A s \in Slots : /\ at[s] \in {"ok", "answered"} => applied[s] # {}
                        /\ applied[s] # {} => rev[s] \in settled

\* The inductive invariant of all that follows.
DeliveryInv == TypeOK /\ AwaitInv /\ PastInv /\ EvidenceInv

-----------------------------------------------------------------------------
(* One lemma for each kind of step.                                        *)

\* Revisions are integers, and none is NoRev.
LEMMA RevsAreNumbers == /\ \A r \in Revs : r \in Int /\ r # NoRev
                        /\ NoRev \in Int
BY DeliveryAssumption, SMT DEF Revs, NoRev

\* The alerts change, or Alertmanager begins or ends a notification.
LEMMA NotifierStep ==
    ASSUME DeliveryInv, Change \/ Flush \/ HangUp \/ Abandon
    PROVE  DeliveryInv'
<1>1. CASE Change
  <2>1. truth' = truth + 1 /\ truth' \in Revs
    BY <1>1, DeliveryAssumption, SMT DEF Change, DeliveryInv, TypeOK, Revs
  <2> QED BY <1>1, <2>1, DeliveryAssumption, SMT
          DEF Change, alertmanager, process, calls, nagios, DeliveryInv, TypeOK,
              AwaitInv, PastInv, EvidenceInv, Revs, NoRev
<1>2. CASE Flush
  <2>1. flush' = truth /\ flush = NoRev /\ UNCHANGED <<truth, awaits, acked, process, calls, nagios>>
    BY <1>2 DEF Flush
  <2>2. awaits = NoSlot
    BY <2>1 DEF DeliveryInv, AwaitInv
  <2> QED BY <2>1, <2>2, RevsAreNumbers, SMT
          DEF process, calls, nagios, DeliveryInv, TypeOK, AwaitInv, PastInv,
              EvidenceInv
<1>3. CASE HangUp
  BY <1>3 DEF HangUp, process, calls, nagios, DeliveryInv, TypeOK, AwaitInv,
              PastInv, EvidenceInv
<1>4. CASE Abandon
  BY <1>4 DEF Abandon, process, calls, nagios, DeliveryInv, TypeOK, AwaitInv,
              PastInv, EvidenceInv
<1> QED BY <1>1, <1>2, <1>3, <1>4

\* A request is sent.
LEMMA SendStep ==
    ASSUME DeliveryInv, NEW s \in Slots, Send(s)
    PROVE  DeliveryInv'
<1>1. /\ flush # NoRev /\ flush \in Revs /\ awaits' = s /\ s # NoSlot
      /\ at' = [at EXCEPT ![s] = "called"]
      /\ rev' = [rev EXCEPT ![s] = flush]
      /\ applied' = [applied EXCEPT ![s] = {}]
      /\ UNCHANGED <<truth, flush, acked, process, nagios>>
  BY DeliveryAssumption DEF Send, DeliveryInv, TypeOK
<1>2. TypeOK'
  BY <1>1 DEF DeliveryInv, TypeOK, Places, process, nagios
<1>3. AwaitInv'
  BY <1>1, RevsAreNumbers, SMT DEF DeliveryInv, TypeOK, AwaitInv, nagios
<1>4. PastInv'
  BY <1>1 DEF DeliveryInv, TypeOK, AwaitInv, PastInv, nagios
<1>5. EvidenceInv'
  BY <1>1 DEF DeliveryInv, TypeOK, EvidenceInv, nagios
<1> QED BY <1>2, <1>3, <1>4, <1>5 DEF DeliveryInv

\* What Alertmanager does when call s gets a 200 whose state is settled.
LEMMA Hear200Step ==
    ASSUME DeliveryInv, NEW s \in Slots, hear200(s)
    PROVE  /\ flush' \in Revs \cup {NoRev}
           /\ awaits' \in Slots \cup {NoSlot}
           /\ acked' \in {acked, rev[s]} /\ acked' \in Revs
           /\ acked' <= truth
           /\ awaits' # s
           /\ awaits' # NoSlot => awaits' = awaits /\ flush' = flush
           /\ flush' # NoRev => flush' = flush /\ acked' = acked
           /\ acked <= acked'
<1>1. s # NoSlot
  BY DeliveryAssumption
<1>2. CASE s = awaits
  <2>1. acked' = rev[s] /\ flush' = NoRev /\ awaits' = NoSlot /\ rev[s] \in Revs
    BY <1>2 DEF hear200, DeliveryInv, TypeOK
  <2>2. acked <= rev[s] /\ rev[s] <= truth
    BY <1>1, <1>2 DEF DeliveryInv, AwaitInv, PastInv
  <2> QED BY <1>1, <2>1, <2>2
<1>3. CASE s # awaits
  <2>1. UNCHANGED <<flush, awaits, acked>>
    BY <1>3 DEF hear200, alertmanager
  <2>2. acked <= acked
    BY RevsAreNumbers, SMT DEF DeliveryInv, TypeOK
  <2> QED BY <1>3, <2>1, <2>2 DEF DeliveryInv, TypeOK, PastInv
<1> QED BY <1>2, <1>3

\* What it does when call s gets an error.
LEMMA HearErrorStep ==
    ASSUME DeliveryInv, NEW s \in Slots, hearError(s)
    PROVE  /\ flush' \in {flush, NoRev}
           /\ awaits' \in {awaits, NoSlot}
           /\ acked' = acked
           /\ awaits' # s
           /\ awaits' # NoSlot => flush' = flush
BY DeliveryAssumption DEF hearError, alertmanager, DeliveryInv, TypeOK

\* The handler of call s takes a step.
LEMMA HandlerStep ==
    ASSUME DeliveryInv, NEW s \in Slots, Handler(s)
    PROVE  DeliveryInv'
<1>0. /\ at[s] \in {"called", "submitting", "ok"}
      /\ UNCHANGED <<truth, proc, restarts, rev, applied, shown>>
  BY DEF Handler, Refuse, Skip, Submit, Succeed, Fail, Answer, alive, process, nagios
<1>1. \A place \in Places : go(s, place) =>
         /\ at' \in [Slots -> Places]
         /\ at'[s] = place
         /\ \A u \in Slots : u # s => at'[u] = at[u]
  BY DEF go, DeliveryInv, TypeOK
<1>2. CASE Refuse(s) \/ Fail(s)
  <2>1. PICK place \in {"free", "stray"} : go(s, place)
    BY <1>2 DEF Refuse, Fail
  <2>2. hearError(s) /\ settled' = settled
    BY <1>2 DEF Refuse, Fail, nagios
  <2> QED BY <1>0, <1>1, <2>1, <2>2, HearErrorStep
          DEF Places, DeliveryInv, TypeOK, AwaitInv, PastInv, EvidenceInv
<1>3. CASE Skip(s)
  <2>1. go(s, "free") /\ hear200(s) /\ settled' = settled \cup {rev[s]}
    BY <1>3 DEF Skip
  <2>2. settled' \in SUBSET Revs
    BY <2>1 DEF DeliveryInv, TypeOK
  <2> QED BY <1>0, <1>1, <2>1, <2>2, Hear200Step
          DEF Places, DeliveryInv, TypeOK, AwaitInv, PastInv, EvidenceInv
<1>4. CASE Submit(s) \/ Succeed(s)
  <2>1. PICK place \in {"submitting", "ok"} :
           go(s, place) /\ (place = "ok" => applied[s] # {})
    BY <1>4 DEF Submit, Succeed
  <2>2. UNCHANGED <<flush, awaits, acked, settled>>
    BY <1>4 DEF Submit, Succeed, alertmanager, nagios
  <2> QED BY <1>0, <1>1, <2>1, <2>2
          DEF Places, DeliveryInv, TypeOK, AwaitInv, PastInv, EvidenceInv
<1>5. CASE Answer(s)
  <2>1. PICK place \in {"answered", "stray"} : go(s, place)
    BY <1>5 DEF Answer
  <2>2. hear200(s) /\ settled' = settled /\ at[s] = "ok"
    BY <1>5 DEF Answer, alive, nagios
  <2>3. applied[s] # {} /\ rev[s] \in settled
    BY <2>2 DEF DeliveryInv, EvidenceInv
  <2> QED BY <1>0, <1>1, <2>1, <2>2, <2>3, Hear200Step
          DEF Places, DeliveryInv, TypeOK, AwaitInv, PastInv, EvidenceInv
<1> QED BY <1>2, <1>3, <1>4, <1>5 DEF Handler

\* The process ends or starts.
LEMMA ProcessStep ==
    ASSUME DeliveryInv, Stop \/ Exit \/ Restart
    PROVE  DeliveryInv'
<1>1. CASE Stop \/ Restart
  BY <1>1 DEF Stop, Restart, alertmanager, calls, nagios, DeliveryInv, TypeOK,
              AwaitInv, PastInv, EvidenceInv
<1>2. CASE Exit
  <2>1. restarts' \in 0 .. MaxRestarts
    BY <1>2, DeliveryAssumption, SMT DEF Exit, DeliveryInv, TypeOK
  <2>2. /\ at' \in [Slots -> Places]
        /\ \A s \in Slots : at'[s] \in {"ok", "answered"} => at'[s] = at[s]
    BY <1>2 DEF Exit, DeliveryInv, TypeOK, Places
  <2>3. /\ proc' = "down" /\ awaits' = NoSlot
        /\ UNCHANGED <<truth, flush, acked, rev, applied, shown, settled>>
    BY <1>2 DEF Exit, nagios
  <2> QED BY <2>1, <2>2, <2>3
          DEF DeliveryInv, TypeOK, AwaitInv, PastInv, EvidenceInv
<1> QED BY <1>1, <1>2

\* NRDP applies a POST, or the last of a call is gone.
LEMMA NagiosStep ==
    ASSUME DeliveryInv, NEW s \in Slots, Apply(s) \/ Fade(s)
    PROVE  DeliveryInv'
<1>1. CASE Apply(s)
  <2>1. PICK k \in Attempts : applied' = [applied EXCEPT ![s] = @ \cup {k}]
    BY <1>1 DEF Apply, posts
  <2>2. /\ shown' = rev[s] /\ settled' = settled \cup {rev[s]}
        /\ UNCHANGED <<truth, flush, awaits, acked, proc, restarts, at, rev>>
    BY <1>1 DEF Apply, alertmanager, process
  <2>3. TypeOK'
    BY <2>1, <2>2 DEF DeliveryInv, TypeOK
  <2>4. EvidenceInv'
    BY <2>1, <2>2 DEF DeliveryInv, TypeOK, EvidenceInv
  <2> QED BY <2>2, <2>3, <2>4 DEF DeliveryInv, AwaitInv, PastInv
<1>2. CASE Fade(s)
  <2>1. /\ at' = [at EXCEPT ![s] = "free"] /\ at[s] \in {"answered", "stray"}
        /\ UNCHANGED <<truth, flush, awaits, acked, proc, restarts, rev, applied,
                       shown, settled>>
    BY <1>2 DEF Fade, go, alertmanager, process, nagios
  <2>2. awaits # s
    BY <2>1, DeliveryAssumption DEF DeliveryInv, AwaitInv
  <2> QED BY <2>1, <2>2
          DEF Places, DeliveryInv, TypeOK, AwaitInv, PastInv, EvidenceInv
<1> QED BY <1>1, <1>2

\* DeliveryInv holds at the start and is kept by every step.
LEMMA DeliveryInvariant == Spec => []DeliveryInv
<1>1. Init => DeliveryInv
  BY DeliveryAssumption, SMT
     DEF Init, DeliveryInv, TypeOK, AwaitInv, PastInv, EvidenceInv, Places, Revs, NoRev
<1>2. DeliveryInv /\ [Next]_vars => DeliveryInv'
  <2> SUFFICES ASSUME DeliveryInv, [Next]_vars PROVE DeliveryInv'
    OBVIOUS
  <2>1. CASE UNCHANGED vars
    BY <2>1 DEF vars, alertmanager, process, calls, nagios, DeliveryInv, TypeOK,
                AwaitInv, PastInv, EvidenceInv
  <2> QED BY <2>1, NotifierStep, SendStep, HandlerStep, ProcessStep, NagiosStep
          DEF Next
<1> QED BY <1>1, <1>2, PTL DEF Spec

-----------------------------------------------------------------------------
(* The theorems.                                                           *)

\* Every variable keeps its type.
THEOREM TypeCorrect == Spec => []TypeOK
<1>1. DeliveryInv => TypeOK
  BY DEF DeliveryInv
<1> QED BY <1>1, DeliveryInvariant, PTL

\* No notification is acknowledged that Nagios was not told of, whatever hangs
\* up, fails, is stopped or killed on the way.
THEOREM NothingAckedIsLost == Spec => []AckedIsSettled
<1>1. DeliveryInv => AckedIsSettled
  BY DEF DeliveryInv, EvidenceInv, AckedIsSettled
<1> QED BY <1>1, DeliveryInvariant, PTL

\* Only a call that was given up, or a repeated attempt, sets Nagios back.
THEOREM OnlyStraysSetBack == Spec => StepBackIsStray
<1> DEFINE Back == shown' < shown =>
                      \E s \in Slots : /\ applied'[s] # applied[s]
                                       /\ abandoned(s) \/ applied[s] # {}
<1>1. DeliveryInv /\ [Next]_vars => [Back]_vars
  <2> SUFFICES ASSUME DeliveryInv, Next, shown' < shown
               PROVE  \E s \in Slots : /\ applied'[s] # applied[s]
                                       /\ abandoned(s) \/ applied[s] # {}
    OBVIOUS
  <2>1. shown' # shown
    BY RevsAreNumbers, SMT DEF DeliveryInv, TypeOK
  <2>2. PICK s \in Slots : Apply(s)
    BY <2>1 DEF Next, Change, Flush, HangUp, Abandon, Stop, Exit, Restart, Send,
                Handler, Refuse, Skip, Submit, Succeed, Fail, Answer, Fade, nagios
  <2>3. shown' = rev[s] /\ applied'[s] # applied[s]
    BY <2>2 DEF Apply, DeliveryInv, TypeOK
  <2>4. s # awaits
    <3>1. ASSUME s = awaits PROVE shown <= rev[s]
      BY <3>1, DeliveryAssumption DEF DeliveryInv, AwaitInv
    <3> QED BY <2>3, <3>1, RevsAreNumbers, SMT DEF DeliveryInv, TypeOK
  <2>5. at[s] = "answered" => applied[s] # {}
    BY DEF DeliveryInv, EvidenceInv
  <2>6. at[s] \in {"submitting", "ok", "answered", "stray"}
    BY <2>2 DEF Apply
  <2>7. abandoned(s) \/ applied[s] # {}
    BY <2>4, <2>5, <2>6 DEF abandoned
  <2> WITNESS s \in Slots
  <2> QED BY <2>3, <2>7
<1> QED BY <1>1, DeliveryInvariant, PTL DEF Spec, StepBackIsStray

\* Each step of the calls, the process and Alertmanager is, seen from outside,
\* one of AtLeastOnce or none.
THEOREM DeliversAtLeastOnce == Spec => ImplementsAtLeastOnce
<1>1. Init => Promise!Init
  BY DEF Init, Promise!Init
<1>2. DeliveryInv /\ [Next]_vars => [Promise!Next]_(Promise!vars)
  <2> SUFFICES ASSUME DeliveryInv, [Next]_vars
               PROVE  Promise!Next \/ UNCHANGED Promise!vars
    OBVIOUS
  <2>0. \A r \in Revs : r <= truth => r \in 0 .. truth
    BY DeliveryAssumption, SMT DEF DeliveryInv, TypeOK, Revs
  <2>1. CASE Change
    BY <2>1 DEF Change, alertmanager, nagios, Promise!Next, Promise!Change
  <2>2. CASE Flush \/ HangUp \/ Abandon \/ Stop \/ Exit \/ Restart \/ UNCHANGED vars
    BY <2>2 DEF Flush, HangUp, Abandon, Stop, Exit, Restart, vars, alertmanager,
                nagios, Promise!vars
  <2>3. ASSUME NEW s \in Slots, Send(s) \/ Fade(s) \/ Refuse(s) \/ Submit(s)
                                \/ Succeed(s) \/ Fail(s)
        PROVE  UNCHANGED Promise!vars
    BY <2>3, HearErrorStep DEF Send, Fade, Refuse, Submit, Succeed, Fail,
                               alertmanager, nagios, Promise!vars
  <2>4. ASSUME NEW s \in Slots, Apply(s) PROVE Promise!Next
    <3>1. rev[s] \in 0 .. truth
      BY <2>0 DEF DeliveryInv, TypeOK, PastInv
    <3> QED BY <2>4, <3>1 DEF Apply, alertmanager, Promise!Next, Promise!Tell
  <2>5. ASSUME NEW s \in Slots, Skip(s) PROVE Promise!Next
    <3>1. rev[s] \in 0 .. truth
      BY <2>0 DEF DeliveryInv, TypeOK, PastInv
    <3>2. /\ settled' = settled \cup {rev[s]} /\ UNCHANGED <<truth, shown>>
          /\ hear200(s)
      BY <2>5 DEF Skip
    <3>3. CASE s = awaits
      <4>1. acked' = rev[s] /\ rev[s] >= acked
        BY <3>2, <3>3, DeliveryAssumption, RevsAreNumbers, SMT
           DEF hear200, DeliveryInv, TypeOK, AwaitInv
      <4> QED BY <3>1, <3>2, <4>1 DEF Promise!Next, Promise!PassOverNow
    <3>4. CASE s # awaits
      BY <3>1, <3>2, <3>4
         DEF hear200, alertmanager, Promise!Next, Promise!PassOver
    <3> QED BY <3>3, <3>4
  <2>6. ASSUME NEW s \in Slots, Answer(s) PROVE Promise!Next \/ UNCHANGED Promise!vars
    <3>1. rev[s] \in 0 .. truth /\ rev[s] \in settled
      BY <2>0, <2>6 DEF Answer, alive, DeliveryInv, TypeOK, PastInv, EvidenceInv
    <3>2. UNCHANGED <<truth, shown, settled>> /\ hear200(s)
      BY <2>6 DEF Answer, nagios
    <3>3. CASE s = awaits
      <4>1. acked' = rev[s] /\ rev[s] >= acked
        BY <3>2, <3>3, DeliveryAssumption, RevsAreNumbers, SMT
           DEF hear200, DeliveryInv, TypeOK, AwaitInv
      <4> QED BY <3>1, <3>2, <4>1 DEF Promise!Next, Promise!Acknowledge
    <3>4. CASE s # awaits
      BY <3>2, <3>4 DEF hear200, alertmanager, Promise!vars
    <3> QED BY <3>3, <3>4
  <2> QED BY <2>1, <2>2, <2>3, <2>4, <2>5, <2>6 DEF Next, Handler
<1> QED BY <1>1, <1>2, DeliveryInvariant, PTL
        DEF Spec, ImplementsAtLeastOnce, Promise!Spec
=============================================================================
