-------------------------- MODULE NrdpClientProofs --------------------------
(***************************************************************************)
(* What holds of Client.Submit for every number of retries and every       *)
(* timeout, pause, margin and scheduling delay, and of what the retries    *)
(* are for: outages that Alertmanager never gets to see.                   *)
(***************************************************************************)
EXTENDS NrdpOutage, TLAPS

\* A pause is followed by another attempt.
PauseInv == pc = "backoff" => attempt < Retries

\* The longest an attempt and the pause after it can take.
Cycle == Timeout + RetryBackoff + 2 * latency

\* The clock against the number of attempts: attempt k starts no later than
\* k cycles after the call, and no wait outlasts its own timer by more than
\* the delay.  This is what has to be inductive for BudgetNeverCuts to hold.
TimeInv ==
    /\ since <= now
    /\ pc = "attempt" => /\ since <= attempt * Cycle
                         /\ now <= since + Timeout + latency
    /\ pc = "backoff" => /\ since <= attempt * Cycle + Timeout + latency
                         /\ now <= since + RetryBackoff + latency

\* The clock against the deadline, when delays are shorter than the pauses:
\* an attempt that begins after the deadline was woken by a pause that ended
\* before it, and a pause that begins after the deadline is the last.
HoldInv ==
    /\ now <= submitBudget + 3 * latency
    /\ pc = "attempt" => /\ since <= submitBudget + latency
                         /\ now <= submitBudget + 2 * latency
    /\ pc = "backoff" => /\ since <= submitBudget + 2 * latency
                         /\ now <= Later(since, submitBudget) + latency

\* An acceptable answer is only ever held by an attempt that was applied.
AckInv == /\ pc = "ok" => attempt \in applied
          /\ pc = "attempt" /\ submitOnce(reply) => attempt \in applied

-----------------------------------------------------------------------------
\* One more cycle, for the arithmetic of Retry.
LEMMA CycleStep ==
    ASSUME NEW a \in Nat, latency \in Nat
    PROVE  (a + 1) * Cycle = a * Cycle + Timeout + RetryBackoff + 2 * latency
  BY ConstantsAssumption, SMT DEF Cycle

\* No attempt starts later than the last one may.
LEMMA CycleMonotone ==
    ASSUME NEW a \in Attempts, latency \in Nat
    PROVE  a * Cycle <= Retries * Cycle
<1>1. Cycle \in Nat
  BY ConstantsAssumption, SMT DEF Cycle
<1>2. a \in Nat /\ a <= Retries /\ Retries \in Nat
  BY ConstantsAssumption, SMT DEF Attempts
<1>3. PICK d \in Nat : Retries = a + d
  <2>1. Retries - a \in Nat /\ Retries = a + (Retries - a)
    BY <1>2, SMT
  <2> QED BY <2>1
<1>4. Retries * Cycle = a * Cycle + d * Cycle
  BY <1>1, <1>2, <1>3, SMT
<1>5. a * Cycle \in Int /\ d * Cycle \in Nat
  BY <1>1, <1>2, <1>3, SMT
<1> QED BY <1>4, <1>5, SMT

\* The latest end of the last attempt lies before the deadline.
LEMMA BudgetCovers ==
    ASSUME SlackSuffices, latency \in Nat
    PROVE  Retries * Cycle + Timeout + latency < submitBudget
<1>1. Retries * Cycle = Retries * Timeout + Retries * RetryBackoff
                           + 2 * (Retries * latency)
  BY ConstantsAssumption, SMT DEF Cycle
<1>2. (Retries + 1) * Timeout = Retries * Timeout + Timeout
  BY ConstantsAssumption, SMT
<1>3. (2 * Retries + 1) * latency = 2 * (Retries * latency) + latency
  BY ConstantsAssumption, SMT
<1>4. /\ Retries * Timeout \in Int /\ Retries * RetryBackoff \in Int
      /\ Retries * latency \in Int
  BY ConstantsAssumption, SMT
<1> QED BY <1>1, <1>2, <1>3, <1>4, ConstantsAssumption, SMT
        DEF SlackSuffices, Tolerable, submitBudget

\* The deadline is a moment in time.
LEMMA BudgetType == submitBudget \in Nat
<1>1. (Retries + 1) * Timeout \in Nat /\ Retries * RetryBackoff \in Nat
  BY ConstantsAssumption, SMT
<1> QED BY <1>1, ConstantsAssumption, SMT DEF submitBudget

\* No wait is due later than its own timer.
LEMMA DueBound ==
    ASSUME TypeOK
    PROVE  /\ due \in Nat
           /\ due <= since + IF pc = "attempt" THEN Timeout ELSE RetryBackoff
           /\ latency \in Nat
  BY BudgetType, ConstantsAssumption, SMT DEF due, Earlier, Later, TypeOK

\* No step changes how late goroutines are.
LEMMA DelayFixed == [Next]_vars => latency' = latency
  BY DEF Next, vars, Tick, Client, Succeed, AttemptError, AttemptTimeout,
         endAttempt, Retry, postAgain, GiveUp, Nrdp, Apply, Refuse, answer

-----------------------------------------------------------------------------
\* Types, with the fact about pauses they need to be inductive.
LEMMA TypeAndPause == Spec => [](TypeOK /\ PauseInv)
<1>1. Init => TypeOK /\ PauseInv
  BY ConstantsAssumption, SMT
  DEF Init, TypeOK, PauseInv, Attempts, Running, Returned
<1>2. TypeOK /\ PauseInv /\ [Next]_vars => TypeOK' /\ PauseInv'
  <2> SUFFICES ASSUME TypeOK, PauseInv, [Next]_vars
               PROVE  TypeOK' /\ PauseInv'
    OBVIOUS
  <2> USE ConstantsAssumption
  <2>1. CASE Tick
    BY <2>1, SMT DEF Tick, TypeOK, PauseInv
  <2>2. CASE Succeed
    BY <2>2, SMT DEF Succeed, TypeOK, PauseInv, Running, Returned
  <2>3. CASE AttemptError \/ AttemptTimeout
    <3>1. endAttempt
      BY <2>3 DEF AttemptError, AttemptTimeout
    <3>2. pc' \in Running \cup Returned /\ PauseInv'
      BY <3>1, SMT DEF endAttempt, PauseInv, Running, Returned
    <3> QED BY <3>1, <3>2 DEF endAttempt, TypeOK
  <2>4. CASE Retry
    BY <2>4, SMT DEF Retry, postAgain, TypeOK, PauseInv, Running, Returned, Attempts
  <2>5. CASE GiveUp
    BY <2>5, SMT DEF GiveUp, TypeOK, PauseInv, Running, Returned
  <2>6. CASE Nrdp
    <3>1. PICK k \in wire : Apply(k) \/ Refuse(k)
      BY <2>6 DEF Nrdp
    <3>2. PICK r \in Replies \cup {NoReply} : answer(k, r)
      BY <3>1 DEF Apply, Refuse
    <3>3. applied' \in SUBSET Attempts
      BY <3>1 DEF Apply, Refuse, TypeOK
    <3> QED BY <3>2, <3>3 DEF answer, TypeOK, PauseInv
  <2>7. CASE UNCHANGED vars
    BY <2>7 DEF vars, TypeOK, PauseInv
  <2> QED BY <2>1, <2>2, <2>3, <2>4, <2>5, <2>6, <2>7 DEF Next, Client
<1> QED BY <1>1, <1>2, PTL DEF Spec

\* Type correctness: every variable keeps its type, and in particular no
\* attempt beyond the configured number of retries is ever made.
THEOREM TypeCorrect == Spec => []TypeOK
  BY TypeAndPause, PTL

-----------------------------------------------------------------------------
\* The time invariant is inductive, given types.
LEMMA TimeInductive ==
    ASSUME TypeOK, TypeOK', PauseInv, TimeInv, [Next]_vars
    PROVE  TimeInv'
<1> USE ConstantsAssumption
<1>0. /\ Cycle \in Nat /\ attempt \in Nat /\ latency \in Nat
      /\ attempt * Cycle \in Nat
  <2>1. Cycle \in Nat /\ attempt \in Nat /\ latency \in Nat
    BY SMT DEF Cycle, TypeOK, Attempts
  <2> QED BY <2>1, SMT
<1>d. latency' = latency /\ Cycle' = Cycle
  BY DelayFixed DEF Cycle
<1>1. CASE Tick
  BY <1>1, <1>d, DueBound, SMT DEF Tick, TimeInv, TypeOK, Running
<1>2. CASE Succeed
  BY <1>2, <1>d, SMT DEF Succeed, TimeInv, TypeOK
<1>3. CASE AttemptError \/ AttemptTimeout
  <2>1. endAttempt /\ pc = "attempt"
    BY <1>3 DEF AttemptError, AttemptTimeout
  <2> QED BY <1>0, <1>d, <2>1, SMT DEF endAttempt, TimeInv, TypeOK
<1>4. CASE Retry
  <2>1. (attempt + 1) * Cycle
           = attempt * Cycle + Timeout + RetryBackoff + 2 * latency
    BY <1>0, CycleStep
  <2>2. /\ pc = "backoff" /\ pc' = "attempt" /\ attempt' = attempt + 1
        /\ since' = now /\ now' = now
    BY <1>4 DEF Retry, postAgain
  <2>3. attempt' * Cycle'
           = attempt * Cycle + Timeout + RetryBackoff + 2 * latency
    BY <1>d, <2>1, <2>2
  <2> HIDE DEF Cycle
  <2> QED BY <1>0, <1>d, <2>2, <2>3, SMT DEF TimeInv, TypeOK
<1>5. CASE GiveUp
  BY <1>5, <1>d, SMT DEF GiveUp, TimeInv, TypeOK
<1>6. CASE Nrdp
  BY <1>6, <1>d DEF Nrdp, Apply, Refuse, answer, TimeInv
<1>7. CASE UNCHANGED vars
  BY <1>7, <1>d DEF vars, TimeInv
<1> QED BY <1>1, <1>2, <1>3, <1>4, <1>5, <1>6, <1>7 DEF Next, Client

\* As long as the scheduling delays of one submission stay below submitBudget's
\* margin, the deadline of the whole submission never cuts it: whatever
\* nrdp.timeout and nrdp.retries are, all Retries + 1 attempts fit.
THEOREM BudgetSafe == Spec => []BudgetNeverCuts
<1>1. Init => TimeInv
  BY ConstantsAssumption, SMT DEF Init, TimeInv, Cycle
<1>2. TypeOK /\ TypeOK' /\ PauseInv /\ TimeInv /\ [Next]_vars => TimeInv'
  BY TimeInductive
<1>3. TypeOK /\ PauseInv /\ TimeInv => BudgetNeverCuts
  <2> SUFFICES ASSUME TypeOK, PauseInv, TimeInv, SlackSuffices, pc \in Running
               PROVE  now < submitBudget
    BY DEF BudgetNeverCuts
  <2> USE ConstantsAssumption
  <2>1. /\ Cycle \in Nat /\ attempt \in Nat /\ Retries \in Nat
        /\ since \in Nat /\ now \in Nat /\ latency \in Nat
    BY SMT DEF Cycle, TypeOK, Attempts
  <2>2. attempt * Cycle \in Nat /\ Retries * Cycle \in Nat
    BY <2>1, SMT
  <2>3. Retries * Cycle + Timeout + latency < submitBudget
    BY <2>1, BudgetCovers
  <2>4. CASE pc = "attempt"
    <3>1. attempt * Cycle <= Retries * Cycle
      BY <2>1, CycleMonotone DEF TypeOK
    <3>2. now <= attempt * Cycle + Timeout + latency
      BY <2>1, <2>2, <2>4, SMT DEF TimeInv
    <3> QED BY <2>1, <2>2, <2>3, <3>1, <3>2, BudgetType, SMT
  <2>5. CASE pc = "backoff"
    <3>1. attempt + 1 \in Attempts
      BY <2>1, <2>5, SMT DEF PauseInv, Attempts
    <3>2. (attempt + 1) * Cycle <= Retries * Cycle
      BY <2>1, <3>1, CycleMonotone
    <3>3. (attempt + 1) * Cycle
             = attempt * Cycle + Timeout + RetryBackoff + 2 * latency
      BY <2>1, CycleStep
    <3>4. now <= attempt * Cycle + Timeout + RetryBackoff + 2 * latency
      BY <2>1, <2>2, <2>5, SMT DEF TimeInv
    <3>5. (attempt + 1) * Cycle \in Nat
      BY <2>1, <2>2, <3>3, SMT
    <3> QED BY <2>1, <2>2, <2>3, <3>2, <3>3, <3>4, <3>5, BudgetType, SMT
  <2> QED BY <2>4, <2>5 DEF Running
<1>4. Spec => [](TypeOK /\ PauseInv)
  BY TypeAndPause
<1> QED BY <1>1, <1>2, <1>3, <1>4, PTL DEF Spec

-----------------------------------------------------------------------------
\* The request handler is released in time, whatever the delays, as long as
\* they are shorter than a pause.
THEOREM HandlerFreed == Spec => []HandlerReleased
<1> DEFINE Held == latency < RetryBackoff => HoldInv
<1> USE ConstantsAssumption
<1>1. Init => Held
  BY BudgetType, SMT DEF Init, HoldInv
<1>2. TypeOK /\ Held /\ [Next]_vars => Held'
  <2> SUFFICES ASSUME TypeOK, HoldInv, [Next]_vars, latency' < RetryBackoff
               PROVE  HoldInv'
    BY DelayFixed
  <2>0. /\ latency \in Nat /\ since \in Nat /\ now \in Nat
        /\ submitBudget \in Nat /\ submitBudget' = submitBudget
        /\ latency' = latency /\ latency < RetryBackoff
    BY DelayFixed, BudgetType DEF TypeOK, submitBudget
  <2> HIDE DEF submitBudget
  <2>1. CASE Tick
    <3>1. due <= Later(since, submitBudget)
      BY <2>0, SMT DEF due, Later, Earlier
    <3>2. due \in Nat
      BY DueBound
    <3> QED BY <2>0, <2>1, <3>1, <3>2, SMT DEF Tick, HoldInv, Running, Later
  <2>2. CASE Succeed \/ GiveUp
    BY <2>0, <2>2 DEF Succeed, GiveUp, HoldInv
  <2>3. CASE AttemptError \/ AttemptTimeout
    <3>1. endAttempt /\ pc = "attempt"
      BY <2>3 DEF AttemptError, AttemptTimeout
    <3> QED BY <2>0, <3>1, SMT DEF endAttempt, HoldInv, Later
  <2>4. CASE Retry
    BY <2>0, <2>4, SMT DEF Retry, postAgain, HoldInv, Later
  <2>5. CASE Nrdp
    BY <2>0, <2>5 DEF Nrdp, Apply, Refuse, answer, HoldInv, Later
  <2>6. CASE UNCHANGED vars
    BY <2>0, <2>6 DEF vars, HoldInv, Later
  <2> QED BY <2>1, <2>2, <2>3, <2>4, <2>5, <2>6 DEF Next, Client
<1>3. Held => HandlerReleased
  BY DEF HoldInv, HandlerReleased
<1> QED BY <1>1, <1>2, <1>3, TypeCorrect, PTL DEF Spec

-----------------------------------------------------------------------------
\* Answers and applications, inductively.
LEMMA AckInvariant == Spec => []AckInv
<1>1. Init => AckInv
  BY DEF Init, AckInv, submitOnce, NoReply
<1>2. AckInv /\ [Next]_vars => AckInv'
  <2> SUFFICES ASSUME AckInv, [Next]_vars PROVE AckInv'
    OBVIOUS
  <2>1. CASE Tick
    BY <2>1 DEF Tick, AckInv
  <2>2. CASE Succeed
    BY <2>2 DEF Succeed, AckInv
  <2>3. CASE AttemptError \/ AttemptTimeout
    BY <2>3 DEF AttemptError, AttemptTimeout, endAttempt, AckInv
  <2>4. CASE Retry
    BY <2>4 DEF Retry, postAgain, AckInv, submitOnce, NoReply
  <2>5. CASE GiveUp
    BY <2>5 DEF GiveUp, AckInv
  <2>6. CASE Nrdp
    <3>1. PICK k \in wire : Apply(k) \/ Refuse(k)
      BY <2>6 DEF Nrdp
    <3>2. CASE Apply(k)
      BY <3>2 DEF Apply, answer, AckInv
    <3>3. CASE Refuse(k)
      <4>1. PICK r \in Replies \cup {NoReply} :
               ~ submitOnce(r) /\ answer(k, r)
        BY <3>3 DEF Refuse, submitOnce
      <4>2. applied' = applied
        BY <3>3 DEF Refuse
      <4> QED BY <4>1, <4>2 DEF answer, AckInv
    <3> QED BY <3>1, <3>2, <3>3
  <2>7. CASE UNCHANGED vars
    BY <2>7 DEF vars, AckInv
  <2> QED BY <2>1, <2>2, <2>3, <2>4, <2>5, <2>6, <2>7 DEF Next, Client
<1> QED BY <1>1, <1>2, PTL DEF Spec

\* An acknowledged batch has really been applied to Nagios, by the very POST
\* that was acknowledged.
THEOREM AckSafe == Spec => []AckMeansApplied
<1>1. AckInv => AckMeansApplied
  BY DEF AckInv, AckMeansApplied
<1> QED BY <1>1, AckInvariant, PTL

-----------------------------------------------------------------------------
\* Submit implements the contract the webhook handler relies on: a positive
\* verdict only after an application, a final verdict, and at most one
\* application per configured attempt, before or after it.
THEOREM SubmitImplementsContract == Spec => ImplementsContract
<1>1. Init => Contract!Init
  BY DEF Init, Contract!Init, Running
<1>2. TypeOK /\ PauseInv /\ AckInv /\ [Next]_vars => [Contract!Next]_(Contract!vars)
  <2> SUFFICES ASSUME TypeOK, PauseInv, AckInv, [Next]_vars
               PROVE  [Contract!Next]_(Contract!vars)
    OBVIOUS
  <2>1. CASE Tick \/ Retry
    BY <2>1 DEF Tick, Retry, postAgain, Contract!vars, Running
  <2>2. CASE Succeed
    BY <2>2 DEF Succeed, AckInv, Contract!Next, Contract!Succeed, Running
  <2>3. CASE AttemptError \/ AttemptTimeout
    BY <2>3 DEF AttemptError, AttemptTimeout, endAttempt, Running,
                Contract!vars, Contract!Next, Contract!Fail
  <2>4. CASE GiveUp
    BY <2>4 DEF GiveUp, Running, Contract!Next, Contract!Fail
  <2>5. CASE Nrdp
    <3>1. PICK k \in wire : Apply(k) \/ Refuse(k)
      BY <2>5 DEF Nrdp
    <3>2. CASE Apply(k)
      BY <3>1, <3>2 DEF Apply, answer, TypeOK, Contract!vars, Contract!Next,
                        Contract!Apply
    <3>3. CASE Refuse(k)
      BY <3>3 DEF Refuse, answer, Contract!vars
    <3> QED BY <3>1, <3>2, <3>3
  <2>6. CASE UNCHANGED vars
    BY <2>6 DEF vars, Contract!vars
  <2> QED BY <2>1, <2>2, <2>3, <2>4, <2>5, <2>6 DEF Next, Client
<1>3. Spec => [](TypeOK /\ PauseInv /\ AckInv)
  BY TypeAndPause, AckInvariant, PTL
<1> QED BY <1>1, <1>2, <1>3, PTL DEF Spec, ImplementsContract, Contract!Spec
-----------------------------------------------------------------------------
(* Outages.                                                                *)

\* The server is promised to be back before the last pause is over, and delays
\* stay within the margin.
Bridgeable == SlackSuffices /\ promised /\ back <= Retries * RetryBackoff

\* Such an outage never makes Submit return an error, to become a 500 for
\* Alertmanager: neither do the attempts run out, nor does the deadline end a
\* pause.
OutageHidden == Bridgeable => pc \notin {"failed", "gaveUp"}

\* No attempt starts before as many pauses are over as there are attempts before
\* it: from below what TimeInv says from above.
PaceInv == /\ since <= now
           /\ pc \in Running => attempt * RetryBackoff <= since

\* The last attempt finds the server up, has time for an answer, and is owed one
\* or has it.
Acknowledged == [http |-> "200", body |-> "status0"]
LastInv == Bridgeable =>
    /\ pc \notin {"failed", "gaveUp"}
    /\ pc = "attempt" /\ attempt = Retries =>
          /\ now < due
          /\ \/ reply = NoReply /\ attempt \in wire
             \/ reply = Acknowledged

-----------------------------------------------------------------------------
\* A server that is down for a while and then well is one of those NrdpClient
\* allows: its answers are answers.
LEMMA OutageIsSubmission == OutageSpec => Spec
<1>1. OutageInit => Init
  BY DEF OutageInit
<1>2. [OutageNext]_outageVars => [Next]_vars
  <2> SUFFICES ASSUME OutageNext PROVE Next
    BY DEF outageVars
  <2>1. CASE OutageTick
    BY <2>1 DEF OutageTick, Next
  <2>2. CASE OutageNrdp
    <3>1. PICK k \in wire :
             \/ Apply(k) \/ Refuse(k)
             \/ applied' = applied \cup {k} /\ answer(k, Acknowledged)
      BY <2>2 DEF OutageNrdp, Acknowledged
    <3>2. Acknowledged \in Replies
      BY DEF Acknowledged, Replies
    <3>3. Apply(k) \/ Refuse(k)
      BY <3>1, <3>2 DEF Apply
    <3> QED BY <3>3 DEF Next, Nrdp
  <2> QED BY <2>1, <2>2 DEF OutageNext, Next
<1> QED BY <1>1, <1>2, PTL DEF OutageSpec, Spec

\* The time of the server's return is fixed.
LEMMA BackFixed ==
    ASSUME [OutageNext]_outageVars
    PROVE  (Bridgeable <=> Bridgeable') /\ back' = back /\ latency' = latency
<1>1. [Next]_vars
  <2>1. Acknowledged \in Replies
    BY DEF Acknowledged, Replies
  <2> QED BY <2>1 DEF OutageNext, outageVars, OutageTick, OutageNrdp, Next, Nrdp,
                      Apply, Acknowledged
<1>2. back' = back /\ latency' = latency
  BY <1>1, DelayFixed DEF OutageNext, outageVars
<1> QED BY <1>2 DEF Bridgeable, promised, SlackSuffices

\* One more pause.
LEMMA PaceGrows ==
    ASSUME NEW a \in Nat
    PROVE  (a + 1) * RetryBackoff = a * RetryBackoff + RetryBackoff
  BY ConstantsAssumption, SMT

LEMMA PaceAlways == Spec => []PaceInv
<1> USE ConstantsAssumption
<1>1. Init => PaceInv
  BY SMT DEF Init, PaceInv
<1>2. TypeOK /\ PaceInv /\ [Next]_vars => PaceInv'
  <2> SUFFICES ASSUME TypeOK, PaceInv, [Next]_vars PROVE PaceInv'
    OBVIOUS
  <2>0. /\ attempt \in Nat /\ since \in Nat /\ now \in Nat
        /\ attempt * RetryBackoff \in Nat
    <3>1. attempt \in Nat /\ since \in Nat /\ now \in Nat
      BY SMT DEF TypeOK, Attempts
    <3> QED BY <3>1, SMT
  <2>1. CASE Tick
    BY <2>0, <2>1, SMT DEF Tick, PaceInv
  <2>2. CASE Succeed \/ GiveUp
    BY <2>2 DEF Succeed, GiveUp, PaceInv, Running
  <2>3. CASE AttemptError \/ AttemptTimeout
    <3>1. /\ pc = "attempt" /\ since' = now
          /\ UNCHANGED <<attempt, now>>
      BY <2>3 DEF AttemptError, AttemptTimeout, endAttempt
    <3> QED BY <2>0, <3>1, SMT DEF PaceInv, Running
  <2>4. CASE Retry
    <3>1. /\ pc = "backoff" /\ now >= since + RetryBackoff
          /\ attempt' = attempt + 1 /\ since' = now /\ now' = now
      BY <2>4 DEF Retry, postAgain
    <3>2. attempt' * RetryBackoff = attempt * RetryBackoff + RetryBackoff
      BY <2>0, <3>1, PaceGrows
    <3>3. attempt * RetryBackoff <= since
      BY <3>1 DEF PaceInv, Running
    <3>4. attempt' * RetryBackoff <= since' /\ since' <= now'
      BY <2>0, <3>1, <3>2, <3>3, SMT
    <3> QED BY <3>4 DEF PaceInv
  <2>5. CASE Nrdp
    BY <2>5 DEF Nrdp, Apply, Refuse, answer, PaceInv
  <2>6. CASE UNCHANGED vars
    BY <2>6 DEF vars, PaceInv
  <2> QED BY <2>1, <2>2, <2>3, <2>4, <2>5, <2>6 DEF Next, Client
<1> QED BY <1>1, <1>2, TypeCorrect, PTL DEF Spec

\* An attempt that starts before the deadline is not due at once.
LEMMA TimeLeft ==
    ASSUME NEW start \in Nat, start < submitBudget
    PROVE  start < Later(start, Earlier(submitBudget, start + Timeout))
<1>1. submitBudget \in Nat /\ Timeout \in Nat /\ Timeout > 0
  BY BudgetType, ConstantsAssumption, SMT
<1> HIDE DEF submitBudget
<1> QED BY <1>1, SMT DEF Later, Earlier

LEMMA LastStep ==
    ASSUME TypeOK, TypeOK', PauseInv, PaceInv, PaceInv', BudgetNeverCuts,
           BudgetNeverCuts', back \in Nat \cup {NoPromise}, LastInv,
           [OutageNext]_outageVars
    PROVE  LastInv'
<1> SUFFICES ASSUME Bridgeable, Bridgeable' PROVE
       /\ pc' \notin {"failed", "gaveUp"}
       /\ pc' = "attempt" /\ attempt' = Retries =>
             /\ now' < due'
             /\ \/ reply' = NoReply /\ attempt' \in wire'
                \/ reply' = Acknowledged
  BY BackFixed DEF LastInv
<1>0. /\ pc \notin {"failed", "gaveUp"}
      /\ pc = "attempt" /\ attempt = Retries =>
             /\ now < due
             /\ \/ reply = NoReply /\ attempt \in wire
                \/ reply = Acknowledged
  BY DEF LastInv
<1>a. /\ back' = back /\ latency' = latency /\ promised
      /\ pc \in Running => now < submitBudget
      /\ pc' \in Running => now' < submitBudget
  BY BackFixed DEF Bridgeable, BudgetNeverCuts, SlackSuffices, submitBudget
<1>b. /\ now \in Nat /\ due \in Nat /\ attempt \in Nat /\ Retries \in Nat
      /\ attempt <= Retries /\ submitBudget \in Nat
  BY DueBound, BudgetType, ConstantsAssumption, SMT DEF TypeOK, Attempts
\* What is due when depends on the client only.
<1>c. UNCHANGED <<pc, since>> => due' = due
  BY DEF due, submitBudget
\* The last attempt finds the server up.
<1>d. pc = "attempt" /\ attempt = Retries => up
  <2> SUFFICES ASSUME pc = "attempt", attempt = Retries PROVE up
    OBVIOUS
  <2>1. Retries * RetryBackoff <= since /\ since <= now
    BY DEF PaceInv, Running
  <2>2. back <= Retries * RetryBackoff /\ back \in Nat
    BY <1>a DEF Bridgeable, promised
  <2>3. Retries * RetryBackoff \in Nat /\ since \in Nat
    BY ConstantsAssumption, SMT DEF TypeOK
  <2>4. now >= back
    BY <1>b, <2>1, <2>2, <2>3, SMT
  <2> QED BY <1>a, <2>4 DEF up
<1>1. CASE OutageTick
  <2>1. /\ UNCHANGED <<pc, attempt, since, wire, reply>> /\ now' = now + 1
        /\ pc = "attempt" => reply = NoReply
        /\ up /\ pc = "attempt" /\ attempt \in wire => now + 1 < due
    BY <1>1, <1>a DEF OutageTick, Tick
  <2>2. due' = due
    BY <1>c, <2>1
  <2>3. NoReply # Acknowledged
    BY DEF NoReply, Acknowledged
  <2> QED BY <1>0, <1>d, <2>1, <2>2, <2>3
<1>2. CASE Succeed
  BY <1>2 DEF Succeed
<1>3. CASE AttemptError \/ AttemptTimeout
  <2>1. pc = "attempt" /\ pc' = IF attempt < Retries THEN "backoff" ELSE "failed"
    BY <1>3 DEF AttemptError, AttemptTimeout, endAttempt
  <2>2. attempt # Retries
    <3> SUFFICES ASSUME attempt = Retries PROVE FALSE
      OBVIOUS
    <3>1. CASE AttemptError
      <4>1. reply = Acknowledged
        BY <1>0, <2>1, <3>1 DEF AttemptError
      <4>2. submitOnce(reply)
        BY <4>1 DEF submitOnce, Acknowledged
      <4> QED BY <3>1, <4>2 DEF AttemptError
    <3>2. CASE AttemptTimeout
      <4>1. now < due /\ now >= due
        BY <1>0, <2>1, <3>2 DEF AttemptTimeout
      <4> QED BY <1>b, <4>1, SMT
    <3> QED BY <1>3, <3>1, <3>2
  <2>3. pc' = "backoff"
    BY <1>b, <2>1, <2>2, SMT
  <2> QED BY <2>3
<1>4. CASE Retry
  <2>1. /\ pc' = "attempt" /\ since' = now' /\ reply' = NoReply
        /\ attempt' \in wire'
    BY <1>4 DEF Retry, postAgain
  <2>2. since' \in Nat /\ since' < submitBudget
    BY <1>a, <2>1 DEF Running, TypeOK
  <2>3. due' = Later(since', Earlier(submitBudget, since' + Timeout))
    BY <2>1 DEF due, submitBudget, Later, Earlier
  <2>4. now' < due'
    BY <2>1, <2>2, <2>3, TimeLeft
  <2> QED BY <2>1, <2>4
<1>5. CASE GiveUp
  <2>1. now < submitBudget /\ now >= submitBudget
    BY <1>5, <1>a DEF GiveUp, Running
  <2> QED BY <1>b, <2>1, SMT
<1>6. CASE OutageNrdp
  <2>1. PICK k \in wire :
           /\ \E r \in Replies \cup {NoReply} : answer(k, r)
           /\ up => answer(k, Acknowledged)
    BY <1>6, <1>a DEF OutageNrdp, Acknowledged, Refuse, Replies
  <2>2. /\ UNCHANGED <<pc, attempt, since, now>>
        /\ wire' = wire \ {k}
        /\ up => reply' = IF pc = "attempt" /\ attempt = k THEN Acknowledged ELSE reply
    BY <2>1 DEF answer
  <2>3. due' = due
    BY <1>c, <2>2
  <2> QED BY <1>0, <1>d, <2>2, <2>3
<1>7. CASE UNCHANGED outageVars
  <2>1. UNCHANGED <<pc, attempt, since, now, wire, reply>>
    BY <1>7 DEF outageVars, vars
  <2>2. due' = due
    BY <1>c, <2>1
  <2> QED BY <1>0, <2>1, <2>2
<1> QED BY <1>1, <1>2, <1>3, <1>4, <1>5, <1>6, <1>7 DEF OutageNext, Client

\* Whatever nrdp.retries and nrdp.timeout are, an outage that is over when the
\* last pause is never becomes an error for Alertmanager.
THEOREM OutagesHidden == OutageSpec => []OutageHidden
<1> DEFINE Back == back \in Nat \cup {NoPromise}
<1>1. OutageInit => Back /\ (TypeOK /\ BudgetNeverCuts => LastInv)
  <2> SUFFICES ASSUME OutageInit
               PROVE  Back /\ (TypeOK /\ BudgetNeverCuts => LastInv)
    OBVIOUS
  <2>1. Back
    BY OutagesAssumption DEF OutageInit
  <2>2. ASSUME TypeOK, BudgetNeverCuts, Bridgeable
        PROVE  /\ pc \notin {"failed", "gaveUp"}
               /\ now < due
               /\ reply = NoReply /\ attempt \in wire
    <3>1. /\ pc = "attempt" /\ since = now /\ reply = NoReply
          /\ attempt \in wire
      BY DEF OutageInit, Init
    <3>2. since \in Nat /\ since < submitBudget
      BY <2>2, <3>1 DEF BudgetNeverCuts, Bridgeable, Running, TypeOK
    <3>3. due = Later(since, Earlier(submitBudget, since + Timeout))
      BY <3>1 DEF due
    <3> QED BY <3>1, <3>2, <3>3, TimeLeft
  <2> QED BY <2>1, <2>2 DEF LastInv
<1>2. Back /\ [OutageNext]_outageVars => Back'
  BY BackFixed
<1>3. /\ TypeOK /\ TypeOK' /\ PauseInv /\ PaceInv /\ PaceInv'
      /\ BudgetNeverCuts /\ BudgetNeverCuts' /\ Back /\ LastInv
      /\ [OutageNext]_outageVars
      => LastInv'
  BY LastStep
<1>4. LastInv => OutageHidden
  BY DEF LastInv, OutageHidden
<1>5. Spec => [](TypeOK /\ PauseInv /\ PaceInv /\ BudgetNeverCuts)
  BY TypeAndPause, PaceAlways, BudgetSafe, PTL
<1> QED BY <1>1, <1>2, <1>3, <1>4, <1>5, OutageIsSubmission, PTL DEF OutageSpec

\* All that is proved of a submission holds of one against such a server too, so
\* that it can only end in an acknowledgement of a batch that was applied.
THEOREM OutageEndsWell ==
    OutageSpec => [](Bridgeable /\ pc \in Returned => pc = "ok" /\ applied # {})
<1>1. OutageHidden /\ AckMeansApplied
         => (Bridgeable /\ pc \in Returned => pc = "ok" /\ applied # {})
  BY DEF OutageHidden, AckMeansApplied, Returned
<1> QED BY <1>1, OutagesHidden, OutageIsSubmission, AckSafe, PTL
=============================================================================
