----------------------------- MODULE NrdpClient -----------------------------
(***************************************************************************)
(* One call of Client.Submit (internal/nrdp/client.go) with a batch that   *)
(* is not empty, under the deadline submitBudget gives it                  *)
(* (cmd/nrdp-webhook/serve.go).                                            *)
(*                                                                         *)
(* Submit POSTs the whole batch, waits for the answer until the attempt's  *)
(* own timeout or the deadline of the whole submission, pauses             *)
(* RetryBackoff and tries again, Retries times at most.  A POST whose      *)
(* attempt is over is not withdrawn: NRDP may still apply it, and it may   *)
(* have applied a POST whose answer never arrived.                         *)
(*                                                                         *)
(* Time is discrete.  A goroutine whose timer fires at time t acts within  *)
(* latency of it, which is as large as the machine is slow.                *)
(***************************************************************************)
EXTENDS Integers

CONSTANTS Retries,      \* nrdp.retries: attempts beyond the first
          Timeout,      \* nrdp.timeout: the bound on one attempt
          RetryBackoff, \* client.go: the pause between attempts
          Margin,       \* serve.go: the second submitBudget adds
          Latencies     \* bounds: how late goroutines act on timers

ASSUME ConstantsAssumption == /\ Retries \in Nat
                              /\ Timeout \in Nat \ {0}
                              /\ RetryBackoff \in Nat
                              /\ Margin \in Nat
                              /\ Latencies \subseteq Nat

VARIABLES pc,           \* where Submit is: see Running and Returned
          attempt,      \* the loop variable
          since,        \* when the attempt, or the pause after it, began
          now,          \* the clock, 0 when Submit is called
          wire,         \* attempts whose POST NRDP has not yet decided on
          applied,      \* attempts NRDP has applied to Nagios
          reply,        \* what the current attempt has received
          latency       \* how late goroutines act in this behaviour

vars == <<pc, attempt, since, now, wire, applied, reply, latency>>

Attempts == 0 .. Retries
Running  == {"attempt", "backoff"}
Returned == {"ok", "failed", "gaveUp"}

\* An answer as submitOnce looks at it: the transport's outcome, then the
\* body.  "nostatus" is a <result> without a <status>.
Replies == [http : {"200", "other", "reset"},
            body : {"status0", "nostatus", "nonzero", "garbled"}]
NoReply == [http |-> "none", body |-> "none"]

\* Faulty variant: the <status> of a 200 answer is not looked at.
submitOnceHttpOnly(r) == r.http = "200"

\* submitOnce's verdict on an answer.  A missing <status> decodes to zero.
submitOnce(r) == r.http = "200" /\ r.body \in {"status0", "nostatus"}

\* Faulty variant: the pauses are forgotten.
submitBudgetNoPauses == (Retries + 1) * Timeout + Margin

\* The deadline of the whole submission, counted from the call.
submitBudget == (Retries + 1) * Timeout + Retries * RetryBackoff + Margin

Earlier(s, t) == IF s < t THEN s ELSE t
Later(s, t)   == IF s < t THEN t ELSE s

\* Faulty variant: the deadline of the submission is not passed on.
dueUnbounded == since + IF pc = "attempt" THEN Timeout ELSE RetryBackoff

\* When the wait the client is in ends by itself: at its own timer or at the
\* deadline of the submission, at once if that has passed.
due == Later(since,
             Earlier(submitBudget,
                     since + IF pc = "attempt" THEN Timeout ELSE RetryBackoff))

TypeOK == /\ pc \in Running \cup Returned
          /\ attempt \in Attempts
          /\ since \in Nat
          /\ now \in Nat
          /\ wire \in SUBSET Attempts
          /\ applied \in SUBSET Attempts
          /\ reply \in Replies \cup {NoReply}
          /\ latency \in Latencies

Init == /\ pc = "attempt"
        /\ attempt = 0
        /\ since = 0
        /\ now = 0
        /\ wire = {0}
        /\ applied = {}
        /\ reply = NoReply
        /\ latency \in Latencies

-----------------------------------------------------------------------------
(* The client.                                                             *)

\* Time passes while the client waits, but not beyond the moment at which it
\* must have acted.
Tick == /\ pc \in Running
        /\ now < due + latency
        /\ now' = now + 1
        /\ UNCHANGED <<pc, attempt, since, wire, applied, reply, latency>>

\* submitOnce returned nil, so Submit does.
Succeed == /\ pc = "attempt"
           /\ reply # NoReply
           /\ submitOnce(reply)
           /\ pc' = "ok"
           /\ UNCHANGED <<attempt, since, now, wire, applied, reply, latency>>

\* Faulty variant: one attempt too many.
endAttemptOffByOne == /\ pc' = IF attempt <= Retries THEN "backoff" ELSE "failed"
                      /\ since' = now
                      /\ UNCHANGED <<attempt, now, wire, applied, reply, latency>>

\* submitOnce returned an error: go round the loop, or leave it after the last
\* attempt.
endAttempt == /\ pc' = IF attempt < Retries THEN "backoff" ELSE "failed"
              /\ since' = now
              /\ UNCHANGED <<attempt, now, wire, applied, reply, latency>>

\* The answer is unusable, or there is none and the connection broke.
AttemptError == /\ pc = "attempt"
                /\ reply # NoReply
                /\ ~ submitOnce(reply)
                /\ endAttempt

\* Faulty variant: the request is built without a context.
AttemptTimeoutMissing == pc = "attempt" /\ FALSE

\* The attempt's context ends; an answer that has just arrived is lost with it.
AttemptTimeout == /\ pc = "attempt"
                  /\ now >= due
                  /\ endAttempt

\* The batch is POSTed once more.
postAgain == /\ pc' = "attempt"
             /\ attempt' = attempt + 1
             /\ since' = now
             /\ wire' = wire \cup {attempt + 1}
             /\ reply' = NoReply
             /\ UNCHANGED <<now, applied, latency>>

\* Faulty variant: no pause between attempts.
RetryAtOnce == pc = "backoff" /\ postAgain

\* time.After(RetryBackoff) fires.
Retry == /\ pc = "backoff"
         /\ now >= since + RetryBackoff
         /\ postAgain

\* ctx.Done() fires during the pause.
GiveUp == /\ pc = "backoff"
          /\ now >= submitBudget
          /\ pc' = "gaveUp"
          /\ UNCHANGED <<attempt, since, now, wire, applied, reply, latency>>

Client == Succeed \/ AttemptError \/ AttemptTimeout \/ Retry \/ GiveUp

-----------------------------------------------------------------------------
(* NRDP, the network and any proxy between.                                *)

\* The POST of attempt k leaves the wire; its answer reaches the client only
\* while that attempt still waits.
answer(k, r) == /\ wire' = wire \ {k}
                /\ reply' = IF pc = "attempt" /\ attempt = k THEN r ELSE reply
                /\ UNCHANGED <<pc, attempt, since, now, latency>>

\* NRDP applies the batch.  Whatever it answers may be lost or spoilt.
Apply(k) == \E r \in Replies \cup {NoReply} :
               /\ applied' = applied \cup {k}
               /\ answer(k, r)

\* NRDP, a proxy or the network does not apply it, and says so or says nothing.
Refuse(k) == \E r \in Replies \cup {NoReply} :
                /\ ~ (r.http = "200" /\ r.body \in {"status0", "nostatus"})
                /\ UNCHANGED applied
                /\ answer(k, r)

Nrdp == \E k \in wire : Apply(k) \/ Refuse(k)

-----------------------------------------------------------------------------
Next == Tick \/ Client \/ Nrdp

Spec == Init /\ [][Next]_vars

-----------------------------------------------------------------------------
\* Submit returns nil only for a POST that NRDP has really applied, namely the
\* one of the attempt that succeeded: no refusal, no HTTP error and no spoilt
\* answer counts, whichever earlier attempts were applied.
AckMeansApplied == pc = "ok" => attempt \in applied

\* The delays with which one submission, delayed twice per retry and once in the
\* last attempt, stays below the margin.
Tolerable == {l \in Latencies : (2 * Retries + 1) * l < Margin}
SlackSuffices == latency \in Tolerable

\* The deadline of the whole submission, which submitBudget derives so that
\* raising nrdp.timeout or nrdp.retries cannot exceed it, is never what ends a
\* submission, as long as scheduling delays stay below the margin: every one of
\* the Retries + 1 attempts gets its full Timeout.
BudgetNeverCuts == SlackSuffices => (pc \in Running => now < submitBudget)

\* Even when delays do exceed the margin, the deadline releases the request
\* handler: at worst a pause ends late, the attempt after it starts with a dead
\* context, and the pause after that gives up, one wake-up each.
HandlerReleased ==
    latency < RetryBackoff => now <= submitBudget + 3 * latency

\* Whatever NRDP and the network do, as long as the clock advances and the
\* goroutine runs (NrdpOutage states both), Submit returns.
SubmitReturns == <>(pc \in Returned)

\* The handler's view of the submission.
Contract == INSTANCE SubmitContract WITH
               verdict <- CASE pc \in Running -> "pending"
                            [] pc = "ok"      -> "ok"
                            [] OTHER          -> "error"

\* Submit keeps the contract the handler relies on.
ImplementsContract == Contract!Spec
=============================================================================
